----------------------------- MODULE NDProxyMC -----------------------------
(***************************************************************************)
(* The Neighbor Discovery proxy with a table smaller than the hosts that   *)
(* speak, and one asker per target.                                        *)
(***************************************************************************)
EXTENDS NDProxy, TLC

CONSTANTS h1, h2, h3

Alike == Permutations(Hosts)

\* The replies of the last step decide nothing that follows.
WithoutReplies == <<mode, serving, scope, n, lanLost>>
=============================================================================
