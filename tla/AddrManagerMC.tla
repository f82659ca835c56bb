--------------------------- MODULE AddrManagerMC ---------------------------
(* One /64, a stable and a fixed -wan-iid. *)
EXTENDS AddrManager, TLC

CONSTANTS net, s0, s1, s2, f0, t1, t2, t3, t4, na, e0

\* Both policies are the stable one once the counter is above 0.
StableAndFixed ==
    net :> <<0 :> s0 @@ 1 :> s1 @@ 2 :> s2, 0 :> f0 @@ 1 :> s1 @@ 2 :> s2>>

Temps == net :> {t1, t2, t3, t4}

\* The leased address and the endpoint are outside the manager's prefix.
Apart == [a \in {s0, s1, s2, f0, t1, t2, t3, t4} |-> net]
            @@ [a \in {na, e0} |-> "elsewhere"]

\* The leased address is in the prefix the manager configures.
Within == na :> net @@ Apart

Snap(static, active, plen, endpoints, aftr) ==
    [static |-> static, temp |-> {net}, active |-> active, plen |-> plen,
     endpoints |-> endpoints, wan |-> None, aftr |-> aftr]

\* The prefix is preferred, deprecated or gone, and shared with a LAN or not;
\* the tunnel ends at the fixed address, at one of its own or, with an AFTR, at the leased one.
Mixed == {Snap({net}, {net}, 64, {e0}, FALSE), Snap({net}, {}, 128, {f0}, FALSE),
          Snap({}, {}, 64, {f0}, TRUE)}
=============================================================================
