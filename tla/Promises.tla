------------------------------ MODULE Promises ------------------------------
(***************************************************************************)
(* What a server that hands out leases promises: the abstract              *)
(* specification that LeaseServer (addresses) and PDPool (delegated        *)
(* prefixes) implement. A promise is made to one client at a time, only    *)
(* where nobody else's promise clashes with it, and nobody else's changes; *)
(* it lasts until its end unless the server takes it back. Nothing here    *)
(* knows of files, restarts, snapshots or links.                           *)
(***************************************************************************)
EXTENDS Integers

CONSTANTS
    Holder(_),   \* the client a promise was made to
    Clash(_, _)  \* whether two promises are about the same thing

VARIABLES
    now,  \* the clock
    held  \* the promises that last, each with the instant it expires

vars == <<now, held>>

Init == now = 0 /\ held = {}

\* The server answers client h with the promises P, in place of those h had.
Answer(h, P) ==
    /\ \A p \in P :
          /\ Holder(p) = h /\ p.expires >= now
          /\ \A q \in held : Holder(q) # h => ~Clash(p, q)
    /\ held' = {q \in held : Holder(q) # h} \cup P
    /\ now' = now

\* Promises are taken back: released, declined or off the prefix.
TakeBack == held' \subseteq held /\ now' = now

\* Time passes; a promise lasts up to its end and may be dropped from then on.
Tick ==
    /\ now' = now + 1
    /\ held' \subseteq held
    /\ \A q \in held : q.expires > now' => q \in held'

Next ==
    \/ \E h \in {Holder(p) : p \in held'} : \E P \in SUBSET held' : Answer(h, P)
    \/ TakeBack
    \/ Tick

Spec == Init /\ [][Next]_vars
=============================================================================
