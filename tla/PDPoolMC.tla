------------------------------ MODULE PDPoolMC ------------------------------
(***************************************************************************)
(* Small instances of PDPool for TLC.  The upstream delegation A is a /62,  *)
(* of which the LAN has the first /64; B is another, U a ULA /63.  Every    *)
(* key hashes to the same slot, so that the routers collide.                *)
(***************************************************************************)
EXTENDS PDPool, TLC

CONSTANT Collide     \* the slot every key hashes to

MCHash == [k \in Routers \X BOOLEAN |-> Collide]

Up(lo, bits, ula, valid) == [lo |-> lo, bits |-> bits, ula |-> ula, valid |-> valid, dep |-> FALSE]
P(lo, bits, ula) == [lo |-> lo, bits |-> bits, ula |-> ula]
Shot(ups, lan, kept) == [ups |-> ups, lan |-> lan, kept |-> kept]

OnA  == Shot(<<Up(0, 62, FALSE, 2)>>, {P(0, 64, FALSE)}, {})
OnA2 == Shot(<<Up(0, 62, FALSE, 3)>>, {P(0, 64, FALSE)}, {})
OnB  == Shot(<<Up(8, 62, FALSE, 3)>>, {P(8, 64, FALSE)}, {P(11, 64, FALSE)})
Both == Shot(<<Up(0, 62, FALSE, 2), Up(0, 63, TRUE, 3)>>, {P(0, 64, FALSE), P(0, 64, TRUE)}, {})

OneLine  == {OnA}
WithULA  == {Both}
Renumber == {OnA2, OnB}

OwnPeer   == [r \in Routers |-> {r}]
SamePeer  == [r \in Routers |-> {"fe80"}]

\* Neither the interfaces nor the routers are told apart: every key hashes to the same slot.
Alike == Permutations(Ifaces) \cup Permutations(Routers)

\* A router asks for a length shorter than there is room for, or for one prefix.
Wider == {[lo |-> -1, bits |-> 62, ula |-> FALSE]}
Asked == {P(2, 64, FALSE)}
=============================================================================
