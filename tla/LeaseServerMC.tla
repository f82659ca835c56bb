---------------------------- MODULE LeaseServerMC ---------------------------
(***************************************************************************)
(* A small instance of LeaseServer for TLC: two clients whose keys collide  *)
(* in a pool of three addresses, one of which accepts Reconfigure, and a    *)
(* host whose static address lies in the pool; the prefix A gives way to    *)
(* the ULA, and comes back.                                                 *)
(***************************************************************************)
EXTENDS LeaseServer

CONSTANTS c1, c2, host, netA, netU

Lan(net, ula, dep, valid) == [net |-> net, ula |-> ula, dep |-> dep, valid |-> valid]

MCOffers == {<<Lan(netU, TRUE, FALSE, 3), Lan(netA, FALSE, FALSE, 2)>>,
             <<Lan(netA, FALSE, TRUE, 2), Lan(netU, TRUE, FALSE, 3)>>}
MCStatics == [x \in Hosts |-> IF x = host THEN [net |-> netA, iid |-> 2] ELSE NoStatic]
MCHash    == [c \in Clients |-> 1]

=============================================================================
