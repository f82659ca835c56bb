----------------------------- MODULE PortMapsMC -----------------------------
(***************************************************************************)
(* A small instance of PortMaps for TLC: a line with a port set, the same   *)
(* line with a part of that set, and none.  Host a asks for two ports, of   *)
(* which the quota allows one; a lifetime is shorter than the clock's unit. *)
(***************************************************************************)
EXTENDS PortMaps

CONSTANTS a, b, c, tcp, addr1

Key(host, port) == [proto |-> tcp, host |-> host, port |-> port]
MCKeys == {Key(a, 2), Key(a, 3), Key(b, 2), Key(c, 2)}

Tunnel(kind, ps) == [kind |-> kind, ipv4 |-> addr1, ports |-> ps]

MCLines == {Tunnel("map-e", {2, 3}), Tunnel("map-e", {3}), NoTunnel}
MCOwn   == [p \in Protos |-> {}]

Wish(port, prefer, addr) == [port |-> port, prefer |-> prefer, addr |-> addr]
MCWishes  == {Wish(0, FALSE, TRUE), Wish(3, TRUE, TRUE)}
MCListens == {{<<tcp, 3>>}}
=============================================================================
