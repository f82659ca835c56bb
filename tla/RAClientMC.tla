---------------------------- MODULE RAClientMC ----------------------------
(***************************************************************************)
(* The RA client with two routers that share a prefix. TwoHours is 2 ticks *)
(* and the longest valid lifetime 3, so that an RA can ask for less than   *)
(* the floor of a prefix above it and of one below it.                     *)
(***************************************************************************)
EXTENDS RAClient, TLC

CONSTANTS gw1, gw2, p1, p2

Pio(pref, valid) == [pref |-> pref, valid |-> valid]
Advert(life, pref, pios) == [life |-> life, pref |-> pref, dhcp |-> life > 1,
                             pios |-> pios]

MCAdverts ==
    {Advert(2, "high", p1 :> Pio(2, 3)),
     Advert(1, "medium", p1 :> Pio(1, 1)),
     Advert(2, "medium", p1 :> Pio(0, 0) @@ p2 :> Pio(1, 2)),
     Advert(0, "medium", <<>>)}

\* Nothing reads reconfirm: states that differ in it alone are one.
WithoutReconfirm == <<link, fresh, serving, stop, routers, ppp, started,
                      lastSet, kernel, rsLeft, rsTimer, expire, upd>>

Alike == Permutations({gw1, gw2})
=============================================================================
