--------------------------- MODULE PortMapsProofs ---------------------------
(***************************************************************************)
(* Proofs about PortMaps, for any hosts, ports, nonces, lifetimes, lines    *)
(* and port sets, any number of mappings, and transactions that may fail.   *)
(***************************************************************************)
EXTENDS PortMaps, TLAPS

(***************************************************************************)
(* Sets of mappings.                                                        *)
(***************************************************************************)
\* Fewer mappings are distinct when more are.
LEMMA DistinctSubset ==
    ASSUME NEW M, NEW S \in SUBSET M, Distinct(M)
    PROVE  Distinct(S)
BY DEF Distinct

\* What push sends is distinct when what the server keeps is.
LEMMA DistinctPushed ==
    ASSUME NEW M, Distinct(M)
    PROVE  Distinct(V4(M))
BY DEF Distinct, V4, Mapped, Is4

\* The empty set, which the NAT starts with.
LEMMA DistinctNothing == Distinct({})
BY DEF Distinct

\* A port pickPort returns is usable: no mapping of the protocol has it, and it is in the port set.
LEMMA PickedUsable ==
    ASSUME NEW M, NEW k, k.host \in Hosts4, NEW wish, NEW e \in Picks(M, k, wish)
    PROVE  Usable(M, k.proto, e)
BY DEF Picks, PickPort

\* A grant keeps the mappings distinct: the new one is for a key that has no other, and its port is
\* used by none.
LEMMA DistinctGrant ==
    ASSUME NEW k, NEW wish, NEW e \in Picks(Without(k), k, wish), NEW nonce, NEW until,
           Distinct(maps)
    PROVE  Distinct(Without(k) \cup {[key |-> k, ext |-> e, nonce |-> nonce, expires |-> until]})
<1> DEFINE new == [key |-> k, ext |-> e, nonce |-> nonce, expires |-> until]
<1>1. Distinct(Without(k))
  BY DistinctSubset DEF Without
<1>2. ASSUME Is4(new), NEW m \in Without(k), m.key.proto = k.proto
      PROVE  m.ext # e
  BY <1>2, PickedUsable DEF Is4, Usable
<1> QED
  BY <1>1, <1>2 DEF Distinct

\* A renewal keeps them distinct: key and port are the old ones.
LEMMA DistinctRenew ==
    ASSUME NEW k, NEW m \in Held(k), NEW nonce, NEW until, Distinct(maps)
    PROVE  Distinct(Without(k) \cup {[key |-> k, ext |-> m.ext, nonce |-> nonce, expires |-> until]})
<1> DEFINE new == [key |-> k, ext |-> m.ext, nonce |-> nonce, expires |-> until]
<1>1. new.key = m.key /\ new.ext = m.ext
  BY DEF Held
<1>2. m \in maps /\ Without(k) \in SUBSET maps
  BY DEF Held, Without
<1> QED
  BY <1>1, <1>2 DEF Distinct, Is4

(***************************************************************************)
(* Each property, step by step.                                             *)
(***************************************************************************)
LEMMA Starts == Init => PortInv
BY PortAssumption, DistinctNothing
   DEF Init, PortInv, Dated, OneHostPerPort, InsidePortSet, LossAnnounced, NoTable

\* After a step that pushes what it leaves, everything on the way is distinct.
LEMMA PushDistinct ==
    ASSUME OneHostPerPort, Distinct(maps'), Push(maps'), UNCHANGED nat
    PROVE  OneHostPerPort'
<1>1. Distinct(V4(maps'))
  BY DistinctPushed
<1>2. mapIn' = <<V4(maps')>>
  BY DEF Push
<1>3. \A i \in DOMAIN mapIn' : Distinct(mapIn'[i])
  BY <1>1, <1>2
<1> QED
  BY <1>3 DEF OneHostPerPort, nat, Distinct, Is4

\* apply installs what it was given, or leaves the table, or removes it.
LEMMA ApplyDistinct ==
    ASSUME NEW t, NEW ms, Distinct(ms), Distinct(table.maps), Apply(t, ms)
    PROVE  Distinct(table'.maps)
<1>1. table' \in {NatPlanFor(t, ms), table, NoTable}
  BY DEF Apply, Remove
<1> QED
  BY <1>1, DistinctNothing DEF NatPlanFor, NoTable

\* No step gives a port to two hosts.
LEMMA DistinctStep == OneHostPerPort /\ [Next]_vars => OneHostPerPort'
<1> SUFFICES ASSUME OneHostPerPort, [Next]_vars PROVE OneHostPerPort'
  OBVIOUS
<1>0. Distinct(maps) /\ Distinct(mappings) /\ Distinct(table.maps)
  BY DEF OneHostPerPort
<1>1. ASSUME NEW k \in Keys, Request(k) PROVE OneHostPerPort'
  <2>1. ASSUME NEW nonce \in Nonces, NEW wish \in Wishes, NEW life \in Lives, Grant(k, nonce, wish, life)
        PROVE  OneHostPerPort'
    <3>1. PICK e \in Picks(Without(k), k, wish) :
              maps' = Without(k) \cup {[key |-> k, ext |-> e, nonce |-> nonce, expires |-> now + life]}
      BY <2>1 DEF Grant
    <3>2. Distinct(maps')
      BY <1>0, <3>1, DistinctGrant
    <3>3. Push(maps') /\ UNCHANGED nat
      BY <2>1 DEF Grant
    <3> QED
      BY <3>2, <3>3, PushDistinct
  <2>2. ASSUME NEW nonce \in Nonces, NEW wish \in Wishes, NEW life \in Lives, Renew(k, nonce, wish, life)
        PROVE  OneHostPerPort'
    <3>1. PICK m \in Held(k) :
              maps' = Without(k) \cup {[key |-> k, ext |-> m.ext, nonce |-> nonce, expires |-> now + life]}
      BY <2>2 DEF Renew
    <3>2. Distinct(maps')
      BY <1>0, <3>1, DistinctRenew
    <3> QED
      BY <2>2, <3>2 DEF Renew, OneHostPerPort, nat, pushed, Distinct, Is4
  <2>3. ASSUME NEW nonce \in Nonces, NEW wish \in Wishes, MoveFails(k, nonce, wish)
        PROVE  OneHostPerPort'
    BY <1>0, <2>3, DistinctSubset, PushDistinct DEF MoveFails, Without
  <2>4. ASSUME NEW nonce \in Nonces, Release(k, nonce) PROVE OneHostPerPort'
    BY <1>0, <2>4, DistinctSubset, PushDistinct DEF Release, Without
  <2> QED
    BY <1>1, <2>1, <2>2, <2>3, <2>4 DEF Request
<1>2. ASSUME NEW host \in Hosts4, NEW proto \in Protos, ReleaseAll(host, proto) PROVE OneHostPerPort'
  BY <1>0, <1>2, DistinctSubset, PushDistinct DEF ReleaseAll
<1>3. CASE Expire
  BY <1>0, <1>3, DistinctSubset, PushDistinct DEF Expire
<1>4. CASE SetTunnel
  <2>1. Distinct(maps')
    BY <1>0, <1>4, DistinctSubset DEF SetTunnel, server
  <2>2. CASE Push(maps')
    BY <1>4, <2>1, <2>2, PushDistinct DEF SetTunnel
  <2>3. CASE UNCHANGED pushed
    BY <1>4, <2>1, <2>3 DEF SetTunnel, OneHostPerPort, nat, pushed, Distinct, Is4
  <2> QED
    BY <1>4, <2>2, <2>3 DEF SetTunnel
<1>5. CASE TakeTunnel
  BY <1>0, <1>5, ApplyDistinct DEF TakeTunnel, OneHostPerPort, server, pushed, Distinct, Is4
<1>6. CASE TakeMappings
  <2>1. Distinct(mapIn[1])
    BY <1>6 DEF TakeMappings, OneHostPerPort
  <2>2. Distinct(table'.maps)
    BY <1>0, <1>6, <2>1, ApplyDistinct DEF TakeMappings
  <2> QED
    BY <1>6, <2>1, <2>2 DEF TakeMappings, OneHostPerPort, server, Distinct, Is4
<1>7. CASE TakeHoles \/ (\E t \in Lines : Publish(t)) \/ (\E L \in Listens : Listen(L)) \/ Tick \/ UNCHANGED vars
  BY <1>7 DEF TakeHoles, Publish, Listen, Tick, vars, server, nat, pushed, OneHostPerPort, Distinct, Is4
<1> QED
  BY <1>1, <1>2, <1>3, <1>4, <1>5, <1>6, <1>7 DEF Next

\* A mapping is made inside the port set, and setTunnel drops those made on another.
LEMMA InsideStep == InsidePortSet /\ [Next]_vars => InsidePortSet'
<1> SUFFICES ASSUME InsidePortSet, [Next]_vars PROVE InsidePortSet'
  OBVIOUS
<1>1. ASSUME NEW k \in Keys, Request(k) PROVE InsidePortSet'
  <2>1. ASSUME NEW nonce \in Nonces, NEW wish \in Wishes, NEW life \in Lives, Grant(k, nonce, wish, life)
        PROVE  InsidePortSet'
    <3>1. PICK e \in Picks(Without(k), k, wish) :
              maps' = Without(k) \cup {[key |-> k, ext |-> e, nonce |-> nonce, expires |-> now + life]}
      BY <2>1 DEF Grant
    <3>2. k.host \in Hosts4 => ipv4 # NoAddr /\ (ports # {} => e \in ports)
      BY <2>1, PickedUsable DEF Grant, Served, Usable
    <3> QED
      BY <2>1, <3>1, <3>2 DEF Grant, InsidePortSet, Is4, Without
  <2>2. ASSUME NEW nonce \in Nonces, NEW wish \in Wishes, NEW life \in Lives, Renew(k, nonce, wish, life)
        PROVE  InsidePortSet'
    <3>1. PICK m \in Held(k) :
              maps' = Without(k) \cup {[key |-> k, ext |-> m.ext, nonce |-> nonce, expires |-> now + life]}
      BY <2>2 DEF Renew
    <3> DEFINE new == [key |-> k, ext |-> m.ext, nonce |-> nonce, expires |-> now + life]
    <3>2. new.key = m.key /\ new.ext = m.ext
      BY DEF Held
    <3>3. m \in maps /\ Without(k) \in SUBSET maps
      BY DEF Held, Without
    <3> QED
      BY <2>2, <3>1, <3>2, <3>3 DEF Renew, InsidePortSet, Is4
  <2>3. ASSUME NEW nonce \in Nonces, NEW wish \in Wishes, MoveFails(k, nonce, wish)
        PROVE  InsidePortSet'
    BY <2>3 DEF MoveFails, Without, InsidePortSet, Is4
  <2>4. ASSUME NEW nonce \in Nonces, Release(k, nonce) PROVE InsidePortSet'
    BY <2>4 DEF Release, Without, InsidePortSet, Is4
  <2> QED
    BY <1>1, <2>1, <2>2, <2>3, <2>4 DEF Request
<1>2. CASE \E host \in Hosts4, proto \in Protos : ReleaseAll(host, proto)
  BY <1>2 DEF ReleaseAll, InsidePortSet, Is4
<1>3. CASE Expire \/ SetTunnel
  BY <1>3 DEF Expire, SetTunnel, server, InsidePortSet, Is4
<1>4. CASE TakeTunnel \/ TakeMappings \/ TakeHoles
  BY <1>4 DEF TakeTunnel, TakeMappings, TakeHoles, server, InsidePortSet, Is4
<1>5. CASE (\E t \in Lines : Publish(t)) \/ (\E L \in Listens : Listen(L)) \/ Tick \/ UNCHANGED vars
  BY <1>5 DEF Publish, Listen, Tick, vars, server, InsidePortSet, Is4
<1> QED
  BY <1>1, <1>2, <1>3, <1>4, <1>5 DEF Next

\* Times stay numbers, and the epoch in the past.
LEMMA DatedStep == Dated /\ [Next]_vars => Dated'
<1> SUFFICES ASSUME Dated, [Next]_vars PROVE Dated'
  OBVIOUS
<1>1. ASSUME NEW k \in Keys, Request(k) PROVE Dated'
  <2>1. now' = now /\ start' = start
    BY <1>1 DEF Request, Grant, Renew, MoveFails, Release
  <2>2. ASSUME NEW g \in told', g \notin told
        PROVE  g.key = k /\ g.at = now /\ \E life \in Lives : g.until = now + life
    BY <1>1, <2>2 DEF Request, Grant, Renew, MoveFails, Release, Forget, Granted
  <2> QED
    BY <2>1, <2>2, PortAssumption DEF Dated
<1>2. CASE \E host \in Hosts4, proto \in Protos : ReleaseAll(host, proto)
  BY <1>2 DEF ReleaseAll, Forget, Dated
<1>3. CASE Expire \/ SetTunnel
  BY <1>3 DEF Expire, SetTunnel, server, Dated
<1>4. CASE TakeTunnel \/ TakeMappings \/ TakeHoles
  BY <1>4 DEF TakeTunnel, TakeMappings, TakeHoles, server, Dated
<1>5. CASE (\E t \in Lines : Publish(t)) \/ (\E L \in Listens : Listen(L)) \/ Tick \/ UNCHANGED vars
  BY <1>5 DEF Publish, Listen, Tick, vars, server, Dated
<1> QED
  BY <1>1, <1>2, <1>3, <1>4, <1>5 DEF Next

\* Only setTunnel takes a mapping from a client that did not ask for it, and only where there was
\* an address to lose: there the epoch restarts.
LEMMA AnnouncedStep == Dated /\ InsidePortSet /\ LossAnnounced /\ [Next]_vars => LossAnnounced'
<1> SUFFICES ASSUME Dated, InsidePortSet, LossAnnounced, [Next]_vars PROVE LossAnnounced'
  OBVIOUS
<1>1. ASSUME NEW k \in Keys, Request(k) PROVE LossAnnounced'
  <2>1. ASSUME NEW nonce \in Nonces, NEW wish \in Wishes, NEW life \in Lives, Grant(k, nonce, wish, life)
        PROVE  LossAnnounced'
    <3>1. PICK e :
              maps' = Without(k) \cup {[key |-> k, ext |-> e, nonce |-> nonce, expires |-> now + life]}
      BY <2>1 DEF Grant
    <3> DEFINE new == [key |-> k, ext |-> e, nonce |-> nonce, expires |-> now + life]
    <3>2. new.key = k /\ new.expires = now + life
      OBVIOUS
    <3>3. Without(k) \subseteq maps' /\ new \in maps'
      BY <3>1
    <3> HIDE DEF new
    <3> QED
      BY <2>1, <3>2, <3>3 DEF Grant, LossAnnounced, Forget, Granted, Without
  <2>2. ASSUME NEW nonce \in Nonces, NEW wish \in Wishes, NEW life \in Lives, Renew(k, nonce, wish, life)
        PROVE  LossAnnounced'
    <3>1. PICK m \in Held(k) :
              maps' = Without(k) \cup {[key |-> k, ext |-> m.ext, nonce |-> nonce, expires |-> now + life]}
      BY <2>2 DEF Renew
    <3> DEFINE new == [key |-> k, ext |-> m.ext, nonce |-> nonce, expires |-> now + life]
    <3>2. new.key = k /\ new.expires = now + life
      OBVIOUS
    <3>3. Without(k) \subseteq maps' /\ new \in maps'
      BY <3>1
    <3> HIDE DEF new
    <3> QED
      BY <2>2, <3>2, <3>3 DEF Renew, LossAnnounced, Forget, Granted, Without
  <2>3. ASSUME NEW nonce \in Nonces, NEW wish \in Wishes, MoveFails(k, nonce, wish)
        PROVE  LossAnnounced'
    BY <2>3 DEF MoveFails, Without, LossAnnounced, Forget
  <2>4. ASSUME NEW nonce \in Nonces, Release(k, nonce) PROVE LossAnnounced'
    BY <2>4 DEF Release, Without, LossAnnounced, Forget
  <2> QED
    BY <1>1, <2>1, <2>2, <2>3, <2>4 DEF Request
<1>2. CASE \E host \in Hosts4, proto \in Protos : ReleaseAll(host, proto)
  BY <1>2 DEF ReleaseAll, Forget, LossAnnounced, Dated
<1>3. CASE Expire
  BY <1>3 DEF Expire, LossAnnounced
<1>4. CASE SetTunnel
  <2>1. UNCHANGED <<now, told>>
    BY <1>4 DEF SetTunnel
  <2>2. CASE UNCHANGED server
    BY <2>1, <2>2 DEF server, LossAnnounced
  <2>3. CASE start' = now
    BY <2>1, <2>3 DEF Dated, LossAnnounced
  <2>4. CASE ipv4 = NoAddr /\ start' = start /\ maps' = {m \in maps : ~Is4(m)}
    BY <2>1, <2>4 DEF InsidePortSet, LossAnnounced
  <2> QED
    BY <1>4, <2>2, <2>3, <2>4 DEF SetTunnel
<1>5. CASE TakeTunnel \/ TakeMappings \/ TakeHoles
  BY <1>5 DEF TakeTunnel, TakeMappings, TakeHoles, server, LossAnnounced
<1>6. CASE (\E t \in Lines : Publish(t)) \/ (\E L \in Listens : Listen(L)) \/ UNCHANGED vars
  BY <1>6 DEF Publish, Listen, vars, server, LossAnnounced
<1>7. CASE Tick
  <2>1. ASSUME NEW g \in told, now' <= g.until PROVE now <= g.until
    BY <1>7, <2>1 DEF Tick, Dated
  <2> QED
    BY <1>7, <2>1 DEF Tick, server, LossAnnounced
<1> QED
  BY <1>1, <1>2, <1>3, <1>4, <1>5, <1>6, <1>7 DEF Next

(***************************************************************************)
(* The theorems.                                                            *)
(***************************************************************************)
\* PortInv is inductive.
THEOREM PortInvHolds == Spec => []PortInv
<1>1. PortInv /\ [Next]_vars => PortInv'
  BY DistinctStep, InsideStep, DatedStep, AnnouncedStep DEF PortInv
<1> QED
  BY Starts, <1>1, PTL DEF Spec

\* However grants, renewals, moves, expiries, new lines and the NAT's reading of them follow each
\* other, an external port leads to one host only: pickPort gives no port away twice.
THEOREM PortsStayDistinct == Spec => []OneHostPerPort
BY PortInvHolds, PTL DEF PortInv

\* Every mapping is inside the port set the server has: setTunnel leaves none of another line.
THEOREM PortsStayInside == Spec => []InsidePortSet
BY PortInvHolds, PTL DEF PortInv

\* A mapping that is lost was granted before the epoch began, so that its client can tell.
THEOREM LossesAreAnnounced == Spec => []LossAnnounced
BY PortInvHolds, PTL DEF PortInv

(***************************************************************************)
(* The kernel in step with the server.                                      *)
(***************************************************************************)
\* A renewal leaves the sets push would send: the mapping renewed is the only one of its key, and has
\* its key and port still.
LEMMA RenewedMapped ==
    ASSUME OnePerKey, NEW k, NEW m \in Held(k), NEW new, new.key = k, new.ext = m.ext
    PROVE  V4(Without(k) \cup {new}) = V4(maps) /\ V6(Without(k) \cup {new}) = V6(maps)
<1>1. m \in maps /\ m.key = k
  BY DEF Held
<1>2. Mapped({m}) = Mapped({new}) /\ (Is4(m) <=> Is4(new))
  BY <1>1 DEF Mapped, Is4
<1>3. maps = Without(k) \cup {m}
  BY <1>1 DEF OnePerKey, Without
<1>4. ASSUME NEW x, x = m \/ x = new
      PROVE  /\ V4(Without(k) \cup {x}) = V4(Without(k)) \cup (IF Is4(x) THEN Mapped({x}) ELSE {})
             /\ V6(Without(k) \cup {x}) = V6(Without(k)) \cup (IF Is4(x) THEN {} ELSE Mapped({x}))
  BY DEF V4, V6, Mapped
<1> QED
  BY <1>2, <1>3, <1>4

\* A change of the mappings that is pushed is under way.
LEMMA PushedUnderway ==
    ASSUME Underway, Push(maps'), UNCHANGED <<cur, toNat, nat, holes>>
    PROVE  Underway' /\ (Installed => Installed')
<1>1. mapIn' = <<V4(maps')>> /\ (Filtered => holeIn' = <<V6(maps')>>)
  BY DEF Push
<1>2. V4(maps') = V4(maps)' /\ V6(maps') = V6(maps)'
  BY DEF V4, V6, Mapped, Is4
<1>3. mapIn' # <<>> /\ (Filtered => holeIn' # <<>>)
  BY <1>1
<1> QED
  BY <1>1, <1>2, <1>3 DEF Underway, Installed, nat

\* A change that leaves the sets push would send leaves what is under way.
LEMMA SameUnderway ==
    ASSUME Underway, V4(maps') = V4(maps), V6(maps') = V6(maps),
           UNCHANGED <<cur, toNat, nat, holes, pushed>>
    PROVE  Underway' /\ (Installed => Installed')
<1>1. V4(maps') = V4(maps)' /\ V6(maps') = V6(maps)'
  BY DEF V4, V6, Mapped, Is4
<1> QED
  BY <1>1 DEF Underway, Installed, nat, pushed

\* apply, of what it is given, while nftables refuses nothing.
LEMMA ApplyInstalls ==
    ASSUME ~FlushFails, Installed, NEW t, NEW ms, Apply(t, ms)
    PROVE  /\ applied' = table'
           /\ table' = IF HasPlan(t) THEN NatPlanFor(t, ms) ELSE NoTable
<1>1. CASE ~HasPlan(t)
  <2>1. Remove
    BY <1>1 DEF Apply
  <2> QED
    BY <1>1, <2>1 DEF Remove, Installed
<1>2. CASE HasPlan(t)
  BY <1>2 DEF Apply, Installed
<1> QED
  BY <1>1, <1>2

\* Every step keeps what is under way.
LEMMA StepInvNext ==
    ASSUME ~FlushFails, StepInv, [Next]_vars
    PROVE  StepInv'
<1>0. OnePerKey /\ Underway /\ Installed
  BY DEF StepInv
<1>1. ASSUME NEW k \in Keys, Request(k) PROVE StepInv'
  <2>1. ASSUME NEW nonce \in Nonces, NEW wish \in Wishes, NEW life \in Lives, Grant(k, nonce, wish, life)
        PROVE  StepInv'
    <3>1. PICK e : maps' = Without(k) \cup {[key |-> k, ext |-> e, nonce |-> nonce, expires |-> now + life]}
      BY <2>1 DEF Grant
    <3>2. OnePerKey'
      BY <1>0, <3>1 DEF OnePerKey, Without
    <3> QED
      BY <1>0, <2>1, <3>2, PushedUnderway DEF Grant, StepInv
  <2>2. ASSUME NEW nonce \in Nonces, NEW wish \in Wishes, NEW life \in Lives, Renew(k, nonce, wish, life)
        PROVE  StepInv'
    <3>1. PICK m \in Held(k) :
              maps' = Without(k) \cup {[key |-> k, ext |-> m.ext, nonce |-> nonce, expires |-> now + life]}
      BY <2>2 DEF Renew
    <3>2. OnePerKey'
      BY <1>0, <3>1 DEF OnePerKey, Without
    <3>3. V4(maps') = V4(maps) /\ V6(maps') = V6(maps)
      BY <1>0, <3>1, RenewedMapped
    <3> QED
      BY <1>0, <2>2, <3>2, <3>3, SameUnderway DEF Renew, StepInv
  <2>3. ASSUME NEW nonce \in Nonces, NEW wish \in Wishes, MoveFails(k, nonce, wish)
        PROVE  StepInv'
    <3>1. OnePerKey'
      BY <1>0, <2>3 DEF MoveFails, OnePerKey, Without
    <3> QED
      BY <1>0, <2>3, <3>1, PushedUnderway DEF MoveFails, StepInv
  <2>4. ASSUME NEW nonce \in Nonces, Release(k, nonce) PROVE StepInv'
    <3>1. OnePerKey'
      BY <1>0, <2>4 DEF Release, OnePerKey, Without
    <3> QED
      BY <1>0, <2>4, <3>1, PushedUnderway DEF Release, StepInv
  <2> QED
    BY <1>1, <2>1, <2>2, <2>3, <2>4 DEF Request
<1>2. ASSUME NEW host \in Hosts4, NEW proto \in Protos, ReleaseAll(host, proto) PROVE StepInv'
  <2>1. OnePerKey'
    BY <1>0, <1>2 DEF ReleaseAll, OnePerKey
  <2> QED
    BY <1>0, <1>2, <2>1, PushedUnderway DEF ReleaseAll, StepInv
<1>3. CASE Expire
  <2>1. OnePerKey'
    BY <1>0, <1>3 DEF Expire, OnePerKey
  <2> QED
    BY <1>0, <1>3, <2>1, PushedUnderway DEF Expire, StepInv
<1>4. CASE SetTunnel
  <2>1. OnePerKey'
    BY <1>0, <1>4 DEF SetTunnel, server, OnePerKey
  <2>2. UNCHANGED <<cur, toNat, nat, holes>>
    BY <1>4 DEF SetTunnel
  <2>3. CASE Push(maps')
    BY <1>0, <2>1, <2>2, <2>3, PushedUnderway DEF StepInv
  <2>4. CASE maps' = maps /\ UNCHANGED pushed
    BY <1>0, <2>1, <2>2, <2>4, SameUnderway DEF StepInv
  <2> QED
    BY <1>4, <2>3, <2>4 DEF SetTunnel, server
<1>5. CASE TakeTunnel
  <2>1. UNCHANGED <<cur, maps, mappings, mapIn, holeIn, holes>> /\ toNat' = <<>> /\ last' = toNat[1]
    BY <1>5 DEF TakeTunnel, server, pushed
  <2>2. toNat[1] = cur
    BY <1>0, <1>5 DEF TakeTunnel, Underway
  <2>3. applied' = table' /\ table' = IF HasPlan(cur) THEN NatPlanFor(cur, mappings) ELSE NoTable
    BY <1>0, <1>5, <2>2, ApplyInstalls DEF TakeTunnel
  <2> QED
    BY <1>0, <2>1, <2>2, <2>3 DEF StepInv, OnePerKey, Underway, Installed, V4, V6, Mapped, Is4
<1>6. CASE TakeMappings
  <2>1. UNCHANGED <<cur, maps, last, toNat, holeIn, holes>> /\ mapIn' = <<>> /\ mappings' = mapIn[1]
    BY <1>6 DEF TakeMappings, server
  <2>2. mapIn[1] = V4(maps)
    BY <1>0, <1>6 DEF TakeMappings, Underway
  <2>3. applied' = table' /\ table' = IF HasPlan(last) THEN NatPlanFor(last, mapIn[1]) ELSE NoTable
    BY <1>0, <1>6, ApplyInstalls DEF TakeMappings
  <2> QED
    BY <1>0, <2>1, <2>2, <2>3 DEF StepInv, OnePerKey, Underway, Installed, V4, V6, Mapped, Is4
<1>7. CASE TakeHoles
  <2>1. UNCHANGED <<cur, maps, nat, toNat, mapIn>> /\ holeIn' = <<>> /\ holeIn # <<>>
        /\ holes' = holeIn[1]
    BY <1>7 DEF TakeHoles, server
  <2>2. Filtered => holeIn[1] = V6(maps)
    BY <1>0, <2>1 DEF Underway
  <2> QED
    BY <1>0, <2>1, <2>2 DEF nat, StepInv, OnePerKey, Underway, Installed, V4, V6, Mapped, Is4
<1>8. ASSUME NEW t \in Lines, Publish(t) PROVE StepInv'
  <2>1. UNCHANGED <<maps, nat, mapIn, holeIn, holes>> /\ cur' = t /\ toNat' = <<t>>
    BY <1>8 DEF Publish, server, pushed
  <2> QED
    BY <1>0, <2>1 DEF nat, StepInv, OnePerKey, Underway, Installed, V4, V6, Mapped, Is4
<1>9. CASE (\E L \in Listens : Listen(L)) \/ Tick \/ UNCHANGED vars
  <2>1. UNCHANGED <<cur, maps, nat, toNat, pushed, holes>>
    BY <1>9 DEF Listen, Tick, vars, server
  <2> QED
    BY <1>0, <2>1, SameUnderway DEF StepInv, OnePerKey
<1> QED
  BY <1>1, <1>2, <1>3, <1>4, <1>5, <1>6, <1>7, <1>8, <1>9 DEF Next

\* push, the two channels and apply: once everything is read the kernel has the server's mappings, for
\* any hosts, lines and number of mappings, as long as nftables refuses no transaction.
THEOREM KernelStaysInStep == Spec => []KernelInStep
<1>1. Init => StepInv
  BY DEF Init, StepInv, OnePerKey, Underway, Installed, V4, V6, Mapped, HasPlan, NoTunnel
<1>2. StepInv => KernelInStep
  BY DEF StepInv, Underway, Installed, KernelInStep
<1>3. CASE FlushFails
  <2>1. KernelInStep
    BY <1>3 DEF KernelInStep
  <2> QED
    BY <2>1, PTL
<1>4. CASE ~FlushFails
  <2>1. StepInv /\ [Next]_vars => StepInv'
    BY <1>4, StepInvNext
  <2> QED
    BY <1>1, <1>2, <2>1, PTL DEF Spec
<1> QED
  BY <1>3, <1>4
=============================================================================
