---------------------------- MODULE PDPoolProofs ----------------------------
(***************************************************************************)
(* Proofs about PDPool: delegations never overlap, for any prefixes, hash,  *)
(* offers, hints, number of interfaces and routers, restarts and bounds.    *)
(***************************************************************************)
EXTENDS PDPool, WellFoundedInduction, TLAPS

(***************************************************************************)
(* What pick returns.                                                       *)
(***************************************************************************)
\* A nonempty set of natural numbers contains its minimum.
LEMMA LeastInSet ==
    ASSUME NEW S \in SUBSET Nat, S # {}
    PROVE  Min(S) \in S
<1> DEFINE Less == {ss \in Nat \X Nat : ss[1] < ss[2]}
<1>1. IsWellFoundedOn(Less, Nat)
  BY NatLessThanWellFounded, Zenon DEF OpToRel
<1> HIDE DEF Less
<1>2. PICK m \in S : \A n \in S : <<n, m>> \notin Less
  BY <1>1, WFMin
<1>3. \A n \in S : n < m => <<n, m>> \in Less
  BY S \subseteq Nat DEF Less
<1>4. \A n \in S : ~(n < m)
  BY <1>2, <1>3, Zenon
<1>5. \A n \in S : m =< n
  BY <1>4, S \subseteq Nat
<1> QED
  BY <1>5 DEF Min

\* A prefix that is usable lies in a delegation of the key's address space, and is free.
LEMMA UsableSafe ==
    ASSUME NEW L, NEW s, SnapOK(s), NEW key, NEW pf, Usable(L, s, pf, key)
    PROVE  /\ Free(L, s, pf, key) /\ pf.ula = key[2]
           /\ s.ups[Min(Home(s, pf, key))].valid \in Nat
<1>1. Home(s, pf, key) \subseteq DOMAIN s.ups /\ Home(s, pf, key) # {}
  BY DEF Usable, Home, Delegable
<1>2. Min(Home(s, pf, key)) \in Home(s, pf, key)
  BY <1>1, LeastInSet DEF SnapOK
<1>3. pf.ula = key[2]
  BY <1>2 DEF Home, Delegable, Contains
<1> QED
  BY <1>1, <1>2, <1>3 DEF Usable, SnapOK

\* The block found is free, and of the key's address space.
LEMMA BlockSafe ==
    ASSUME NEW L, NEW s, SnapOK(s), NEW key, NEW want, Blocks(L, s, key, want) # {}
    PROVE  LET j == Min(Blocks(L, s, key, want))
           IN  /\ Free(L, s, FirstBlock(L, s, j, key, want), key)
               /\ FirstBlock(L, s, j, key, want).ula = key[2]
               /\ s.ups[j].valid \in Nat
<1> DEFINE j == Min(Blocks(L, s, key, want))
           n == Min(FreeLengths(L, s, j, key, want))
           i == Min(FreeSlots(L, s, s.ups[j], n, key))
<1>1. Blocks(L, s, key, want) \subseteq DOMAIN s.ups
  BY DEF Blocks, Delegable
<1>2. j \in Blocks(L, s, key, want)
  BY <1>1, LeastInSet DEF SnapOK
<1>3. FreeLengths(L, s, j, key, want) # {} /\ FreeLengths(L, s, j, key, want) \subseteq Nat
  <2> HIDE DEF j
  <2>1. FreeLengths(L, s, j, key, want) # {}
    BY <1>2 DEF Blocks
  <2>2. Lengths(s.ups[j], want) \subseteq Nat
    BY DEF Lengths
  <2>3. FreeLengths(L, s, j, key, want) \subseteq Lengths(s.ups[j], want)
    BY DEF FreeLengths
  <2> QED
    BY <2>1, <2>2, <2>3
<1>4. n \in FreeLengths(L, s, j, key, want)
  BY <1>3, LeastInSet
<1>5. FreeSlots(L, s, s.ups[j], n, key) # {} /\ FreeSlots(L, s, s.ups[j], n, key) \subseteq Nat
  <2> HIDE DEF j, n
  <2>1. FreeSlots(L, s, s.ups[j], n, key) # {}
    BY <1>4 DEF FreeLengths
  <2>2. \A top : 0..top \subseteq Nat
    OBVIOUS
  <2>3. FreeSlots(L, s, s.ups[j], n, key) \subseteq 0..(Lesser(2 ^ (n - s.ups[j].bits), MaxProbes) - 1)
    BY DEF FreeSlots
  <2> QED
    BY <2>1, <2>2, <2>3
<1>6. i \in FreeSlots(L, s, s.ups[j], n, key)
  BY <1>5, LeastInSet
<1>7. Free(L, s, Slot(s.ups[j], n, key, i), key)
  BY <1>6 DEF FreeSlots
<1>8. Slot(s.ups[j], n, key, i).ula = s.ups[j].ula
  BY DEF Slot
<1>9. s.ups[j].ula = key[2] /\ s.ups[j].valid \in Nat
  BY <1>1, <1>2 DEF Blocks, Delegable, SnapOK
<1> QED
  BY <1>7, <1>8, <1>9 DEF FirstBlock

\* pick gives only a prefix that is free, whichever of its three ways it takes.
LEMMA PickSafe ==
    ASSUME NEW L, NEW s, SnapOK(s), NEW key, NEW want, Pick(L, s, key, want).ok
    PROVE  /\ Free(L, s, Pick(L, s, key, want).pf, key)
           /\ Pick(L, s, key, want).pf.ula = key[2]
           /\ Pick(L, s, key, want).valid \in Nat
<1> DEFINE held == {l \in L : Key(l) = key /\ Usable(L, s, l.pf, key)}
           l == CHOOSE m \in held : TRUE
           from(pf) == s.ups[Min(Home(s, pf, key))].valid
           j == Min(Blocks(L, s, key, want))
<1>1. CASE held # {}
  <2>1. Pick(L, s, key, want) = Picked(l.pf, from(l.pf))
    BY <1>1, Zenon DEF Pick
  <2>2. Usable(L, s, l.pf, key)
    BY <1>1
  <2> QED
    BY <2>1, <2>2, UsableSafe DEF Picked
<1>2. CASE held = {} /\ want.lo >= 0 /\ Usable(L, s, want, key)
  <2>1. Pick(L, s, key, want) = Picked(want, from(want))
    BY <1>2, Zenon DEF Pick
  <2> QED
    BY <1>2, <2>1, UsableSafe DEF Picked
<1>3. CASE /\ held = {} /\ ~(want.lo >= 0 /\ Usable(L, s, want, key))
           /\ Blocks(L, s, key, want) # {}
  <2>1. Pick(L, s, key, want) = Picked(FirstBlock(L, s, j, key, want), s.ups[j].valid)
    BY <1>3, Zenon DEF Pick
  <2> QED
    BY <1>3, <2>1, BlockSafe DEF Picked
<1>4. CASE /\ held = {} /\ ~(want.lo >= 0 /\ Usable(L, s, want, key))
           /\ Blocks(L, s, key, want) = {}
  <2>1. Pick(L, s, key, want) = Refused
    BY <1>4, Zenon DEF Pick
  <2> QED
    BY <2>1 DEF Refused
<1> QED
  BY <1>1, <1>2, <1>3, <1>4

(***************************************************************************)
(* A grant keeps the pool disjoint, and the promises kept.                  *)
(***************************************************************************)
LEMMA OverlapsSymmetric ==
    ASSUME NEW a, NEW b, Overlaps(a, b)
    PROVE  Overlaps(b, a)
  BY DEF Overlaps

\* A delegation that overlaps none can be entered.
LEMMA EnterDisjoint ==
    ASSUME NEW L, Disjoint(L), NEW s, NEW l, Free(L, s, l.pf, Key(l))
    PROVE  Disjoint(Enter(L, l))
<1> SUFFICES ASSUME NEW a \in Enter(L, l), NEW b \in Enter(L, l),
                    Key(a) # Key(b), Live(a), Live(b)
             PROVE  ~Overlaps(a.pf, b.pf)
  BY DEF Disjoint
<1>1. CASE a \in L /\ b \in L
  BY <1>1 DEF Disjoint
<1>2. CASE a = l /\ b \in L
  BY <1>2, OverlapsSymmetric DEF Free
<1>3. CASE a \in L /\ b = l
  BY <1>3 DEF Free
<1> QED
  BY <1>1, <1>2, <1>3 DEF Enter

\* What holds of the pool between the two keys of an IA_PD.
PoolOK(st) ==
    /\ \A l \in st.leases \cup st.told : l.expires \in Nat
    /\ Disjoint(st.leases)
    /\ st.saved \in BOOLEAN
    /\ ~SaveFails => \A t \in st.told : Live(t) => t \in st.leases
    /\ ~st.saved => st.leases = leases

\* delegate's commit keeps the pool disjoint.
LEMMA CommitOK ==
    ASSUME now \in Nat, NEW i, SnapOK(snap[i]), NEW r, NEW ula, NEW peer, NEW want, NEW st, PoolOK(st)
    PROVE  PoolOK(Commit(st, i, <<r, ula>>, peer, want))
<1> DEFINE key == <<r, ula>>
           p == Pick(st.leases, snap[i], key, HintFor(want, key))
           l == LeaseOf(p, i, r, peer)
           new == Commit(st, i, key, peer, want)
<1>1. CASE p.ok
  <2>1. /\ Free(st.leases, snap[i], p.pf, key) /\ p.pf.ula = ula /\ p.valid \in Nat
    BY <1>1, PickSafe
  <2> HIDE DEF p
  <2>2. Key(l) = key /\ l.pf = p.pf
    BY <2>1 DEF LeaseOf, Key
  <2>3. l.expires \in Nat
    BY <2>1, PoolAssumption DEF LeaseOf, ValidLeft, Lesser
  <2>4. new = Given(st, l)
    BY <1>1, Zenon DEF Commit, Answered, p
  <2> HIDE DEF l, new
  <2>5. /\ new.leases = Enter(st.leases, l) /\ new.told = Enter(st.told, l) /\ new.saved = TRUE
    BY <2>4 DEF Given
  <2>6. Disjoint(new.leases)
    BY <2>1, <2>2, <2>5, EnterDisjoint DEF PoolOK
  <2>7. \A m \in new.leases \cup new.told : m.expires \in Nat
    BY <2>3, <2>5 DEF PoolOK, Enter
  <2>8. ~SaveFails => \A t \in new.told : Live(t) => t \in new.leases
    BY <2>5 DEF PoolOK, Enter
  <2> QED
    BY <2>5, <2>6, <2>7, <2>8 DEF PoolOK, new
<1>2. CASE ~p.ok
  <2>1. new = [leases |-> st.leases, cut |-> st.cut, route |-> st.route,
               told |-> {m \in st.told : Key(m) # key}, saved |-> st.saved]
    BY <1>2, Zenon DEF Commit, Answered
  <2> HIDE DEF p, new
  <2>2. /\ new.leases = st.leases /\ new.told \subseteq st.told /\ new.saved = st.saved
    BY <2>1
  <2> QED
    BY <2>2 DEF PoolOK, new
<1> QED
  BY <1>1, <1>2

(***************************************************************************)
(* The invariant.                                                           *)
(***************************************************************************)
LEMMA SnapOfEmpty == SnapOK(EmptySnap)
  BY DEF SnapOK, EmptySnap

\* The invariant holds at first.
LEMMA PoolInvInit == Init => PoolInv
  BY SnapOfEmpty DEF Init, PoolInv, FeedOK, Disjoint, Kept

\* Part of a disjoint set is disjoint, and time only takes delegations out of it.
LEMMA SubsetDisjoint ==
    ASSUME NEW L, NEW M, Disjoint(L), M \subseteq L
    PROVE  Disjoint(M)
  BY DEF Disjoint

\* Time only ends delegations.
LEMMA TickDisjoint ==
    ASSUME NEW CONSTANT L, now \in Nat, now' = now + 1, \A l \in L : l.expires \in Nat, Disjoint(L)
    PROVE  Disjoint(L)'
  BY DEF Disjoint, Live

\* Ending delegations, for whatever reason, keeps the pool's part of the invariant.
LEMMA EndOK ==
    ASSUME PoolInv, NEW mid, mid \subseteq leases, NEW ls, ls \subseteq leases, End(mid, ls),
           UNCHANGED <<now, up>>, FeedOK', up
    PROVE  PoolInv'
<1>1. leases' \subseteq leases /\ told' \subseteq told
  BY DEF End
<1>2. file' \in {file, mid, leases'}
  BY DEF End, Save
<1>3. Disjoint(leases') /\ Disjoint(file')
  BY <1>1, <1>2, SubsetDisjoint DEF PoolInv
<1>4. Disjoint(leases)' /\ Disjoint(file)'
  BY <1>3 DEF Disjoint, Live
<1>5. ASSUME ~SaveFails PROVE Kept'
  <2>1. leases' \subseteq file'
    BY <1>5, <1>1 DEF End, Save, PoolInv, Kept
  <2>2. \A t \in told' : Live(t) => t \in leases'
    BY <1>5 DEF End, PoolInv, Kept
  <2> QED
    BY <2>1, <2>2 DEF Kept, Live
<1>6. \A l \in leases' \cup file' \cup told' : l.expires \in Nat
  BY <1>1, <1>2 DEF PoolInv
<1> QED
  BY <1>4, <1>5, <1>6 DEF PoolInv

\* Neither of the two grants of a request disturbs the pool.
LEMMA GrantsOK ==
    ASSUME PoolInv, up, NEW i \in Ifaces, NEW r, NEW peer, NEW want
    PROVE  PoolOK(Once(i, r, peer, want)) /\ PoolOK(Twice(i, r, peer, want))
<1>1. now \in Nat /\ SnapOK(snap[i])
  BY DEF PoolInv, FeedOK
<1>2. PoolOK(Before)
  BY DEF PoolInv, Kept, PoolOK, Before
<1>3. PoolOK(Once(i, r, peer, want))
  BY <1>1, <1>2, CommitOK DEF Once
<1>4. PoolOK(Twice(i, r, peer, want))
  BY <1>1, <1>3, CommitOK DEF Twice
<1> QED
  BY <1>3, <1>4

\* Every step keeps it.
LEMMA PoolInvNext == PoolInv /\ [Next]_vars => PoolInv'
<1> SUFFICES ASSUME PoolInv, [Next]_vars PROVE PoolInv'
  OBVIOUS
<1>1. ASSUME NEW i \in Ifaces, NEW r \in Routers, NEW peer \in Peers[r], NEW want \in Hints,
             Delegate(i, r, peer, want)
      PROVE  PoolInv'
  <2> DEFINE first == Once(i, r, peer, want)
             both == Twice(i, r, peer, want)
  <2>1. up /\ UNCHANGED <<now, up, cur, ch, snap, serving>> /\ Finish(first, both)
    BY <1>1 DEF Delegate, feed
  <2>2. PoolOK(first) /\ PoolOK(both)
    BY <2>1, GrantsOK
  <2> HIDE DEF first, both
  <2>3. leases' = both.leases /\ told' = both.told /\ file' \in {file, first.leases, leases'}
    BY <2>1 DEF Finish, Save
  <2>4. Disjoint(leases)' /\ Disjoint(file)'
    BY <2>1, <2>2, <2>3 DEF PoolOK, PoolInv, Disjoint, Live
  <2>5. \A l \in leases' \cup file' \cup told' : l.expires \in Nat
    BY <2>2, <2>3 DEF PoolOK, PoolInv
  <2>6. ASSUME ~SaveFails PROVE Kept'
    <3>1. leases' \subseteq file'
      BY <2>1, <2>2, <2>3, <2>6 DEF Finish, Save, PoolOK, PoolInv, Kept
    <3>2. \A t \in told' : Live(t) => t \in leases'
      BY <2>2, <2>3, <2>6 DEF PoolOK
    <3> QED
      BY <2>1, <3>1, <3>2 DEF Kept, Live
  <2>7. FeedOK'
    BY <2>1 DEF PoolInv, FeedOK
  <2> QED
    BY <2>1, <2>4, <2>5, <2>6, <2>7 DEF PoolInv
<1>2. ASSUME NEW i \in Ifaces, NEW r \in Routers, Undelegate(i, r) PROVE PoolInv'
  <2>1. FeedOK'
    BY <1>2 DEF Undelegate, feed, PoolInv, FeedOK
  <2> QED
    BY <1>2, <2>1, EndOK DEF Undelegate
<1>3. ASSUME NEW i \in Ifaces, ExpireLeases(i) PROVE PoolInv'
  <2>1. FeedOK'
    BY <1>3 DEF ExpireLeases, feed, PoolInv, FeedOK
  <2> QED
    BY <1>3, <2>1, EndOK DEF ExpireLeases
<1>4. ASSUME NEW i \in Ifaces, Take(i) PROVE PoolInv'
  <2>1. FeedOK'
    BY <1>4 DEF Take, PoolInv, FeedOK
  <2>2. CASE ch[i][1].moved
    BY <1>4, <2>1, <2>2, EndOK DEF Take
  <2>3. CASE ~ch[i][1].moved
    <3>1. UNCHANGED <<now, up, leases, file, told>>
      BY <1>4, <2>3 DEF Take, pool
    <3> QED
      BY <2>1, <3>1 DEF PoolInv, Disjoint, Kept, Live
  <2> QED
    BY <2>2, <2>3
<1>5. ASSUME NEW i \in Ifaces, Serve(i) PROVE PoolInv'
  BY <1>5 DEF Serve, PoolInv, FeedOK, Disjoint, Kept, Live
<1>6. ASSUME NEW i \in Ifaces, LinkDown(i) PROVE PoolInv'
  BY <1>6 DEF LinkDown, PoolInv, FeedOK, Disjoint, Kept, Live
<1>7. ASSUME NEW o \in Offers, Publish(o) PROVE PoolInv'
  <2> DEFINE s == Dated(o)
  <2>1. SnapOK(s)
    <3>1. o \in Snap
      BY PoolAssumption
    <3>2. o.ups \in Seq(Upstream)
      BY <3>1 DEF Snap
    <3>3. \A j \in DOMAIN o.ups : j \in Nat /\ o.ups[j] \in Upstream
      BY <3>2
    <3>4. s.ups = [j \in DOMAIN o.ups |-> [o.ups[j] EXCEPT !.valid = now + @]]
      BY Zenon DEF Dated
    <3>5. \A u \in Upstream : [u EXCEPT !.valid = now + @].valid = now + u.valid /\ u.valid \in Nat
      BY DEF Upstream
    <3> HIDE DEF s
    <3>6. \A j \in DOMAIN o.ups : s.ups[j].valid = now + o.ups[j].valid
      BY <3>3, <3>4, <3>5, Zenon
    <3>7. DOMAIN s.ups = DOMAIN o.ups /\ now \in Nat
      BY <3>4 DEF PoolInv
    <3> QED
      BY <3>3, <3>5, <3>6, <3>7 DEF SnapOK
  <2> HIDE DEF s
  <2>2. cur' = s /\ DOMAIN ch' = Ifaces /\ \A i \in Ifaces : ch'[i][1].snap = s
    BY <1>7 DEF Publish, s
  <2>3. UNCHANGED <<now, up, snap, leases, file, told>>
    BY <1>7 DEF Publish, pool
  <2> QED
    BY <2>1, <2>2, <2>3 DEF PoolInv, FeedOK, Disjoint, Kept, Live
<1>8. CASE Start
  <2>1. leases' \subseteq file /\ \A l \in file : Live(l) => l \in leases'
    BY <1>8 DEF Start
  <2>2. UNCHANGED <<now, cur, ch, snap, file, told>> /\ ~up /\ up'
    BY <1>8 DEF Start, feed
  <2> QED
    BY <2>1, <2>2 DEF PoolInv, FeedOK, Disjoint, Kept, Live
<1>9. CASE Crash
  <2>1. UNCHANGED <<now, file, told>> /\ up /\ ~up' /\ leases' = {}
    BY <1>9 DEF Crash, Stop
  <2>2. FeedOK'
    BY <1>9, SnapOfEmpty DEF Crash, Stop, FeedOK
  <2> QED
    BY <2>1, <2>2 DEF PoolInv, Disjoint, Kept, Live
<1>10. CASE Tick
  <2>1. now' = now + 1 /\ now \in Nat /\ UNCHANGED <<up, cur, ch, snap, leases, file, told>>
    BY <1>10 DEF Tick, feed, PoolInv
  <2> QED
    BY <2>1 DEF PoolInv, FeedOK, Disjoint, Kept, Live
<1>11. ASSUME NEW i \in Ifaces, NEW r \in Routers, NEW peer \in Peers[r], NEW want \in Hints,
              CrashDelegating(i, r, peer, want)
       PROVE  PoolInv'
  <2>1. up /\ ~up' /\ leases' = {} /\ now' = now
    BY <1>11 DEF CrashDelegating, Stop
  <2>2. PICK st \in {Once(i, r, peer, want), Twice(i, r, peer, want)} :
           /\ st.saved /\ file' \in {st.leases} \cup (IF SaveFails THEN {file} ELSE {})
           /\ told' = {t \in st.told : t.r # r}
    BY <1>11 DEF CrashDelegating
  <2>3. PoolOK(st)
    BY <2>1, <2>2, GrantsOK
  <2>4. Disjoint(file)' /\ Disjoint(leases)'
    BY <2>1, <2>2, <2>3 DEF PoolOK, PoolInv, Disjoint, Live
  <2>5. \A l \in leases' \cup file' \cup told' : l.expires \in Nat
    BY <2>1, <2>2, <2>3 DEF PoolOK, PoolInv
  <2>6. ~SaveFails => Kept'
    BY <2>1, <2>2, <2>3 DEF PoolOK, Kept, Live
  <2>7. FeedOK'
    BY <1>11, SnapOfEmpty DEF CrashDelegating, Stop, FeedOK
  <2> QED
    BY <2>1, <2>4, <2>5, <2>6, <2>7 DEF PoolInv
<1>12. CASE UNCHANGED vars
  BY <1>12 DEF vars, feed, pool, PoolInv, FeedOK, Disjoint, Kept, Live
<1> QED
  BY <1>1, <1>2, <1>3, <1>4, <1>5, <1>6, <1>7, <1>8, <1>9, <1>10, <1>11, <1>12, Zenon DEF Next

\* Delegations never overlap each other (the comment of pdPool), whatever the prefixes, the hints,
\* the hash of a key, the number of interfaces and routers, the order snapshots reach the servers in,
\* writes that fail, and restarts.
THEOREM DelegationsStayDisjoint == Spec => []DelegationsDisjoint
<1>1. PoolInv => DelegationsDisjoint
  BY DEF PoolInv, DelegationsDisjoint
<1> QED
  BY <1>1, PoolInvInit, PoolInvNext, PTL DEF Spec

\* While the file can be written, what was answered and not taken back stays disjoint over restarts.
THEOREM PromisesStayDisjoint ==
    ASSUME ~SaveFails
    PROVE  Spec => []PromisesDisjoint
<1>1. PoolInv => PromisesDisjoint
  BY DEF PoolInv, PromisesDisjoint, Kept, Disjoint
<1> QED
  BY <1>1, PoolInvInit, PoolInvNext, PTL DEF Spec

(***************************************************************************)
(* The firewall's set, step by step: it is replaced whenever the map is.    *)
(***************************************************************************)
LEMMA SaveInStep ==
    ASSUME NEW mid, NEW L, Save(mid, L), leases' = L, now' = now
    PROVE  FirewallInStep'
  BY DEF Save, FirewallInStep, Live

\* The firewall stays in step while the pool stays the same.
LEMMA SameInStep ==
    ASSUME FirewallInStep, UNCHANGED <<now, up, leases, fw>>
    PROVE  FirewallInStep'
  BY DEF FirewallInStep, Live

\* It stays in step when delegations end.
LEMMA EndInStep ==
    ASSUME FirewallInStep, NEW mid, NEW ls, End(mid, ls), UNCHANGED <<now, up>>
    PROVE  FirewallInStep'
<1>1. CASE ls # {}
  BY <1>1, SaveInStep DEF End
<1>2. CASE ls = {}
  <2>1. leases' = leases /\ fw' = fw
    BY <1>2 DEF End
  <2> QED
    BY <2>1, SameInStep
<1> QED
  BY <1>1, <1>2

\* Every step keeps the firewall in step.
LEMMA FirewallNext == PoolInv /\ FirewallInStep /\ [Next]_vars => FirewallInStep'
<1> SUFFICES ASSUME PoolInv, FirewallInStep, [Next]_vars PROVE FirewallInStep'
  OBVIOUS
<1>1. ASSUME NEW i \in Ifaces, NEW r \in Routers, NEW peer \in Peers[r], NEW want \in Hints,
             Delegate(i, r, peer, want)
      PROVE  FirewallInStep'
  <2> DEFINE first == Once(i, r, peer, want)
             both == Twice(i, r, peer, want)
  <2>1. up /\ UNCHANGED <<now, up>> /\ Finish(first, both)
    BY <1>1 DEF Delegate
  <2>2. PoolOK(both)
    BY <2>1, GrantsOK
  <2> HIDE DEF first, both
  <2>3. CASE both.saved
    BY <2>1, <2>3, SaveInStep DEF Finish
  <2>4. CASE ~both.saved
    <3>1. leases' = leases /\ fw' = fw
      BY <2>1, <2>2, <2>4 DEF Finish, PoolOK
    <3> QED
      BY <2>1, <3>1, SameInStep
  <2> QED
    BY <2>3, <2>4
<1>2. ASSUME NEW i \in Ifaces, NEW r \in Routers, Undelegate(i, r) PROVE FirewallInStep'
  BY <1>2, EndInStep DEF Undelegate
<1>3. ASSUME NEW i \in Ifaces, ExpireLeases(i) PROVE FirewallInStep'
  BY <1>3, EndInStep DEF ExpireLeases
<1>4. ASSUME NEW i \in Ifaces, Take(i) PROVE FirewallInStep'
  <2>1. CASE ch[i][1].moved
    BY <1>4, <2>1, EndInStep DEF Take
  <2>2. CASE ~ch[i][1].moved
    BY <1>4, <2>2, SameInStep DEF Take, pool
  <2> QED
    BY <2>1, <2>2
<1>5. ASSUME NEW i \in Ifaces, Serve(i) \/ LinkDown(i) PROVE FirewallInStep'
  BY <1>5, SameInStep DEF Serve, LinkDown
<1>6. ASSUME NEW o \in Offers, Publish(o) PROVE FirewallInStep'
  BY <1>6, SameInStep DEF Publish, pool
<1>7. CASE Start
  <2>1. leases' = {l \in file : Live(l)} /\ fw' = {l.pf : l \in {m \in file : Live(m)}} /\ now' = now
    BY <1>7 DEF Start
  <2> QED
    BY <2>1 DEF FirewallInStep, Live
<1>8. CASE Stop
  BY <1>8 DEF Stop, FirewallInStep
<1>9. CASE Tick
  <2>1. now' = now + 1 /\ now \in Nat /\ UNCHANGED <<up, leases, fw>>
    BY <1>9 DEF Tick, PoolInv
  <2>2. \A l \in leases : l.expires \in Nat
    BY DEF PoolInv
  <2> QED
    BY <2>1, <2>2 DEF FirewallInStep, Live
<1>10. CASE UNCHANGED vars
  BY <1>10, SameInStep DEF vars, pool
<1> QED
  BY <1>1, <1>2, <1>3, <1>4, <1>5, <1>6, <1>7, <1>8, <1>9, <1>10, Zenon DEF Next, Crash, CrashDelegating

\* The firewall knows every live delegation and nothing else but expired ones not yet swept, over
\* requests, releases, sweeps, snapshots, restarts and writes that fail (save publishes first).
THEOREM FirewallStaysInStep == Spec => []FirewallInStep
<1>1. Init => FirewallInStep
  BY DEF Init, FirewallInStep
<1> QED
  BY <1>1, PoolInvInit, PoolInvNext, FirewallNext, PTL DEF Spec

(***************************************************************************)
(* The refinement of Promises.                                              *)
(***************************************************************************)
\* delegate's commit for a router leaves alone what the others were promised.
LEMMA CommitLeavesOthers ==
    ASSUME NEW i, NEW r, NEW ula, NEW peer, NEW want, NEW st, NEW t, t.r # r
    PROVE  t \in Commit(st, i, <<r, ula>>, peer, want).told <=> t \in st.told
<1> DEFINE key == <<r, ula>>
           p == Pick(st.leases, snap[i], key, HintFor(want, key))
           l == LeaseOf(p, i, r, peer)
           new == Commit(st, i, key, peer, want)
<1>1. CASE p.ok
  <2>1. new = Given(st, l)
    BY <1>1, Zenon DEF Commit, Answered
  <2>2. l.r = r
    BY DEF LeaseOf
  <2> HIDE DEF l, new
  <2>3. new.told = Enter(st.told, l)
    BY <2>1 DEF Given
  <2>4. t # l /\ Key(t) # Key(l)
    BY <2>2 DEF Key
  <2>5. t \in new.told <=> t \in st.told
    BY <2>3, <2>4 DEF Enter
  <2> QED
    BY <2>5 DEF new
<1>2. CASE ~p.ok
  <2>1. new = [leases |-> st.leases, cut |-> st.cut, route |-> st.route,
               told |-> {m \in st.told : Key(m) # key}, saved |-> st.saved]
    BY <1>2, Zenon DEF Commit, Answered
  <2> HIDE DEF new, p
  <2>2. t \in new.told <=> t \in st.told
    BY <2>1 DEF Key
  <2> QED
    BY <2>2 DEF new
<1> QED
  BY <1>1, <1>2

\* Neither grant of a request touches what the other routers were promised.
LEMMA GrantsLeaveOthers ==
    ASSUME NEW i, NEW r, NEW peer, NEW want, NEW t, t.r # r
    PROVE  /\ t \in Once(i, r, peer, want).told <=> t \in told
           /\ t \in Twice(i, r, peer, want).told <=> t \in told
<1>1. t \in Once(i, r, peer, want).told <=> t \in told
  BY CommitLeavesOthers DEF Once, Before
<1>2. t \in Twice(i, r, peer, want).told <=> t \in Once(i, r, peer, want).told
  BY CommitLeavesOthers DEF Twice
<1> QED
  BY <1>1, <1>2

\* A request is an answer to its router, or takes back what it had.
LEMMA DelegatePromises ==
    ASSUME PoolInv, ~SaveFails, NEW i \in Ifaces, NEW r, NEW peer, NEW want,
           Delegate(i, r, peer, want)
    PROVE  Abstract!Next
<1> DEFINE both == Twice(i, r, peer, want)
           P == {t \in Lasting' : t.r = r}
<1>1. up /\ now' = now /\ leases' = both.leases /\ told' = both.told
  BY DEF Delegate, Finish
<1>2. PoolOK(both)
  BY <1>1, GrantsOK
<1>3. \A t : t.r # r => (t \in both.told <=> t \in told)
  BY GrantsLeaveOthers
<1> HIDE DEF both
<1>4. Lasting' = {q \in Lasting : q.r # r} \cup P
  BY <1>1, <1>3 DEF Lasting, Live
<1>5. \A p \in P : p.expires >= now /\ p \in leases' /\ Live(p)
  BY <1>1, <1>2 DEF Lasting, Live, PoolOK, PoolInv
<1>6. \A q \in Lasting : q.r # r => q \in leases' /\ Live(q)
  BY <1>1, <1>2, <1>3 DEF Lasting, PoolOK
<1>7. \A p \in P : \A q \in Lasting : q.r # r => ~Overlaps(p.pf, q.pf)
  BY <1>1, <1>2, <1>5, <1>6 DEF PoolOK, Disjoint, Key
<1>8. CASE P = {}
  <2>1. Lasting' \subseteq Lasting
    BY <1>4, <1>8
  <2> QED
    BY <1>1, <2>1 DEF Abstract!Next, Abstract!TakeBack
<1>9. CASE P # {}
  <2>1. Abstract!Answer(r, P)
    BY <1>1, <1>4, <1>5, <1>7 DEF Abstract!Answer, RouterOf, OverlapOf
  <2>2. r \in {RouterOf(p) : p \in Lasting'} /\ P \in SUBSET Lasting'
    BY <1>9 DEF RouterOf
  <2> QED
    BY <2>1, <2>2 DEF Abstract!Next
<1> QED
  BY <1>8, <1>9

\* Every step of the pool is a step of Promises, or none.
LEMMA StepsPromise ==
    ASSUME PoolInv, ~SaveFails, [Next]_vars
    PROVE  [Abstract!Next]_(Abstract!vars)
<1>1. ASSUME told' \subseteq told, now' = now PROVE Abstract!Next
  BY <1>1 DEF Abstract!Next, Abstract!TakeBack, Lasting, Live
<1>2. ASSUME NEW i \in Ifaces, NEW r \in Routers, NEW peer \in Peers[r], NEW want \in Hints,
             Delegate(i, r, peer, want)
      PROVE  Abstract!Next
  BY <1>2, DelegatePromises
<1>3. ASSUME NEW i \in Ifaces, NEW r \in Routers, NEW peer \in Peers[r], NEW want \in Hints,
             CrashDelegating(i, r, peer, want)
      PROVE  Abstract!Next
  <2>1. PICK st \in {Once(i, r, peer, want), Twice(i, r, peer, want)} :
           told' = {t \in st.told : t.r # r}
    BY <1>3 DEF CrashDelegating
  <2>2. told' \subseteq told
    BY <2>1, GrantsLeaveOthers
  <2> QED
    BY <1>1, <1>3, <2>2 DEF CrashDelegating
<1>4. ASSUME NEW mid, NEW ls, End(mid, ls), now' = now PROVE Abstract!Next
  BY <1>1, <1>4 DEF End
<1>5. ASSUME NEW i \in Ifaces, NEW r \in Routers, Undelegate(i, r) PROVE Abstract!Next
  BY <1>4, <1>5 DEF Undelegate
<1>6. ASSUME NEW i \in Ifaces, ExpireLeases(i) PROVE Abstract!Next
  BY <1>4, <1>6 DEF ExpireLeases
<1>7. ASSUME NEW i \in Ifaces, Take(i) PROVE Abstract!Next
  BY <1>1, <1>4, <1>7 DEF Take, pool
<1>8. ASSUME NEW i \in Ifaces, Serve(i) \/ LinkDown(i) PROVE Abstract!Next
  BY <1>1, <1>8 DEF Serve, LinkDown
<1>9. CASE Start \/ Crash \/ \E o \in Offers : Publish(o)
  BY <1>1, <1>9 DEF Start, Crash, Publish, pool
<1>10. CASE Tick
  <2>1. now' = now + 1 /\ told' = told /\ now \in Nat /\ \A t \in told : t.expires \in Nat
    BY <1>10 DEF Tick, PoolInv
  <2> QED
    BY <2>1 DEF Abstract!Next, Abstract!Tick, Lasting, Live
<1>11. CASE UNCHANGED vars
  BY <1>11 DEF vars, pool, Abstract!vars, Lasting, Live
<1> QED
  BY <1>2, <1>3, <1>5, <1>6, <1>7, <1>8, <1>9, <1>10, <1>11, Zenon DEF Next

\* newPDPool, pick, save before the answer: while the file can be written pd.go implements Promises,
\* for any prefixes, hints, interfaces and routers, over restarts at any point.
THEOREM PromisesAreKept ==
    ASSUME ~SaveFails
    PROVE  Spec => PromisesKept
<1>1. Init => Abstract!Init
  BY DEF Init, Abstract!Init, Lasting
<1>2. PoolInv /\ [Next]_vars => [Abstract!Next]_(Abstract!vars)
  BY StepsPromise
<1> QED
  BY <1>1, <1>2, PoolInvInit, PoolInvNext, PTL DEF Spec, PromisesKept, Abstract!Spec

(***************************************************************************)
(* The kernel's routes, where no two routers have an address in common.     *)
(***************************************************************************)
\* What holds of the routes between the two keys of an IA_PD.
RoutesOK(st) ==
    /\ Kempt(st.leases)
    /\ \A l \in st.leases : Live(l) /\ serving[l.iface] => RouteTo(l) \in st.route

\* The delegation entered is the only one of its key.
LEMMA EnterKempt ==
    ASSUME NEW L, Kempt(L), NEW l, l.r \in Routers, l.peer \in Peers[l.r], l.iface \in Ifaces
    PROVE  Kempt(Enter(L, l))
  BY DEF Kempt, Enter

\* No route is deleted with another delegation's.
LEMMA OwnRouteOnly ==
    ASSUME OwnPeers, NEW L, Kempt(L), NEW m \in L, NEW x \in L, Key(m) # Key(x), NEW R,
           RouteTo(m) \in R
    PROVE  RouteTo(m) \in RouteDel(R, x)
<1>1. m.r \in Routers /\ x.r \in Routers /\ m.peer \in Peers[m.r] /\ x.peer \in Peers[x.r]
  BY DEF Kempt
<1>2. m.pf = x.pf => m.r # x.r
  BY DEF Key
<1>3. m.pf # x.pf \/ m.peer # x.peer
  BY <1>1, <1>2 DEF OwnPeers
<1>4. RouteTo(m).dst = m.pf /\ RouteTo(m).peer = m.peer
  BY DEF RouteTo
<1> QED
  BY <1>3, <1>4 DEF RouteDel

\* delegate's commit keeps every live delegation routed: the routes it deletes are those of the
\* delegation it replaces, and the one it sets replaces no live delegation's.
LEMMA CommitRouted ==
    ASSUME OwnPeers, now \in Nat, NEW i \in Ifaces, SnapOK(snap[i]), NEW r \in Routers, NEW ula,
           NEW peer \in Peers[r], NEW want, NEW st, RoutesOK(st)
    PROVE  RoutesOK(Commit(st, i, <<r, ula>>, peer, want))
<1> DEFINE key == <<r, ula>>
           p == Pick(st.leases, snap[i], key, HintFor(want, key))
           l == LeaseOf(p, i, r, peer)
           new == Commit(st, i, key, peer, want)
<1>1. CASE p.ok
  <2>1. Free(st.leases, snap[i], p.pf, key) /\ p.pf.ula = ula
    BY <1>1, PickSafe
  <2> HIDE DEF p
  <2>2. Key(l) = key /\ l.pf = p.pf /\ l.r = r /\ l.peer = peer /\ l.iface = i
    BY <2>1 DEF LeaseOf, Key
  <2>3. new = Given(st, l)
    BY <1>1, Zenon DEF Commit, Answered, p
  <2> HIDE DEF l, new
  <2> DEFINE cut == RouteDelAll(st.route, Replaced(st.leases, l))
  <2>4. new.leases = Enter(st.leases, l) /\ new.route = RouteSet(cut, l)
    BY <2>3 DEF Given
  <2>5. Kempt(new.leases)
    BY <2>2, <2>4, EnterKempt DEF RoutesOK
  <2>6. ASSUME NEW m \in st.leases, Key(m) # Key(l), Live(m), serving[m.iface]
        PROVE  RouteTo(m) \in new.route
    <3>1. RouteTo(m) \in st.route /\ RouteTo(m).dst = m.pf
      BY <2>6 DEF RoutesOK, RouteTo
    <3>2. \A x \in Replaced(st.leases, l) : RouteTo(m) \in RouteDel(st.route, x)
      BY <2>6, <3>1, OwnRouteOnly DEF RoutesOK, Replaced
    <3>3. RouteTo(m) \in cut
      BY <3>1, <3>2 DEF RouteDelAll
    <3>4. m.pf # l.pf
      BY <2>1, <2>2, <2>6 DEF Free, Overlaps
    <3> HIDE DEF cut
    <3> QED
      BY <2>4, <3>1, <3>3, <3>4 DEF RouteSet
  <2>7. Live(l) => RouteTo(l) \in new.route
    BY <2>4 DEF RouteSet, RouteTo
  <2>8. \A m \in new.leases : m = l \/ (m \in st.leases /\ Key(m) # Key(l))
    BY <2>4 DEF Enter
  <2> QED
    BY <2>5, <2>6, <2>7, <2>8 DEF RoutesOK, new
<1>2. CASE ~p.ok
  <2>1. new = [leases |-> st.leases, cut |-> st.cut, route |-> st.route,
               told |-> {m \in st.told : Key(m) # key}, saved |-> st.saved]
    BY <1>2, Zenon DEF Commit, Answered
  <2> HIDE DEF p, new
  <2>2. new.leases = st.leases /\ new.route = st.route
    BY <2>1
  <2> QED
    BY <2>2 DEF RoutesOK, new
<1> QED
  BY <1>1, <1>2

\* Neither grant of a request loses a route.
LEMMA GrantsRouted ==
    ASSUME OwnPeers, PoolInv, RouteInv, NEW i \in Ifaces, NEW r \in Routers, NEW peer \in Peers[r],
           NEW want
    PROVE  RoutesOK(Once(i, r, peer, want)) /\ RoutesOK(Twice(i, r, peer, want))
<1>1. now \in Nat /\ SnapOK(snap[i])
  BY DEF PoolInv, FeedOK
<1>2. RoutesOK(Before)
  BY DEF RouteInv, LiveRouted, RoutesOK, Before
<1>3. RoutesOK(Once(i, r, peer, want))
  BY <1>1, <1>2, CommitRouted DEF Once
<1>4. RoutesOK(Twice(i, r, peer, want))
  BY <1>1, <1>3, CommitRouted DEF Twice
<1> QED
  BY <1>3, <1>4

\* Fewer delegations are as well kept.
LEMMA SubsetKempt ==
    ASSUME NEW L, NEW M, Kempt(L), M \subseteq L
    PROVE  Kempt(M)
  BY DEF Kempt

\* Ending delegations takes no other one's route.
LEMMA EndRouted ==
    ASSUME OwnPeers, RouteInv, NEW mid, mid \subseteq leases, NEW ls, ls \subseteq leases, End(mid, ls),
           UNCHANGED <<now, up, serving>>
    PROVE  RouteInv'
<1>1. leases' = leases \ ls /\ route' = RouteDelAll(route, ls) /\ file' \in {file, mid, leases'}
  BY DEF End, Save
<1>2. Kempt(leases') /\ Kempt(file')
  BY <1>1, SubsetKempt DEF RouteInv
<1>3. ASSUME NEW m \in leases', Live(m), serving[m.iface] PROVE RouteTo(m) \in route'
  <2>1. m \in leases /\ m \notin ls /\ RouteTo(m) \in route
    BY <1>1, <1>3 DEF RouteInv, LiveRouted
  <2>2. \A x \in ls : Key(m) # Key(x)
    BY <2>1 DEF RouteInv, Kempt
  <2>3. \A x \in ls : RouteTo(m) \in RouteDel(route, x)
    BY <2>1, <2>2, OwnRouteOnly DEF RouteInv
  <2> QED
    BY <1>1, <2>1, <2>3 DEF RouteDelAll
<1> QED
  BY <1>2, <1>3 DEF RouteInv, LiveRouted, Live, Kempt, Key

\* serve sets the routes of the interface's live delegations, which replaces none of another's.
LEMMA ServeRouted ==
    ASSUME PoolInv, RouteInv, NEW i \in Ifaces, Serve(i)
    PROVE  RouteInv'
<1> DEFINE live == {l \in leases : l.iface = i /\ Live(l)}
           sets == {RouteSet({}, l) : l \in live}
<1>1. /\ UNCHANGED <<now, up, leases, file>> /\ up
      /\ serving' = [serving EXCEPT ![i] = TRUE]
      /\ route' = {q \in route : \A l \in live : q.dst # l.pf} \cup UNION sets
  BY DEF Serve
<1>2. ASSUME NEW m \in leases, Live(m), serving'[m.iface] PROVE RouteTo(m) \in route'
  <2>1. CASE m.iface = i
    <3>1. m \in live /\ RouteTo(m) \in RouteSet({}, m)
      BY <1>2, <2>1 DEF RouteSet, RouteTo
    <3> QED
      BY <1>1, <3>1
  <2>2. CASE m.iface # i
    <3>1. serving[m.iface]
      BY <1>1, <1>2, <2>2 DEF RouteInv, Kempt
    <3>2. RouteTo(m) \in route /\ RouteTo(m).dst = m.pf
      BY <1>2, <3>1 DEF RouteInv, LiveRouted, RouteTo
    <3>3. ASSUME NEW l \in live PROVE m.pf # l.pf
      <4>1. Key(m) # Key(l)
        BY <2>2, <3>3 DEF RouteInv, Kempt
      <4> QED
        BY <1>2, <4>1 DEF PoolInv, Disjoint, Overlaps
    <3> HIDE DEF live, sets
    <3> QED
      BY <1>1, <3>2, <3>3
  <2> QED
    BY <2>1, <2>2
<1>3. Kempt(leases') /\ Kempt(file') /\ DOMAIN serving' = Ifaces
  BY <1>1 DEF RouteInv
<1> QED
  BY <1>1, <1>2, <1>3 DEF RouteInv, LiveRouted, Live, Kempt, Key

\* The process ends: no interface is served, and the file is what it was or what was saved.
LEMMA StopRouted ==
    ASSUME RouteInv, Stop, Kempt(file')
    PROVE  RouteInv'
<1>1. ~up' /\ leases' = {} /\ serving' = [i \in Ifaces |-> FALSE]
  BY DEF Stop
<1> QED
  BY <1>1 DEF RouteInv, LiveRouted, Kempt, Key

\* Every step keeps the routes.
LEMMA RouteInvNext ==
    ASSUME OwnPeers, PoolInv, RouteInv, [Next]_vars
    PROVE  RouteInv'
<1>1. ASSUME NEW i \in Ifaces, NEW r \in Routers, NEW peer \in Peers[r], NEW want \in Hints,
             Delegate(i, r, peer, want)
      PROVE  RouteInv'
  <2> DEFINE first == Once(i, r, peer, want)
             both == Twice(i, r, peer, want)
  <2>1. RoutesOK(first) /\ RoutesOK(both)
    BY GrantsRouted
  <2>2. /\ UNCHANGED <<now, up, serving>> /\ leases' = both.leases /\ route' = both.route
        /\ file' \in {file, first.leases, both.leases}
    BY <1>1 DEF Delegate, feed, Finish, Save
  <2> HIDE DEF first, both
  <2>3. Kempt(leases') /\ Kempt(file')
    BY <2>1, <2>2 DEF RoutesOK, RouteInv
  <2> QED
    BY <2>1, <2>2, <2>3 DEF RoutesOK, RouteInv, LiveRouted, Live, Kempt, Key
<1>2. ASSUME NEW i \in Ifaces, NEW r \in Routers, NEW peer \in Peers[r], NEW want \in Hints,
             CrashDelegating(i, r, peer, want)
      PROVE  RouteInv'
  <2>1. RoutesOK(Once(i, r, peer, want)) /\ RoutesOK(Twice(i, r, peer, want))
    BY GrantsRouted
  <2>2. \/ file' \in {file, Once(i, r, peer, want).leases}
        \/ file' = Twice(i, r, peer, want).leases
    BY <1>2 DEF CrashDelegating
  <2>3. Kempt(file')
    BY <2>1, <2>2 DEF RoutesOK, RouteInv
  <2> QED
    BY <1>2, <2>3, StopRouted DEF CrashDelegating
<1>3. ASSUME NEW i \in Ifaces, NEW r \in Routers, Undelegate(i, r) PROVE RouteInv'
  BY <1>3, EndRouted DEF Undelegate, feed
<1>4. ASSUME NEW i \in Ifaces, ExpireLeases(i) PROVE RouteInv'
  BY <1>4, EndRouted DEF ExpireLeases, feed
<1>5. ASSUME NEW i \in Ifaces, Take(i) PROVE RouteInv'
  <2>1. CASE ch[i][1].moved
    BY <1>5, <2>1, EndRouted DEF Take
  <2>2. CASE ~ch[i][1].moved
    <3>1. UNCHANGED <<now, up, serving, leases, file, route>>
      BY <1>5, <2>2 DEF Take, pool
    <3> QED
      BY <3>1 DEF RouteInv, LiveRouted, Live, Kempt, Key
  <2> QED
    BY <2>1, <2>2
<1>6. ASSUME NEW i \in Ifaces, Serve(i) PROVE RouteInv'
  BY <1>6, ServeRouted
<1>7. ASSUME NEW i \in Ifaces, LinkDown(i) PROVE RouteInv'
  <2>1. /\ UNCHANGED <<now, up, leases, file>> /\ up
        /\ serving' = [serving EXCEPT ![i] = FALSE] /\ route' = {q \in route : q.iface # i}
    BY <1>7 DEF LinkDown
  <2>2. ASSUME NEW m \in leases, Live(m), serving'[m.iface] PROVE RouteTo(m) \in route'
    <3>1. m.iface # i /\ serving[m.iface]
      BY <2>1, <2>2 DEF RouteInv, Kempt
    <3>2. RouteTo(m) \in route /\ RouteTo(m).iface = m.iface
      BY <2>2, <3>1 DEF RouteInv, LiveRouted, RouteTo
    <3> QED
      BY <2>1, <3>1, <3>2
  <2>3. Kempt(leases') /\ Kempt(file') /\ DOMAIN serving' = Ifaces
    BY <2>1 DEF RouteInv
  <2> QED
    BY <2>1, <2>2, <2>3 DEF RouteInv, LiveRouted, Live, Kempt, Key
<1>8. ASSUME NEW o \in Offers, Publish(o) PROVE RouteInv'
  <2>1. UNCHANGED <<now, up, serving, leases, file, route>>
    BY <1>8 DEF Publish, pool
  <2> QED
    BY <2>1 DEF RouteInv, LiveRouted, Live, Kempt, Key
<1>9. CASE Start
  <2>1. ~up /\ up' /\ leases' \subseteq file /\ UNCHANGED <<serving, file>>
    BY <1>9 DEF Start, feed
  <2>2. Kempt(leases') /\ Kempt(file')
    BY <2>1, SubsetKempt DEF RouteInv
  <2>3. \A i \in Ifaces : ~serving'[i]
    BY <2>1 DEF RouteInv
  <2>4. \A l \in leases' : ~serving'[l.iface]
    BY <2>2, <2>3 DEF Kempt
  <2> QED
    BY <2>1, <2>2, <2>4 DEF RouteInv, LiveRouted, Kempt, Key
<1>10. CASE Crash
  BY <1>10, StopRouted DEF Crash, RouteInv
<1>11. CASE Tick
  <2>1. /\ now' = now + 1 /\ now \in Nat /\ UNCHANGED <<up, serving, leases, file>>
        /\ route' = {q \in route : q.until = Never \/ q.until > now + 1}
    BY <1>11 DEF Tick, feed, PoolInv
  <2>2. ASSUME NEW m \in leases, now' < m.expires, serving[m.iface] PROVE RouteTo(m) \in route'
    <3>1. m.expires \in Nat
      BY DEF PoolInv
    <3>2. RouteTo(m) \in route /\ RouteTo(m).until = m.expires
      BY <2>1, <2>2, <3>1 DEF RouteInv, LiveRouted, RouteTo, Live
    <3> QED
      BY <2>1, <2>2, <3>1, <3>2
  <2> QED
    BY <2>1, <2>2 DEF RouteInv, LiveRouted, Live, Kempt, Key
<1>12. CASE UNCHANGED vars
  BY <1>12 DEF vars, feed, pool, RouteInv, LiveRouted, Live, Kempt, Key
<1> QED
  BY <1>1, <1>2, <1>3, <1>4, <1>5, <1>6, <1>7, <1>8, <1>9, <1>10, <1>11, <1>12, Zenon DEF Next

\* pdRoute, restoreRoutes and the deletions of undelegate, dropDelegations and delegate: a live
\* delegation is routed to its router while its interface is up, for any prefixes, hints, interfaces
\* and restarts, as long as no two of the IA_PDs are asked for from one address.
THEOREM LiveStayRouted ==
    ASSUME OwnPeers
    PROVE  Spec => []LiveRouted
<1>1. Init => RouteInv
  BY DEF Init, RouteInv, LiveRouted, Kempt
<1>2. PoolInv /\ RouteInv /\ [Next]_vars => RouteInv'
  BY RouteInvNext
<1>3. RouteInv => LiveRouted
  BY DEF RouteInv
<1> QED
  BY <1>1, <1>2, <1>3, PoolInvInit, PoolInvNext, PTL DEF Spec

(***************************************************************************)
(* A router is refused only when nothing is free.                           *)
(***************************************************************************)
\* The candidates from any start go round the whole delegation.
LEMMA RoundReaches ==
    ASSUME NEW W \in Nat \ {0}, NEW h \in Nat, NEW k \in 0..(W - 1)
    PROVE  \E i \in 0..(W - 1) : (h + i) % W = k
<1> DEFINE q == h \div W
           s == h % W
<1>1. q \in Nat /\ s \in 0..(W - 1) /\ h = W * q + s
  OBVIOUS
<1> HIDE DEF q, s
<1>2. CASE s <= k
  <2>1. k - s \in 0..(W - 1) /\ h + (k - s) = W * q + k
    BY <1>1, <1>2
  <2>2. (W * q + k) % W = k
    BY <1>1
  <2> QED
    BY <2>1, <2>2
<1>3. CASE k < s
  <2>1. (W + k) - s \in 0..(W - 1)
    BY <1>1, <1>3
  <2>2. W * (q + 1) = W * q + W
    BY <1>1
  <2>3. h + ((W + k) - s) = W * (q + 1) + k
    BY <1>1, <2>2
  <2>4. (W * (q + 1) + k) % W = k
    BY <1>1
  <2> QED
    BY <2>1, <2>3, <2>4
<1> QED
  BY <1>1, <1>2, <1>3

\* A free /64 is one of the places looked at.
LEMMA FreeIsProbed ==
    ASSUME NEW L, NEW s, NEW key \in Routers \X BOOLEAN, NEW u, u.bits \in 0..64, u.lo \in Int,
           Span(u) \in 1..MaxProbes, NEW k \in 0..(Span(u) - 1),
           Free(L, s, [lo |-> u.lo + k, bits |-> 64, ula |-> u.ula], key)
    PROVE  FreeSlots(L, s, u, 64, key) # {}
<1> DEFINE W == Span(u)
<1>1. W \in Nat \ {0} /\ W <= MaxProbes /\ MaxProbes \in Nat /\ Hash[key] \in Nat
  BY PoolAssumption
<1>2. 2 ^ (64 - u.bits) = W
  BY DEF Span
<1>3. Lesser(W, MaxProbes) = W
  BY <1>1 DEF Lesser
<1> HIDE DEF W
<1>4. PICK i \in 0..(W - 1) : (Hash[key] + i) % W = k
  BY <1>1, RoundReaches DEF W
<1>5. 2 ^ (64 - 64) = 1
  <2>1. 64 - 64 = 0 /\ 2 ^ 0 = 1
    OBVIOUS
  <2> QED
    BY <2>1
<1>6. u.lo + k * 1 = u.lo + k
  BY <1>1 DEF W
<1>7. Slot(u, 64, key, i) = [lo |-> u.lo + k, bits |-> 64, ula |-> u.ula]
  BY <1>2, <1>4, <1>5, <1>6, Zenon DEF Slot
<1>8. i \in FreeSlots(L, s, u, 64, key)
  BY <1>2, <1>3, <1>4, <1>7, Zenon DEF FreeSlots
<1> QED
  BY <1>8

\* 64 is one of the lengths tried, whatever the hint.
LEMMA LastLength ==
    ASSUME NEW u, u.bits \in 0..64, u.bits < 64, NEW want, want.bits \in Int
    PROVE  64 \in Lengths(u, want)
<1>1. 64 >= Shortest(u.bits)
  BY PoolAssumption DEF Shortest
<1>2. 64 >= Lesser(want.bits, 64)
  BY DEF Lesser
<1> QED
  BY <1>1, <1>2 DEF Lengths

\* pick refuses only when there is no block.
LEMMA PickGives ==
    ASSUME NEW L, NEW s, NEW key, NEW want, Blocks(L, s, key, want) # {}
    PROVE  Pick(L, s, key, want).ok
<1> DEFINE held == {l \in L : Key(l) = key /\ Usable(L, s, l.pf, key)}
           l == CHOOSE m \in held : TRUE
           from(pf) == s.ups[Min(Home(s, pf, key))].valid
           j == Min(Blocks(L, s, key, want))
<1>1. \/ Pick(L, s, key, want) = Picked(l.pf, from(l.pf))
      \/ Pick(L, s, key, want) = Picked(want, from(want))
      \/ Pick(L, s, key, want) = Picked(FirstBlock(L, s, j, key, want), s.ups[j].valid)
  BY Zenon DEF Pick
<1>2. \A pf, valid : Picked(pf, valid).ok
  BY DEF Picked
<1> QED
  BY <1>1, <1>2, Zenon

\* What the snapshots have in them is what the store was offered.
LEMMA FitsInit == Init => FeedFits
  BY DEF Init, FeedFits, Fits, EmptySnap

\* Every step keeps it.
LEMMA FitsNext ==
    ASSUME Probed, FeedFits, [Next]_vars
    PROVE  FeedFits'
<1>1. Fits(EmptySnap)
  BY DEF Fits, EmptySnap
<1>2. ASSUME NEW o \in Offers, Publish(o) PROVE FeedFits'
  <2> DEFINE s == Dated(o)
  <2>1. o.ups \in Seq(Upstream)
    BY PoolAssumption DEF Snap
  <2>2. s.ups = [j \in DOMAIN o.ups |-> [o.ups[j] EXCEPT !.valid = now + @]]
    BY Zenon DEF Dated
  <2>3. \A j \in DOMAIN o.ups : o.ups[j] \in Upstream
    BY <2>1
  <2>4. \A u \in Upstream : /\ [u EXCEPT !.valid = now + @].bits = u.bits /\ u.bits \in 0..64
                              /\ [u EXCEPT !.valid = now + @].lo = u.lo /\ u.lo \in Nat
    BY DEF Upstream
  <2> HIDE DEF s
  <2>5. /\ DOMAIN s.ups = DOMAIN o.ups
        /\ \A j \in DOMAIN o.ups : s.ups[j].bits = o.ups[j].bits /\ s.ups[j].lo = o.ups[j].lo
    BY <2>2, <2>3, <2>4, Zenon
  <2>6. Fits(s)
    BY <2>3, <2>4, <2>5 DEF Fits, Probed, Span
  <2>7. cur' = s /\ snap' = snap /\ DOMAIN ch' = Ifaces /\ \A i \in Ifaces : ch'[i][1].snap = s
    BY <1>2 DEF Publish, s
  <2> QED
    BY <2>6, <2>7 DEF FeedFits
<1>3. ASSUME NEW i \in Ifaces, Take(i) PROVE FeedFits'
  BY <1>3 DEF Take, FeedFits
<1>4. ASSUME NEW i \in Ifaces, Serve(i) PROVE FeedFits'
  BY <1>4 DEF Serve, FeedFits
<1>5. CASE Stop
  BY <1>1, <1>5 DEF Stop, FeedFits
<1>6. CASE UNCHANGED <<cur, snap, ch>>
  BY <1>6 DEF FeedFits
<1>7. ASSUME NEW i \in Ifaces, NEW r \in Routers, NEW peer \in Peers[r], NEW want \in Hints,
             Delegate(i, r, peer, want) \/ CrashDelegating(i, r, peer, want)
      PROVE  FeedFits'
  BY <1>5, <1>6, <1>7 DEF Delegate, CrashDelegating, feed
<1>8. ASSUME NEW i \in Ifaces, NEW r \in Routers, Undelegate(i, r) PROVE FeedFits'
  BY <1>6, <1>8 DEF Undelegate, feed
<1>9. ASSUME NEW i \in Ifaces, ExpireLeases(i) \/ LinkDown(i) PROVE FeedFits'
  BY <1>6, <1>9 DEF ExpireLeases, LinkDown, feed
<1>10. CASE Start \/ Crash \/ Tick \/ UNCHANGED vars
  BY <1>5, <1>6, <1>10 DEF Start, Crash, Tick, vars, feed
<1> QED
  BY <1>2, <1>3, <1>4, <1>7, <1>8, <1>9, <1>10, Zenon DEF Next

\* pick, "so a hint for more space is cut down, never refused": out of delegations with no more /64s
\* than it looks at, a router gets a prefix whenever a single /64 is free for it, whatever it asks
\* for, for any hash and any delegations of others.
THEOREM RefusedOnlyWhenFull ==
    ASSUME Probed
    PROVE  Spec => []NeverRefusedWhileFree
<1>1. FeedFits /\ PoolInv => NeverRefusedWhileFree
  <2> SUFFICES ASSUME FeedFits, PoolInv, NEW i \in Ifaces, NEW r \in Routers, NEW ula \in BOOLEAN,
                      NEW want \in Hints, NEW j \in Delegable(snap[i], ula),
                      NEW k \in 0..(Span(snap[i].ups[j]) - 1),
                      Free(leases, snap[i], [lo |-> snap[i].ups[j].lo + k, bits |-> 64, ula |-> ula],
                           <<r, ula>>)
               PROVE  Pick(leases, snap[i], <<r, ula>>, HintFor(want, <<r, ula>>)).ok
    BY DEF NeverRefusedWhileFree
  <2> DEFINE key == <<r, ula>>
             u == snap[i].ups[j]
             w == HintFor(want, key)
  <2>1. key \in Routers \X BOOLEAN /\ key[2] = ula
    OBVIOUS
  <2>2. u.ula = ula /\ u.bits < 64 /\ j \in DOMAIN snap[i].ups
    BY DEF Delegable
  <2>3. u.bits \in 0..64 /\ u.lo \in Int /\ Span(u) \in 1..MaxProbes
    <3>1. Fits(snap[i])
      BY DEF FeedFits
    <3>2. u.lo \in Nat /\ u.bits \in 0..64 /\ Span(u) \in 1..MaxProbes
      BY ONLY <2>2, <3>1 DEF Fits
    <3> HIDE DEF u
    <3> QED
      BY ONLY <3>2
  <2>4. w.bits \in Int
    BY PoolAssumption DEF HintFor, NoHint
  <2> HIDE DEF key, u, w
  <2>5. FreeSlots(leases, snap[i], u, 64, key) # {}
    BY <2>1, <2>2, <2>3, FreeIsProbed DEF u, key
  <2>6. 64 \in FreeLengths(leases, snap[i], j, key, w)
    BY <2>2, <2>3, <2>4, <2>5, LastLength DEF FreeLengths, u
  <2>7. j \in Blocks(leases, snap[i], key, w)
    BY <2>1, <2>6 DEF Blocks
  <2> QED
    BY <2>7, PickGives DEF key, w
<1>2. FeedFits /\ [Next]_vars => FeedFits'
  BY FitsNext
<1> QED
  BY <1>1, <1>2, FitsInit, PoolInvInit, PoolInvNext, PTL DEF Spec
=============================================================================
