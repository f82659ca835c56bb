------------------------- MODULE AddrManagerProofs -------------------------
(***************************************************************************)
(* Proofs about the address manager, for any prefixes, policies, snapshots *)
(* and addresses that AddrManager admits.                                  *)
(*                                                                         *)
(* A step is a chain of operations on the manager: each has a lemma on the *)
(* fields it changes and one on the parts of the invariant it keeps. Steps *)
(* of the temporary addresses (TempStep) leave all the others alone;       *)
(* applyPrefixAddrs may take an endpoint over, so that Apart holds again   *)
(* only after applyEndpoints; a poll may add addresses in its middle, so   *)
(* that Still holds again only at its end.                                 *)
(***************************************************************************)
EXTENDS AddrManager, WellFoundedInduction, FiniteSetTheorems, TLAPS

----------------------------------------------------------------------------
(* The manager as a record *)

Fields == {"snap", "applied", "plens", "dadCnt", "dadDue", "dadWait", "announce", "endpoints",
           "temps", "wanAddr", "kernel", "conflicts", "self", "adopted"}
Rec(x) == x = [f \in Fields |-> x[f]]

\* y is x but for the fields in F.
Alike(x, y, F) == Rec(y) /\ \A f \in Fields \ F : y[f] = x[f]

\* awaitAnnounce lists the addresses and, if there are any, has a poll follow.
LEMMA AwaitFields ==
  ASSUME NEW x, NEW S, Rec(x)
  PROVE  /\ Alike(x, awaitAnnounce(x, S), {"announce", "dadDue"})
         /\ DOMAIN awaitAnnounce(x, S).announce = DOMAIN x.announce \cup S
         /\ awaitAnnounce(x, S).dadDue = (x.dadDue \/ S # {})
BY DEF Rec, Fields, Alike, awaitAnnounce, With

\* remove takes temporary addresses from the interface and the list.
LEMMA RemoveFields ==
  ASSUME NEW x, NEW S, Rec(x)
  PROVE  /\ Alike(x, remove(x, S), {"kernel", "temps"})
         /\ remove(x, S).kernel = Without(x.kernel, S)
         /\ remove(x, S).temps = Without(x.temps, S)
BY DEF Rec, Fields, Alike, remove

\* append leaves the temporary addresses there are as they are.
LEMMA AppendFields ==
  ASSUME NEW x, NEW S, NEW state, Rec(x)
  PROVE  /\ Alike(x, append(x, S, state), {"temps"})
         /\ DOMAIN append(x, S, state).temps = DOMAIN x.temps \cup S
         /\ \A a \in S : /\ append(x, S, state).temps[a].state = state
                         /\ DOMAIN append(x, S, state).temps[a] = {"state", "empty", "born"}
         /\ \A a \in DOMAIN x.temps \ S : append(x, S, state).temps[a] = x.temps[a]
BY DEF Rec, Fields, Alike, append

----------------------------------------------------------------------------
(* Types *)

\* The endpoints the store may publish, without the leased address.
Tunnels == UNION {s.endpoints : s \in Snapshots}

Published ==
    [static : SUBSET Prefixes64, temp : SUBSET Prefixes64, active : SUBSET Prefixes64, plen : Nat,
     endpoints : SUBSET (Tunnels \cup {Leased}), wan : {None, Leased}, aftr : BOOLEAN]

Entries == [dad : {"tentative", "ok", "failed"}, pref : BOOLEAN, finite : BOOLEAN, plen : Nat]

Typed(x) ==
    /\ Rec(x)
    /\ x.snap \in Published
    /\ Leased \in x.snap.endpoints => x.snap.wan = Leased
    /\ x.dadDue \in BOOLEAN
    /\ \A a \in DOMAIN x.kernel : x.kernel[a] \in Entries
    /\ \A a \in DOMAIN x.temps : DOMAIN x.temps[a] = {"state", "empty", "born"}
    /\ x.dadCnt \in [Prefixes64 -> [Policies -> 0 .. MaxCounter]]

\* n is k with S set: entries that were there keep their verdict.
IsSet(k, S, dad, finite, n) ==
    /\ DOMAIN n = DOMAIN k \cup S
    /\ \A a \in DOMAIN n : n[a] \in Entries
    /\ \A a \in DOMAIN k \ S : n[a] = k[a]
    /\ \A a \in S : n[a].finite = finite
    /\ \A a \in S \cap DOMAIN k : n[a].dad = k[a].dad
    /\ \A a \in S \ DOMAIN k : n[a].dad = dad

\* addrSet for an address to be used no longer.
LEMMA DeprecatedSet ==
  ASSUME NEW k, NEW S, NEW plen \in Nat, \A a \in DOMAIN k : k[a] \in Entries
  PROVE  IsSet(k, S, "ok", FALSE, addrSet(k, S, "ok", FALSE, FALSE, plen))
BY DEF addrSet, Entry, Entries, IsSet

\* addrSet for a new temporary address.
LEMMA TempSet ==
  ASSUME NEW k, NEW S, NEW plen \in Nat, \A a \in DOMAIN k : k[a] \in Entries
  PROVE  IsSet(k, S, "tentative", FALSE, addrSet(k, S, "tentative", TRUE, FALSE, plen))
BY DEF addrSet, Entry, Entries, IsSet

\* addrSet for a static or a leased address.
LEMMA StaticSet ==
  ASSUME NEW k, NEW S, NEW plen \in Nat, \A a \in DOMAIN k : k[a] \in Entries
  PROVE  IsSet(k, S, "tentative", TRUE, addrSet(k, S, "tentative", TRUE, TRUE, plen))
BY DEF addrSet, Entry, Entries, IsSet

\* addrSet for an endpoint of its own.
LEMMA EndpointSet ==
  ASSUME NEW k, NEW S, NEW plen \in Nat, \A a \in DOMAIN k : k[a] \in Entries
  PROVE  IsSet(k, S, "tentative", FALSE, addrSet(k, S, "tentative", FALSE, FALSE, plen))
BY DEF addrSet, Entry, Entries, IsSet

\* deprecate changes the state of S and no verdict.
LEMMA DeprecateFields ==
  ASSUME NEW x, NEW S, Typed(x)
  PROVE  /\ Alike(x, deprecate(x, S), {"kernel", "temps"})
         /\ IsSet(x.kernel, S, "ok", FALSE, deprecate(x, S).kernel)
         /\ DOMAIN deprecate(x, S).temps = DOMAIN x.temps
         /\ \A a \in DOMAIN x.temps :
              /\ DOMAIN deprecate(x, S).temps[a] = {"state", "empty", "born"}
              /\ deprecate(x, S).temps[a].state = IF a \in S THEN "deprecated" ELSE x.temps[a].state
<1> DEFINE d == deprecate(x, S)
<1>1. /\ Alike(x, d, {"kernel", "temps"})
      /\ d.kernel = addrSet(x.kernel, S, "ok", FALSE, FALSE, x.snap.plen)
      /\ d.temps = [a \in DOMAIN x.temps |->
           IF a \in S THEN [x.temps[a] EXCEPT !.state = "deprecated", !.empty = 0]
           ELSE x.temps[a]]
  BY DEF Typed, Rec, Fields, Alike, deprecate
<1> HIDE DEF d
<1>2. x.snap.plen \in Nat /\ \A a \in DOMAIN x.kernel : x.kernel[a] \in Entries
  BY DEF Typed, Published
<1>3. IsSet(x.kernel, S, "ok", FALSE, d.kernel)
  <2>1. d.kernel = addrSet(x.kernel, S, "ok", FALSE, FALSE, x.snap.plen)
    BY <1>1
  <2>2. IsSet(x.kernel, S, "ok", FALSE, addrSet(x.kernel, S, "ok", FALSE, FALSE, x.snap.plen))
    BY <1>2, DeprecatedSet
  <2> QED
    BY <2>1, <2>2
<1>4. \A a \in DOMAIN x.temps : DOMAIN x.temps[a] = {"state", "empty", "born"}
  BY DEF Typed
<1>5. /\ DOMAIN d.temps = DOMAIN x.temps
      /\ \A a \in DOMAIN x.temps :
           /\ DOMAIN d.temps[a] = {"state", "empty", "born"}
           /\ d.temps[a].state = IF a \in S THEN "deprecated" ELSE x.temps[a].state
  BY <1>1, <1>4
<1> QED
  BY <1>1, <1>3, <1>5 DEF d

----------------------------------------------------------------------------
(* Temporary addresses *)

\* A preferred temporary address is a random one, configured to outlive the
\* kernel's verdict, and the only one of its prefix; the others are random
\* or adopted.
OwnTemps(x) ==
    /\ preferred(x) \subseteq Pool
    /\ DOMAIN x.temps \subseteq Pool \cup x.adopted
    /\ \A a \in preferred(x) : a \in DOMAIN x.kernel /\ ~x.kernel[a].finite
    /\ \A a, b \in preferred(x) : PrefixOf[a] = PrefixOf[b] => a = b

\* A step of the temporary addresses: nobody else's address is touched, and
\* without a poll to come there is no new one.
TempStep(x, y) ==
    /\ Alike(x, y, {"kernel", "temps", "announce", "dadDue", "wanAddr"})
    /\ Typed(y)
    /\ OwnTemps(y)
    /\ x.dadDue => y.dadDue
    /\ DOMAIN x.announce \subseteq DOMAIN y.announce
    /\ DOMAIN y.kernel \subseteq DOMAIN x.kernel \cup Pool
    /\ \A a \in DOMAIN x.kernel \ (Pool \cup x.adopted) :
          a \in DOMAIN y.kernel /\ y.kernel[a] = x.kernel[a]
    /\ \A a \in preferred(y) : a \in preferred(x) \/ PrefixOf[a] \in x.snap.active
    /\ y.dadDue \/ \A a \in preferred(y) : a \in preferred(x) /\ y.kernel[a].dad = x.kernel[a].dad

\* Steps of the temporary addresses one after the other are one.
LEMMA StepTrans ==
  ASSUME NEW x, NEW y, NEW z, Typed(x), TempStep(x, y), TempStep(y, z)
  PROVE  TempStep(x, z)
<1>1. y.adopted = x.adopted /\ y.snap = x.snap
  BY DEF TempStep, Alike, Fields
<1>2. Alike(x, z, {"kernel", "temps", "announce", "dadDue", "wanAddr"})
  BY DEF TempStep, Alike
<1> QED
  BY <1>1, <1>2 DEF TempStep

\* No step is one.
LEMMA StepStutter ==
  ASSUME NEW x, Typed(x), OwnTemps(x)
  PROVE  TempStep(x, x)
BY DEF TempStep, Alike, Typed

\* New addresses are random, new to the interface, and one per prefix.
LEMMA CreatedFacts ==
  ASSUME NEW x, NEW T \in SUBSET Prefixes64
  PROVE  /\ \A a \in created(x, T) : /\ a \in Pool /\ PrefixOf[a] \in T
                                     /\ a \notin DOMAIN x.kernel /\ a \notin DOMAIN x.temps
         /\ \A a, b \in created(x, T) : PrefixOf[a] = PrefixOf[b] => a = b
<1>1. \A p \in T : fresh(x, p) # {} => randomIID(x, p) \in fresh(x, p)
  BY DEF randomIID
<1>2. \A p \in T : fresh(x, p) # {} => PrefixOf[randomIID(x, p)] = p
  BY <1>1, AddressAssumption DEF fresh
<1>3. \A a \in created(x, T) : \E p \in T : fresh(x, p) # {} /\ a = randomIID(x, p)
  BY DEF created
<1> QED
  BY <1>1, <1>2, <1>3 DEF fresh, Pool

\* remove, of temporary addresses.
LEMMA RemoveStep ==
  ASSUME NEW x, NEW S, Typed(x), OwnTemps(x), S \subseteq DOMAIN x.temps
  PROVE  /\ TempStep(x, remove(x, S))
         /\ preferred(remove(x, S)) \subseteq preferred(x)
         /\ remove(x, S).dadDue = x.dadDue
<1> DEFINE y == remove(x, S)
<1>1. /\ Alike(x, y, {"kernel", "temps"})
      /\ y.kernel = Without(x.kernel, S)
      /\ y.temps = Without(x.temps, S)
  BY RemoveFields DEF Typed
<1> HIDE DEF y
<1>2. /\ y.snap = x.snap /\ y.dadDue = x.dadDue /\ y.dadCnt = x.dadCnt
      /\ y.announce = x.announce /\ y.adopted = x.adopted
  BY <1>1 DEF Alike, Fields
<1>3. /\ DOMAIN y.kernel = DOMAIN x.kernel \ S /\ DOMAIN y.temps = DOMAIN x.temps \ S
      /\ \A a \in DOMAIN y.kernel : y.kernel[a] = x.kernel[a]
      /\ \A a \in DOMAIN y.temps : y.temps[a] = x.temps[a]
  BY <1>1 DEF Without
<1>4. preferred(y) = preferred(x) \ S
  BY <1>3 DEF preferred
<1>5. Typed(y)
  BY <1>1, <1>2, <1>3 DEF Typed, Alike
<1>6. OwnTemps(y)
  BY <1>2, <1>3, <1>4 DEF OwnTemps
<1>7. Alike(x, y, {"kernel", "temps", "announce", "dadDue", "wanAddr"})
  BY <1>1 DEF Alike
<1>8. \A a \in DOMAIN x.kernel \ (Pool \cup x.adopted) : a \in DOMAIN y.kernel
  BY <1>3 DEF OwnTemps
<1>9. \A a \in preferred(y) : a \in preferred(x) /\ y.kernel[a].dad = x.kernel[a].dad
  BY <1>3, <1>4, <1>6 DEF OwnTemps
<1>10. TempStep(x, y)
  BY <1>2, <1>3, <1>5, <1>6, <1>7, <1>8, <1>9 DEF TempStep
<1> QED
  BY <1>2, <1>4, <1>10 DEF y

\* enforceMax.
LEMMA EnforceStep ==
  ASSUME NEW x, Typed(x), OwnTemps(x)
  PROVE  /\ TempStep(x, enforceMax(x))
         /\ preferred(enforceMax(x)) \subseteq preferred(x)
         /\ enforceMax(x).dadDue = x.dadDue
<1>1. surplus(x) \subseteq DOMAIN x.temps
  BY DEF surplus
<1> QED
  BY <1>1, RemoveStep, StepStutter DEF enforceMax

\* rotateFor: the new addresses are the only preferred ones of their prefixes.
LEMMA RotateStep ==
  ASSUME NEW x, NEW T \in SUBSET Prefixes64, Typed(x), OwnTemps(x), T \subseteq x.snap.active
  PROVE  /\ TempStep(x, rotateFor(x, T))
         /\ \A a \in preferred(rotateFor(x, T)) : PrefixOf[a] \in x.snap.active
<1> DEFINE new == created(x, T)
           x1  == [x EXCEPT !.kernel = addrSet(@, new, "tentative", TRUE, FALSE, x.snap.plen)]
           y   == awaitAnnounce(x1, new)
           old == outdated(y, new)
           d   == deprecate(y, old)
           z   == append(d, new, "preferred")
<1>0. x.snap.plen \in Nat /\ Rec(x)
  BY DEF Typed, Published
<1>1. /\ \A a \in new : /\ a \in Pool /\ PrefixOf[a] \in T
                        /\ a \notin DOMAIN x.kernel /\ a \notin DOMAIN x.temps
      /\ \A a, b \in new : PrefixOf[a] = PrefixOf[b] => a = b
  BY CreatedFacts
<1> HIDE DEF new
<1>2. /\ Alike(x, x1, {"kernel"})
      /\ x1.kernel = addrSet(x.kernel, new, "tentative", TRUE, FALSE, x.snap.plen)
  BY <1>0 DEF Rec, Fields, Alike
<1> HIDE DEF x1
<1>3. /\ Alike(x1, y, {"announce", "dadDue"})
      /\ DOMAIN y.announce = DOMAIN x1.announce \cup new
      /\ y.dadDue = (x1.dadDue \/ new # {})
  BY <1>2, AwaitFields DEF Alike
<1> HIDE DEF y
<1>4. /\ Alike(x, y, {"kernel", "announce", "dadDue"})
      /\ y.kernel = addrSet(x.kernel, new, "tentative", TRUE, FALSE, x.snap.plen)
      /\ DOMAIN y.announce = DOMAIN x.announce \cup new
      /\ y.dadDue = (x.dadDue \/ new # {})
      /\ y.temps = x.temps /\ y.snap = x.snap
  BY <1>2, <1>3 DEF Alike, Fields
<1>5. IsSet(x.kernel, new, "tentative", FALSE, y.kernel)
  <2>1. \A a \in DOMAIN x.kernel : x.kernel[a] \in Entries
    BY DEF Typed
  <2> QED
    BY <2>1, <1>0, <1>4, TempSet
<1>6. Typed(y)
  BY <1>4, <1>5 DEF Typed, Alike, IsSet, Fields
<1>7. old = {a \in preferred(x) : \/ \E b \in new : PrefixOf[b] = PrefixOf[a]
                                  \/ PrefixOf[a] \notin x.snap.active}
  BY <1>4 DEF outdated, preferred
<1> HIDE DEF old
<1>8. /\ Alike(y, d, {"kernel", "temps"})
      /\ IsSet(y.kernel, old, "ok", FALSE, d.kernel)
      /\ DOMAIN d.temps = DOMAIN x.temps
      /\ \A a \in DOMAIN x.temps :
           /\ DOMAIN d.temps[a] = {"state", "empty", "born"}
           /\ d.temps[a].state = IF a \in old THEN "deprecated" ELSE x.temps[a].state
  <2>1. /\ Alike(y, d, {"kernel", "temps"})
        /\ IsSet(y.kernel, old, "ok", FALSE, d.kernel)
        /\ DOMAIN d.temps = DOMAIN y.temps
        /\ \A a \in DOMAIN y.temps :
             /\ DOMAIN d.temps[a] = {"state", "empty", "born"}
             /\ d.temps[a].state = IF a \in old THEN "deprecated" ELSE y.temps[a].state
    BY <1>6, DeprecateFields
  <2> HIDE DEF d
  <2> QED
    BY <2>1, <1>4
<1> HIDE DEF d
<1>9. /\ Alike(d, z, {"temps"})
      /\ DOMAIN z.temps = DOMAIN d.temps \cup new
      /\ \A a \in new : /\ z.temps[a].state = "preferred"
                        /\ DOMAIN z.temps[a] = {"state", "empty", "born"}
      /\ \A a \in DOMAIN d.temps \ new : z.temps[a] = d.temps[a]
  <2>1. Rec(d)
    BY <1>8 DEF Alike
  <2> QED
    BY <2>1, AppendFields
<1> HIDE DEF z
<1>10. /\ Alike(x, z, {"kernel", "temps", "announce", "dadDue", "wanAddr"})
       /\ z.kernel = d.kernel /\ z.snap = x.snap /\ z.dadCnt = x.dadCnt /\ z.adopted = x.adopted
       /\ DOMAIN z.announce = DOMAIN x.announce \cup new
       /\ z.dadDue = (x.dadDue \/ new # {})
  BY <1>4, <1>8, <1>9 DEF Alike, Fields
<1>11. /\ DOMAIN z.kernel = DOMAIN x.kernel \cup new
       /\ \A a \in DOMAIN z.kernel : z.kernel[a] \in Entries
       /\ \A a \in DOMAIN x.kernel \ old : z.kernel[a] = x.kernel[a]
       /\ \A a \in DOMAIN x.kernel : z.kernel[a].dad = x.kernel[a].dad
       /\ \A a \in new \cup old : ~z.kernel[a].finite
       /\ old \subseteq DOMAIN x.kernel \cap Pool
  <2>1. old \subseteq DOMAIN x.kernel \cap Pool
    BY <1>7 DEF OwnTemps
  <2> QED
    BY <2>1, <1>1, <1>5, <1>8, <1>10 DEF IsSet
<1>12. /\ DOMAIN z.temps = DOMAIN x.temps \cup new
       /\ \A a \in DOMAIN z.temps : DOMAIN z.temps[a] = {"state", "empty", "born"}
       /\ preferred(z) = (preferred(x) \ old) \cup new
  BY <1>1, <1>8, <1>9 DEF preferred
<1>13. \A a \in preferred(z) : PrefixOf[a] \in x.snap.active
  BY <1>1, <1>7, <1>12
<1>14. Typed(z)
  BY <1>10, <1>11, <1>12 DEF Typed, Alike
<1>15. OwnTemps(z)
  <2>1. preferred(z) \subseteq Pool /\ DOMAIN z.temps \subseteq Pool \cup z.adopted
    BY <1>1, <1>10, <1>12 DEF OwnTemps
  <2>2. \A a \in preferred(z) : a \in DOMAIN z.kernel /\ ~z.kernel[a].finite
    BY <1>11, <1>12 DEF OwnTemps
  <2>3. \A a, b \in preferred(z) : PrefixOf[a] = PrefixOf[b] => a = b
    BY <1>1, <1>7, <1>12 DEF OwnTemps
  <2> QED
    BY <2>1, <2>2, <2>3 DEF OwnTemps
<1>16. TempStep(x, z)
  <2>1. \A a \in DOMAIN x.kernel \ (Pool \cup x.adopted) :
           a \in DOMAIN z.kernel /\ z.kernel[a] = x.kernel[a]
    BY <1>11
  <2>2. z.dadDue \/ \A a \in preferred(z) : a \in preferred(x) /\ z.kernel[a].dad = x.kernel[a].dad
    BY <1>10, <1>11, <1>12 DEF OwnTemps
  <2> QED
    BY <2>1, <2>2, <1>1, <1>10, <1>11, <1>13, <1>14, <1>15 DEF TempStep
<1>17. rotateFor(x, T) = enforceMax(z)
  BY DEF rotateFor, z, d, old, y, x1, new
<1> QED
  BY <1>13, <1>14, <1>15, <1>16, <1>17, EnforceStep, StepTrans

\* keepTempsNewest.
LEMMA KeepNewestStep ==
  ASSUME NEW x, Typed(x), OwnTemps(x)
  PROVE  TempStep(x, keepTempsNewest(x))
BY RotateStep, StepStutter DEF keepTempsNewest, rotate, Typed, Published

\* ensureTemps: it retires the addresses of prefixes no longer active.
LEMMA EnsureStep ==
  ASSUME NEW x, Typed(x), OwnTemps(x)
  PROVE  /\ TempStep(x, ensureTemps(x))
         /\ \A a \in preferred(ensureTemps(x)) : PrefixOf[a] \in x.snap.active
<1> DEFINE T == {p \in x.snap.active : preferredIn(x, p) = {}}
<1>1. T \in SUBSET Prefixes64 /\ T \subseteq x.snap.active
  BY DEF Typed, Published
<1> QED
  BY <1>1, RotateStep DEF ensureTemps

\* A new leased address is only noted, announced and followed by a rotation.
LEMMA WatchWANStep ==
  ASSUME NEW x, Typed(x), OwnTemps(x)
  PROVE  TempStep(x, watchWANAddr(x))
<1> DEFINE a == x.snap.wan
           x1 == [x EXCEPT !.wanAddr = a]
           y == awaitAnnounce(x1, {a})
<1>1. CASE ~(a # None /\ a # x.wanAddr)
  BY <1>1, StepStutter DEF watchWANAddr
<1>2. CASE a # None /\ a # x.wanAddr
  <2>1. Alike(x, x1, {"wanAddr"})
    BY DEF Typed, Rec, Fields, Alike
  <2> HIDE DEF x1
  <2>2. /\ Alike(x1, y, {"announce", "dadDue"})
        /\ DOMAIN y.announce = DOMAIN x1.announce \cup {a}
        /\ y.dadDue = TRUE
    <3>1. Rec(x1)
      BY <2>1 DEF Alike
    <3> QED
      BY <3>1, AwaitFields
  <2> HIDE DEF y
  <2>3. /\ Alike(x, y, {"kernel", "temps", "announce", "dadDue", "wanAddr"})
        /\ y.kernel = x.kernel /\ y.temps = x.temps /\ y.snap = x.snap
        /\ y.dadCnt = x.dadCnt /\ y.adopted = x.adopted
        /\ DOMAIN x.announce \subseteq DOMAIN y.announce
    BY <2>1, <2>2 DEF Alike, Fields
  <2>4. preferred(y) = preferred(x)
    BY <2>3 DEF preferred
  <2>5. Typed(y) /\ OwnTemps(y)
    BY <2>2, <2>3, <2>4 DEF Typed, OwnTemps, Alike
  <2>6. TempStep(x, y)
    BY <2>2, <2>3, <2>4, <2>5 DEF TempStep
  <2>7. watchWANAddr(x) = keepTempsNewest(y)
    BY <1>2 DEF watchWANAddr, y, x1
  <2> QED
    BY <2>5, <2>6, <2>7, KeepNewestStep, StepTrans
<1> QED
  BY <1>1, <1>2

\* A temporary address that failed goes and is replaced.
LEMMA TempFailedStep ==
  ASSUME NEW x, Typed(x), OwnTemps(x), NEW a \in DOMAIN x.temps
  PROVE  TempStep(x, tempFailed(x, a))
<1> DEFINE y == remove(x, {a})
           T == x.snap.active \cap {PrefixOf[a]}
<1>1. TempStep(x, y) /\ Typed(y) /\ OwnTemps(y) /\ y.snap = x.snap
  BY RemoveStep DEF TempStep, Alike, Fields
<1>2. T \in SUBSET Prefixes64 /\ T \subseteq y.snap.active
  BY <1>1 DEF Typed, Published
<1> HIDE DEF y, T
<1>3. TempStep(y, rotateFor(y, T))
  BY <1>1, <1>2, RotateStep
<1>4. TempStep(x, rotateFor(y, T))
  BY <1>1, <1>3, StepTrans
<1>5. tempFailed(x, a) \in {rotateFor(y, T), y}
  BY DEF tempFailed, y, T
<1> QED
  BY <1>1, <1>4, <1>5

----------------------------------------------------------------------------
(* Static addresses *)

\* The endpoints the manager configured.
Mine(x) == {a \in DOMAIN x.endpoints : x.endpoints[a] \in {"tentative", "ok"}}

\* The wanted addresses are -wan-iid addresses.
LEMMA WantStatic ==
  ASSUME NEW x, Typed(x)
  PROVE  want(x) \subseteq Statics
<1>1. x.snap.static \subseteq Prefixes64 /\ x.dadCnt \in [Prefixes64 -> [Policies -> 0 .. MaxCounter]]
  BY DEF Typed, Published
<1> QED
  BY <1>1 DEF want, Statics

\* What configure leaves: the addresses wanted are there, those of before
\* without a new verdict to come unless they changed their length.
LEMMA ConfigureFields ==
  ASSUME NEW x, Typed(x)
  PROVE  LET c == configure(x)
             w == want(x)
         IN  /\ Alike(x, c, {"kernel", "plens", "dadDue", "dadWait", "applied", "announce"})
             /\ c.applied = w
             /\ c.dadWait = (x.dadWait \cup starting(x)) \ (x.applied \ w)
             /\ c.dadDue = (x.dadDue \/ starting(x) # {})
             /\ DOMAIN c.announce = DOMAIN x.announce \cup starting(x)
             /\ DOMAIN c.kernel = (DOMAIN x.kernel \ x.applied) \cup w
             /\ \A a \in DOMAIN c.kernel : c.kernel[a] \in Entries
             /\ \A a \in DOMAIN c.kernel \ w : c.kernel[a] = x.kernel[a]
             /\ \A a \in w : c.kernel[a].finite
             /\ \A a \in w : IF a \in DOMAIN x.kernel \ moved(x)
                             THEN c.kernel[a].dad = x.kernel[a].dad
                             ELSE c.kernel[a].dad = "tentative"
<1> DEFINE w == want(x)
           new == starting(x)
           gone == x.applied \ w
           k0 == Without(x.kernel, moved(x))
           k == addrSet(k0, w, "tentative", TRUE, TRUE, x.snap.plen)
           x1 == [x EXCEPT !.kernel = Without(k, gone),
                           !.plens = Without(With(@, w, x.snap.plen), gone),
                           !.dadDue = @ \/ new # {},
                           !.dadWait = (@ \cup new) \ gone,
                           !.applied = w]
           c == awaitAnnounce(x1, new)
<1>1. c = configure(x)
  BY DEF configure
<1>2. moved(x) \subseteq w /\ new \subseteq w
  BY DEF moved, starting
<1> HIDE DEF w, new
<1>3. /\ DOMAIN k0 = DOMAIN x.kernel \ moved(x)
      /\ \A a \in DOMAIN k0 : k0[a] = x.kernel[a] /\ k0[a] \in Entries
  BY DEF Without, Typed
<1> HIDE DEF k0
<1>4. IsSet(k0, w, "tentative", TRUE, k)
  <2>1. x.snap.plen \in Nat
    BY DEF Typed, Published
  <2> QED
    BY <1>3, <2>1, StaticSet
<1> HIDE DEF k
<1>5. /\ Alike(x, x1, {"kernel", "plens", "dadDue", "dadWait", "applied"})
      /\ x1.kernel = Without(k, gone)
      /\ x1.dadDue = (x.dadDue \/ new # {})
      /\ x1.dadWait = (x.dadWait \cup new) \ gone
      /\ x1.applied = w
  BY DEF Typed, Rec, Fields, Alike
<1> HIDE DEF x1
<1>6. /\ Alike(x1, c, {"announce", "dadDue"})
      /\ DOMAIN c.announce = DOMAIN x1.announce \cup new
      /\ c.dadDue = (x1.dadDue \/ new # {})
  <2>1. Rec(x1)
    BY <1>5 DEF Alike
  <2> QED
    BY <2>1, AwaitFields
<1> HIDE DEF c
<1>7. /\ Alike(x, c, {"kernel", "plens", "dadDue", "dadWait", "applied", "announce"})
      /\ c.applied = w /\ c.kernel = Without(k, gone)
      /\ c.dadWait = (x.dadWait \cup new) \ gone
      /\ c.dadDue = (x.dadDue \/ new # {})
      /\ DOMAIN c.announce = DOMAIN x.announce \cup new
  BY <1>5, <1>6 DEF Alike, Fields
<1>8. /\ DOMAIN c.kernel = DOMAIN k \ gone
      /\ \A a \in DOMAIN c.kernel : c.kernel[a] = k[a]
  BY <1>7 DEF Without
<1>9. /\ DOMAIN c.kernel = (DOMAIN x.kernel \ x.applied) \cup w
      /\ \A a \in DOMAIN c.kernel : c.kernel[a] \in Entries
      /\ \A a \in DOMAIN c.kernel \ w : c.kernel[a] = x.kernel[a]
      /\ \A a \in w : c.kernel[a].finite
      /\ \A a \in w : IF a \in DOMAIN x.kernel \ moved(x)
                      THEN c.kernel[a].dad = x.kernel[a].dad
                      ELSE c.kernel[a].dad = "tentative"
  BY <1>2, <1>3, <1>4, <1>8 DEF IsSet
<1> QED
  BY <1>1, <1>7, <1>9 DEF w, new

\* What adoptStrays leaves: the verdicts as they were.
LEMMA AdoptFields ==
  ASSUME NEW x, Typed(x)
  PROVE  LET z == adoptStrays(x)
         IN  /\ Alike(x, z, {"kernel", "temps", "adopted"})
             /\ Typed(z)
             /\ z.adopted = x.adopted \cup strayAddrs(x)
             /\ DOMAIN z.temps = DOMAIN x.temps \cup strayAddrs(x)
             /\ preferred(z) = preferred(x)
             /\ DOMAIN z.kernel = DOMAIN x.kernel
             /\ \A a \in DOMAIN x.kernel : z.kernel[a].dad = x.kernel[a].dad
             /\ \A a \in DOMAIN x.kernel \ strayAddrs(x) : z.kernel[a] = x.kernel[a]
<1> DEFINE strays == strayAddrs(x)
           y == append(x, strays, "deprecated")
           z == [y EXCEPT !.kernel = addrSet(@, strays, "ok", FALSE, FALSE, x.snap.plen),
                          !.adopted = @ \cup strays]
<1>1. z = adoptStrays(x)
  BY DEF adoptStrays
<1>2. strays \subseteq DOMAIN x.kernel /\ strays \cap DOMAIN x.temps = {}
  BY DEF strayAddrs
<1> HIDE DEF strays
<1>3. /\ Alike(x, y, {"temps"})
      /\ DOMAIN y.temps = DOMAIN x.temps \cup strays
      /\ \A a \in strays : /\ y.temps[a].state = "deprecated"
                           /\ DOMAIN y.temps[a] = {"state", "empty", "born"}
      /\ \A a \in DOMAIN x.temps \ strays : y.temps[a] = x.temps[a]
  BY AppendFields DEF Typed
<1> HIDE DEF y
<1>4. /\ Alike(y, z, {"kernel", "adopted"})
      /\ z.kernel = addrSet(y.kernel, strays, "ok", FALSE, FALSE, x.snap.plen)
      /\ z.adopted = y.adopted \cup strays
  BY <1>3 DEF Rec, Fields, Alike
<1> HIDE DEF z
<1>5. /\ Alike(x, z, {"kernel", "temps", "adopted"})
      /\ z.kernel = addrSet(x.kernel, strays, "ok", FALSE, FALSE, x.snap.plen)
      /\ z.adopted = x.adopted \cup strays /\ z.temps = y.temps
      /\ z.snap = x.snap /\ z.dadCnt = x.dadCnt /\ z.dadDue = x.dadDue
  BY <1>3, <1>4 DEF Alike, Fields
<1>6. IsSet(x.kernel, strays, "ok", FALSE, z.kernel)
  <2>1. x.snap.plen \in Nat /\ \A a \in DOMAIN x.kernel : x.kernel[a] \in Entries
    BY DEF Typed, Published
  <2>2. IsSet(x.kernel, strays, "ok", FALSE,
              addrSet(x.kernel, strays, "ok", FALSE, FALSE, x.snap.plen))
    BY <2>1, DeprecatedSet
  <2>3. z.kernel = addrSet(x.kernel, strays, "ok", FALSE, FALSE, x.snap.plen)
    BY <1>5
  <2> QED
    BY <2>2, <2>3
<1>7. preferred(z) = preferred(x)
  BY <1>2, <1>3, <1>5 DEF preferred
<1>8. Typed(z)
  <2>1. \A a \in DOMAIN z.temps : DOMAIN z.temps[a] = {"state", "empty", "born"}
    BY <1>3, <1>5 DEF Typed
  <2>2. \A a \in DOMAIN z.kernel : z.kernel[a] \in Entries
    BY <1>6 DEF IsSet
  <2> QED
    BY <2>1, <2>2, <1>5 DEF Typed, Alike
<1> QED
  BY <1>1, <1>2, <1>3, <1>5, <1>6, <1>7, <1>8 DEF IsSet, strays

----------------------------------------------------------------------------
(* What holds of static addresses and endpoints *)

\* An endpoint is a tunnel's or the leased address; the leased one is its
\* owner's, and so is every static address.
SettledAt(x, a) ==
    /\ a \in Tunnels \cup {Leased}
    /\ x.endpoints[a] \in {"external", "tentative", "ok", "conflict"}
    /\ x.endpoints[a] # "external" => a \in Tunnels
    /\ a \in Mine(x) \ x.adopted =>
          a \in DOMAIN x.kernel /\ (a \in x.applied \/ ~x.kernel[a].finite)
    /\ x.endpoints[a] = "conflict" =>
          a \in x.conflicts /\ (a \in DOMAIN x.kernel => a \in x.applied)

Settled(x) == \A a \in DOMAIN x.endpoints : SettledAt(x, a)
Apart(x)   == \A a \in DOMAIN x.endpoints : x.endpoints[a] # "external" => a \notin x.applied

\* Only these outlive a failed verdict in the kernel's table.
Marked(x) ==
    \A a \in DOMAIN x.kernel :
        ~x.kernel[a].finite \/ x.kernel[a].dad = "failed" => a \in Pool \cup x.adopted \cup Mine(x)

\* A static address is configured until its verdict, which is waited for.
Watched(x) ==
    /\ x.dadWait \subseteq x.applied
    /\ \A a \in x.applied \ x.adopted :
         IF a \in DOMAIN x.kernel
         THEN /\ x.kernel[a].finite
              /\ x.kernel[a].dad = "failed" => a \in Mine(x)
              /\ x.kernel[a].dad = "tentative" => a \in x.dadWait
         ELSE a \in x.dadWait

\* One that is also an endpoint is looked at as long as it is announced.
Told(x) ==
    \A a \in (x.dadWait \cap Tunnels) \ x.adopted : dadIs(x, a, "ok") \/ a \in DOMAIN x.announce

\* Without a poll to come there is nothing to wait for.
Still(x) ==
    x.dadDue \/ \A a \in (x.applied \cup preferred(x) \cup Mine(x)) \ x.adopted : dadIs(x, a, "ok")

\* An endpoint of its own that has become a static address is new as that.
Taken(x) == \A a \in x.applied \cap Mine(x) : a \in x.dadWait \cap DOMAIN x.announce /\ x.dadDue

Known(x) == x.applied \subseteq Statics /\ DOMAIN x.kernel \subseteq DOMAIN PrefixOf

Base(x) == Known(x) /\ Settled(x) /\ Marked(x) /\ Watched(x) /\ Told(x)

\* The kinds of address are different ones.
LEMMA Disjoint ==
  /\ Statics \cap Pool = {} /\ Tunnels \cap Pool = {} /\ Leased \notin Pool
  /\ Leased \notin Statics /\ Leased \notin Tunnels
BY AddressAssumption, EndpointAssumption DEF Tunnels

\* Steps of the temporary addresses keep all of it.
LEMMA TempKeeps ==
  ASSUME NEW x, NEW y, TempStep(x, y), Base(x)
  PROVE  /\ Base(y) /\ want(y) = want(x) /\ y.applied = x.applied
         /\ Apart(x) => Apart(y)
         /\ Taken(x) => Taken(y)
         /\ Still(x) => Still(y)
<1>1. /\ y.snap = x.snap /\ y.applied = x.applied /\ y.dadCnt = x.dadCnt
      /\ y.dadWait = x.dadWait /\ y.endpoints = x.endpoints /\ y.conflicts = x.conflicts
      /\ y.adopted = x.adopted /\ Mine(y) = Mine(x)
  BY DEF TempStep, Alike, Fields, Mine
<1>2. \A a : a \notin Pool \cup x.adopted =>
         /\ a \in DOMAIN y.kernel <=> a \in DOMAIN x.kernel
         /\ a \in DOMAIN x.kernel => y.kernel[a] = x.kernel[a]
  BY DEF TempStep
<1>3. \A a \in DOMAIN x.endpoints : a \notin Pool
  BY Disjoint DEF Known, Base, Settled, SettledAt
<1>4. \A a \in DOMAIN y.kernel : a \in DOMAIN x.kernel \cup Pool
  BY DEF TempStep
<1>5. Settled(y)
  <2> SUFFICES ASSUME NEW a \in DOMAIN x.endpoints PROVE SettledAt(y, a)
    BY <1>1 DEF Settled
  <2>1. SettledAt(x, a)
    BY DEF Base, Settled
  <2> QED
    BY <2>1, <1>1, <1>2, <1>3, <1>4 DEF SettledAt
<1>6. Marked(y)
  BY <1>1, <1>2, <1>4 DEF Base, Marked
<1>7. Watched(y)
  <2>1. \A a \in x.applied \ x.adopted : a \notin Pool \cup x.adopted
    BY Disjoint DEF Known, Base
  <2> QED
    BY <2>1, <1>1, <1>2 DEF Base, Watched
<1>8. Told(y)
  <2> SUFFICES ASSUME NEW a \in (x.dadWait \cap Tunnels) \ x.adopted
               PROVE  dadIs(y, a, "ok") \/ a \in DOMAIN y.announce
    BY <1>1 DEF Told
  <2>1. a \notin Pool \cup x.adopted
    BY Disjoint
  <2>2. dadIs(x, a, "ok") \/ a \in DOMAIN x.announce
    BY DEF Base, Told
  <2>3. DOMAIN x.announce \subseteq DOMAIN y.announce
    BY DEF TempStep
  <2> QED
    BY <2>1, <2>2, <2>3, <1>2 DEF dadIs
<1>9. Still(x) => Still(y)
  <2> SUFFICES ASSUME Still(x), ~y.dadDue,
                      NEW a \in (x.applied \cup preferred(y) \cup Mine(x)) \ x.adopted
               PROVE  dadIs(y, a, "ok")
    BY <1>1 DEF Still
  <2>1. ~x.dadDue
    BY DEF TempStep
  <2>2. CASE a \in preferred(y)
    <3>1. a \in preferred(x) /\ y.kernel[a].dad = x.kernel[a].dad /\ a \in DOMAIN y.kernel
      BY <2>2 DEF TempStep, OwnTemps
    <3>2. dadIs(x, a, "ok")
      BY <3>1, <2>1 DEF Still
    <3> QED
      BY <3>1, <3>2 DEF dadIs
  <2>3. CASE a \in x.applied \cup Mine(x)
    <3>1. a \notin Pool \cup x.adopted
      BY <2>3, <1>3, Disjoint DEF Known, Base, Mine
    <3>2. dadIs(x, a, "ok")
      BY <2>1, <2>3 DEF Still
    <3> QED
      BY <3>1, <3>2, <1>2 DEF dadIs
  <2> QED
    BY <2>2, <2>3
<1>10. want(y) = want(x) /\ (Apart(x) => Apart(y))
  BY <1>1 DEF want, Apart
<1>11. Known(y)
  BY <1>1, <1>4, AddressAssumption DEF Base, Known
<1>12. Taken(x) => Taken(y)
  BY <1>1 DEF Taken, TempStep
<1> QED
  BY <1>12, <1>1, <1>5, <1>6, <1>7, <1>8, <1>9, <1>10, <1>11 DEF Base

\* applyPrefixAddrs, before it turns to the temporary addresses.
LEMMA StaticStep ==
  ASSUME NEW x, Typed(x), OwnTemps(x), Base(x), Apart(x)
  PROVE  LET z == adoptStrays(configure(x))
         IN  /\ Typed(z) /\ OwnTemps(z) /\ Base(z)
             /\ z.snap = x.snap /\ z.dadCnt = x.dadCnt /\ z.endpoints = x.endpoints
             /\ z.applied = want(x) /\ preferred(z) = preferred(x)
             /\ DOMAIN x.announce \subseteq DOMAIN z.announce /\ x.adopted \subseteq z.adopted
             /\ \A a \in x.dadWait \cap z.applied : a \in z.dadWait
             /\ Taken(z)
             /\ Still(x) => Still(z)
<1> DEFINE c == configure(x)
           w == want(x)
           z == adoptStrays(c)
<1>1. /\ Alike(x, c, {"kernel", "plens", "dadDue", "dadWait", "applied", "announce"})
      /\ c.applied = w
      /\ c.dadWait = (x.dadWait \cup starting(x)) \ (x.applied \ w)
      /\ c.dadDue = (x.dadDue \/ starting(x) # {})
      /\ DOMAIN c.announce = DOMAIN x.announce \cup starting(x)
      /\ DOMAIN c.kernel = (DOMAIN x.kernel \ x.applied) \cup w
      /\ \A a \in DOMAIN c.kernel : c.kernel[a] \in Entries
      /\ \A a \in DOMAIN c.kernel \ w : c.kernel[a] = x.kernel[a]
      /\ \A a \in w : c.kernel[a].finite
      /\ \A a \in w : IF a \in DOMAIN x.kernel \ moved(x)
                      THEN c.kernel[a].dad = x.kernel[a].dad
                      ELSE c.kernel[a].dad = "tentative"
  BY ConfigureFields
<1>2. w \subseteq Statics /\ starting(x) = (w \ x.applied) \cup moved(x) /\ moved(x) \subseteq w
  BY WantStatic DEF starting, moved
<1> HIDE DEF c, w
<1>3. /\ c.snap = x.snap /\ c.dadCnt = x.dadCnt /\ c.endpoints = x.endpoints
      /\ c.temps = x.temps /\ c.adopted = x.adopted /\ c.conflicts = x.conflicts
      /\ preferred(c) = preferred(x)
  BY <1>1 DEF Alike, Fields, preferred
<1>4. Typed(c)
  BY <1>1, <1>3 DEF Typed, Alike
<1>5. /\ Alike(c, z, {"kernel", "temps", "adopted"})
      /\ Typed(z)
      /\ z.adopted = c.adopted \cup strayAddrs(c)
      /\ DOMAIN z.temps = DOMAIN c.temps \cup strayAddrs(c)
      /\ preferred(z) = preferred(c)
      /\ DOMAIN z.kernel = DOMAIN c.kernel
      /\ \A a \in DOMAIN c.kernel : z.kernel[a].dad = c.kernel[a].dad
      /\ \A a \in DOMAIN c.kernel \ strayAddrs(c) : z.kernel[a] = c.kernel[a]
  BY <1>4, AdoptFields
<1>6. strayAddrs(c) \cap (w \cup DOMAIN x.endpoints \cup DOMAIN x.temps) = {}
  BY <1>1, <1>3 DEF strayAddrs
<1> HIDE DEF z
<1>7. /\ z.snap = x.snap /\ z.dadCnt = x.dadCnt /\ z.endpoints = x.endpoints
      /\ z.conflicts = x.conflicts /\ z.applied = w /\ z.dadWait = c.dadWait
      /\ z.announce = c.announce /\ z.dadDue = c.dadDue
      /\ Mine(z) = Mine(x) /\ preferred(z) = preferred(x)
      /\ x.adopted \subseteq z.adopted /\ strayAddrs(c) \subseteq z.adopted
  BY <1>1, <1>3, <1>5 DEF Alike, Fields, Mine
<1>8. OwnTemps(z)
  <2>1. \A a \in preferred(x) : a \in DOMAIN z.kernel /\ z.kernel[a] = x.kernel[a]
    <3> SUFFICES ASSUME NEW a \in preferred(x)
                 PROVE  a \in DOMAIN z.kernel /\ z.kernel[a] = x.kernel[a]
      OBVIOUS
    <3>1. a \in Pool /\ a \in DOMAIN x.kernel /\ a \in DOMAIN x.temps
      BY DEF OwnTemps, preferred
    <3>2. a \notin w /\ a \notin x.applied
      BY <3>1, <1>2, Disjoint DEF Known, Base
    <3> QED
      BY <3>1, <3>2, <1>1, <1>5, <1>6
  <2> QED
    BY <2>1, <1>3, <1>5, <1>7 DEF OwnTemps
<1>9. \A a \in w : a \in DOMAIN z.kernel /\ z.kernel[a] = c.kernel[a]
  BY <1>1, <1>5, <1>6
<1>10. \A a \in DOMAIN x.endpoints : a \notin x.applied /\ a \in DOMAIN x.kernel =>
         /\ a \in DOMAIN z.kernel
         /\ a \notin w => z.kernel[a] = x.kernel[a]
  BY <1>1, <1>5, <1>6
<1>11. Settled(z)
  <2> SUFFICES ASSUME NEW a \in DOMAIN x.endpoints PROVE SettledAt(z, a)
    BY <1>7 DEF Settled
  <2>1. SettledAt(x, a) /\ (x.endpoints[a] # "external" => a \notin x.applied)
    BY DEF Base, Settled, Apart
  <2>2. a \in Mine(x) \ z.adopted =>
          a \in DOMAIN z.kernel /\ (a \in w \/ ~z.kernel[a].finite)
    <3> SUFFICES ASSUME a \in Mine(x) \ z.adopted
                 PROVE  a \in DOMAIN z.kernel /\ (a \in w \/ ~z.kernel[a].finite)
      OBVIOUS
    <3>1. a \notin x.applied /\ a \in DOMAIN x.kernel /\ ~x.kernel[a].finite
      BY <2>1, <1>7 DEF SettledAt, Mine
    <3> QED
      BY <3>1, <1>10
  <2>3. x.endpoints[a] = "conflict" => a \notin DOMAIN x.kernel
    BY <2>1 DEF SettledAt
  <2>4. a \in DOMAIN z.kernel => a \in DOMAIN x.kernel \cup w
    BY <1>1, <1>5
  <2> QED
    BY <2>1, <2>2, <2>3, <2>4, <1>7 DEF SettledAt
<1>12. Marked(z)
  <2> SUFFICES ASSUME NEW a \in DOMAIN z.kernel,
                      ~z.kernel[a].finite \/ z.kernel[a].dad = "failed",
                      a \notin z.adopted
               PROVE  a \in Pool \cup Mine(x)
    BY <1>7 DEF Marked
  <2>1. a \in DOMAIN c.kernel /\ z.kernel[a] = c.kernel[a] /\ a \notin x.adopted
    BY <1>5, <1>7
  <2>2. a \in DOMAIN x.kernel /\ (~x.kernel[a].finite \/ x.kernel[a].dad = "failed")
    BY <2>1, <1>1
  <2> QED
    BY <2>1, <2>2 DEF Base, Marked
<1>13. Watched(z)
  <2>1. z.dadWait \subseteq w
    BY <1>1, <1>2, <1>7 DEF Base, Watched
  <2> SUFFICES ASSUME NEW a \in w \ z.adopted
               PROVE  /\ a \in DOMAIN z.kernel /\ z.kernel[a].finite
                      /\ z.kernel[a].dad = "failed" => a \in Mine(x)
                      /\ z.kernel[a].dad = "tentative" => a \in z.dadWait
    BY <2>1, <1>7 DEF Watched
  <2>2. a \in DOMAIN z.kernel /\ z.kernel[a].finite /\ z.kernel[a].dad = c.kernel[a].dad
    BY <1>1, <1>9
  <2>3. a \in starting(x) => a \in z.dadWait
    BY <1>1, <1>7
  <2>4. ASSUME z.kernel[a].dad = "failed" PROVE a \in Mine(x)
    <3>1. a \in DOMAIN x.kernel /\ x.kernel[a].dad = "failed"
      BY <2>2, <2>4, <1>1
    <3>2. a \in Statics /\ a \notin x.adopted
      BY <1>2, <1>7
    <3> QED
      BY <3>1, <3>2, Disjoint DEF Known, Base, Marked
  <2>5. ASSUME z.kernel[a].dad = "tentative", a \notin starting(x) PROVE a \in z.dadWait
    <3>1. a \in x.applied \ x.adopted /\ a \notin moved(x)
      BY <2>5, <1>2, <1>7
    <3>2. a \in DOMAIN x.kernel => x.kernel[a].dad = "tentative"
      BY <3>1, <2>2, <2>5, <1>1
    <3>3. a \in x.dadWait
      BY <3>1, <3>2 DEF Base, Watched
    <3> QED
      BY <3>3, <1>1, <1>7
  <2> QED
    BY <2>2, <2>3, <2>4, <2>5
<1>14. Told(z)
  <2> SUFFICES ASSUME NEW a \in (z.dadWait \cap Tunnels) \ z.adopted
               PROVE  dadIs(z, a, "ok") \/ a \in DOMAIN z.announce
    BY DEF Told
  <2>1. CASE a \in starting(x)
    BY <2>1, <1>1, <1>7
  <2>2. CASE a \notin starting(x)
    <3>1. a \in x.dadWait /\ a \in w /\ a \notin moved(x) /\ a \notin x.adopted
      BY <2>2, <1>1, <1>2, <1>7 DEF Base, Watched
    <3>2. dadIs(x, a, "ok") \/ a \in DOMAIN x.announce
      BY <3>1 DEF Base, Told
    <3>3. dadIs(x, a, "ok") => dadIs(z, a, "ok")
      BY <3>1, <1>1, <1>9 DEF dadIs
    <3> QED
      BY <3>2, <3>3, <1>1, <1>7
  <2> QED
    BY <2>1, <2>2
<1>15. Still(x) => Still(z)
  <2> SUFFICES ASSUME Still(x), ~z.dadDue,
                      NEW a \in (w \cup preferred(x) \cup Mine(x)) \ z.adopted
               PROVE  dadIs(z, a, "ok")
    BY <1>7 DEF Still
  <2>1. starting(x) = {} /\ ~x.dadDue /\ w \subseteq x.applied /\ moved(x) = {} /\ a \notin x.adopted
    BY <1>1, <1>2, <1>7
  <2>2. dadIs(x, a, "ok")
    BY <2>1 DEF Still
  <2>3. CASE a \in w
    BY <2>1, <2>2, <2>3, <1>1, <1>9 DEF dadIs
  <2>4. CASE a \in preferred(x) /\ a \notin w
    <3>1. a \notin x.applied
      BY <2>4, Disjoint DEF Known, Base, OwnTemps
    <3> QED
      BY <3>1, <2>2, <2>4, <1>1, <1>5 DEF dadIs
  <2>5. CASE a \in Mine(x) /\ a \notin w
    <3>1. a \notin x.applied
      BY <2>5 DEF Mine, Apart
    <3> QED
      BY <3>1, <2>2, <2>5, <1>1, <1>5 DEF dadIs
  <2> QED
    BY <2>3, <2>4, <2>5
<1>16. /\ DOMAIN x.announce \subseteq DOMAIN z.announce /\ Known(z)
       /\ \A a \in x.dadWait \cap z.applied : a \in z.dadWait
  <2>1. DOMAIN z.kernel \subseteq DOMAIN x.kernel \cup w
    BY <1>1, <1>5
  <2> QED
    BY <2>1, <1>1, <1>2, <1>7, AddressAssumption DEF Known, Base
<1>17. Taken(z)
  <2> SUFFICES ASSUME NEW a \in w \cap Mine(x)
               PROVE  a \in z.dadWait \cap DOMAIN z.announce /\ z.dadDue
    BY <1>7 DEF Taken
  <2>1. a \in starting(x)
    BY <1>2 DEF Apart, Mine
  <2> QED
    BY <2>1, <1>1, <1>2, <1>7
<1> QED
  BY <1>17, <1>5, <1>7, <1>8, <1>11, <1>12, <1>13, <1>14, <1>15, <1>16 DEF Base, z, c, w

\* applyPrefixAddrs: what was waited for and is still wanted is still waited for.
LEMMA ApplyStep ==
  ASSUME NEW x, Typed(x), OwnTemps(x), Base(x), Apart(x)
  PROVE  LET z == applyPrefixAddrs(x)
         IN  /\ Typed(z) /\ OwnTemps(z) /\ Base(z)
             /\ z.snap = x.snap /\ z.dadCnt = x.dadCnt /\ z.endpoints = x.endpoints
             /\ z.applied = want(x)
             /\ DOMAIN x.announce \subseteq DOMAIN z.announce /\ x.adopted \subseteq z.adopted
             /\ \A a \in x.dadWait \cap z.applied : a \in z.dadWait
             /\ \A a \in preferred(z) : a \in preferred(x) \/ PrefixOf[a] \in x.snap.active
             /\ Taken(z)
             /\ Still(x) => Still(z)
<1> DEFINE y == adoptStrays(configure(x))
           n == keepTempsNewest(y)
<1>1. /\ Typed(y) /\ OwnTemps(y) /\ Base(y)
      /\ y.snap = x.snap /\ y.dadCnt = x.dadCnt /\ y.endpoints = x.endpoints
      /\ y.applied = want(x) /\ preferred(y) = preferred(x)
      /\ DOMAIN x.announce \subseteq DOMAIN y.announce /\ x.adopted \subseteq y.adopted
      /\ \A a \in x.dadWait \cap y.applied : a \in y.dadWait
      /\ Taken(y)
      /\ Still(x) => Still(y)
  BY StaticStep
<1>2. applyPrefixAddrs(x) \in {y, n}
  BY DEF applyPrefixAddrs
<1> HIDE DEF y
<1>3. TempStep(y, n)
  BY <1>1, KeepNewestStep
<1> HIDE DEF n
<1>4. /\ Typed(n) /\ OwnTemps(n)
      /\ n.snap = y.snap /\ n.dadCnt = y.dadCnt /\ n.endpoints = y.endpoints
      /\ n.dadWait = y.dadWait /\ n.adopted = y.adopted
      /\ DOMAIN y.announce \subseteq DOMAIN n.announce
      /\ \A a \in preferred(n) : a \in preferred(y) \/ PrefixOf[a] \in y.snap.active
  BY <1>3 DEF TempStep, Alike, Fields
<1>5. Base(n) /\ Taken(n) /\ n.applied = y.applied /\ (Still(y) => Still(n))
  BY <1>1, <1>3, TempKeeps
<1> QED
  BY <1>1, <1>2, <1>4, <1>5

----------------------------------------------------------------------------
(* Endpoints *)

\* The parts of applyEndpoints.
change(x) == {a \in x.snap.endpoints :
                ~(a \in DOMAIN x.endpoints /\ (x.endpoints[a] = "external") = ownedElsewhere(x, a))}
use(x)    == {a \in change(x) : ownedElsewhere(x, a)}
add(x)    == change(x) \ use(x)
ours(x)   == {a \in DOMAIN x.endpoints \ x.snap.endpoints :
                x.endpoints[a] \notin {"conflict", "external"}}

\* What applyEndpoints leaves.
LEMMA EndpointFields ==
  ASSUME NEW x, Typed(x)
  PROVE  LET y == applyEndpoints(x)
         IN  /\ Alike(x, y, {"kernel", "endpoints", "conflicts", "adopted", "announce", "dadDue"})
             /\ y.adopted = x.adopted \cup {a \in use(x) : dadIs(x, a, "failed")}
             /\ DOMAIN y.announce = DOMAIN x.announce \cup add(x)
             /\ y.dadDue = (x.dadDue \/ add(x) # {})
             /\ DOMAIN y.kernel = (DOMAIN x.kernel \cup add(x)) \ ours(x)
             /\ \A a \in DOMAIN y.kernel : y.kernel[a] \in Entries
             /\ \A a \in DOMAIN y.kernel \ add(x) : y.kernel[a] = x.kernel[a]
             /\ \A a \in add(x) : a \in DOMAIN y.kernel /\ ~y.kernel[a].finite
             /\ DOMAIN y.endpoints = x.snap.endpoints
             /\ \A a \in use(x) : y.endpoints[a] = "external"
             /\ \A a \in add(x) : y.endpoints[a] = "tentative"
             /\ \A a \in x.snap.endpoints \ change(x) : y.endpoints[a] = x.endpoints[a]
             /\ \A a \in x.conflicts \cap (x.snap.endpoints \ change(x)) : a \in y.conflicts
<1> DEFINE gone == DOMAIN x.endpoints \ x.snap.endpoints
           told == {a \in use(x) \cup gone : a \in DOMAIN x.endpoints /\ x.endpoints[a] = "conflict"}
           k == addrSet(x.kernel, add(x), "tentative", FALSE, FALSE, 128)
           ep == Without(With(With(x.endpoints, use(x), "external"), add(x), "tentative"), gone)
           x1 == [x EXCEPT !.kernel = Without(k, ours(x)),
                           !.endpoints = Without(With(With(@, use(x), "external"), add(x), "tentative"), gone),
                           !.conflicts = @ \ told,
                           !.adopted = @ \cup {a \in use(x) : dadIs(x, a, "failed")}]
           y == awaitAnnounce(x1, add(x))
<1>1. y = applyEndpoints(x)
  BY DEF applyEndpoints, change, use, add, ours
<1>2. IsSet(x.kernel, add(x), "tentative", FALSE, k)
  BY EndpointSet DEF Typed
<1> HIDE DEF k
<1>3. /\ add(x) \subseteq change(x) /\ use(x) \subseteq change(x) /\ change(x) \subseteq x.snap.endpoints
      /\ add(x) \cap use(x) = {} /\ change(x) = add(x) \cup use(x) /\ ours(x) \cap x.snap.endpoints = {}
      /\ x.snap.endpoints \ change(x) \subseteq DOMAIN x.endpoints
  BY DEF change, use, add, ours
<1>4. /\ DOMAIN ep = x.snap.endpoints
      /\ \A a \in use(x) : ep[a] = "external"
      /\ \A a \in add(x) : ep[a] = "tentative"
      /\ \A a \in x.snap.endpoints \ change(x) : ep[a] = x.endpoints[a]
  BY <1>3 DEF With, Without
<1>5. \A a \in x.conflicts \cap (x.snap.endpoints \ change(x)) : a \in x.conflicts \ told
  BY <1>3
<1>6. /\ Alike(x, x1, {"kernel", "endpoints", "conflicts", "adopted"})
      /\ x1.kernel = Without(k, ours(x)) /\ x1.endpoints = ep /\ x1.conflicts = x.conflicts \ told
      /\ x1.adopted = x.adopted \cup {a \in use(x) : dadIs(x, a, "failed")}
  BY DEF Typed, Rec, Fields, Alike
<1> HIDE DEF x1, ep, told
<1>7. /\ Alike(x1, y, {"announce", "dadDue"})
      /\ DOMAIN y.announce = DOMAIN x1.announce \cup add(x)
      /\ y.dadDue = (x1.dadDue \/ add(x) # {})
  <2>1. Rec(x1)
    BY <1>6 DEF Alike
  <2> QED
    BY <2>1, AwaitFields
<1> HIDE DEF y
<1>8. /\ Alike(x, y, {"kernel", "endpoints", "conflicts", "adopted", "announce", "dadDue"})
      /\ y.kernel = Without(k, ours(x)) /\ y.endpoints = ep /\ y.conflicts = x.conflicts \ told
      /\ y.adopted = x.adopted \cup {a \in use(x) : dadIs(x, a, "failed")}
      /\ DOMAIN y.announce = DOMAIN x.announce \cup add(x)
      /\ y.dadDue = (x.dadDue \/ add(x) # {})
  BY <1>6, <1>7 DEF Alike, Fields
<1>9. /\ DOMAIN y.kernel = DOMAIN k \ ours(x)
      /\ \A a \in DOMAIN y.kernel : y.kernel[a] = k[a]
  BY <1>8 DEF Without
<1>10. /\ DOMAIN y.kernel = (DOMAIN x.kernel \cup add(x)) \ ours(x)
       /\ \A a \in DOMAIN y.kernel : y.kernel[a] \in Entries
       /\ \A a \in DOMAIN y.kernel \ add(x) : y.kernel[a] = x.kernel[a]
       /\ \A a \in add(x) : a \in DOMAIN y.kernel /\ ~y.kernel[a].finite
  BY <1>2, <1>3, <1>9 DEF IsSet
<1> QED
  BY <1>1, <1>4, <1>5, <1>8, <1>10

\* The endpoints of a snapshot are addresses, and none is random.
LEMMA TunnelFacts ==
  ASSUME NEW x, Typed(x)
  PROVE  /\ x.snap.endpoints \subseteq Tunnels \cup {Leased}
         /\ x.snap.endpoints \subseteq DOMAIN PrefixOf
         /\ x.snap.endpoints \cap Pool = {}
<1>1. Tunnels \subseteq DOMAIN PrefixOf /\ Leased \in DOMAIN PrefixOf
  BY SnapshotAssumption, AddressAssumption DEF Tunnels
<1>2. x.snap.endpoints \subseteq Tunnels \cup {Leased}
  BY DEF Typed, Published
<1> QED
  BY <1>1, <1>2, Disjoint

\* applyEndpoints: afterwards only the external endpoints are static addresses.
LEMMA EndpointStep ==
  ASSUME NEW x, Typed(x), OwnTemps(x), Base(x), Taken(x)
  PROVE  LET y == applyEndpoints(x)
         IN  /\ Typed(y) /\ OwnTemps(y) /\ Base(y) /\ Apart(y)
             /\ y.snap = x.snap /\ want(y) = want(x) /\ y.applied = x.applied
             /\ Still(x) => Still(y)
<1> DEFINE y == applyEndpoints(x)
<1>1. /\ Alike(x, y, {"kernel", "endpoints", "conflicts", "adopted", "announce", "dadDue"})
      /\ y.adopted = x.adopted \cup {a \in use(x) : dadIs(x, a, "failed")}
      /\ DOMAIN y.announce = DOMAIN x.announce \cup add(x)
      /\ y.dadDue = (x.dadDue \/ add(x) # {})
      /\ DOMAIN y.kernel = (DOMAIN x.kernel \cup add(x)) \ ours(x)
      /\ \A a \in DOMAIN y.kernel : y.kernel[a] \in Entries
      /\ \A a \in DOMAIN y.kernel \ add(x) : y.kernel[a] = x.kernel[a]
      /\ \A a \in add(x) : a \in DOMAIN y.kernel /\ ~y.kernel[a].finite
      /\ DOMAIN y.endpoints = x.snap.endpoints
      /\ \A a \in use(x) : y.endpoints[a] = "external"
      /\ \A a \in add(x) : y.endpoints[a] = "tentative"
      /\ \A a \in x.snap.endpoints \ change(x) : y.endpoints[a] = x.endpoints[a]
      /\ \A a \in x.conflicts \cap (x.snap.endpoints \ change(x)) : a \in y.conflicts
  BY EndpointFields
<1> HIDE DEF y
<1>2. /\ y.snap = x.snap /\ y.applied = x.applied /\ y.dadCnt = x.dadCnt
      /\ y.dadWait = x.dadWait /\ y.temps = x.temps /\ preferred(y) = preferred(x)
      /\ x.adopted \subseteq y.adopted /\ y.dadDue \in BOOLEAN
      /\ DOMAIN x.announce \subseteq DOMAIN y.announce
  BY <1>1 DEF Alike, Fields, preferred, Typed
<1>3. /\ x.snap.endpoints \subseteq Tunnels \cup {Leased}
      /\ x.snap.endpoints \subseteq DOMAIN PrefixOf
      /\ x.snap.endpoints \cap Pool = {}
  BY TunnelFacts
<1>4. /\ change(x) = add(x) \cup use(x) /\ change(x) \subseteq x.snap.endpoints
      /\ ours(x) \subseteq DOMAIN x.endpoints \ x.snap.endpoints
      /\ \A a \in add(x) : ~ownedElsewhere(x, a)
      /\ \A a \in use(x) : ownedElsewhere(x, a)
      /\ \A a \in x.snap.endpoints \ change(x) :
            a \in DOMAIN x.endpoints /\ (x.endpoints[a] = "external") = ownedElsewhere(x, a)
  BY DEF change, use, add, ours
<1>5. \A a \in DOMAIN x.endpoints : SettledAt(x, a)
  BY DEF Base, Settled
<1>6. ours(x) = {a \in Mine(x) : a \notin x.snap.endpoints} /\ Mine(x) \subseteq Tunnels
  BY <1>5 DEF ours, Mine, SettledAt
<1>7. \A a \in x.snap.endpoints : y.endpoints[a] # "external" =>
         /\ a \notin x.applied /\ a \in Tunnels
         /\ a \in add(x) \/ (a \in DOMAIN x.endpoints /\ y.endpoints[a] = x.endpoints[a])
  <2> SUFFICES ASSUME NEW a \in x.snap.endpoints, y.endpoints[a] # "external"
               PROVE  /\ a \notin x.applied /\ a \in Tunnels
                      /\ a \in add(x) \/ (a \in DOMAIN x.endpoints /\ y.endpoints[a] = x.endpoints[a])
    OBVIOUS
  <2>1. ~ownedElsewhere(x, a)
    BY <1>1, <1>4
  <2>2. a \notin x.applied /\ a # x.snap.wan
    BY <2>1 DEF ownedElsewhere
  <2>3. a \in Tunnels
    BY <2>2, <1>3 DEF Typed
  <2>4. a \in add(x) \/ a \in x.snap.endpoints \ change(x)
    BY <1>1, <1>4
  <2>5. a \in x.snap.endpoints \ change(x) =>
           a \in DOMAIN x.endpoints /\ y.endpoints[a] = x.endpoints[a]
    BY <1>1, <1>4
  <2> QED
    BY <2>2, <2>3, <2>4, <2>5
<1>8. \A a \in DOMAIN x.kernel : a \notin add(x) \cup ours(x) =>
         a \in DOMAIN y.kernel /\ y.kernel[a] = x.kernel[a]
  BY <1>1
<1>9. Typed(y)
  BY <1>1, <1>2 DEF Typed, Alike
<1>10. add(x) \cap Pool = {} /\ ours(x) \cap Pool = {}
  BY <1>3, <1>4, <1>6, Disjoint
<1>11. OwnTemps(y)
  <2>1. \A a \in preferred(x) : a \in DOMAIN y.kernel /\ y.kernel[a] = x.kernel[a]
    BY <1>8, <1>10 DEF OwnTemps
  <2> QED
    BY <2>1, <1>2 DEF OwnTemps
<1>12. Apart(y)
  BY <1>1, <1>2, <1>7 DEF Apart
<1>13. Known(y)
  BY <1>1, <1>2, <1>3, <1>4 DEF Base, Known
<1>14. Settled(y)
  <2> SUFFICES ASSUME NEW a \in x.snap.endpoints PROVE SettledAt(y, a)
    BY <1>1 DEF Settled
  <2>1. CASE y.endpoints[a] = "external"
    BY <2>1, <1>3 DEF SettledAt, Mine
  <2>2. CASE a \in add(x)
    BY <2>2, <1>1, <1>2, <1>3, <1>7 DEF SettledAt, Mine
  <2>3. CASE y.endpoints[a] # "external" /\ a \notin add(x)
    <3>1. /\ a \in DOMAIN x.endpoints /\ y.endpoints[a] = x.endpoints[a]
          /\ a \notin x.applied /\ a \in Tunnels /\ a \notin change(x)
      BY <2>3, <1>1, <1>4, <1>7
    <3>2. SettledAt(x, a) /\ a \notin ours(x)
      BY <3>1, <1>4, <1>5
    <3>3. a \in Mine(y) \ y.adopted => a \in DOMAIN y.kernel /\ ~y.kernel[a].finite
      <4> SUFFICES ASSUME a \in Mine(y) \ y.adopted
                   PROVE  a \in DOMAIN y.kernel /\ ~y.kernel[a].finite
        OBVIOUS
      <4>1. a \in Mine(x) \ x.adopted
        BY <3>1, <1>2 DEF Mine
      <4> QED
        BY <4>1, <2>3, <3>1, <3>2, <1>8 DEF SettledAt
    <3>4. y.endpoints[a] = "conflict" => a \in y.conflicts /\ a \notin DOMAIN y.kernel
      <4>1. a \in DOMAIN y.kernel => a \in DOMAIN x.kernel
        BY <2>3, <1>1
      <4> QED
        BY <4>1, <3>1, <3>2, <1>1 DEF SettledAt
    <3> QED
      BY <3>1, <3>2, <3>3, <3>4 DEF SettledAt
  <2> QED
    BY <2>1, <2>2, <2>3
<1>15. \A a \in x.applied \ y.adopted :
         /\ a \notin add(x)
         /\ a \in ours(x) => a \in x.dadWait \cap DOMAIN x.announce /\ x.dadDue
  BY <1>4, <1>6 DEF ownedElsewhere, Taken
<1>16. Marked(y)
  <2> SUFFICES ASSUME NEW a \in DOMAIN y.kernel,
                      ~y.kernel[a].finite \/ y.kernel[a].dad = "failed",
                      a \notin Pool \cup y.adopted, a \notin add(x)
               PROVE  a \in Mine(y)
    BY <1>1, <1>4 DEF Marked, Mine
  <2>1. a \in DOMAIN x.kernel /\ y.kernel[a] = x.kernel[a] /\ a \notin ours(x) /\ a \notin x.adopted
    BY <1>1, <1>2
  <2>2. a \in Mine(x) /\ a \in x.snap.endpoints /\ a \in Tunnels
    BY <2>1, <1>6 DEF Base, Marked
  <2>3. a \notin use(x)
    <3> SUFFICES ASSUME a \in use(x) PROVE FALSE
      OBVIOUS
    <3>1. x.kernel[a].dad # "failed"
      BY <2>1, <1>1 DEF dadIs
    <3>2. a \in x.applied
      <4>1. a # x.snap.wan
        BY <2>2, <1>3, Disjoint, AddressAssumption DEF Typed, Published
      <4> QED
        BY <4>1, <1>4 DEF ownedElsewhere
    <3>3. a \in Statics /\ x.kernel[a].finite
      BY <3>2, <2>1 DEF Base, Known, Watched
    <3> QED
      BY <3>1, <3>3, <2>1
  <2> QED
    BY <2>2, <2>3, <1>1, <1>4 DEF Mine
<1>17. Watched(y)
  <2> SUFFICES ASSUME NEW a \in x.applied \ y.adopted
               PROVE  IF a \in DOMAIN y.kernel
                      THEN /\ y.kernel[a].finite
                           /\ y.kernel[a].dad = "failed" => a \in Mine(y)
                           /\ y.kernel[a].dad = "tentative" => a \in x.dadWait
                      ELSE a \in x.dadWait
    BY <1>2 DEF Base, Watched
  <2>1. /\ a \notin add(x) /\ a \notin x.adopted
        /\ a \in ours(x) => a \in x.dadWait
    BY <1>2, <1>15
  <2>2. CASE a \in DOMAIN y.kernel
    <3>1. a \in DOMAIN x.kernel /\ y.kernel[a] = x.kernel[a]
      BY <2>1, <2>2, <1>1
    <3>2. /\ x.kernel[a].finite
          /\ x.kernel[a].dad = "tentative" => a \in x.dadWait
      BY <2>1, <3>1 DEF Base, Watched
    <3>3. y.kernel[a].dad = "failed" => a \in Mine(y)
      BY <2>1, <2>2, <1>16, Disjoint DEF Marked, Base, Known
    <3> QED
      BY <2>2, <3>1, <3>2, <3>3
  <2>3. CASE a \notin DOMAIN y.kernel
    <3>1. a \in ours(x) \/ a \notin DOMAIN x.kernel
      BY <2>1, <2>3, <1>1
    <3> QED
      BY <2>1, <2>3, <3>1 DEF Base, Watched
  <2> QED
    BY <2>2, <2>3
<1>18. Told(y)
  <2> SUFFICES ASSUME NEW a \in (x.dadWait \cap Tunnels) \ y.adopted
               PROVE  dadIs(y, a, "ok") \/ a \in DOMAIN y.announce
    BY <1>2 DEF Told
  <2>1. a \in x.applied \ y.adopted
    BY DEF Base, Watched
  <2>2. dadIs(x, a, "ok") \/ a \in DOMAIN x.announce
    BY <1>2 DEF Base, Told
  <2>3. a \in ours(x) => a \in DOMAIN x.announce
    BY <2>1, <1>15
  <2> QED
    BY <2>1, <2>2, <2>3, <1>2, <1>8, <1>15 DEF dadIs
<1>19. Still(x) => Still(y)
  <2> SUFFICES ASSUME Still(x), ~y.dadDue,
                      NEW a \in (x.applied \cup preferred(x) \cup Mine(y)) \ y.adopted
               PROVE  dadIs(y, a, "ok")
    BY <1>2 DEF Still
  <2>1. ~x.dadDue /\ add(x) = {} /\ a \notin x.adopted
    BY <1>1, <1>2
  <2>2. Mine(y) \subseteq Mine(x) \cap x.snap.endpoints
    BY <2>1, <1>1, <1>7 DEF Mine
  <2>3. dadIs(x, a, "ok")
    BY <2>1, <2>2 DEF Still
  <2>4. a \notin ours(x)
    BY <2>1, <2>2, <1>4, <1>10, <1>15 DEF OwnTemps
  <2> QED
    BY <2>1, <2>3, <2>4, <1>8 DEF dadIs
<1>20. want(y) = want(x)
  BY <1>2 DEF want
<1> QED
  BY <1>2, <1>9, <1>11, <1>12, <1>13, <1>14, <1>16, <1>17, <1>18, <1>19, <1>20 DEF Base, y

----------------------------------------------------------------------------
(* The invariant *)

Active(x) == \A a \in preferred(x) : PrefixOf[a] \in x.snap.active

Inv(x) == /\ Typed(x) /\ OwnTemps(x) /\ Base(x) /\ Apart(x) /\ Still(x)
          /\ x.applied = want(x) /\ Active(x)

\* What holds of the manager when update begins, whatever the snapshot.
Ready(x) == Typed(x) /\ OwnTemps(x) /\ Base(x) /\ Apart(x) /\ Still(x)

\* update, the whole case of a snapshot, leaves the invariant.
LEMMA UpdateStep ==
  ASSUME NEW x, Ready(x)
  PROVE  Inv(update(x))
<1> DEFINE y == applyPrefixAddrs(x)
           z == applyEndpoints(y)
           w == watchWANAddr(z)
           e == ensureTemps(w)
<1>1. e = update(x)
  BY DEF update
<1>2. Typed(x) /\ OwnTemps(x) /\ Base(x) /\ Apart(x) /\ Still(x)
  BY DEF Ready
<1>3. /\ Typed(y) /\ OwnTemps(y) /\ Base(y) /\ Taken(y) /\ Still(y)
      /\ y.snap = x.snap /\ y.dadCnt = x.dadCnt /\ y.applied = want(x)
  BY <1>2, ApplyStep
<1>4. y.applied = want(y)
  BY <1>3 DEF want
<1> HIDE DEF y
<1>5. /\ Typed(z) /\ OwnTemps(z) /\ Base(z) /\ Apart(z) /\ Still(z)
      /\ z.applied = want(z)
  BY <1>3, <1>4, EndpointStep
<1> HIDE DEF z
<1>6. TempStep(z, w)
  BY <1>5, WatchWANStep
<1>7. Typed(w) /\ OwnTemps(w)
  BY <1>6 DEF TempStep
<1> HIDE DEF w
<1>8. Base(w) /\ Apart(w) /\ Still(w) /\ w.applied = want(w)
  BY <1>5, <1>6, TempKeeps
<1>9. TempStep(w, e) /\ \A a \in preferred(e) : PrefixOf[a] \in w.snap.active
  BY <1>7, EnsureStep
<1> HIDE DEF e
<1>10. Base(e) /\ Apart(e) /\ Still(e) /\ e.applied = want(e)
  BY <1>8, <1>9, TempKeeps
<1>11. Typed(e) /\ OwnTemps(e) /\ Active(e)
  BY <1>9 DEF TempStep, Active, Alike, Fields
<1>12. Inv(e)
  BY <1>10, <1>11 DEF Inv
<1> QED
  BY <1>1, <1>12

\* A snapshot with the leased address is one the manager may get.
LEMMA ResolveType ==
  ASSUME NEW s \in Snapshots, lease \in {None, Leased}
  PROVE  /\ resolve(s) \in Published
         /\ Leased \in resolve(s).endpoints => resolve(s).wan = Leased
<1> DEFINE F == {"static", "temp", "active", "plen", "endpoints", "wan", "aftr"}
           r == resolve(s)
<1>1. /\ s = [f \in F |-> s[f]]
      /\ s.static \subseteq Prefixes64 /\ s.temp \subseteq Prefixes64 /\ s.active \subseteq s.temp
      /\ s.plen \in Nat /\ s.aftr \in BOOLEAN
  BY SnapshotAssumption
<1>2. s.endpoints \subseteq Tunnels /\ Leased \notin s.endpoints
  BY EndpointAssumption DEF Tunnels
<1>3. None # Leased
  BY AddressAssumption
<1> DEFINE ep == IF s.aftr /\ lease # None THEN {lease} ELSE s.endpoints
<1>4. /\ r = [f \in F |-> r[f]]
      /\ r.static = s.static /\ r.temp = s.temp /\ r.active = s.active /\ r.plen = s.plen
      /\ r.aftr = s.aftr /\ r.wan = lease /\ r.endpoints = ep
  BY <1>1 DEF resolve
<1>5. ep \subseteq Tunnels \cup {Leased} /\ (Leased \in ep => lease = Leased)
  BY <1>2, <1>3
<1> HIDE DEF ep, r
<1>6. r \in Published /\ (Leased \in r.endpoints => r.wan = Leased)
  BY <1>1, <1>4, <1>5 DEF Published
<1> QED
  BY <1>6 DEF r

\* A round of supervise begins with addresses of others, none of them failed.
LEMMA FreshReady ==
  ASSUME NEW s \in Snapshots, lease \in {None, Leased}, NEW k, NEW confl, NEW self,
         DOMAIN k \subseteq DOMAIN PrefixOf,
         \A a \in DOMAIN k : k[a] \in Entries /\ k[a].finite /\ k[a].dad # "failed"
  PROVE  Ready(Fresh(resolve(s), k, confl, self))
<1> DEFINE r == resolve(s)
           x == Fresh(r, k, confl, self)
           zero == [p \in Prefixes64 |-> [i \in Policies |-> 0]]
<1>1. r \in Published /\ (Leased \in r.endpoints => r.wan = Leased)
  BY ResolveType
<1> HIDE DEF r
<1>2. zero \in [Prefixes64 -> [Policies -> 0 .. MaxCounter]]
  BY PolicyAssumption
<1>3. /\ Rec(x) /\ x.snap = r /\ x.applied = {} /\ x.dadCnt = zero /\ x.dadDue = FALSE
      /\ x.dadWait = {} /\ x.kernel = k /\ x.adopted = {}
      /\ DOMAIN x.endpoints = {} /\ DOMAIN x.temps = {}
  <2> DEFINE plens == [a \in DOMAIN k |-> k[a].plen]
             empty == <<>>
  <2>1. x = [snap |-> r, applied |-> {}, plens |-> plens, dadCnt |-> zero, dadDue |-> FALSE,
             dadWait |-> {}, announce |-> empty, endpoints |-> empty, temps |-> empty,
             wanAddr |-> None, kernel |-> k, conflicts |-> confl, self |-> self, adopted |-> {}]
    BY DEF Fresh
  <2>2. DOMAIN empty = {}
    OBVIOUS
  <2> HIDE DEF x, plens, zero, empty
  <2>3. Rec(x)
    BY <2>1 DEF Rec, Fields
  <2> QED
    BY <2>1, <2>2, <2>3
<1> HIDE DEF x, zero
<1>4. Typed(x)
  BY <1>1, <1>2, <1>3 DEF Typed
<1>5. preferred(x) = {} /\ Mine(x) = {}
  BY <1>3 DEF preferred, Mine
<1>6. OwnTemps(x) /\ Apart(x) /\ Still(x)
  BY <1>3, <1>5 DEF OwnTemps, Apart, Still
<1>7. Base(x)
  BY <1>3, <1>5 DEF Base, Known, Settled, Marked, Watched, Told
<1> QED
  BY <1>4, <1>6, <1>7 DEF Ready, x, r

----------------------------------------------------------------------------
(* The poll *)

\* The invariant without Still, which the poll settles at its end.
Loop(x) == /\ Typed(x) /\ OwnTemps(x) /\ Base(x) /\ Apart(x)
           /\ x.applied = want(x) /\ Active(x)

\* The own endpoints the kernel marked as duplicates.
Clashing(x) == {a \in Mine(x) : dadIs(x, a, "failed")}

\* What the first pass of a poll leaves: clashing endpoints are given up.
LEMMA VerdictFields ==
  ASSUME NEW x, Loop(x)
  PROVE  LET v == verdicts(x)
         IN  /\ Alike(x, v, {"endpoints", "kernel", "conflicts", "announce", "dadWait"})
             /\ v.kernel = Without(x.kernel, Clashing(x))
             /\ v.conflicts = x.conflicts \cup Clashing(x)
             /\ v.announce = announced(x)
             /\ v.dadWait = {a \in x.dadWait : a \in DOMAIN x.endpoints \/ ~dadIs(x, a, "ok")}
             /\ DOMAIN v.endpoints = DOMAIN x.endpoints
             /\ \A a \in Clashing(x) : v.endpoints[a] = "conflict"
             /\ \A a \in DOMAIN x.endpoints \ Mine(x) : v.endpoints[a] = x.endpoints[a]
             /\ \A a \in Mine(x) \ Clashing(x) : v.endpoints[a] \in {"tentative", "ok"}
<1> DEFINE own    == {a \in DOMAIN x.endpoints : x.endpoints[a] # "external"}
           failed == {a \in own : dadIs(x, a, "failed") /\ x.endpoints[a] # "conflict"}
           passed == {a \in own : dadIs(x, a, "ok")}
           ep     == With(With(x.endpoints, failed, "conflict"), passed, "ok")
           e      == endpointVerdicts(x)
           v      == verdicts(x)
<1>1. \A a \in DOMAIN x.endpoints :
         /\ x.endpoints[a] \in {"external", "tentative", "ok", "conflict"}
         /\ x.endpoints[a] = "conflict" => a \notin DOMAIN x.kernel
  BY DEF Loop, Base, Settled, SettledAt, Apart
<1>2. failed = Clashing(x) /\ passed = {a \in Mine(x) : dadIs(x, a, "ok")}
  BY <1>1 DEF Clashing, Mine, dadIs
<1>3. passed \cap failed = {}
  BY DEF dadIs
<1>4. /\ Alike(x, e, {"endpoints", "kernel", "conflicts"})
      /\ e.kernel = Without(x.kernel, failed) /\ e.conflicts = x.conflicts \cup failed
      /\ e.endpoints = ep
  BY DEF endpointVerdicts, Loop, Typed, Rec, Fields, Alike
<1>5. /\ DOMAIN ep = DOMAIN x.endpoints
      /\ \A a \in failed : ep[a] = "conflict"
      /\ \A a \in DOMAIN x.endpoints \ Mine(x) : ep[a] = x.endpoints[a]
      /\ \A a \in Mine(x) \ failed : ep[a] \in {"tentative", "ok"}
  BY <1>2, <1>3 DEF With, Mine, Clashing
<1> HIDE DEF own, failed, passed, ep, e
<1>6. /\ Alike(e, v, {"announce", "dadWait"})
      /\ v.announce = announced(x)
      /\ v.dadWait = {a \in e.dadWait : a \in DOMAIN x.endpoints \/ ~dadIs(x, a, "ok")}
  BY <1>4 DEF verdicts, Rec, Fields, Alike, e
<1> HIDE DEF v
<1>7. /\ Alike(x, v, {"endpoints", "kernel", "conflicts", "announce", "dadWait"})
      /\ v.kernel = e.kernel /\ v.conflicts = e.conflicts /\ v.endpoints = ep
      /\ e.dadWait = x.dadWait
  BY <1>4, <1>6 DEF Alike, Fields
<1> QED
  BY <1>2, <1>4, <1>5, <1>6, <1>7 DEF v

\* An address is announced until it can be used or fails.
LEMMA StillAnnounced ==
  ASSUME NEW x, NEW a \in DOMAIN x.announce,
         ~dadIs(x, a, "ok"), ~dadIs(x, a, "failed"), a \notin Pool
  PROVE  a \in DOMAIN announced(x)
BY DEF announced, Without, optimistic

\* The first pass of a poll keeps the invariant but for Still.
LEMMA VerdictStep ==
  ASSUME NEW x, Loop(x)
  PROVE  LET v == verdicts(x)
         IN  /\ Loop(v)
             /\ v.applied = x.applied /\ v.adopted = x.adopted /\ v.dadCnt = x.dadCnt
             /\ \A a \in x.dadWait \ DOMAIN x.kernel : a \in v.dadWait
             /\ preferred(v) = preferred(x) /\ Mine(v) = Mine(x) \ Clashing(x)
             /\ \A a \in DOMAIN x.kernel \ Clashing(x) :
                   a \in DOMAIN v.kernel /\ v.kernel[a] = x.kernel[a]
<1> DEFINE v == verdicts(x)
<1>1. /\ Alike(x, v, {"endpoints", "kernel", "conflicts", "announce", "dadWait"})
      /\ v.kernel = Without(x.kernel, Clashing(x))
      /\ v.conflicts = x.conflicts \cup Clashing(x)
      /\ v.announce = announced(x)
      /\ v.dadWait = {a \in x.dadWait : a \in DOMAIN x.endpoints \/ ~dadIs(x, a, "ok")}
      /\ DOMAIN v.endpoints = DOMAIN x.endpoints
      /\ \A a \in Clashing(x) : v.endpoints[a] = "conflict"
      /\ \A a \in DOMAIN x.endpoints \ Mine(x) : v.endpoints[a] = x.endpoints[a]
      /\ \A a \in Mine(x) \ Clashing(x) : v.endpoints[a] \in {"tentative", "ok"}
  BY VerdictFields
<1> HIDE DEF v
<1>2. /\ Typed(x) /\ OwnTemps(x) /\ Apart(x) /\ x.applied = want(x) /\ Active(x)
      /\ Known(x) /\ Settled(x) /\ Marked(x) /\ Watched(x) /\ Told(x)
  BY DEF Loop, Base
<1>3. /\ v.snap = x.snap /\ v.applied = x.applied /\ v.dadCnt = x.dadCnt /\ v.dadDue = x.dadDue
      /\ v.temps = x.temps /\ v.adopted = x.adopted /\ preferred(v) = preferred(x)
  BY <1>1 DEF Alike, Fields, preferred
<1>4. /\ DOMAIN v.kernel = DOMAIN x.kernel \ Clashing(x)
      /\ \A a \in DOMAIN v.kernel : v.kernel[a] = x.kernel[a]
  BY <1>1 DEF Without
<1>5. Clashing(x) \subseteq Mine(x) /\ Mine(x) \subseteq DOMAIN x.endpoints
  BY DEF Clashing, Mine
<1>6. Mine(v) = Mine(x) \ Clashing(x)
  BY <1>1, <1>5 DEF Mine
<1>7. \A a \in Mine(x) : a \in Tunnels /\ a \notin x.applied /\ a \notin Pool
  BY <1>2, Disjoint DEF Mine, Settled, SettledAt, Apart
<1>8. Typed(v)
  BY <1>1, <1>2, <1>3, <1>4 DEF Typed, Alike
<1>9. OwnTemps(v)
  BY <1>2, <1>3, <1>4, <1>5, <1>7 DEF OwnTemps
<1>10. Apart(v) /\ v.applied = want(v) /\ Active(v)
  <2>1. \A a \in DOMAIN v.endpoints : v.endpoints[a] # "external" => x.endpoints[a] # "external"
    BY <1>1, <1>5 DEF Mine
  <2> QED
    BY <2>1, <1>1, <1>2, <1>3 DEF Apart, want, Active
<1>11. Known(v)
  BY <1>2, <1>3, <1>4 DEF Known
<1>12. Settled(v)
  <2> SUFFICES ASSUME NEW a \in DOMAIN x.endpoints PROVE SettledAt(v, a)
    BY <1>1 DEF Settled
  <2>1. SettledAt(x, a)
    BY <1>2 DEF Settled
  <2>2. CASE a \in Clashing(x)
    BY <2>1, <2>2, <1>1, <1>4, <1>5, <1>6, <1>7 DEF SettledAt
  <2>3. CASE a \in Mine(x) \ Clashing(x)
    <3>1. a \in DOMAIN x.kernel => a \in DOMAIN v.kernel /\ v.kernel[a] = x.kernel[a]
      BY <2>3, <1>4
    <3> QED
      BY <2>1, <2>3, <3>1, <1>1, <1>3, <1>6, <1>7 DEF SettledAt
  <2>4. CASE a \notin Mine(x)
    <3>1. v.endpoints[a] = x.endpoints[a] /\ a \notin Mine(v)
      BY <2>4, <1>1, <1>6
    <3> QED
      BY <2>1, <3>1, <1>1, <1>3, <1>4 DEF SettledAt
  <2> QED
    BY <2>2, <2>3, <2>4
<1>13. Marked(v)
  BY <1>2, <1>3, <1>4, <1>6 DEF Marked
<1>14. Watched(v)
  <2>1. v.dadWait \subseteq v.applied
    BY <1>1, <1>2, <1>3 DEF Watched
  <2> SUFFICES ASSUME NEW a \in x.applied \ x.adopted
               PROVE  IF a \in DOMAIN v.kernel
                      THEN /\ v.kernel[a].finite
                           /\ v.kernel[a].dad = "failed" => a \in Mine(v)
                           /\ v.kernel[a].dad = "tentative" => a \in v.dadWait
                      ELSE a \in v.dadWait
    BY <2>1, <1>3 DEF Watched
  <2>2. a \in DOMAIN v.kernel <=> a \in DOMAIN x.kernel
    BY <1>4, <1>5, <1>7
  <2>3. CASE a \in DOMAIN v.kernel
    <3>1. v.kernel[a] = x.kernel[a] /\ a \in DOMAIN x.kernel
      BY <2>2, <2>3, <1>4
    <3>2. /\ x.kernel[a].finite /\ x.kernel[a].dad # "failed"
          /\ x.kernel[a].dad = "tentative" => a \in x.dadWait
      BY <3>1, <1>2, <1>7 DEF Watched
    <3> QED
      BY <2>3, <3>1, <3>2, <1>1 DEF dadIs
  <2>4. CASE a \notin DOMAIN v.kernel
    <3>1. a \in x.dadWait /\ ~dadIs(x, a, "ok")
      BY <2>2, <2>4, <1>2 DEF Watched, dadIs
    <3> QED
      BY <3>1, <2>4, <1>1
  <2> QED
    BY <2>3, <2>4
<1>15. Told(v)
  <2> SUFFICES ASSUME NEW a \in (v.dadWait \cap Tunnels) \ x.adopted
               PROVE  dadIs(v, a, "ok") \/ a \in DOMAIN v.announce
    BY <1>3 DEF Told
  <2>1. a \in x.dadWait /\ a \in x.applied /\ a \notin Mine(x) /\ a \notin Pool
    BY <1>1, <1>2, <1>7, Disjoint DEF Watched
  <2>2. CASE dadIs(x, a, "ok")
    BY <2>1, <2>2, <1>4, <1>5 DEF dadIs
  <2>3. CASE ~dadIs(x, a, "ok")
    <3>1. a \in DOMAIN x.announce
      BY <2>1, <2>3, <1>2 DEF Told
    <3>2. ~dadIs(x, a, "failed")
      BY <2>1, <1>2 DEF Watched, dadIs
    <3>3. a \in DOMAIN announced(x)
      BY <2>1, <2>3, <3>1, <3>2, StillAnnounced
    <3> QED
      BY <3>3, <1>1
  <2> QED
    BY <2>2, <2>3
<1>16. \A a \in x.dadWait \ DOMAIN x.kernel : a \in v.dadWait
  BY <1>1 DEF dadIs
<1>17. Loop(v)
  BY <1>8, <1>9, <1>10, <1>11, <1>12, <1>13, <1>14, <1>15 DEF Loop, Base
<1> QED
  BY <1>3, <1>4, <1>6, <1>16, <1>17 DEF v

\* A poll that finds nothing left has seen every verdict.
LEMMA Quiet ==
  ASSUME NEW x, Loop(x), ~unsettled(x),
         NEW a \in (x.applied \cup preferred(x) \cup (Mine(x) \ Clashing(x))) \ x.adopted
  PROVE  dadIs(x, a, "ok") /\ a \notin Clashing(x)
<1>1. /\ undecided(x) = {} /\ marked(x) = {} /\ lost(x) = {}
      /\ \A b \in DOMAIN announced(x) : b \notin DOMAIN x.kernel
  BY DEF unsettled
<1>2. /\ Typed(x) /\ OwnTemps(x) /\ Apart(x)
      /\ Known(x) /\ Settled(x) /\ Marked(x) /\ Watched(x) /\ Told(x)
  BY DEF Loop, Base
<1>3. \A b \in DOMAIN x.kernel : x.kernel[b].dad \in {"tentative", "ok", "failed"}
  BY <1>2 DEF Typed, Entries
<1>4. \A b \in DOMAIN x.endpoints : b \in Tunnels \cup {Leased} /\ b \notin Pool
  BY <1>2, Disjoint DEF Settled, SettledAt
<1>5. CASE a \in Mine(x) \ Clashing(x)
  <2>1. a \in DOMAIN x.kernel /\ a \in DOMAIN x.endpoints /\ x.endpoints[a] # "external"
    BY <1>2, <1>5 DEF Settled, SettledAt, Mine
  <2>2. x.kernel[a].dad # "failed"
    BY <1>5, <2>1 DEF Clashing, dadIs
  <2>3. x.kernel[a].dad # "tentative"
    BY <2>1, <1>1 DEF undecided
  <2> QED
    BY <1>3, <1>5, <2>1, <2>2, <2>3 DEF dadIs
<1>6. CASE a \in preferred(x)
  <2>1. a \in DOMAIN x.kernel /\ a \in DOMAIN x.temps /\ a \notin DOMAIN x.endpoints
    BY <1>2, <1>4, <1>6 DEF OwnTemps, preferred
  <2>2. x.kernel[a].dad # "failed"
    BY <2>1, <1>1 DEF marked, dadIs
  <2>3. x.kernel[a].dad # "tentative"
    BY <2>1, <1>1 DEF undecided
  <2> QED
    BY <1>3, <2>1, <2>2, <2>3 DEF dadIs, Clashing, Mine
<1>7. CASE a \in x.applied
  <2>1. a \in DOMAIN x.kernel
    BY <1>1, <1>2, <1>7 DEF lost, Watched
  <2>2. a \notin Mine(x) /\ a \in Statics
    BY <1>2, <1>7 DEF Apart, Mine, Known
  <2>3. x.kernel[a].dad # "failed"
    BY <2>1, <2>2, <1>2, <1>7 DEF Watched
  <2>4. ASSUME x.kernel[a].dad = "tentative" PROVE FALSE
    <3>1. a \in DOMAIN x.endpoints
      BY <2>1, <2>4, <1>1, <1>7 DEF undecided
    <3>2. a \in Tunnels /\ a \notin Pool
      BY <3>1, <2>2, <1>4, Disjoint
    <3>3. a \in x.dadWait
      BY <2>1, <2>4, <1>2, <1>7 DEF Watched
    <3>4. a \in DOMAIN x.announce
      BY <3>2, <3>3, <2>4, <1>2 DEF Told, dadIs
    <3>5. a \in DOMAIN announced(x)
      BY <3>2, <3>4, <2>4, StillAnnounced DEF dadIs
    <3> QED
      BY <3>5, <2>1, <1>1
  <2> QED
    BY <1>3, <2>1, <2>2, <2>3, <2>4 DEF dadIs, Clashing
<1> QED
  BY <1>5, <1>6, <1>7

\* What the store is told, and the announcements beyond Told, change nothing.
LEMMA Indifferent ==
  ASSUME NEW x, NEW y, Loop(x), Alike(x, y, {"announce", "dadDue", "self"}),
         y.dadDue \in BOOLEAN, Told(y)
  PROVE  /\ Loop(y) /\ y.applied = x.applied /\ preferred(y) = preferred(x) /\ Mine(y) = Mine(x)
         /\ y.dadWait = x.dadWait /\ y.kernel = x.kernel /\ y.adopted = x.adopted
         /\ y.dadCnt = x.dadCnt
<1>1. /\ y.snap = x.snap /\ y.applied = x.applied /\ y.dadCnt = x.dadCnt /\ y.temps = x.temps
      /\ y.dadWait = x.dadWait /\ y.endpoints = x.endpoints /\ y.conflicts = x.conflicts
      /\ y.adopted = x.adopted /\ y.kernel = x.kernel
      /\ preferred(y) = preferred(x) /\ Mine(y) = Mine(x) /\ want(y) = want(x)
  BY DEF Alike, Fields, preferred, Mine, want
<1>2. Typed(y)
  BY <1>1 DEF Loop, Typed, Alike
<1>3. OwnTemps(y) /\ Apart(y) /\ Active(y)
  BY <1>1 DEF Loop, OwnTemps, Apart, Active
<1>4. Settled(y)
  BY <1>1 DEF Loop, Base, Settled, SettledAt
<1>5. Known(y) /\ Marked(y) /\ Watched(y)
  BY <1>1 DEF Loop, Base, Known, Marked, Watched
<1> QED
  BY <1>1, <1>2, <1>3, <1>4, <1>5 DEF Loop, Base

\* A set of natural numbers has a least one.
LEMMA Least ==
  ASSUME NEW S \in SUBSET Nat, S # {}
  PROVE  \E n \in S : \A k \in S : n <= k
<1> DEFINE R == {ss \in Nat \X Nat : ss[1] < ss[2]}
<1>1. IsWellFoundedOn(R, Nat)
  BY NatLessThanWellFounded, Zenon DEF OpToRel
<1> HIDE DEF R
<1>2. PICK n \in S : \A k \in S : ~(<<k, n>> \in R)
  BY <1>1, WFMin
<1>3. \A k \in S : k < n => <<k, n>> \in R
  BY S \subseteq Nat DEF R
<1>4. \A k \in S : ~(k < n)
  BY <1>2, <1>3, Zenon
<1> QED
  BY <1>4, S \subseteq Nat

\* A static address came from a slot of its prefix.
LEMMA SlotFacts ==
  ASSUME NEW x, Typed(x), NEW a \in want(x)
  PROVE  /\ PrefixOf[a] \in x.snap.static /\ PrefixOf[a] \in Prefixes64
         /\ slotOf(x, a) \in Policies
         /\ IID[PrefixOf[a]][slotOf(x, a)][x.dadCnt[PrefixOf[a]][slotOf(x, a)]] = a
<1>1. PICK p \in x.snap.static, i \in Policies : a = IID[p][i][x.dadCnt[p][i]]
  BY DEF want
<1>2. p \in Prefixes64 /\ x.dadCnt[p][i] \in 0 .. MaxCounter
  BY DEF Typed, Published
<1>3. PrefixOf[a] = p
  BY <1>1, <1>2, AddressAssumption
<1> DEFINE is == {j \in Policies : IID[p][j][x.dadCnt[p][j]] = a}
<1>4. is \in SUBSET Nat /\ is # {}
  BY <1>1, PolicyAssumption
<1>5. \E j \in is : \A k \in is : j <= k
  BY <1>4, Least
<1>6. slotOf(x, a) = CHOOSE j \in is : \A k \in is : j <= k
  BY <1>3, <1>4 DEF slotOf
<1>7. slotOf(x, a) \in is
  BY <1>5, <1>6
<1> QED
  BY <1>2, <1>3, <1>7

\* The static addresses of y were there before or are new ones, which no
\* tunnel ends at; one that was waited for still is, unless it is in done.
Dropped(x, y, list, done) ==
    /\ x.adopted \subseteq y.adopted
    /\ y.applied \cap Tunnels \subseteq x.applied
    /\ \A a \in (x.dadWait \cap Tunnels) \ list : a \in y.applied => a \in y.dadWait /\ a \notin done

\* Replacements add up.
LEMMA DroppedTrans ==
  ASSUME NEW x, NEW y, NEW z, NEW list, NEW S, NEW T,
         Dropped(x, y, list, S), Dropped(y, z, list, T)
  PROVE  Dropped(x, z, list, S \cup T)
BY DEF Dropped

\* No tunnel ends at an address that follows a failure, and none at one that
\* two slots give.
LEMMA TunnelSlot ==
  ASSUME NEW a \in Tunnels, NEW p \in Prefixes64, NEW i \in Policies, NEW c \in 0 .. MaxCounter,
         IID[p][i][c] = a
  PROVE  c = 0 /\ \A j \in Policies : IID[p][j][0] = a => j = i
BY EndpointAssumption DEF Tunnels

\* What a slot gives is wanted.
LEMMA WantMember ==
  ASSUME NEW x, NEW p \in x.snap.static, NEW i \in Policies
  PROVE  IID[p][i][x.dadCnt[p][i]] \in want(x)
<1> DEFINE gives(q, j) == IID[q][j][x.dadCnt[q][j]]
<1>1. want(x) = {gives(q, j) : q \in x.snap.static, j \in Policies}
  BY DEF want
<1> HIDE DEF gives
<1>2. gives(p, i) \in want(x)
  BY <1>1
<1> QED
  BY <1>2 DEF gives

\* And conversely.
LEMMA WantSlot ==
  ASSUME NEW x, NEW a \in want(x)
  PROVE  \E p \in x.snap.static, i \in Policies : a = IID[p][i][x.dadCnt[p][i]]
<1> DEFINE gives(q, j) == IID[q][j][x.dadCnt[q][j]]
<1>1. want(x) = {gives(q, j) : q \in x.snap.static, j \in Policies}
  BY DEF want
<1> HIDE DEF gives
<1>2. \E p \in x.snap.static, i \in Policies : a = gives(p, i)
  BY <1>1
<1> QED
  BY <1>2 DEF gives

\* The wanted addresses after one counter moved on.
LEMMA MovedWant ==
  ASSUME NEW x, NEW y, y.snap.static = x.snap.static, x.snap.static \subseteq Prefixes64,
         NEW p \in Prefixes64, NEW i \in Policies,
         \A q \in Prefixes64, j \in Policies :
            /\ x.dadCnt[q][j] \in 0 .. MaxCounter /\ y.dadCnt[q][j] \in 0 .. MaxCounter
            /\ y.dadCnt[q][j] = IF q = p /\ j = i THEN x.dadCnt[q][j] + 1 ELSE x.dadCnt[q][j],
         NEW b \in want(y), b \in Tunnels
  PROVE  b \in want(x) /\ b # IID[p][i][x.dadCnt[p][i]]
<1>1. PICK q \in y.snap.static, j \in Policies : b = IID[q][j][y.dadCnt[q][j]]
  <2>1. \E q \in y.snap.static, j \in Policies : b = IID[q][j][y.dadCnt[q][j]]
    BY ONLY b \in want(y), WantSlot
  <2> QED
    BY ONLY <2>1
<1>2. q \in x.snap.static /\ q \in Prefixes64
  OBVIOUS
<1>3. y.dadCnt[q][j] = 0 /\ \A k \in Policies : IID[q][k][0] = b => k = j
  BY <1>1, <1>2, TunnelSlot
<1>4. ~(q = p /\ j = i) /\ x.dadCnt[q][j] = 0
  <2>1. /\ x.dadCnt[q][j] \in 0 .. MaxCounter
        /\ y.dadCnt[q][j] = IF q = p /\ j = i THEN x.dadCnt[q][j] + 1 ELSE x.dadCnt[q][j]
    BY <1>2
  <2>2. \A n \in 0 .. MaxCounter : n + 1 # 0
    BY PolicyAssumption
  <2> QED
    BY ONLY <1>3, <2>1, <2>2
<1>5. b \in want(x)
  <2>1. b = IID[q][j][x.dadCnt[q][j]]
    BY <1>1, <1>3, <1>4
  <2>2. IID[q][j][x.dadCnt[q][j]] \in want(x)
    BY <1>2, WantMember
  <2> QED
    BY <2>1, <2>2
<1>6. ASSUME b = IID[p][i][x.dadCnt[p][i]] PROVE FALSE
  <2>1. q = p
    <3>1. PrefixOf[IID[q][j][y.dadCnt[q][j]]] = q /\ PrefixOf[IID[p][i][x.dadCnt[p][i]]] = p
      BY <1>2, AddressAssumption
    <3> QED
      BY <3>1, <1>1, <1>6
  <2>2. x.dadCnt[p][i] = 0
    BY <1>6, TunnelSlot
  <2>3. i = j
    BY <1>3, <1>6, <2>1, <2>2
  <2> QED
    BY <1>4, <2>1, <2>3
<1> QED
  BY <1>5, <1>6

\* The wanted addresses after the counter of a's slot moved on.
LEMMA NextWant ==
  ASSUME NEW x, NEW y, Typed(x), Typed(y), NEW a \in want(x), y.snap = x.snap,
         NEW p, NEW i, p = PrefixOf[a], i = slotOf(x, a),
         y.dadCnt = [x.dadCnt EXCEPT ![p][i] = x.dadCnt[p][i] + 1]
  PROVE  /\ want(y) \cap Tunnels \subseteq want(x)
         /\ a \in Tunnels => a \notin want(y)
<1>1. /\ p \in Prefixes64 /\ i \in Policies
      /\ IID[p][i][x.dadCnt[p][i]] = a
  BY SlotFacts
<1>2. /\ x.dadCnt \in [Prefixes64 -> [Policies -> 0 .. MaxCounter]]
      /\ y.dadCnt \in [Prefixes64 -> [Policies -> 0 .. MaxCounter]]
      /\ x.snap.static \subseteq Prefixes64
  BY DEF Typed, Published
<1>3. \A q \in Prefixes64, j \in Policies :
         y.dadCnt[q][j] = IF q = p /\ j = i THEN x.dadCnt[q][j] + 1 ELSE x.dadCnt[q][j]
  BY <1>1, <1>2
<1>4. \A q \in Prefixes64, j \in Policies :
         x.dadCnt[q][j] \in 0 .. MaxCounter /\ y.dadCnt[q][j] \in 0 .. MaxCounter
  BY ONLY <1>2
<1>5. y.snap.static = x.snap.static
  OBVIOUS
<1>6. \A b \in want(y) : b \in Tunnels => b \in want(x) /\ b # IID[p][i][x.dadCnt[p][i]]
  BY ONLY <1>1, <1>2, <1>3, <1>4, <1>5, MovedWant
<1> QED
  BY ONLY <1>1, <1>6

\* The counters have room for n more failures.
Room(x, n) == \A p \in Prefixes64, i \in Policies : x.dadCnt[p][i] + n <= MaxCounter

\* The counters after the first replacements leave room for the others.
LEMMA Between ==
  ASSUME NEW b \in Nat, NEW c \in Nat, NEW n \in Nat, NEW k \in Nat, NEW top \in Nat,
         b + n + k <= top, c <= b + n
  PROVE  c + k <= top
OBVIOUS

\* A static address is given up, with its entry or after the kernel deleted it.
LEMMA GiveUp ==
  ASSUME NEW x, NEW y, Loop(x), NEW a \in x.applied,
         Alike(x, y, {"kernel", "plens", "dadCnt", "dadWait", "applied"}),
         y.dadCnt \in [Prefixes64 -> [Policies -> 0 .. MaxCounter]],
         y.applied = x.applied \ {a}, y.dadWait = x.dadWait \ {a},
         DOMAIN y.kernel \subseteq DOMAIN x.kernel, DOMAIN x.kernel \ {a} \subseteq DOMAIN y.kernel,
         \A b \in DOMAIN y.kernel : y.kernel[b] = x.kernel[b]
  PROVE  Typed(y) /\ OwnTemps(y) /\ Base(y) /\ Apart(y) /\ preferred(y) = preferred(x)
<1>1. /\ y.snap = x.snap /\ y.temps = x.temps /\ y.endpoints = x.endpoints
      /\ y.conflicts = x.conflicts /\ y.adopted = x.adopted /\ y.announce = x.announce
      /\ y.dadDue = x.dadDue
      /\ preferred(y) = preferred(x) /\ Mine(y) = Mine(x)
  BY DEF Alike, Fields, preferred, Mine
<1>2. /\ Typed(x) /\ OwnTemps(x) /\ Apart(x)
      /\ Known(x) /\ Settled(x) /\ Marked(x) /\ Watched(x) /\ Told(x)
  BY DEF Loop, Base
<1>3. a \notin preferred(x) /\ a \notin Mine(x)
  BY <1>2, Disjoint DEF OwnTemps, Known, Apart, Mine
<1>4. Typed(y)
  BY <1>1, <1>2 DEF Typed, Alike
<1>5. OwnTemps(y) /\ Apart(y) /\ Known(y)
  BY <1>1, <1>2, <1>3 DEF OwnTemps, Apart, Known
<1>6. Settled(y)
  <2> SUFFICES ASSUME NEW b \in DOMAIN x.endpoints PROVE SettledAt(y, b)
    BY <1>1 DEF Settled
  <2>1. SettledAt(x, b) /\ (x.endpoints[b] # "external" => b \notin x.applied)
    BY <1>2 DEF Settled, Apart
  <2> QED
    BY <2>1, <1>1, <1>3 DEF SettledAt
<1>7. Marked(y) /\ Watched(y) /\ Told(y)
  BY <1>1, <1>2 DEF Marked, Watched, Told, dadIs
<1> QED
  BY <1>1, <1>4, <1>5, <1>6, <1>7 DEF Base

\* prefixDADFailed: the next address of the slot is none a tunnel ends at, so the
\* endpoints stay apart from the static addresses.
LEMMA DropStep ==
  ASSUME NEW x, NEW x0, Loop(x), NEW a \in x.applied, NEW list, Room(x, 1),
         Alike(x, x0, {"kernel"}),
         DOMAIN x0.kernel \subseteq DOMAIN x.kernel, DOMAIN x.kernel \ {a} \subseteq DOMAIN x0.kernel,
         \A b \in DOMAIN x0.kernel : x0.kernel[b] = x.kernel[b]
  PROVE  LET z == prefixDADFailed(x0, a)
         IN  /\ Loop(z)
             /\ Dropped(x, z, list, {a})
             /\ \A p \in Prefixes64, i \in Policies : z.dadCnt[p][i] <= x.dadCnt[p][i] + 1
<1> DEFINE p == PrefixOf[a]
           i == slotOf(x0, a)
           c == x0.dadCnt[p][i] + 1
           y == [x0 EXCEPT !.dadCnt[p][i] = c, !.dadWait = @ \ {a},
                           !.applied = @ \ {a}, !.plens = Without(@, {a})]
           z == applyPrefixAddrs(y)
           r == [z EXCEPT !.self = With(@, {p}, IID[p][1][c])]
<1>1. prefixDADFailed(x0, a) \in {z, r}
  BY DEF prefixDADFailed
<1>2. /\ x0.dadCnt = x.dadCnt /\ x0.snap = x.snap /\ x0.applied = x.applied
      /\ x0.dadWait = x.dadWait /\ Rec(x0)
  BY DEF Alike, Fields
<1>3. Typed(x) /\ a \in want(x) /\ i = slotOf(x, a)
  BY <1>2 DEF Loop, slotOf
<1>4. p \in Prefixes64 /\ i \in Policies
  BY <1>3, SlotFacts
<1> HIDE DEF i, p
<1>5. /\ x.dadCnt \in [Prefixes64 -> [Policies -> 0 .. MaxCounter]]
      /\ c = x.dadCnt[p][i] + 1 /\ c \in 0 .. MaxCounter
  BY <1>2, <1>3, <1>4, PolicyAssumption DEF Typed, Room
<1>6. /\ Alike(x0, y, {"plens", "dadCnt", "dadWait", "applied"})
      /\ y.dadCnt = [x.dadCnt EXCEPT ![p][i] = x.dadCnt[p][i] + 1]
      /\ y.dadWait = x.dadWait \ {a} /\ y.applied = x.applied \ {a} /\ y.kernel = x0.kernel
  BY <1>2 DEF Rec, Fields, Alike
<1> HIDE DEF y, c
<1>7. /\ Alike(x, y, {"kernel", "plens", "dadCnt", "dadWait", "applied"})
      /\ y.snap = x.snap /\ y.adopted = x.adopted /\ y.endpoints = x.endpoints
  BY <1>6 DEF Alike, Fields
<1>8. /\ y.dadCnt \in [Prefixes64 -> [Policies -> 0 .. MaxCounter]]
      /\ \A q \in Prefixes64, j \in Policies : y.dadCnt[q][j] <= x.dadCnt[q][j] + 1
  <2>1. \A q \in Prefixes64, j \in Policies :
          /\ x.dadCnt[q][j] \in 0 .. MaxCounter
          /\ y.dadCnt[q][j] = IF q = p /\ j = i THEN c ELSE x.dadCnt[q][j]
    BY <1>4, <1>5, <1>6
  <2>2. y.dadCnt \in [Prefixes64 -> [Policies -> 0 .. MaxCounter]]
    BY <1>4, <1>5, <1>6
  <2> QED
    BY <2>1, <2>2, <1>5, PolicyAssumption
<1>9. Typed(y) /\ OwnTemps(y) /\ Base(y) /\ Apart(y) /\ preferred(y) = preferred(x)
  BY <1>6, <1>7, <1>8, GiveUp
<1>10. /\ want(y) \cap Tunnels \subseteq want(x)
       /\ a \in Tunnels => a \notin want(y)
  BY <1>3, <1>6, <1>7, <1>9, NextWant DEF p
<1>11. /\ Typed(z) /\ OwnTemps(z) /\ Base(z)
       /\ z.snap = y.snap /\ z.dadCnt = y.dadCnt /\ z.endpoints = y.endpoints
       /\ z.applied = want(y) /\ y.adopted \subseteq z.adopted
       /\ \A b \in y.dadWait \cap z.applied : b \in z.dadWait
       /\ \A b \in preferred(z) : b \in preferred(y) \/ PrefixOf[b] \in y.snap.active
  BY <1>9, ApplyStep
<1> HIDE DEF z
<1>12. Apart(z)
  <2>1. \A b \in DOMAIN x.endpoints : x.endpoints[b] # "external" => b \in Tunnels /\ b \notin want(x)
    BY DEF Loop, Base, Settled, SettledAt, Apart
  <2> QED
    BY <2>1, <1>7, <1>10, <1>11 DEF Apart
<1>13. z.applied = want(z) /\ Active(z)
  BY <1>7, <1>9, <1>11 DEF want, Active, Loop
<1>14. Loop(z)
  BY <1>11, <1>12, <1>13 DEF Loop
<1>15. Dropped(x, z, list, {a})
  BY <1>3, <1>6, <1>7, <1>10, <1>11 DEF Dropped, Loop
<1>16. Alike(z, r, {"self"})
  BY <1>11 DEF Typed, Rec, Fields, Alike
<1> HIDE DEF r
<1>17. Alike(z, r, {"announce", "dadDue", "self"}) /\ r.dadDue \in BOOLEAN /\ Told(r)
  <2>1. /\ r.dadDue = z.dadDue /\ r.announce = z.announce /\ r.kernel = z.kernel
        /\ r.dadWait = z.dadWait /\ r.adopted = z.adopted
    BY <1>16 DEF Alike, Fields
  <2>2. z.dadDue \in BOOLEAN /\ Told(z)
    BY <1>11 DEF Typed, Base
  <2>3. Told(r)
    BY <2>1, <2>2 DEF Told, dadIs
  <2> QED
    BY <1>16, <2>1, <2>2, <2>3 DEF Alike
<1>18. /\ Loop(r) /\ r.applied = z.applied /\ r.dadWait = z.dadWait /\ r.adopted = z.adopted
       /\ r.dadCnt = z.dadCnt
  BY <1>14, <1>17, Indifferent
<1>19. Dropped(x, r, list, {a})
  BY <1>15, <1>18 DEF Dropped
<1> QED
  BY <1>1, <1>8, <1>11, <1>14, <1>15, <1>18, <1>19

\* The replacement of one failed address, whatever kind it is of.
LEMMA ReplaceStep ==
  ASSUME NEW x, Loop(x), NEW list, NEW a, Room(x, 1)
  PROVE  LET z == replace(x, list, a)
         IN  /\ Loop(z)
             /\ Dropped(x, z, list, {a})
             /\ \A p \in Prefixes64, i \in Policies : z.dadCnt[p][i] <= x.dadCnt[p][i] + 1
<1> DEFINE x0 == [x EXCEPT !.kernel = Without(@, {a})]
           t == tempFailed(x, a)
<1>1. Typed(x) /\ OwnTemps(x) /\ Base(x) /\ Apart(x) /\ x.dadWait \subseteq x.applied
  BY DEF Loop, Base, Watched
<1>2. \A p \in Prefixes64, i \in Policies : x.dadCnt[p][i] <= x.dadCnt[p][i] + 1
  BY <1>1 DEF Typed
<1>3. CASE a \in list /\ a \in x.applied
  <2>1. Alike(x, x0, {"kernel"}) /\ x0.kernel = Without(x.kernel, {a})
    BY <1>1 DEF Typed, Rec, Fields, Alike
  <2>2. replace(x, list, a) = prefixDADFailed(x0, a)
    BY <1>3 DEF replace
  <2> HIDE DEF x0
  <2>3. /\ DOMAIN x0.kernel \subseteq DOMAIN x.kernel /\ DOMAIN x.kernel \ {a} \subseteq DOMAIN x0.kernel
        /\ \A b \in DOMAIN x0.kernel : x0.kernel[b] = x.kernel[b]
    BY <2>1 DEF Without
  <2> QED
    BY <1>3, <2>1, <2>2, <2>3, DropStep
<1>4. CASE a \notin list /\ a \in x.dadWait
  <2>1. replace(x, list, a) = prefixDADFailed(x, a) /\ a \in x.applied
    BY <1>1, <1>4 DEF replace
  <2>2. Alike(x, x, {"kernel"})
    BY <1>1 DEF Alike, Typed
  <2> QED
    BY <2>1, <2>2, DropStep
<1>5. CASE a \in list /\ a \notin x.applied /\ a \in DOMAIN x.temps
  <2>1. replace(x, list, a) = t
    BY <1>5 DEF replace
  <2>2. TempStep(x, t)
    BY <1>1, <1>5, TempFailedStep
  <2> HIDE DEF t
  <2>3. Base(t) /\ Apart(t) /\ t.applied = want(t) /\ t.applied = x.applied
    BY <1>1, <2>2, TempKeeps DEF Loop
  <2>4. /\ Typed(t) /\ OwnTemps(t) /\ t.dadCnt = x.dadCnt /\ t.adopted = x.adopted
        /\ t.dadWait = x.dadWait /\ t.snap = x.snap
        /\ \A b \in preferred(t) : b \in preferred(x) \/ PrefixOf[b] \in x.snap.active
    BY <2>2 DEF TempStep, Alike, Fields
  <2>5. Active(t)
    BY <2>4 DEF Loop, Active
  <2>6. Dropped(x, t, list, {a})
    BY <1>5, <2>3, <2>4 DEF Dropped
  <2> QED
    BY <1>2, <2>1, <2>3, <2>4, <2>5, <2>6 DEF Loop
<1>6. CASE replace(x, list, a) = x /\ ~(a \notin list /\ a \in x.dadWait)
  <2>1. Dropped(x, x, list, {a})
    BY <1>6 DEF Dropped
  <2> QED
    BY <1>2, <1>6, <2>1
<1> QED
  BY <1>3, <1>4, <1>5, <1>6 DEF replace

\* after is the states of replaceAll, from the first to the n-th.
Course(after, x, list, order, n) ==
    after = [k \in 0 .. n |-> IF k = 0 THEN x ELSE replace(after[k - 1], list, order[k])]

\* The recursive function of replaceAll is defined on every order.
LEMMA CourseExists ==
  ASSUME NEW x, NEW list, NEW order, NEW n \in Nat
  PROVE  \E f : Course(f, x, list, order, n)
<1> DEFINE B == {k \in Nat : ~ \E f : Course(f, x, list, order, k)}
<1>1. SUFFICES ASSUME B # {} PROVE FALSE
  OBVIOUS
<1>2. PICK k \in B : \A j \in B : k <= j
  BY <1>1, Least, B \in SUBSET Nat
<1>3. CASE k = 0
  <2>1. Course([j \in 0 .. 0 |-> x], x, list, order, 0)
    BY DEF Course
  <2> QED
    BY <2>1, <1>2, <1>3
<1>4. CASE k # 0
  <2>1. k - 1 \in Nat /\ k - 1 \notin B
    BY <1>2, <1>4
  <2>2. PICK f : Course(f, x, list, order, k - 1)
    BY <2>1
  <2> DEFINE g == [j \in 0 .. k |-> IF j = k THEN replace(f[k - 1], list, order[k]) ELSE f[j]]
  <2>3. ASSUME NEW j \in 0 .. k
        PROVE  g[j] = IF j = 0 THEN x ELSE replace(g[j - 1], list, order[j])
    <3>1. CASE j = 0
      BY <3>1, <2>2, <1>2, <1>4 DEF Course
    <3>2. CASE j = k
      <4>1. g[j - 1] = f[k - 1]
        BY <3>2, <1>2, <1>4
      <4> QED
        BY <4>1, <3>2, <1>2, <1>4
    <3>3. CASE j # 0 /\ j # k
      <4>1. g[j - 1] = f[j - 1]
        BY <3>3, <1>2
      <4>2. g[j] = f[j]
        BY <3>3
      <4>3. f[j] = replace(f[j - 1], list, order[j])
        BY <3>3, <2>2, <1>2 DEF Course
      <4> QED
        BY <4>1, <4>2, <4>3, <3>3
    <3> QED
      BY <3>1, <3>2, <3>3
  <2>4. Course(g, x, list, order, k)
    BY <2>3 DEF Course
  <2> QED
    BY <2>4, <1>2
<1> QED
  BY <1>3, <1>4

\* All the replacements of an order.
LEMMA ReplaceAllStep ==
  ASSUME NEW x, Loop(x), NEW list, NEW order, Len(order) \in Nat, Room(x, Len(order))
  PROVE  LET z == replaceAll(x, list, order)
         IN  /\ Loop(z)
             /\ Dropped(x, z, list, {order[k] : k \in 1 .. Len(order)})
             /\ \A p \in Prefixes64, i \in Policies : z.dadCnt[p][i] <= x.dadCnt[p][i] + Len(order)
             /\ Len(order) = 0 => z = x
<1> DEFINE n == Len(order)
           f == CHOOSE g : Course(g, x, list, order, n)
           done(k) == {order[j] : j \in 1 .. k}
           P(k) == /\ Loop(f[k])
                   /\ Dropped(x, f[k], list, done(k))
                   /\ \A p \in Prefixes64, i \in Policies : f[k].dadCnt[p][i] <= x.dadCnt[p][i] + k
           B == {k \in 0 .. n : ~P(k)}
<1>1. Course(f, x, list, order, n)
  BY CourseExists
<1>2. replaceAll(x, list, order) = f[n]
  BY DEF replaceAll, Course
<1> HIDE DEF f
<1>3. /\ f[0] = x
      /\ \A k \in 1 .. n : f[k] = replace(f[k - 1], list, order[k])
  BY <1>1 DEF Course
<1>4. \A p \in Prefixes64, i \in Policies : x.dadCnt[p][i] \in 0 .. MaxCounter
  BY DEF Loop, Typed
<1>5. P(0)
  <2>1. done(0) = {}
    OBVIOUS
  <2>2. Dropped(x, x, list, done(0))
    BY <2>1 DEF Dropped, Loop, Base, Watched
  <2> QED
    BY <2>2, <1>3, <1>4
<1>6. ASSUME NEW k \in 1 .. n, P(k - 1) PROVE P(k)
  <2> DEFINE y == f[k - 1]
             z == f[k]
             a == order[k]
  <2>1. Loop(y) /\ Dropped(x, y, list, done(k - 1))
    BY <1>6
  <2>2. \A p \in Prefixes64, i \in Policies :
          /\ y.dadCnt[p][i] \in 0 .. MaxCounter
          /\ y.dadCnt[p][i] <= x.dadCnt[p][i] + (k - 1)
    BY <1>6 DEF Loop, Typed
  <2>3. Room(y, 1)
    <3> SUFFICES ASSUME NEW p \in Prefixes64, NEW i \in Policies
                 PROVE  y.dadCnt[p][i] + 1 <= MaxCounter
      BY DEF Room
    <3>1. x.dadCnt[p][i] + n <= MaxCounter
      BY DEF Room
    <3>2. /\ y.dadCnt[p][i] \in Int /\ x.dadCnt[p][i] \in Int
          /\ y.dadCnt[p][i] <= x.dadCnt[p][i] + (k - 1)
      BY <2>2, <1>4
    <3>3. n \in Nat /\ k \in 1 .. n
      OBVIOUS
    <3> HIDE DEF y
    <3> QED
      BY ONLY <3>1, <3>2, <3>3, PolicyAssumption
  <2>4. z = replace(y, list, a)
    BY <1>3
  <2>5. /\ Loop(z)
        /\ Dropped(y, z, list, {a})
        /\ \A p \in Prefixes64, i \in Policies : z.dadCnt[p][i] <= y.dadCnt[p][i] + 1
    BY <2>1, <2>3, <2>4, ReplaceStep
  <2>6. done(k) = done(k - 1) \cup {a}
    OBVIOUS
  <2>7. Dropped(x, z, list, done(k))
    BY <2>1, <2>5, <2>6, DroppedTrans
  <2>8. \A p \in Prefixes64, i \in Policies : z.dadCnt[p][i] \in 0 .. MaxCounter
    BY <2>5 DEF Loop, Typed
  <2>9. \A p \in Prefixes64, i \in Policies : z.dadCnt[p][i] <= x.dadCnt[p][i] + k
    <3> SUFFICES ASSUME NEW p \in Prefixes64, NEW i \in Policies
                 PROVE  z.dadCnt[p][i] <= x.dadCnt[p][i] + k
      OBVIOUS
    <3>1. /\ z.dadCnt[p][i] \in Int /\ y.dadCnt[p][i] \in Int /\ x.dadCnt[p][i] \in Int
          /\ y.dadCnt[p][i] <= x.dadCnt[p][i] + (k - 1)
          /\ z.dadCnt[p][i] <= y.dadCnt[p][i] + 1
      BY <2>2, <2>5, <2>8, <1>4
    <3> HIDE DEF y, z
    <3> QED
      BY <3>1
  <2> QED
    BY <2>5, <2>7, <2>9
<1> HIDE DEF P
<1>7. B = {}
  <2> SUFFICES ASSUME B # {} PROVE FALSE
    OBVIOUS
  <2>1. PICK k \in B : \A j \in B : k <= j
    BY Least, B \in SUBSET Nat
  <2>2. k \in 1 .. n /\ ~P(k)
    BY <1>5, <2>1
  <2>3. P(k - 1)
    BY <2>1, <2>2
  <2> QED
    BY <1>6, <2>2, <2>3
<1>8. P(n)
  BY <1>7
<1> QED
  BY <1>2, <1>3, <1>8 DEF P

\* An order of a finite set has each of its elements once.
LEMMA OrderFacts ==
  ASSUME NEW S, IsFiniteSet(S), NEW order \in SetToSeqs(S)
  PROVE  /\ Len(order) \in Nat /\ Len(order) = Cardinality(S)
         /\ {order[k] : k \in 1 .. Len(order)} = S
<1> DEFINE n == Cardinality(S)
<1>1. n \in Nat
  BY FS_CardinalityType
<1>2. /\ order \in [1 .. n -> S]
      /\ \A i, j \in 1 .. n : i # j => order[i] # order[j]
  BY DEF SetToSeqs
<1> HIDE DEF n
<1>3. order \in Injection(1 .. n, S)
  BY <1>2 DEF Injection, IsInjective
<1>4. Cardinality(1 .. n) = Cardinality(S)
  BY <1>1, FS_Interval DEF n
<1>5. order \in Surjection(1 .. n, S)
  BY <1>3, <1>4, FS_Injection
<1>6. \A a \in S : \E k \in 1 .. n : order[k] = a
  BY <1>5 DEF Surjection
<1>7. Len(order) = n
  <2>1. order \in Seq(S)
    BY <1>1, <1>2
  <2> QED
    BY <1>1, <1>2, <2>1
<1> QED
  BY <1>1, <1>2, <1>6, <1>7 DEF n

\* The failed addresses are finitely many, and none is both marked and lost.
LEMMA PollFinite ==
  ASSUME NEW x, Loop(x)
  PROVE  /\ IsFiniteSet(marked(x)) /\ IsFiniteSet(lost(x))
         /\ Cardinality(marked(x) \cup lost(x)) = Cardinality(marked(x)) + Cardinality(lost(x))
<1>1. marked(x) \in SUBSET DOMAIN PrefixOf
  BY DEF marked, dadIs, Loop, Base, Known
<1>2. lost(x) \in SUBSET DOMAIN PrefixOf
  BY AddressAssumption DEF lost, Loop, Base, Known, Watched
<1>3. IsFiniteSet(DOMAIN PrefixOf)
  BY AddressAssumption
<1>4. IsFiniteSet(marked(x)) /\ IsFiniteSet(lost(x))
  BY <1>1, <1>2, <1>3, FS_Subset
<1>5. marked(x) \cap lost(x) = {}
  BY DEF marked, lost, dadIs
<1>6. Cardinality(marked(x) \cap lost(x)) = 0
  BY <1>5, FS_EmptySet
<1>7. Cardinality(marked(x)) \in Nat /\ Cardinality(lost(x)) \in Nat
  BY <1>4, FS_CardinalityType
<1>8. Cardinality(marked(x) \cup lost(x)) =
         Cardinality(marked(x)) + Cardinality(lost(x)) - Cardinality(marked(x) \cap lost(x))
  BY <1>4, FS_Union
<1> QED
  BY <1>4, <1>6, <1>7, <1>8

\* The whole poll: an address that failed unseen is no longer waited for at its
\* end, so no announcement that is cut was still needed.
LEMMA PollStep ==
  ASSUME NEW x, Inv(x),
         Room(x, Cardinality(marked(x) \cup lost(x))),
         NEW order \in SetToSeqs(marked(x)), NEW late \in SetToSeqs(lost(x))
  PROVE  Inv(checkDAD(x, order, late))
<1> DEFINE list == DOMAIN x.kernel
           v == verdicts(x)
           y == replaceAll(v, list, order)
           z == replaceAll(y, list, late)
           r == [z EXCEPT !.announce = Without(@, DOMAIN @ \ list), !.dadDue = unsettled(x)]
<1>1. r = checkDAD(x, order, late)
  BY DEF checkDAD
<1>2. Loop(x)
  BY DEF Inv, Loop
<1>3. /\ Len(order) \in Nat /\ Len(order) = Cardinality(marked(x))
      /\ {order[k] : k \in 1 .. Len(order)} = marked(x)
  BY <1>2, PollFinite, OrderFacts
<1>4. /\ Len(late) \in Nat /\ Len(late) = Cardinality(lost(x))
      /\ {late[k] : k \in 1 .. Len(late)} = lost(x)
  BY <1>2, PollFinite, OrderFacts
<1>5. \A p \in Prefixes64, i \in Policies : x.dadCnt[p][i] + Len(order) + Len(late) <= MaxCounter
  <2>1. Cardinality(marked(x) \cup lost(x)) = Len(order) + Len(late)
    BY <1>2, <1>3, <1>4, PollFinite
  <2>2. \A p \in Prefixes64, i \in Policies : x.dadCnt[p][i] \in Nat
    BY <1>2 DEF Loop, Typed
  <2> QED
    BY <1>3, <1>4, <2>1, <2>2 DEF Room
<1>6. /\ Loop(v)
      /\ v.applied = x.applied /\ v.adopted = x.adopted /\ v.dadCnt = x.dadCnt
      /\ \A a \in x.dadWait \ DOMAIN x.kernel : a \in v.dadWait
      /\ preferred(v) = preferred(x) /\ Mine(v) = Mine(x) \ Clashing(x)
      /\ \A a \in DOMAIN x.kernel \ Clashing(x) :
            a \in DOMAIN v.kernel /\ v.kernel[a] = x.kernel[a]
  BY <1>2, VerdictStep
<1> HIDE DEF v
<1>7. \A p \in Prefixes64, i \in Policies : v.dadCnt[p][i] \in Nat
  BY <1>6 DEF Loop, Typed
<1>8. Room(v, Len(order))
  BY <1>3, <1>4, <1>5, <1>6, <1>7, PolicyAssumption DEF Room
<1>9. /\ Loop(y)
      /\ Dropped(v, y, list, marked(x))
      /\ \A p \in Prefixes64, i \in Policies : y.dadCnt[p][i] <= v.dadCnt[p][i] + Len(order)
      /\ Len(order) = 0 => y = v
  <2>1. /\ Loop(y)
        /\ Dropped(v, y, list, {order[k] : k \in 1 .. Len(order)})
        /\ \A p \in Prefixes64, i \in Policies : y.dadCnt[p][i] <= v.dadCnt[p][i] + Len(order)
        /\ Len(order) = 0 => y = v
    BY <1>3, <1>6, <1>8, ReplaceAllStep
  <2> HIDE DEF y
  <2> QED
    BY <2>1, <1>3
<1> HIDE DEF y
<1>10. \A p \in Prefixes64, i \in Policies : y.dadCnt[p][i] \in Nat
  BY <1>9 DEF Loop, Typed
<1>11. Room(y, Len(late))
  <2> SUFFICES ASSUME NEW p \in Prefixes64, NEW i \in Policies
               PROVE  y.dadCnt[p][i] + Len(late) <= MaxCounter
    BY DEF Room
  <2>1. /\ x.dadCnt[p][i] + Len(order) + Len(late) <= MaxCounter
        /\ y.dadCnt[p][i] <= x.dadCnt[p][i] + Len(order)
        /\ y.dadCnt[p][i] \in Nat /\ x.dadCnt[p][i] \in Nat
    BY <1>5, <1>6, <1>7, <1>9, <1>10
  <2> QED
    BY ONLY <2>1, <1>3, <1>4, PolicyAssumption, Between
<1>12. /\ Loop(z)
       /\ Dropped(y, z, list, lost(x))
       /\ Len(late) = 0 => z = y
  BY <1>4, <1>9, <1>11, ReplaceAllStep
<1> HIDE DEF z
<1>13. /\ Alike(z, r, {"announce", "dadDue", "self"})
       /\ r.announce = Without(z.announce, DOMAIN z.announce \ list)
       /\ r.dadDue = unsettled(x)
  BY <1>12 DEF Loop, Typed, Rec, Fields, Alike
<1> HIDE DEF r
<1>14. r.dadDue \in BOOLEAN
  BY <1>13 DEF unsettled
<1>15. /\ r.kernel = z.kernel /\ r.dadWait = z.dadWait /\ r.adopted = z.adopted
       /\ DOMAIN r.announce = DOMAIN z.announce \cap list
  BY <1>13 DEF Alike, Fields, Without
<1>16. Told(r)
  <2> SUFFICES ASSUME NEW a \in (z.dadWait \cap Tunnels) \ z.adopted
               PROVE  dadIs(r, a, "ok") \/ a \in DOMAIN r.announce
    BY <1>15 DEF Told
  <2>1. dadIs(z, a, "ok") \/ a \in DOMAIN z.announce
    BY <1>12 DEF Loop, Base, Told
  <2>2. a \in list
    <3> SUFFICES ASSUME a \notin list PROVE FALSE
      OBVIOUS
    <3>1. Dropped(v, z, list, marked(x) \cup lost(x))
      BY <1>9, <1>12, DroppedTrans
    <3>2. a \in z.applied
      BY <1>12 DEF Loop, Base, Watched
    <3>3. a \in x.applied \ x.adopted
      BY <3>1, <3>2, <1>6 DEF Dropped
    <3>4. a \in x.dadWait /\ a \in lost(x)
      BY <3>3, <1>2 DEF Loop, Base, Watched, lost
    <3>5. a \in v.dadWait
      BY <3>4, <1>6
    <3> QED
      BY <3>1, <3>2, <3>4, <3>5 DEF Dropped
  <2> QED
    BY <2>1, <2>2, <1>15 DEF dadIs
<1>17. /\ Loop(r) /\ r.applied = z.applied /\ preferred(r) = preferred(z) /\ Mine(r) = Mine(z)
  BY <1>12, <1>13, <1>14, <1>16, Indifferent
<1>18. Still(r)
  <2> SUFFICES ASSUME ~unsettled(x), NEW a \in (r.applied \cup preferred(r) \cup Mine(r)) \ r.adopted
               PROVE  dadIs(r, a, "ok")
    BY <1>13 DEF Still
  <2>1. marked(x) = {} /\ lost(x) = {}
    BY DEF unsettled
  <2>2. Len(order) = 0 /\ Len(late) = 0
    BY <2>1, <1>3, <1>4, FS_EmptySet
  <2>3. z = v
    BY <2>2, <1>9, <1>12
  <2>4. a \in (x.applied \cup preferred(x) \cup (Mine(x) \ Clashing(x))) \ x.adopted
    BY <2>3, <1>6, <1>15, <1>17
  <2>5. dadIs(x, a, "ok") /\ a \notin Clashing(x)
    BY <2>4, <1>2, Quiet
  <2> QED
    BY <2>3, <2>5, <1>6, <1>15 DEF dadIs
<1>19. Inv(r)
  BY <1>17, <1>18 DEF Inv, Loop
<1> QED
  BY <1>1, <1>19

----------------------------------------------------------------------------
(* The other steps *)

\* Steps of the temporary addresses keep the invariant.
LEMMA TempInv ==
  ASSUME NEW x, NEW y, Inv(x), TempStep(x, y)
  PROVE  Inv(y)
<1>1. Base(y) /\ Apart(y) /\ Still(y) /\ y.applied = want(y)
  BY TempKeeps DEF Inv
<1>2. Typed(y) /\ OwnTemps(y) /\ Active(y)
  BY DEF Inv, TempStep, Active, Alike, Fields
<1> QED
  BY <1>1, <1>2 DEF Inv

\* The kernel decides about addresses, and the leased one comes and goes.
KernelStep(x, y) ==
    /\ Alike(x, y, {"kernel"})
    /\ \A a \in DOMAIN y.kernel : y.kernel[a] \in Entries
    /\ \A a \in DOMAIN y.kernel \ {Leased} :
          /\ a \in DOMAIN x.kernel /\ y.kernel[a].finite = x.kernel[a].finite
          /\ \/ y.kernel[a].dad = x.kernel[a].dad
             \/ x.kernel[a].dad = "tentative" /\ y.kernel[a].dad = "ok"
             \/ x.kernel[a].dad = "tentative" /\ y.kernel[a].dad = "failed" /\ ~x.kernel[a].finite
    /\ \A a \in DOMAIN x.kernel \ {Leased} :
          a \in DOMAIN y.kernel \/ (x.kernel[a].finite /\ x.kernel[a].dad = "tentative")
    /\ Leased \in DOMAIN y.kernel \ x.adopted =>
          y.kernel[Leased].finite /\ y.kernel[Leased].dad # "failed"

\* Verdicts and the leased address keep it.
LEMMA KernelInv ==
  ASSUME NEW x, NEW y, Inv(x), KernelStep(x, y)
  PROVE  Inv(y)
<1>1. /\ y.snap = x.snap /\ y.applied = x.applied /\ y.dadCnt = x.dadCnt /\ y.temps = x.temps
      /\ y.dadWait = x.dadWait /\ y.endpoints = x.endpoints /\ y.conflicts = x.conflicts
      /\ y.adopted = x.adopted /\ y.announce = x.announce /\ y.dadDue = x.dadDue
      /\ preferred(y) = preferred(x) /\ Mine(y) = Mine(x) /\ want(y) = want(x)
  BY DEF KernelStep, Alike, Fields, preferred, Mine, want
<1>2. /\ Typed(x) /\ OwnTemps(x) /\ Apart(x) /\ Still(x) /\ x.applied = want(x) /\ Active(x)
      /\ Known(x) /\ Settled(x) /\ Marked(x) /\ Watched(x) /\ Told(x)
  BY DEF Inv, Base
<1>3. Leased \notin x.applied \cup preferred(x) \cup Mine(x) \cup Tunnels \cup Pool
  BY <1>2, Disjoint DEF Known, OwnTemps, Settled, SettledAt, Mine
<1>4. Typed(y)
  BY <1>1, <1>2 DEF Typed, KernelStep, Alike
<1>5. \A a : a # Leased /\ dadIs(x, a, "ok") => dadIs(y, a, "ok")
  BY DEF KernelStep, dadIs
<1>6. OwnTemps(y) /\ Apart(y) /\ Active(y)
  BY <1>1, <1>2, <1>3 DEF OwnTemps, Apart, Active, KernelStep
<1>7. Known(y)
  BY <1>1, <1>2, AddressAssumption DEF Known, KernelStep
<1>8. Settled(y)
  <2> SUFFICES ASSUME NEW a \in DOMAIN x.endpoints PROVE SettledAt(y, a)
    BY <1>1 DEF Settled
  <2>1. SettledAt(x, a) /\ (x.endpoints[a] # "external" => a \notin x.applied)
    BY <1>2 DEF Settled, Apart
  <2>2. a \in Mine(x) \ x.adopted => a \in DOMAIN y.kernel /\ ~y.kernel[a].finite
    BY <2>1, <1>3 DEF SettledAt, KernelStep, Mine
  <2>3. x.endpoints[a] = "conflict" => a \in x.conflicts /\ a \notin DOMAIN y.kernel
    BY <2>1, <1>3 DEF SettledAt, KernelStep
  <2> QED
    BY <2>1, <2>2, <2>3, <1>1 DEF SettledAt
<1>9. Marked(y)
  BY <1>1, <1>2 DEF Marked, KernelStep
<1>10. Watched(y)
  <2> SUFFICES ASSUME NEW a \in x.applied \ x.adopted
               PROVE  IF a \in DOMAIN y.kernel
                      THEN /\ y.kernel[a].finite
                           /\ y.kernel[a].dad = "failed" => a \in Mine(x)
                           /\ y.kernel[a].dad = "tentative" => a \in x.dadWait
                      ELSE a \in x.dadWait
    BY <1>1, <1>2 DEF Watched
  <2>1. a # Leased
    BY <1>3
  <2> QED
    BY <2>1, <1>2 DEF Watched, KernelStep
<1>11. Told(y)
  BY <1>1, <1>2, <1>3, <1>5 DEF Told
<1>12. Still(y)
  BY <1>1, <1>2, <1>3, <1>5 DEF Still
<1> QED
  BY <1>1, <1>2, <1>4, <1>6, <1>7, <1>8, <1>9, <1>10, <1>11, <1>12 DEF Inv, Base

AllInv == Inv(m) /\ lease \in {None, Leased}

\* A new snapshot.
LEMMA SnapshotStep ==
  ASSUME AllInv, NEW s \in Snapshots, Snapshot(s)
  PROVE  AllInv'
<1> DEFINE r == resolve(s)
           x == [m EXCEPT !.snap = r]
<1>1. m' = update(x) /\ lease' = lease
  BY DEF Snapshot
<1>2. r \in Published /\ (Leased \in r.endpoints => r.wan = Leased)
  BY ResolveType DEF AllInv
<1> HIDE DEF r
<1>3. Alike(m, x, {"snap"}) /\ x.snap = r
  BY DEF AllInv, Inv, Typed, Rec, Fields, Alike
<1> HIDE DEF x
<1>4. /\ x.applied = m.applied /\ x.dadCnt = m.dadCnt /\ x.temps = m.temps
      /\ x.dadWait = m.dadWait /\ x.endpoints = m.endpoints /\ x.conflicts = m.conflicts
      /\ x.adopted = m.adopted /\ x.announce = m.announce /\ x.dadDue = m.dadDue
      /\ x.kernel = m.kernel /\ preferred(x) = preferred(m) /\ Mine(x) = Mine(m)
  BY <1>3 DEF Alike, Fields, preferred, Mine
<1>5. /\ Typed(m) /\ OwnTemps(m) /\ Apart(m) /\ Still(m)
      /\ Known(m) /\ Settled(m) /\ Marked(m) /\ Watched(m) /\ Told(m)
  BY DEF AllInv, Inv, Base
<1>6. Typed(x)
  BY <1>2, <1>3, <1>4, <1>5 DEF Typed, Alike
<1>7. OwnTemps(x) /\ Apart(x) /\ Still(x)
  BY <1>4, <1>5 DEF OwnTemps, Apart, Still, dadIs
<1>8. Known(x) /\ Marked(x) /\ Watched(x) /\ Told(x)
  BY <1>4, <1>5 DEF Known, Marked, Watched, Told, dadIs
<1>9. Settled(x)
  BY <1>4, <1>5 DEF Settled, SettledAt
<1>10. Inv(update(x))
  BY <1>6, <1>7, <1>8, <1>9, UpdateStep DEF Ready, Base
<1> QED
  BY <1>1, <1>10 DEF AllInv

\* The regeneration timer.
LEMMA RotateInv ==
  ASSUME AllInv, Rotate
  PROVE  AllInv'
<1>1. m' = rotateFor(m, m.snap.active) /\ lease' = lease
  BY DEF Rotate, rotate
<1>2. m.snap.active \in SUBSET Prefixes64 /\ Typed(m) /\ OwnTemps(m)
  BY DEF AllInv, Inv, Typed, Published
<1>3. TempStep(m, m')
  BY <1>1, <1>2, RotateStep
<1> QED
  BY <1>1, <1>3, TempInv DEF AllInv

\* The drain timer.
LEMMA DrainInv ==
  ASSUME AllInv, Drain
  PROVE  AllInv'
<1>0. Typed(m) /\ OwnTemps(m) /\ lease' = lease
  BY DEF AllInv, Inv, Drain
<1>1. PICK used \in SUBSET DOMAIN m.temps :
        LET count(a) == IF a \in preferred(m) THEN m.temps[a]
                        ELSE [m.temps[a] EXCEPT !.state = "draining",
                                                !.empty = IF a \in used THEN 0 ELSE @ + 1]
            x == [m EXCEPT !.temps = [a \in DOMAIN @ |-> count(a)]]
        IN  m' = remove(x, {a \in DOMAIN x.temps : x.temps[a].empty >= 2})
  BY DEF Drain
<1> DEFINE t == [a \in DOMAIN m.temps |->
                   IF a \in preferred(m) THEN m.temps[a]
                   ELSE [m.temps[a] EXCEPT !.state = "draining",
                                           !.empty = IF a \in used THEN 0 ELSE @ + 1]]
           x == [m EXCEPT !.temps = t]
           S == {a \in DOMAIN x.temps : x.temps[a].empty >= 2}
<1>2. m' = remove(x, S)
  BY <1>1
<1>3. /\ DOMAIN t = DOMAIN m.temps
      /\ \A a \in DOMAIN m.temps :
           /\ DOMAIN t[a] = {"state", "empty", "born"}
           /\ t[a].state = IF a \in preferred(m) THEN m.temps[a].state ELSE "draining"
  BY <1>0 DEF Typed
<1> HIDE DEF t
<1>4. Alike(m, x, {"temps"}) /\ x.temps = t
  BY <1>0 DEF Typed, Rec, Fields, Alike
<1>5. S \subseteq DOMAIN x.temps
  OBVIOUS
<1> HIDE DEF x, S
<1>6. preferred(x) = preferred(m)
  BY <1>3, <1>4 DEF preferred
<1>7. /\ x.kernel = m.kernel /\ x.snap = m.snap /\ x.dadCnt = m.dadCnt /\ x.dadDue = m.dadDue
      /\ x.adopted = m.adopted /\ x.announce = m.announce
  BY <1>4 DEF Alike, Fields
<1>8. Typed(x)
  BY <1>0, <1>3, <1>4, <1>7 DEF Typed, Alike
<1>9. OwnTemps(x)
  BY <1>0, <1>3, <1>4, <1>6, <1>7 DEF OwnTemps
<1>10. Alike(m, x, {"kernel", "temps", "announce", "dadDue", "wanAddr"})
  BY <1>4 DEF Alike
<1>11. TempStep(m, x)
  BY <1>6, <1>7, <1>8, <1>9, <1>10 DEF TempStep
<1>12. TempStep(x, m')
  BY <1>2, <1>5, <1>8, <1>9, RemoveStep
<1>13. TempStep(m, m')
  BY <1>0, <1>11, <1>12, StepTrans
<1> QED
  BY <1>0, <1>13, TempInv DEF AllInv

\* The DAD timer.
LEMMA PollInv ==
  ASSUME AllInv, Poll
  PROVE  AllInv'
<1>1. lease' = lease
  BY DEF Poll
<1>2. PICK order \in SetToSeqs(marked(m)), late \in SetToSeqs(lost(m)) :
        m' = checkDAD(m, order, late)
  BY DEF Poll
<1>3. Room(m, Cardinality(marked(m) \cup lost(m)))
  <2>1. Loop(m)
    BY DEF AllInv, Inv, Loop
  <2>2. Cardinality(marked(m) \cup lost(m)) \in Nat
    BY <2>1, PollFinite, FS_CardinalityType, FS_Union
  <2>3. \A p \in Prefixes64, i \in Policies :
          /\ m.dadCnt[p][i] \in 0 .. MaxCounter
          /\ Cardinality(marked(m) \cup lost(m)) <= MaxCounter - m.dadCnt[p][i]
    BY <2>1 DEF Poll, Loop, Typed
  <2> DEFINE n == Cardinality(marked(m) \cup lost(m))
  <2> HIDE DEF n
  <2>4. n \in Nat /\ \A p \in Prefixes64, i \in Policies :
          m.dadCnt[p][i] \in 0 .. MaxCounter /\ n <= MaxCounter - m.dadCnt[p][i]
    BY <2>2, <2>3 DEF n
  <2>5. \A p \in Prefixes64, i \in Policies : m.dadCnt[p][i] + n <= MaxCounter
    BY <2>4, PolicyAssumption
  <2> QED
    BY <2>5 DEF Room, n
<1> QED
  BY <1>1, <1>2, <1>3, PollStep DEF AllInv

\* An address passes DAD.
LEMMA PassesInv ==
  ASSUME AllInv, NEW a \in DOMAIN m.kernel, Passes(a)
  PROVE  AllInv'
<1>1. Typed(m) /\ Base(m) /\ lease' = lease
  BY DEF AllInv, Inv, Passes
<1>2. m.kernel[a].dad = "tentative" /\ m' = [m EXCEPT !.kernel[a].dad = "ok"]
  BY DEF Passes, dadIs
<1>3. Alike(m, m', {"kernel"}) /\ m'.kernel = [m.kernel EXCEPT ![a].dad = "ok"]
  BY <1>1, <1>2 DEF Typed, Rec, Fields, Alike
<1>4. /\ DOMAIN m'.kernel = DOMAIN m.kernel
      /\ \A b \in DOMAIN m.kernel :
           /\ m'.kernel[b] \in Entries /\ m'.kernel[b].finite = m.kernel[b].finite
           /\ m'.kernel[b].dad = IF b = a THEN "ok" ELSE m.kernel[b].dad
  BY <1>1, <1>3 DEF Typed, Entries
<1>5. Leased \in DOMAIN m.kernel \ m.adopted =>
         m.kernel[Leased].finite /\ m.kernel[Leased].dad # "failed"
  BY <1>1, Disjoint DEF Base, Marked, Settled, SettledAt, Mine
<1>6. KernelStep(m, m')
  BY <1>2, <1>3, <1>4, <1>5 DEF KernelStep
<1> QED
  BY <1>1, <1>6, KernelInv DEF AllInv

\* An address fails DAD: the kernel marks it, or deletes it if it is finite.
LEMMA FailsInv ==
  ASSUME AllInv, NEW a \in DOMAIN m.kernel, Fails(a)
  PROVE  AllInv'
<1>1. Typed(m) /\ Base(m) /\ lease' = lease
  BY DEF AllInv, Inv, Fails
<1> DEFINE k == IF m.kernel[a].finite THEN Without(m.kernel, {a})
                ELSE [m.kernel EXCEPT ![a].dad = "failed"]
<1>2. /\ m.kernel[a].dad = "tentative" /\ a # Leased
      /\ m' = [m EXCEPT !.kernel = IF @[a].finite THEN Without(@, {a})
                                   ELSE [@ EXCEPT ![a].dad = "failed"]]
  BY DEF Fails, dadIs
<1>3. Alike(m, m', {"kernel"}) /\ m'.kernel = k
  BY <1>1, <1>2 DEF Typed, Rec, Fields, Alike
<1>4. /\ DOMAIN m'.kernel = IF m.kernel[a].finite THEN DOMAIN m.kernel \ {a} ELSE DOMAIN m.kernel
      /\ \A b \in DOMAIN m'.kernel :
           /\ m'.kernel[b] \in Entries /\ m'.kernel[b].finite = m.kernel[b].finite
           /\ m'.kernel[b].dad = IF b = a THEN "failed" ELSE m.kernel[b].dad
  <2>1. \A b \in DOMAIN m.kernel : m.kernel[b] \in Entries
    BY <1>1 DEF Typed
  <2>2. CASE m.kernel[a].finite
    BY <2>1, <2>2, <1>3 DEF Without
  <2>3. CASE ~m.kernel[a].finite
    BY <2>1, <2>3, <1>3 DEF Entries
  <2> QED
    BY <2>2, <2>3
<1>5. Leased \in DOMAIN m.kernel \ m.adopted =>
         m.kernel[Leased].finite /\ m.kernel[Leased].dad # "failed"
  BY <1>1, Disjoint DEF Base, Marked, Settled, SettledAt, Mine
<1> HIDE DEF k
<1>6. KernelStep(m, m')
  <2>1. /\ Alike(m, m', {"kernel"}) /\ m.kernel[a].dad = "tentative" /\ a # Leased
        /\ m.kernel[a].finite \in BOOLEAN
    BY <1>1, <1>2, <1>3 DEF Typed, Entries
  <2> QED
    BY ONLY <2>1, <1>4, <1>5 DEF KernelStep
<1> QED
  BY <1>1, <1>6, KernelInv DEF AllInv

\* The DHCPv6 client configures its address.
LEMMA BindInv ==
  ASSUME AllInv, Bind
  PROVE  AllInv'
<1>1. Typed(m) /\ Base(m) /\ lease' = Leased
  BY DEF AllInv, Inv, Bind
<1>2. m' = [m EXCEPT !.kernel = addrSet(@, {Leased}, "tentative", TRUE, TRUE, 128)]
  BY DEF Bind
<1>3. /\ Alike(m, m', {"kernel"})
      /\ m'.kernel = addrSet(m.kernel, {Leased}, "tentative", TRUE, TRUE, 128)
  BY <1>1, <1>2 DEF Typed, Rec, Fields, Alike
<1>4. IsSet(m.kernel, {Leased}, "tentative", TRUE, m'.kernel)
  <2>1. \A a \in DOMAIN m.kernel : m.kernel[a] \in Entries
    BY <1>1 DEF Typed
  <2>2. IsSet(m.kernel, {Leased}, "tentative", TRUE,
              addrSet(m.kernel, {Leased}, "tentative", TRUE, TRUE, 128))
    BY <2>1, StaticSet
  <2> QED
    BY <2>2, <1>3
<1>5. Leased \in DOMAIN m.kernel \ m.adopted => m.kernel[Leased].dad # "failed"
  BY <1>1, Disjoint DEF Base, Marked, Settled, SettledAt, Mine
<1>6. KernelStep(m, m')
  BY <1>3, <1>4, <1>5 DEF KernelStep, IsSet
<1> QED
  BY <1>1, <1>6, KernelInv DEF AllInv

\* The DHCPv6 client gives its address up.
LEMMA UnbindInv ==
  ASSUME AllInv, Unbind
  PROVE  AllInv'
<1>1. Typed(m) /\ Base(m) /\ lease' = None
  BY DEF AllInv, Inv, Unbind
<1>2. m' = [m EXCEPT !.kernel = Without(@, {Leased})]
  BY DEF Unbind
<1>3. Alike(m, m', {"kernel"}) /\ m'.kernel = Without(m.kernel, {Leased})
  BY <1>1, <1>2 DEF Typed, Rec, Fields, Alike
<1>4. /\ DOMAIN m'.kernel = DOMAIN m.kernel \ {Leased}
      /\ \A a \in DOMAIN m'.kernel : m'.kernel[a] = m.kernel[a] /\ m'.kernel[a] \in Entries
  BY <1>1, <1>3 DEF Without, Typed
<1>5. KernelStep(m, m')
  BY <1>3, <1>4 DEF KernelStep
<1> QED
  BY <1>1, <1>5, KernelInv DEF AllInv

\* The kernel's table when a round begins.
LEMMA Empty ==
  ASSUME NEW S, NEW dad \in {"tentative", "ok"}, NEW plen \in Nat
  PROVE  LET k == addrSet(<<>>, S, dad, TRUE, TRUE, plen)
         IN  DOMAIN k = S /\ \A a \in S : k[a] \in Entries /\ k[a].finite /\ k[a].dad # "failed"
<1>1. DOMAIN <<>> = {}
  OBVIOUS
<1> DEFINE none == <<>>
<1> HIDE DEF none
<1>2. LET k == addrSet(none, S, dad, TRUE, TRUE, plen)
      IN  DOMAIN k = S /\ \A a \in S : k[a] \in Entries /\ k[a].finite /\ k[a].dad # "failed"
  <2>1. DOMAIN none = {}
    BY <1>1 DEF none
  <2> QED
    BY <2>1 DEF addrSet, Entry, Entries
<1> QED
  BY <1>2 DEF none

\* The link comes back.
LEMMA BounceInv ==
  ASSUME AllInv, Bounce
  PROVE  AllInv'
<1> DEFINE k == addrSet(<<>>, {lease} \ {None}, "tentative", TRUE, TRUE, 128)
<1>1. PICK s \in Snapshots : m' = update(Fresh(resolve(s), k, m.conflicts, m.self))
  BY DEF Bounce
<1>2. lease' = lease /\ lease \in {None, Leased}
  BY DEF Bounce, AllInv
<1>3. /\ DOMAIN k = {lease} \ {None}
      /\ \A a \in DOMAIN k : k[a] \in Entries /\ k[a].finite /\ k[a].dad # "failed"
  <2> DEFINE S == {lease} \ {None}
             len == 128
  <2>1. LET n == addrSet(<<>>, S, "tentative", TRUE, TRUE, len)
        IN  DOMAIN n = S /\ \A a \in S : n[a] \in Entries /\ n[a].finite /\ n[a].dad # "failed"
    <3>1. len \in Nat
      OBVIOUS
    <3> HIDE DEF S, len
    <3> QED
      BY <3>1, Empty
  <2> QED
    BY <2>1
<1>4. DOMAIN k \subseteq DOMAIN PrefixOf
  BY <1>2, <1>3, AddressAssumption
<1> HIDE DEF k
<1>5. Ready(Fresh(resolve(s), k, m.conflicts, m.self))
  BY <1>2, <1>3, <1>4, FreshReady
<1> QED
  BY <1>1, <1>2, <1>5, UpdateStep DEF AllInv

\* The first round, with what an earlier run left.
LEMMA InitInv ==
  ASSUME Init
  PROVE  AllInv
<1>1. lease = None
  BY DEF Init
<1>2. PICK s \in Snapshots, left \in SUBSET Leftovers :
        m = update(Fresh(resolve(s), addrSet(<<>>, left, "ok", TRUE, TRUE, 64), {}, <<>>))
  BY DEF Init
<1> DEFINE k == addrSet(<<>>, left, "ok", TRUE, TRUE, 64)
<1>3. DOMAIN k = left /\ \A a \in DOMAIN k : k[a] \in Entries /\ k[a].finite /\ k[a].dad # "failed"
  BY Empty
<1>4. DOMAIN k \subseteq DOMAIN PrefixOf
  BY <1>2, <1>3, AddressAssumption
<1> HIDE DEF k
<1>5. Ready(Fresh(resolve(s), k, {}, <<>>))
  BY <1>1, <1>3, <1>4, FreshReady
<1> QED
  BY <1>1, <1>2, <1>5, UpdateStep DEF AllInv, k

\* Every step keeps the invariant.
LEMMA NextInv ==
  ASSUME AllInv, [Next]_vars
  PROVE  AllInv'
<1>1. CASE UNCHANGED vars
  BY <1>1 DEF AllInv, vars
<1>2. CASE \E s \in Snapshots : Snapshot(s)
  BY <1>2, SnapshotStep
<1>3. CASE Rotate \/ Drain \/ Poll
  BY <1>3, RotateInv, DrainInv, PollInv
<1>4. CASE \E a \in DOMAIN m.kernel : Passes(a) \/ Fails(a)
  BY <1>4, PassesInv, FailsInv
<1>5. CASE Bind \/ Unbind \/ Bounce
  BY <1>5, BindInv, UnbindInv, BounceInv
<1> QED
  BY <1>1, <1>2, <1>3, <1>4, <1>5 DEF Next

----------------------------------------------------------------------------
(* The theorems *)

\* Whatever the order of snapshots, timers, verdicts, leases and link losses,
\* the invariant holds at the end of each case of serve's select.
THEOREM Invariant == Spec => []AllInv
<1>1. Init => AllInv
  BY InitInv
<1>2. AllInv /\ [Next]_vars => AllInv'
  BY NextInv
<1> QED
  BY <1>1, <1>2, PTL DEF Spec

\* With nothing tentative or missing unless a poll is to come, no verdict is missed.
LEMMA InvAwaits ==
  ASSUME AllInv
  PROVE  VerdictAwaited
<1>1. /\ OwnTemps(m) /\ Apart(m) /\ Still(m)
      /\ Known(m) /\ Settled(m) /\ Watched(m)
  BY DEF AllInv, Inv, Base
<1> SUFFICES ASSUME ~m.dadDue PROVE VerdictAwaited
  BY DEF VerdictAwaited
<1>2. \A a \in (m.applied \cup preferred(m) \cup Mine(m)) \ m.adopted : dadIs(m, a, "ok")
  BY <1>1 DEF Still
<1>3. watched(m) \subseteq m.applied \cup preferred(m) \cup Mine(m)
  BY <1>1 DEF watched, Mine, Settled, SettledAt
<1>4. \A a \in watched(m) \ m.adopted : ~dadIs(m, a, "tentative") /\ ~dadIs(m, a, "failed")
  BY <1>2, <1>3 DEF dadIs
<1>5. m.dadWait \subseteq DOMAIN m.kernel \cup m.adopted
  BY <1>1, <1>2 DEF Watched, dadIs
<1> QED
  BY <1>4, <1>5 DEF VerdictAwaited

\* checkDAD stops polling by itself, and applyPrefixAddrs, applyEndpoints and
\* rotateFor start it again: for any number of prefixes, policies and
\* endpoints, no address is left tentative, marked as a duplicate or deleted
\* by the kernel without a poll to come.
THEOREM VerdictAwaitedAlways == Spec => []VerdictAwaited
<1>1. AllInv => VerdictAwaited
  BY InvAwaits
<1> QED
  BY <1>1, Invariant, PTL

\* Two preferred addresses of a prefix would be the same.
LEMMA InvOnePreferred ==
  ASSUME AllInv
  PROVE  OnePreferred
<1>1. OwnTemps(m) /\ Active(m)
  BY DEF AllInv, Inv
<1> SUFFICES ASSUME NEW p \in Prefixes64
             PROVE  /\ Cardinality(preferredIn(m, p)) <= (IF p \in m.snap.active THEN 1 ELSE 0)
                    /\ preferredIn(m, p) \subseteq DOMAIN m.kernel
  BY DEF OnePreferred
<1>2. preferredIn(m, p) \subseteq DOMAIN m.kernel
  BY <1>1 DEF preferredIn, OwnTemps
<1>3. \A a, b \in preferredIn(m, p) : a = b
  BY <1>1 DEF preferredIn, OwnTemps
<1>4. p \notin m.snap.active => preferredIn(m, p) = {}
  BY <1>1 DEF preferredIn, Active
<1>5. CASE preferredIn(m, p) = {}
  BY <1>2, <1>5, FS_EmptySet
<1>6. CASE preferredIn(m, p) # {}
  <2>1. PICK a : preferredIn(m, p) = {a}
    BY <1>3, <1>6
  <2>2. Cardinality(preferredIn(m, p)) = 1
    BY <2>1, FS_Singleton
  <2> QED
    BY <2>2, <1>2, <1>4, <1>6
<1> QED
  BY <1>5, <1>6

\* rotateFor, enforceMax and tempFailed leave each active prefix at most one
\* preferred temporary address, configured in the kernel, and the others none.
THEOREM OnePreferredAlways == Spec => []OnePreferred
<1>1. AllInv => OnePreferred
  BY InvOnePreferred
<1> QED
  BY <1>1, Invariant, PTL

\* Settled and Apart are what the property says of endpoints.
LEMMA InvSettled ==
  ASSUME AllInv
  PROVE  EndpointsSettled
<1>1. Settled(m) /\ Apart(m)
  BY DEF AllInv, Inv, Base
<1> SUFFICES ASSUME NEW a \in DOMAIN m.endpoints
             PROVE  /\ m.endpoints[a] \in {"tentative", "ok"} => a \in DOMAIN m.kernel \cup m.adopted
                    /\ m.endpoints[a] = "conflict" => a \in m.conflicts /\ a \notin DOMAIN m.kernel
  BY DEF EndpointsSettled
<1>2. SettledAt(m, a) /\ (m.endpoints[a] # "external" => a \notin m.applied)
  BY <1>1 DEF Settled, Apart
<1> QED
  BY <1>2 DEF SettledAt, Mine

\* What applyEndpoints and checkDAD note of an endpoint is what the kernel
\* has: one waited for or in use is configured, one in conflict is off the
\* interface and reported to the store.
THEOREM EndpointsSettledAlways == Spec => []EndpointsSettled
<1>1. AllInv => EndpointsSettled
  BY InvSettled
<1> QED
  BY <1>1, Invariant, PTL
=============================================================================
