--------------------------- MODULE RAClientProofs ---------------------------
(***************************************************************************)
(* The RA client keeps a default route for every router it counts on, the  *)
(* LAN is told in time when the last one is gone, and known prefixes stay  *)
(* for as long as RFC 4862 says: proofs about RAClient for any routers,    *)
(* prefixes, RAs and lifetimes.                                            *)
(***************************************************************************)
EXTENDS RAClient, FiniteSetTheorems, WellFoundedInduction, TLAPS

----------------------------------------------------------------------------
(* Numbers *)

\* Min of a set of naturals is in it and below the others.
LEMMA MinIn ==
    ASSUME NEW S \in SUBSET Nat, S # {}
    PROVE  Min(S) \in S /\ \A y \in S : Min(S) <= y
<1>1. IsWellFoundedOn({e \in Nat \X Nat : e[1] < e[2]}, Nat)
  BY NatLessThanWellFounded, Zenon DEF OpToRel
<1>2. PICK x \in S : \A y \in S : ~(<<y, x>> \in {e \in Nat \X Nat : e[1] < e[2]})
  BY <1>1, WFMin
<1>3. ASSUME NEW y \in S PROVE x <= y
  <2>1. <<y, x>> \in Nat \X Nat /\ ~(<<y, x>> \in {e \in Nat \X Nat : e[1] < e[2]})
    BY <1>2
  <2>2. ~(y < x)
    BY <2>1
  <2> QED
    BY <2>2
<1> QED
  BY <1>3 DEF Min

\* Max of 1 and a number is no less than either and, from 1 on, the number.
LEMMA MaxWithOne ==
    ASSUME NEW a \in Nat
    PROVE  Max({1, a}) \in Nat /\ (a >= 1 => Max({1, a}) = a)
<1>1. \E x \in {1, a} : \A y \in {1, a} : x >= y
  OBVIOUS
<1>2. Max({1, a}) \in {1, a} /\ \A y \in {1, a} : Max({1, a}) >= y
  BY <1>1, Zenon DEF Max
<1> QED
  BY <1>2

\* Min of two is one of them and no more than either.
LEMMA MinOfTwo ==
    ASSUME NEW a \in Nat, NEW b \in Nat
    PROVE  Min({a, b}) \in {a, b} /\ Min({a, b}) <= a /\ Min({a, b}) <= b
BY MinIn

\* metricFor finds a metric no other router holds: there is one more in the range than routers.
LEMMA MetricFree ==
    ASSUME NEW rs \in Tables, NEW from \in Routers, NEW p \in Preferences
    PROVE  /\ metricFor(rs, from, p) \in Nat /\ metricFor(rs, from, p) > 0
           /\ metricFor(rs, from, p) <= 2048 + Cardinality(Routers)
           /\ \A a \in DOMAIN rs : a # from => rs[a].metric # metricFor(rs, from, p)
<1> DEFINE N == Cardinality(Routers)
           b == routerMetric(p)
           I == b .. b + N
           F == {m \in I : \A a \in DOMAIN rs : a # from => rs[a].metric # m}
<1>1. N \in Nat /\ b \in Nat /\ b > 0 /\ b <= 2048
  <2>1. N \in Nat
    BY FS_CardinalityType, RoutersAssumption
  <2>2. b \in {512, 1024, 2048}
    <3>1. CASE p = "high"
      BY <3>1 DEF routerMetric
    <3>2. CASE p = "low"
      BY <3>2 DEF routerMetric
    <3>3. CASE p = "medium"
      BY <3>3 DEF routerMetric
    <3> QED
      BY <3>1, <3>2, <3>3 DEF Preferences
  <2> QED
    BY <2>1, <2>2
<1>2. IsFiniteSet(I) /\ Cardinality(I) = N + 1
  <2> HIDE DEF N, b
  <2>1. b \in Int /\ b + N \in Int /\ ~(b > b + N) /\ (b + N) - b + 1 = N + 1
    BY <1>1
  <2>2. /\ IsFiniteSet(b .. b + N)
        /\ Cardinality(b .. b + N) = IF b > b + N THEN 0 ELSE (b + N) - b + 1
    BY <2>1, FS_Interval
  <2> QED
    BY <2>1, <2>2
<1>3. F # {}
  <2> SUFFICES ASSUME F = {} PROVE FALSE
    OBVIOUS
  <2> DEFINE D == DOMAIN rs
             f == [a \in D |-> rs[a].metric]
             T == {f[a] : a \in D}
  <2>1. D \subseteq Routers
    BY DEF Tables
  <2>2. IsFiniteSet(D) /\ Cardinality(D) <= N
    BY <2>1, FS_Subset, RoutersAssumption
  <2>3. f \in Surjection(D, T)
    BY DEF Surjection
  <2>4. IsFiniteSet(T) /\ Cardinality(T) <= Cardinality(D)
    BY <2>2, <2>3, FS_Surjection
  <2>5. \A m \in I : \E a \in D : rs[a].metric = m
    OBVIOUS
  <2>6. I \subseteq T
    BY <2>5
  <2>7. Cardinality(I) <= Cardinality(T)
    BY <2>4, <2>6, FS_Subset
  <2>8. Cardinality(T) \in Nat /\ Cardinality(D) \in Nat
    BY <2>2, <2>4, FS_CardinalityType
  <2> QED
    BY <1>1, <1>2, <2>2, <2>4, <2>7, <2>8
<1>4. F \subseteq Nat
  BY <1>1
<1>5. metricFor(rs, from, p) = Min(F)
  BY DEF metricFor
<1>6. Min(F) \in F
  BY <1>3, <1>4, MinIn
<1> QED
  BY <1>1, <1>5, <1>6

----------------------------------------------------------------------------
(* One RA *)

\* A lifetime is shortened to two hours or what was left, never below.
LEMMA ShortenedFacts ==
    ASSUME NEW old \in Nat, NEW vl \in Nat
    PROVE  shortened(old, vl) \in Nat /\ shortened(old, vl) >= Min({old, TwoHours})
BY MinOfTwo, TimesAssumption DEF shortened

\* What is known of a prefix after an RA.
LEMMA MergeFacts ==
    ASSUME NEW have \in Known, NEW ra \in Adverts
    PROVE  /\ mergePIOs(have, ra) \in Known
           /\ \A p \in DOMAIN have :
                 /\ p \in DOMAIN mergePIOs(have, ra)
                 /\ mergePIOs(have, ra)[p].valid >= Min({have[p].valid, TwoHours})
<1> DEFINE new == mergePIOs(have, ra)
           D == DOMAIN have \cup usable(ra)
<1>1. DOMAIN have \subseteq Prefixes /\ \A p \in DOMAIN have : have[p] \in Lifetimes
  BY DEF Known
<1>2. /\ usable(ra) \subseteq DOMAIN ra.pios /\ DOMAIN ra.pios \subseteq Prefixes
      /\ \A p \in DOMAIN ra.pios : ra.pios[p] \in Lifetimes
  BY AdvertsAssumption DEF usable
<1>3. DOMAIN new = D
  BY DEF mergePIOs
<1>4. ASSUME NEW p \in D
      PROVE  /\ new[p] \in Lifetimes
             /\ p \in DOMAIN have => new[p].valid >= Min({have[p].valid, TwoHours})
  <2>1. CASE p \in usable(ra) /\ p \notin DOMAIN have
    BY <1>2, <2>1 DEF mergePIOs
  <2>2. CASE p \in usable(ra) /\ p \in DOMAIN have
    <3> DEFINE v == shortened(have[p].valid, ra.pios[p].valid)
    <3>1. have[p].valid \in Nat /\ ra.pios[p].valid \in Nat /\ ra.pios[p].pref \in Nat
      BY <1>1, <1>2, <2>2 DEF Lifetimes
    <3>2. v \in Nat /\ v >= Min({have[p].valid, TwoHours})
      BY <3>1, ShortenedFacts
    <3>3. new[p] = [valid |-> v, pref |-> Min({ra.pios[p].pref, v})]
      BY <2>2 DEF mergePIOs
    <3> HIDE DEF v, new
    <3>4. Min({ra.pios[p].pref, v}) \in Nat
      BY <3>1, <3>2, MinOfTwo
    <3> QED
      BY <3>2, <3>3, <3>4 DEF Lifetimes
  <2>3. CASE p \notin usable(ra) /\ p \in revoked(ra)
    <3>1. have[p].valid \in Nat /\ p \in DOMAIN have
      BY <1>1, <2>3 DEF Lifetimes
    <3>2. /\ shortened(have[p].valid, 0) \in Nat
          /\ shortened(have[p].valid, 0) >= Min({have[p].valid, TwoHours})
      BY <3>1, ShortenedFacts
    <3>3. new[p] = [valid |-> shortened(have[p].valid, 0), pref |-> 0]
      BY <2>3 DEF mergePIOs
    <3> QED
      BY <3>2, <3>3 DEF Lifetimes
  <2>4. CASE p \notin usable(ra) /\ p \notin revoked(ra)
    <3>1. have[p] \in Lifetimes
      BY <1>1, <2>4
    <3>2. new[p] = IF usable(ra) # {} THEN [have[p] EXCEPT !.pref = 0] ELSE have[p]
      BY <2>4 DEF mergePIOs
    <3>3. new[p] \in Lifetimes /\ new[p].valid = have[p].valid
      BY <3>1, <3>2 DEF Lifetimes
    <3>4. have[p].valid \in Nat /\ have[p].valid >= Min({have[p].valid, TwoHours})
      BY <3>1, MinOfTwo, TimesAssumption DEF Lifetimes
    <3> QED
      BY <3>3, <3>4
  <2> QED
    BY <2>1, <2>2, <2>3, <2>4
<1>5. new \in [D -> Lifetimes]
  BY <1>3, <1>4 DEF mergePIOs
<1>6. D \in SUBSET Prefixes
  BY <1>1, <1>2
<1> HIDE DEF new
<1>7. new \in Known
  BY <1>5, <1>6 DEF Known
<1> QED
  BY <1>3, <1>4, <1>7 DEF new

\* Deprecating leaves the valid lifetimes.
LEMMA DeprecateFacts ==
    ASSUME NEW ps \in Known
    PROVE  /\ deprecate(ps) \in Known /\ DOMAIN deprecate(ps) = DOMAIN ps
           /\ \A p \in DOMAIN ps : deprecate(ps)[p].valid = ps[p].valid
<1>1. PICK S \in SUBSET Prefixes : ps \in [S -> Lifetimes]
  BY DEF Known
<1>2. \A p \in S : [ps[p] EXCEPT !.pref = 0] \in Lifetimes
                   /\ [ps[p] EXCEPT !.pref = 0].valid = ps[p].valid
  BY <1>1 DEF Lifetimes
<1>3. deprecate(ps) \in [S -> Lifetimes]
  BY <1>1, <1>2 DEF deprecate
<1>4. deprecate(ps) \in Known
  BY <1>3 DEF Known
<1> QED
  BY <1>1, <1>2, <1>4 DEF deprecate

----------------------------------------------------------------------------
(* The routers *)

\* What a change of the routers may do to the prefixes known from them, see KnownPrefixKept.
PrefixesKept(rs, ss) ==
    \A r \in DOMAIN rs : \A p \in DOMAIN rs[r].prefixes :
        \/ rs[r].prefixes[p].valid = 0
        \/ r \in DOMAIN ss /\ ~ss[r].gone /\ ss[r].lifetime = NoTime
        \/ /\ r \in DOMAIN ss /\ p \in DOMAIN ss[r].prefixes
           /\ ss[r].prefixes[p].valid >= Min({rs[r].prefixes[p].valid, TwoHours})

\* The same prefixes with the same valid lifetimes, those that are over aside.
SamePrefixes(rs, ss) ==
    \A r \in DOMAIN rs : \A p \in DOMAIN rs[r].prefixes :
        rs[r].prefixes[p].valid > 0 =>
            /\ r \in DOMAIN ss /\ p \in DOMAIN ss[r].prefixes
            /\ ss[r].prefixes[p].valid = rs[r].prefixes[p].valid

\* No prefix is past its valid lifetime.
NoneOver(rs) ==
    \A r \in DOMAIN rs : \A p \in DOMAIN rs[r].prefixes : rs[r].prefixes[p].valid > 0

\* The types of a router's entry.
LEMMA EntryTypes ==
    ASSUME NEW rs \in Tables, NEW r \in DOMAIN rs
    PROVE  /\ r \in Routers /\ rs[r] \in Infos /\ rs[r].prefixes \in Known
           /\ rs[r].lifetime \in Nat \cup {NoTime} /\ rs[r].metric \in Nat
           /\ \A p \in DOMAIN rs[r].prefixes :
                 p \in Prefixes /\ rs[r].prefixes[p] \in Lifetimes
                 /\ rs[r].prefixes[p].valid \in Nat
<1>1. r \in Routers /\ rs[r] \in Infos
  BY DEF Tables
<1>2. /\ rs[r].prefixes \in Known /\ rs[r].lifetime \in Nat \cup {NoTime}
      /\ rs[r].metric \in Nat
  BY <1>1 DEF Infos
<1>3. \A p \in DOMAIN rs[r].prefixes : p \in Prefixes /\ rs[r].prefixes[p] \in Lifetimes
  BY <1>2 DEF Known
<1> QED
  BY <1>1, <1>2, <1>3 DEF Lifetimes

\* A table is made of entries.
LEMMA TableOf ==
    ASSUME NEW ss, NEW D \in SUBSET Routers, DOMAIN ss = D, ss = [r \in D |-> ss[r]],
           \A r \in D : ss[r] \in Infos
    PROVE  ss \in Tables
<1>1. ss \in [D -> Infos]
  OBVIOUS
<1> QED
  BY <1>1 DEF Tables

\* The same prefixes are kept prefixes.
LEMMA SameAreKept ==
    ASSUME NEW rs \in Tables, NEW ss, SamePrefixes(rs, ss)
    PROVE  PrefixesKept(rs, ss)
<1> SUFFICES ASSUME NEW r \in DOMAIN rs, NEW p \in DOMAIN rs[r].prefixes,
                    rs[r].prefixes[p].valid # 0
             PROVE  /\ r \in DOMAIN ss /\ p \in DOMAIN ss[r].prefixes
                    /\ ss[r].prefixes[p].valid >= Min({rs[r].prefixes[p].valid, TwoHours})
  BY DEF PrefixesKept
<1>1. rs[r].prefixes[p].valid \in Nat
  BY EntryTypes
<1>2. /\ r \in DOMAIN ss /\ p \in DOMAIN ss[r].prefixes
      /\ ss[r].prefixes[p].valid = rs[r].prefixes[p].valid
  BY <1>1 DEF SamePrefixes
<1>3. Min({rs[r].prefixes[p].valid, TwoHours}) <= rs[r].prefixes[p].valid
  BY <1>1, MinOfTwo, TimesAssumption
<1> QED
  BY <1>1, <1>2, <1>3, MinOfTwo, TimesAssumption

\* What publish leaves of the routers.
LEMMA SweptFacts ==
    ASSUME NEW rs, WellKept(rs)
    PROVE  /\ WellKept(swept(rs)) /\ DOMAIN swept(rs) \subseteq DOMAIN rs
           /\ \A r \in DOMAIN swept(rs) :
                 /\ rs[r].lifetime = 0 => swept(rs)[r].lifetime = NoTime
                 /\ rs[r].lifetime # 0 =>
                       /\ swept(rs)[r].lifetime = rs[r].lifetime
                       /\ swept(rs)[r].metric = rs[r].metric
                       /\ swept(rs)[r].gone = rs[r].gone
           /\ \A r \in DOMAIN rs :
                 rs[r].lifetime # 0 /\ ~rs[r].gone => r \in DOMAIN swept(rs)
           /\ SamePrefixes(rs, swept(rs)) /\ NoneOver(swept(rs))
<1> DEFINE ended(r) == rs[r].lifetime = 0
           alive(r) == {p \in DOMAIN rs[r].prefixes : rs[r].prefixes[p].valid > 0}
           kept(r) == [p \in alive(r) |-> rs[r].prefixes[p]]
           next(r) == IF ended(r)
                      THEN [rs[r] EXCEPT !.lifetime = NoTime, !.gone = TRUE, !.metric = 0,
                                         !.prefixes = deprecate(kept(r))]
                      ELSE [rs[r] EXCEPT !.prefixes = kept(r)]
           D == {x \in DOMAIN rs : alive(x) # {} \/ ~(rs[x].gone \/ ended(x))}
           ss == swept(rs)
<1>1. ss = [r \in D |-> next(r)]
  BY DEF swept
<1>2. rs \in Tables /\ Metered(rs) /\ Apart(rs)
  BY DEF WellKept
<1>3. ASSUME NEW r \in DOMAIN rs
      PROVE  /\ next(r) \in Infos /\ DOMAIN next(r).prefixes = alive(r)
             /\ \A p \in alive(r) : next(r).prefixes[p].valid = rs[r].prefixes[p].valid
             /\ ended(r) => /\ next(r).lifetime = NoTime /\ next(r).metric = 0
             /\ ~ended(r) => /\ next(r).lifetime = rs[r].lifetime
                             /\ next(r).metric = rs[r].metric /\ next(r).gone = rs[r].gone
  <2> DEFINE k == kept(r)
  <2>1. rs[r] \in Infos /\ \A p \in DOMAIN rs[r].prefixes : p \in Prefixes
                                                /\ rs[r].prefixes[p] \in Lifetimes
    BY <1>2, EntryTypes
  <2>2. k \in [alive(r) -> Lifetimes] /\ alive(r) \in SUBSET Prefixes
    BY <2>1
  <2>3. k \in Known /\ DOMAIN k = alive(r) /\ \A p \in alive(r) : k[p] = rs[r].prefixes[p]
    BY <2>2 DEF Known
  <2>4. /\ deprecate(k) \in Known /\ DOMAIN deprecate(k) = alive(r)
        /\ \A p \in alive(r) : deprecate(k)[p].valid = rs[r].prefixes[p].valid
    BY <2>3, DeprecateFacts
  <2>5. CASE ended(r)
    <3>1. next(r) = [rs[r] EXCEPT !.lifetime = NoTime, !.gone = TRUE, !.metric = 0,
                                  !.prefixes = deprecate(k)]
      BY <2>5
    <3> HIDE DEF k, next, alive
    <3>2. next(r) = [pref |-> rs[r].pref, lifetime |-> NoTime, prefixes |-> deprecate(k),
                     dhcp |-> rs[r].dhcp, gone |-> TRUE, metric |-> 0]
      BY <2>1, <3>1 DEF Infos
    <3> QED
      BY <2>1, <2>4, <2>5, <3>2 DEF Infos
  <2>6. CASE ~ended(r)
    <3>1. next(r) = [rs[r] EXCEPT !.prefixes = k]
      BY <2>6
    <3> HIDE DEF k, next, alive
    <3>2. next(r) = [pref |-> rs[r].pref, lifetime |-> rs[r].lifetime, prefixes |-> k,
                     dhcp |-> rs[r].dhcp, gone |-> rs[r].gone, metric |-> rs[r].metric]
      BY <2>1, <3>1 DEF Infos
    <3> QED
      BY <2>1, <2>3, <2>6, <3>2 DEF Infos
  <2> QED
    BY <2>5, <2>6
<1>4. D \subseteq DOMAIN rs /\ DOMAIN ss = D /\ \A r \in D : ss[r] = next(r)
  BY <1>1
<1>5. DOMAIN rs \subseteq Routers
  BY <1>2 DEF Tables
<1>6. \A r \in DOMAIN rs : alive(r) # {} => r \in D
  OBVIOUS
<1>7. \A r \in DOMAIN rs : ~rs[r].gone /\ ~ended(r) => r \in D
  OBVIOUS
<1>8. \A r \in DOMAIN rs : \A p \in DOMAIN rs[r].prefixes :
         rs[r].prefixes[p].valid > 0 => p \in alive(r)
  OBVIOUS
<1>12. \A r \in DOMAIN rs : \A p \in alive(r) : rs[r].prefixes[p].valid > 0
  OBVIOUS
<1> HIDE DEF next, D, ss, alive
<1>9. ss \in Tables
  BY <1>1, <1>3, <1>4, <1>5, TableOf
<1>10. Metered(ss) /\ Apart(ss)
  BY <1>2, <1>3, <1>4 DEF Metered, Apart, NoTime
<1>11. SamePrefixes(rs, ss)
  BY <1>3, <1>4, <1>6, <1>8 DEF SamePrefixes
<1>13. NoneOver(ss)
  BY <1>3, <1>4, <1>12 DEF NoneOver
<1> QED
  BY <1>3, <1>4, <1>7, <1>9, <1>10, <1>11, <1>13 DEF WellKept, ss

\* The routers after the link was lost.
LEMMA LostFacts ==
    ASSUME NEW rs, WellKept(rs)
    PROVE  /\ WellKept(lost(rs)) /\ live(lost(rs)) = {} /\ SamePrefixes(rs, lost(rs))
           /\ \A r \in DOMAIN lost(rs) : lost(rs)[r].lifetime = NoTime
<1> DEFINE ss == lost(rs)
           next(r) == [rs[r] EXCEPT !.lifetime = NoTime, !.metric = 0, !.gone = TRUE,
                                    !.prefixes = deprecate(@)]
<1>1. ss = [r \in DOMAIN rs |-> next(r)]
  BY DEF lost
<1>2. rs \in Tables
  BY DEF WellKept
<1>3. ASSUME NEW r \in DOMAIN rs
      PROVE  /\ next(r) \in Infos /\ next(r).lifetime = NoTime /\ next(r).metric = 0
             /\ next(r).prefixes = deprecate(rs[r].prefixes)
  <2> DEFINE k == deprecate(rs[r].prefixes)
  <2>1. rs[r] \in Infos /\ k \in Known
    BY <1>2, EntryTypes, DeprecateFacts
  <2>2. next(r) = [rs[r] EXCEPT !.lifetime = NoTime, !.metric = 0, !.gone = TRUE,
                                !.prefixes = k]
    OBVIOUS
  <2> HIDE DEF next, k
  <2>3. next(r) = [pref |-> rs[r].pref, lifetime |-> NoTime, prefixes |-> k,
                   dhcp |-> rs[r].dhcp, gone |-> TRUE, metric |-> 0]
    BY <2>1, <2>2 DEF Infos
  <2>4. /\ next(r) \in Infos /\ next(r).lifetime = NoTime /\ next(r).metric = 0
        /\ next(r).prefixes = k
    BY <2>1, <2>3 DEF Infos
  <2> QED
    BY <2>4 DEF k
<1>4. DOMAIN ss = DOMAIN rs /\ \A r \in DOMAIN rs : ss[r] = next(r)
  BY <1>1
<1>5. DOMAIN rs \subseteq Routers
  BY <1>2 DEF Tables
<1> HIDE DEF next, ss
<1>6. ss \in Tables
  BY <1>1, <1>3, <1>4, <1>5, TableOf
<1>7. Metered(ss) /\ Apart(ss) /\ live(ss) = {}
  BY <1>3, <1>4 DEF Metered, Apart, live
<1>8. SamePrefixes(rs, ss)
  <2> SUFFICES ASSUME NEW r \in DOMAIN rs, NEW p \in DOMAIN rs[r].prefixes
               PROVE  /\ r \in DOMAIN ss /\ p \in DOMAIN ss[r].prefixes
                      /\ ss[r].prefixes[p].valid = rs[r].prefixes[p].valid
    BY DEF SamePrefixes
  <2>1. rs[r].prefixes \in Known
    BY <1>2, EntryTypes
  <2> QED
    BY <1>3, <1>4, <2>1, DeprecateFacts
<1> QED
  BY <1>3, <1>4, <1>6, <1>7, <1>8 DEF WellKept, ss

----------------------------------------------------------------------------
(* Publishing *)

\* A router counted on keeps its route when the ones that timed out lose theirs.
LEMMA SweptRouted ==
    ASSUME NEW rs, WellKept(rs), NEW k, Routed(rs, k)
    PROVE  Routed(swept(rs), sweptRoutes(rs, k))
<1> SUFFICES ASSUME NEW r \in DOMAIN swept(rs), swept(rs)[r].lifetime > 0
             PROVE  RouteOf(swept(rs), r) \in sweptRoutes(rs, k)
  BY DEF Routed
<1>1. /\ r \in DOMAIN rs
      /\ rs[r].lifetime = 0 => swept(rs)[r].lifetime = NoTime
      /\ rs[r].lifetime # 0 => /\ swept(rs)[r].lifetime = rs[r].lifetime
                               /\ swept(rs)[r].metric = rs[r].metric
  BY SweptFacts
<1>2. rs[r].lifetime # 0 /\ rs[r].lifetime > 0 /\ RouteOf(swept(rs), r) = RouteOf(rs, r)
  BY <1>1 DEF RouteOf, NoTime
<1>3. RouteOf(rs, r) \in k /\ RouteOf(rs, r).gw = r
  BY <1>1, <1>2 DEF Routed, RouteOf
<1> QED
  BY <1>2, <1>3 DEF sweptRoutes

\* publish keeps what it finds, and tells the store what there is.
LEMMA PublishFacts ==
    ASSUME NEW rs, WellKept(rs), NEW k \in SUBSET Routes, NEW pp, publish(rs, k, pp)
    PROVE  /\ routers' = swept(rs) /\ WellKept(routers') /\ kernel' \subseteq Routes
           /\ Routed(rs, k) => Routed(routers', kernel')
           /\ \A r \in live(routers') : r \in live(rs) /\ routers'[r].lifetime > 0
                                         /\ routers'[r].lifetime = rs[r].lifetime
           /\ upd'.via = "router" <=> live(routers') # {}
           /\ upd'.via = Device => pp
           /\ ppp' = pp
           /\ DeviceRoute \in k => DeviceRoute \in kernel'
           /\ SamePrefixes(rs, routers') /\ NoneOver(routers')
<1>1. routers' = swept(rs) /\ kernel' = sweptRoutes(rs, k) /\ ppp' = pp
  BY DEF publish
<1>2. WellKept(swept(rs)) /\ SamePrefixes(rs, swept(rs)) /\ NoneOver(swept(rs))
  BY SweptFacts
<1>3. kernel' \subseteq Routes
  BY <1>1 DEF sweptRoutes
<1>4. ASSUME NEW r \in live(routers')
      PROVE  r \in live(rs) /\ routers'[r].lifetime > 0 /\ routers'[r].lifetime = rs[r].lifetime
  <2>1. /\ r \in DOMAIN swept(rs) /\ r \in DOMAIN rs
        /\ rs[r].lifetime = 0 => swept(rs)[r].lifetime = NoTime
        /\ rs[r].lifetime # 0 => swept(rs)[r].lifetime = rs[r].lifetime
        /\ swept(rs)[r].lifetime # NoTime
    BY <1>1, <1>4, SweptFacts DEF live
  <2>2. rs[r].lifetime \in Nat \cup {NoTime}
    BY <2>1, EntryTypes DEF WellKept
  <2> QED
    BY <1>1, <2>1, <2>2 DEF live
<1>5. PICK o \in Orders : upd' = merged(swept(rs), sweptRoutes(rs, k), pp, o)
  BY DEF publish
<1>6. upd'.via = IF live(routers') # {} THEN "router" ELSE IF pp THEN Device
                 ELSE IF defaultRouteVia(kernel') THEN "found" ELSE None
  BY <1>1, <1>5 DEF merged
<1>7. (upd'.via = "router" <=> live(routers') # {}) /\ (upd'.via = Device => pp)
  BY <1>6 DEF Device, None
<1>8. DeviceRoute \in k => DeviceRoute \in kernel'
  <2>1. DeviceRoute.gw = Device
    BY DEF DeviceRoute
  <2>2. \A r \in DOMAIN rs : r # Device
    BY EntryTypes, RoutersAssumption DEF WellKept
  <2> QED
    BY <1>1, <2>1, <2>2 DEF sweptRoutes
<1> QED
  BY <1>1, <1>2, <1>3, <1>4, <1>7, <1>8, SweptRouted

\* nextExpiry sleeps no longer than any router lives.
LEMMA ExpiryFacts ==
    ASSUME NEW rs, WellKept(rs), \A r \in live(rs) : rs[r].lifetime > 0, NoneOver(rs)
    PROVE  Timed(rs, nextExpiry(rs))
<1> DEFINE S == {Hour} \cup UNION {endsOf(rs[r]) : r \in DOMAIN rs}
<1>1. nextExpiry(rs) = Max({1, Min(S)})
  BY DEF nextExpiry
<1>2. rs \in Tables
  BY DEF WellKept
<1>3. ASSUME NEW r \in DOMAIN rs, NEW e \in endsOf(rs[r])
      PROVE  e \in Nat /\ e >= 1
  <2>1. rs[r].lifetime \in Nat \cup {NoTime} /\ (rs[r].lifetime # NoTime => rs[r].lifetime > 0)
    BY <1>2, EntryTypes DEF live
  <2>2. \A p \in DOMAIN rs[r].prefixes :
           /\ rs[r].prefixes[p].valid \in Nat /\ rs[r].prefixes[p].valid > 0
           /\ rs[r].prefixes[p].pref \in Nat
    BY <1>2, EntryTypes DEF Lifetimes, NoneOver
  <2>3. \/ e = rs[r].lifetime /\ e # NoTime
        \/ \E p \in DOMAIN rs[r].prefixes : e = rs[r].prefixes[p].valid
        \/ \E p \in DOMAIN rs[r].prefixes : e = rs[r].prefixes[p].pref /\ e # 0
    BY <1>3 DEF endsOf
  <2> QED
    BY <2>1, <2>2, <2>3
<1>4. \A r \in live(rs) : rs[r].lifetime \in endsOf(rs[r]) /\ r \in DOMAIN rs
  BY DEF endsOf, live
<1>5. S \in SUBSET Nat /\ S # {} /\ \A e \in S : e >= 1
  BY <1>3, TimesAssumption
<1>6. \A r \in live(rs) : rs[r].lifetime \in S
  BY <1>4
<1> HIDE DEF S
<1>7. Min(S) \in Nat /\ Min(S) >= 1 /\ \A e \in S : Min(S) <= e
  BY <1>5, MinIn
<1>8. nextExpiry(rs) = Min(S)
  BY <1>1, <1>7, MaxWithOne
<1> QED
  BY <1>6, <1>7, <1>8 DEF Timed

----------------------------------------------------------------------------
(* An RA *)

\* A function of nothing.
LEMMA NothingKnownYet == <<>> \in Known
<1>1. <<>> \in [{} -> Lifetimes]
  OBVIOUS
<1> QED
  BY <1>1 DEF Known

\* The router that speaks is added with nothing known of it.
LEMMA MetFacts ==
    ASSUME WellKept(routers), NEW from \in Routers
    PROVE  /\ WellKept(met(from)) /\ from \in DOMAIN met(from)
           /\ SamePrefixes(routers, met(from))
           /\ \A k : Routed(routers, k) => Routed(met(from), k)
           /\ \A r \in live(met(from)) : r \in live(routers)
                                          /\ met(from)[r].lifetime = routers[r].lifetime
<1> DEFINE rs == met(from)
<1>1. CASE from \in DOMAIN routers
  BY <1>1 DEF met, SamePrefixes
<1>2. CASE from \notin DOMAIN routers
  <2>1. /\ rs = [r \in DOMAIN routers \cup {from} |-> IF r = from THEN NewRouter ELSE routers[r]]
    BY <1>2 DEF met
  <2>2. NewRouter \in Infos /\ NewRouter.lifetime = NoTime /\ NewRouter.metric = 0
        /\ ~NewRouter.gone
    BY NothingKnownYet DEF NewRouter, Infos, Preferences
  <2>3. /\ DOMAIN rs = DOMAIN routers \cup {from} /\ rs[from] = NewRouter
        /\ \A r \in DOMAIN routers : rs[r] = routers[r]
    BY <1>2, <2>1
  <2>4. routers \in Tables /\ DOMAIN rs \subseteq Routers /\ \A r \in DOMAIN rs : rs[r] \in Infos
    BY <2>2, <2>3, EntryTypes DEF WellKept, Tables
  <2> HIDE DEF rs
  <2>5. rs \in Tables
    BY <2>1, <2>3, <2>4, TableOf
  <2>6. Metered(rs) /\ Apart(rs)
    BY <2>2, <2>3 DEF WellKept, Metered, Apart
  <2>7. SamePrefixes(routers, rs)
    BY <2>3 DEF SamePrefixes
  <2>8. \A k : Routed(routers, k) => Routed(rs, k)
    BY <2>2, <2>3 DEF Routed, RouteOf, NoTime
  <2>9. \A r \in live(rs) : r \in live(routers) /\ rs[r].lifetime = routers[r].lifetime
    BY <2>2, <2>3 DEF live
  <2> QED
    BY <2>3, <2>5, <2>6, <2>7, <2>8, <2>9 DEF WellKept, rs
<1> QED
  BY <1>1, <1>2

\* The entry an RA makes, with a metric no other router has.
LEMMA HeardFacts ==
    ASSUME NEW rs, WellKept(rs), NEW from \in DOMAIN rs, NEW ra \in Adverts
    PROVE  /\ heard(rs, from, ra) \in Infos /\ ~heard(rs, from, ra).gone
           /\ heard(rs, from, ra).lifetime = NoTime <=> heard(rs, from, ra).metric = 0
           /\ \A r \in DOMAIN rs : r # from => \/ heard(rs, from, ra).metric = 0
                                             \/ rs[r].metric # heard(rs, from, ra).metric
<1>1. rs \in Tables /\ from \in Routers /\ rs[from].prefixes \in Known
  BY EntryTypes DEF WellKept
<1>2. ra.life \in Nat /\ ra.pref \in Preferences /\ ra.dhcp \in BOOLEAN
  BY AdvertsAssumption
<1>3. CASE ra.life > 0
  <2> DEFINE m == metricFor(rs, from, ra.pref)
             ps == mergePIOs(rs[from].prefixes, ra)
  <2>1. m \in Nat /\ m > 0 /\ \A a \in DOMAIN rs : a # from => rs[a].metric # m
    BY <1>1, <1>2, MetricFree
  <2>2. ps \in Known
    BY <1>1, MergeFacts
  <2>3. heard(rs, from, ra) = [pref |-> ra.pref, lifetime |-> ra.life, prefixes |-> ps,
                               dhcp |-> ra.dhcp, gone |-> FALSE, metric |-> m]
    BY <1>3 DEF heard
  <2> HIDE DEF m, ps
  <2> QED
    BY <1>2, <1>3, <2>1, <2>2, <2>3 DEF Infos, NoTime
<1>4. CASE ~(ra.life > 0)
  BY <1>2, <1>4, NothingKnownYet DEF heard, Infos
<1> QED
  BY <1>3, <1>4

\* The routers with the new entry.
LEMMA EnterFacts ==
    ASSUME NEW rs, WellKept(rs), NEW from \in DOMAIN rs, NEW ra \in Adverts
    PROVE  /\ WellKept([rs EXCEPT ![from] = heard(rs, from, ra)])
           /\ PrefixesKept(rs, [rs EXCEPT ![from] = heard(rs, from, ra)])
<1> DEFINE h == heard(rs, from, ra)
           xs == [rs EXCEPT ![from] = h]
<1>1. /\ h \in Infos /\ ~h.gone /\ (h.lifetime = NoTime <=> h.metric = 0)
      /\ \A r \in DOMAIN rs : r # from => h.metric = 0 \/ rs[r].metric # h.metric
  BY HeardFacts
<1>2. rs \in Tables /\ Metered(rs) /\ Apart(rs)
  BY DEF WellKept
<1>3. ASSUME NEW p \in DOMAIN rs[from].prefixes
      PROVE  \/ ~h.gone /\ h.lifetime = NoTime
             \/ /\ p \in DOMAIN h.prefixes
                /\ h.prefixes[p].valid >= Min({rs[from].prefixes[p].valid, TwoHours})
  <2>1. rs[from].prefixes \in Known
    BY <1>2, EntryTypes
  <2>2. CASE ra.life > 0
    BY <2>1, <2>2, MergeFacts DEF heard
  <2>3. CASE ~(ra.life > 0)
    BY <2>3 DEF heard
  <2> QED
    BY <2>2, <2>3
<1> HIDE DEF h
<1>4. DOMAIN xs = DOMAIN rs /\ xs[from] = h /\ \A r \in DOMAIN rs : r # from => xs[r] = rs[r]
  OBVIOUS
<1>5. xs \in Tables
  <2>1. xs = [r \in DOMAIN rs |-> xs[r]]
    OBVIOUS
  <2>2. DOMAIN rs \in SUBSET Routers /\ \A r \in DOMAIN rs : xs[r] \in Infos
    BY <1>1, <1>2, <1>4, EntryTypes
  <2> HIDE DEF xs
  <2> QED
    BY <1>4, <2>1, <2>2, TableOf
<1> HIDE DEF xs
<1>6. Metered(xs) /\ Apart(xs)
  BY <1>1, <1>2, <1>4 DEF Metered, Apart
<1>7. PrefixesKept(rs, xs)
  <2> SUFFICES ASSUME NEW r \in DOMAIN rs, NEW p \in DOMAIN rs[r].prefixes
               PROVE  \/ ~xs[r].gone /\ xs[r].lifetime = NoTime
                      \/ /\ p \in DOMAIN xs[r].prefixes
                         /\ xs[r].prefixes[p].valid >= Min({rs[r].prefixes[p].valid, TwoHours})
    BY <1>4 DEF PrefixesKept
  <2>1. CASE r = from
    BY <1>3, <1>4, <2>1
  <2>2. CASE r # from
    <3>1. rs[r].prefixes[p].valid \in Nat
      BY <1>2, EntryTypes
    <3>2. rs[r].prefixes[p].valid >= Min({rs[r].prefixes[p].valid, TwoHours})
      BY <3>1, MinOfTwo, TimesAssumption
    <3> QED
      BY <1>4, <2>2, <3>2
  <2> QED
    BY <2>1, <2>2
<1> QED
  BY <1>5, <1>6, <1>7 DEF WellKept, xs, h

\* Prefixes kept by an RA are kept when the result is published.
LEMMA KeptOnceSwept ==
    ASSUME NEW rs \in Tables, NEW xs, WellKept(xs), PrefixesKept(rs, xs)
    PROVE  PrefixesKept(rs, swept(xs))
<1> DEFINE ss == swept(xs)
<1>1. /\ \A r \in DOMAIN ss : xs[r].lifetime # 0 => /\ ss[r].lifetime = xs[r].lifetime
                                                    /\ ss[r].gone = xs[r].gone
      /\ \A r \in DOMAIN xs : xs[r].lifetime # 0 /\ ~xs[r].gone => r \in DOMAIN ss
      /\ SamePrefixes(xs, ss)
  BY SweptFacts
<1> HIDE DEF ss
<1> SUFFICES ASSUME NEW r \in DOMAIN rs, NEW p \in DOMAIN rs[r].prefixes,
                    rs[r].prefixes[p].valid # 0
             PROVE  \/ r \in DOMAIN ss /\ ~ss[r].gone /\ ss[r].lifetime = NoTime
                    \/ /\ r \in DOMAIN ss /\ p \in DOMAIN ss[r].prefixes
                       /\ ss[r].prefixes[p].valid >= Min({rs[r].prefixes[p].valid, TwoHours})
  BY DEF PrefixesKept, ss
<1> DEFINE v == rs[r].prefixes[p].valid
<1>2. v \in Nat /\ v # 0
  BY EntryTypes
<1>3. Min({v, TwoHours}) \in Nat /\ Min({v, TwoHours}) > 0
  <2>1. Min({v, TwoHours}) \in {v, TwoHours} /\ TwoHours \in Nat /\ TwoHours > 0
    BY <1>2, MinOfTwo, TimesAssumption
  <2> QED
    BY <1>2, <2>1
<1>4. \/ r \in DOMAIN xs /\ ~xs[r].gone /\ xs[r].lifetime = NoTime
      \/ /\ r \in DOMAIN xs /\ p \in DOMAIN xs[r].prefixes
         /\ xs[r].prefixes[p].valid >= Min({v, TwoHours})
  BY <1>2 DEF PrefixesKept
<1>5. CASE r \in DOMAIN xs /\ ~xs[r].gone /\ xs[r].lifetime = NoTime
  BY <1>1, <1>5 DEF NoTime
<1>6. CASE /\ r \in DOMAIN xs /\ p \in DOMAIN xs[r].prefixes
           /\ xs[r].prefixes[p].valid >= Min({v, TwoHours})
  <2>1. xs[r].prefixes[p].valid \in Nat
    BY <1>6, EntryTypes DEF WellKept
  <2>2. xs[r].prefixes[p].valid > 0
    BY <1>3, <1>6, <2>1
  <2> QED
    BY <1>1, <1>6, <2>2 DEF SamePrefixes
<1> QED
  BY <1>4, <1>5, <1>6

\* The routes after an RA: the other routers keep theirs, and so does the device.
LEMMA RoutesFacts ==
    ASSUME NEW rs, WellKept(rs), NEW from \in DOMAIN rs, NEW ra \in Adverts,
           NEW k \in SUBSET Routes
    PROVE  LET K == IF ra.life > 0 THEN routesAfter(rs, k, from, ra)
                    ELSE dropDefault(k, from, rs[from])
           IN  /\ K \subseteq Routes
               /\ link = "up" /\ Routed(rs, k) =>
                     Routed([rs EXCEPT ![from] = heard(rs, from, ra)], K)
               /\ FewRouters /\ DeviceRoute \in k => DeviceRoute \in K
<1> DEFINE h == heard(rs, from, ra)
           xs == [rs EXCEPT ![from] = h]
           m == metricFor(rs, from, ra.pref)
           K == IF ra.life > 0 THEN routesAfter(rs, k, from, ra)
                ELSE dropDefault(k, from, rs[from])
<1>1. rs \in Tables /\ from \in Routers /\ ra.life \in Nat /\ ra.pref \in Preferences
  BY EntryTypes, AdvertsAssumption DEF WellKept
<1>2. /\ m \in Nat /\ m <= 2048 + Cardinality(Routers)
      /\ \A a \in DOMAIN rs : a # from => rs[a].metric # m
  BY <1>1, MetricFree
<1>3. DOMAIN xs = DOMAIN rs /\ xs[from] = h /\ \A r \in DOMAIN rs : r # from => xs[r] = rs[r]
  OBVIOUS
<1>4. /\ ra.life > 0 => h.lifetime = ra.life /\ h.metric = m
      /\ ~(ra.life > 0) => h.lifetime = NoTime
  BY DEF heard
<1>5. \A metric : routeDel(k, from, metric) \subseteq k
                   /\ \A x \in k : x.gw # from => x \in routeDel(k, from, metric)
  BY DEF routeDel
<1>6. dropDefault(k, from, rs[from]) \subseteq k
      /\ \A x \in k : x.gw # from => x \in dropDefault(k, from, rs[from])
  BY <1>5 DEF dropDefault
<1> DEFINE new == [metric |-> m, gw |-> from, left |-> ra.life]
           base == IF m # rs[from].metric THEN dropDefault(k, from, rs[from]) ELSE k
<1>7. base \subseteq k /\ \A x \in k : x.gw # from => x \in base
  BY <1>6
<1>8. ra.life > 0 => K = IF link = "up" THEN {x \in base : x.metric # m} \cup {new} ELSE base
  BY DEF routesAfter, routeSet
<1>9. ~(ra.life > 0) => K = dropDefault(k, from, rs[from])
  OBVIOUS
<1>10. new \in Routes /\ new.gw = from
  BY <1>1, <1>2 DEF Routes
<1>13. new = RouteOf(xs, from) \/ ~(ra.life > 0)
  BY <1>3, <1>4 DEF RouteOf
<1> HIDE DEF m, K, base, new, h, xs
<1>11. K \subseteq Routes
  BY <1>6, <1>7, <1>8, <1>9, <1>10
<1>12. ASSUME link = "up", Routed(rs, k) PROVE Routed(xs, K)
  <2> SUFFICES ASSUME NEW r \in DOMAIN xs, xs[r].lifetime > 0
               PROVE  RouteOf(xs, r) \in K
    BY DEF Routed
  <2>1. CASE r = from
    <3>1. ra.life > 0
      BY <1>3, <1>4, <2>1 DEF NoTime
    <3> QED
      BY <1>8, <1>12, <1>13, <2>1, <3>1
  <2>2. CASE r # from
    <3>1. /\ r \in DOMAIN rs /\ RouteOf(xs, r) = RouteOf(rs, r) /\ RouteOf(rs, r) \in k
      BY <1>3, <1>12, <2>2 DEF RouteOf, Routed
    <3>2. RouteOf(rs, r).gw # from /\ RouteOf(rs, r).metric # m
      BY <1>2, <2>2, <3>1 DEF RouteOf
    <3> QED
      BY <1>6, <1>7, <1>8, <1>9, <1>12, <3>1, <3>2
  <2> QED
    BY <2>1, <2>2
<1>14. ASSUME FewRouters, DeviceRoute \in k PROVE DeviceRoute \in K
  <2>1. DeviceRoute.gw # from
    BY <1>1, RoutersAssumption DEF DeviceRoute
  <2>2. DeviceRoute.metric # m
    <3>1. Cardinality(Routers) \in Nat
      BY FS_CardinalityType, RoutersAssumption
    <3>2. DeviceRoute.metric = 4096
      BY DEF DeviceRoute, pppMetric
    <3> QED
      BY <1>2, <1>14, <3>1, <3>2 DEF FewRouters
  <2> QED
    BY <1>6, <1>7, <1>8, <1>9, <1>14, <2>1, <2>2
<1> QED
  BY <1>11, <1>12, <1>14 DEF K, xs, h

\* handle, whole.
LEMMA HandleKeeps ==
    ASSUME RouterInv, NEW ra \in Adverts, NEW from \in Routers, handle(ra, from)
    PROVE  RouterInv' /\ PrefixesKept(routers, routers')
<1> DEFINE rs == met(from)
           h == heard(rs, from, ra)
           xs == [rs EXCEPT ![from] = h]
           K == IF ra.life > 0 THEN routesAfter(rs, kernel, from, ra)
                ELSE dropDefault(kernel, from, rs[from])
<1>1. WellKept(routers) /\ kernel \in SUBSET Routes /\ routers \in Tables
  BY DEF RouterInv, WellKept
<1>2. /\ WellKept(rs) /\ from \in DOMAIN rs /\ SamePrefixes(routers, rs)
      /\ \A k : Routed(routers, k) => Routed(rs, k)
  BY <1>1, MetFacts
<1>3. publish(xs, K, ppp)
  BY DEF handle
<1>4. /\ expire' = nextExpiry(routers') /\ serving /\ serving' = serving /\ stop' = stop
      /\ link' = link
  BY DEF handle
<1>5. WellKept(xs) /\ PrefixesKept(rs, xs)
  BY <1>2, EnterFacts
<1>6. /\ K \in SUBSET Routes /\ (link = "up" /\ Routed(rs, kernel) => Routed(xs, K))
      /\ FewRouters /\ DeviceRoute \in kernel => DeviceRoute \in K
  BY <1>1, <1>2, RoutesFacts
<1> HIDE DEF xs, K, rs
<1>7. /\ routers' = swept(xs) /\ WellKept(routers') /\ kernel' \subseteq Routes
      /\ Routed(xs, K) => Routed(routers', kernel')
      /\ \A r \in live(routers') : routers'[r].lifetime > 0
      /\ upd'.via = "router" <=> live(routers') # {}
      /\ upd'.via = Device => ppp
      /\ ppp' = ppp
      /\ DeviceRoute \in K => DeviceRoute \in kernel'
      /\ NoneOver(routers')
  BY <1>3, <1>5, <1>6, PublishFacts
<1>8. Timed(routers', expire')
  BY <1>4, <1>7, ExpiryFacts
<1>9. PrefixesKept(routers, xs)
  BY <1>2, <1>5 DEF SamePrefixes, PrefixesKept, met, rs
<1>10. PrefixesKept(routers, routers')
  BY <1>1, <1>5, <1>7, <1>9, KeptOnceSwept
<1>11. /\ serving /\ ~stop => link = "up" /\ Routed(routers, kernel)
       /\ FewRouters /\ serving /\ ~stop /\ ppp => DeviceRoute \in kernel
  BY DEF RouterInv
<1> QED
  BY <1>2, <1>4, <1>6, <1>7, <1>8, <1>10, <1>11 DEF RouterInv

----------------------------------------------------------------------------
(* The link and the timers *)

\* linkLost leaves no default router and all prefixes.
LEMMA LinkLostKeeps ==
    ASSUME RouterInv, linkLost
    PROVE  /\ WellKept(routers') /\ kernel' \subseteq Routes /\ live(routers') = {}
           /\ upd'.via # "router" /\ upd'.via # Device /\ ~ppp'
           /\ PrefixesKept(routers, routers')
<1>1. WellKept(routers) /\ kernel \in SUBSET Routes /\ routers \in Tables
  BY DEF RouterInv, WellKept
<1>2. WellKept(lost(routers)) /\ live(lost(routers)) = {} /\ SamePrefixes(routers, lost(routers))
  BY <1>1, LostFacts
<1>3. publish(lost(routers), kernel, FALSE)
  BY DEF linkLost
<1>4. /\ routers' = swept(lost(routers)) /\ WellKept(routers') /\ kernel' \subseteq Routes
      /\ \A r \in live(routers') : r \in live(lost(routers))
      /\ upd'.via = "router" <=> live(routers') # {}
      /\ upd'.via = Device => FALSE
      /\ ppp' = FALSE
  BY <1>1, <1>2, <1>3, PublishFacts
<1>5. PrefixesKept(routers, swept(lost(routers)))
  BY <1>1, <1>2, SameAreKept, KeptOnceSwept
<1> QED
  BY <1>2, <1>4, <1>5

\* A table without entries.
LEMMA NobodyKnown == WellKept(<<>>) /\ live(<<>>) = {} /\ DOMAIN <<>> = {}
<1>1. <<>> \in [{} -> Infos] /\ DOMAIN <<>> = {}
  OBVIOUS
<1>2. <<>> \in Tables
  BY <1>1 DEF Tables
<1> QED
  BY <1>1, <1>2 DEF WellKept, Metered, Apart, live

\* Without a live router every route is where it should be and any timer early enough.
LEMMA NobodyLive ==
    ASSUME NEW rs, live(rs) = {}
    PROVE  (\A k : Routed(rs, k)) /\ \A e \in Nat : Timed(rs, e)
BY DEF live, Routed, Timed, NoTime

\* serve begins a round.
LEMMA ServeKeeps ==
    ASSUME RouterInv, NEW opened \in BOOLEAN, Serve(opened)
    PROVE  RouterInv' /\ ((fresh /\ ~fresh') \/ PrefixesKept(routers, routers'))
<1>1. /\ WellKept(routers') /\ kernel' \subseteq Routes /\ live(routers') = {}
      /\ upd'.via # "router" /\ upd'.via # Device /\ ~ppp'
      /\ fresh \/ PrefixesKept(routers, routers')
  <2>1. CASE fresh
    <3>1. routers' = <<>> /\ ppp' = FALSE /\ upd' = NothingKnown /\ kernel' = kernel
      BY <2>1 DEF Serve
    <3>2. upd'.via = None
      BY <3>1 DEF NothingKnown
    <3> QED
      BY <2>1, <3>1, <3>2, NobodyKnown DEF RouterInv, None, Device
  <2>2. CASE ~fresh
    <3>1. linkLost
      BY <2>2 DEF Serve
    <3> QED
      BY <3>1, LinkLostKeeps
  <2> QED
    BY <2>1, <2>2
<1>2. /\ link = "up" /\ link' = link /\ fresh' = FALSE /\ serving' = opened
      /\ expire' = IF opened THEN Hour ELSE Off
  BY DEF Serve
<1>3. (\A k : Routed(routers', k)) /\ \A e \in Nat : Timed(routers', e)
  BY <1>1, NobodyLive
<1>4. serving' => Timed(routers', expire')
  BY <1>2, <1>3, TimesAssumption
<1> QED
  BY <1>1, <1>2, <1>3, <1>4 DEF RouterInv

\* A step that leaves the routers leaves the prefixes.
LEMMA UnchangedAreKept ==
    ASSUME RouterInv, routers' = routers
    PROVE  PrefixesKept(routers, routers')
<1>1. routers \in Tables /\ SamePrefixes(routers, routers)
  BY DEF RouterInv, WellKept, SamePrefixes
<1> QED
  BY <1>1, SameAreKept

\* serve ends a round.
LEMMA StopKeeps ==
    ASSUME RouterInv, Stop
    PROVE  RouterInv' /\ PrefixesKept(routers, routers')
<1>1. serving' = FALSE
  BY DEF Stop
<1>2. CASE link = "down"
  <2>1. linkLost
    BY <1>2 DEF Stop
  <2> QED
    BY <1>1, <2>1, LinkLostKeeps DEF RouterInv
<1>3. CASE link # "down"
  <2>1. routers' = routers /\ kernel' = kernel /\ ppp' = ppp /\ upd' = upd
    BY <1>3 DEF Stop
  <2> QED
    BY <1>1, <2>1, UnchangedAreKept DEF RouterInv
<1> QED
  BY <1>2, <1>3

\* The solicitation timer.
LEMMA RSTimerKeeps ==
    ASSUME RouterInv, RSTimer
    PROVE  RouterInv' /\ PrefixesKept(routers, routers')
<1>1. /\ link' = link /\ serving' = serving /\ stop' = stop /\ expire' = expire /\ serving
  BY DEF RSTimer
<1>2. CASE rsLeft = 0 /\ ~hasRouter(routers)
  <2> DEFINE pp == PointToPoint /\ link = "up"
             K == IF pp THEN routeSet(kernel, Device, pppMetric, NoTime) ELSE kernel
  <2>1. publish(routers, K, pp)
    BY <1>2 DEF RSTimer
  <2>2. WellKept(routers) /\ kernel \in SUBSET Routes /\ routers \in Tables
    BY DEF RouterInv, WellKept
  <2>3. K \in SUBSET Routes /\ (pp => DeviceRoute \in K)
    <3>1. DeviceRoute \in Routes
      BY DEF DeviceRoute, Routes, pppMetric
    <3>2. routeSet(kernel, Device, pppMetric, NoTime)
            = {x \in kernel : x.metric # pppMetric} \cup {DeviceRoute}
      BY DEF routeSet, DeviceRoute
    <3> QED
      BY <2>2, <3>1, <3>2
  <2>4. live(routers) = {}
    BY <1>2, <2>2 DEF hasRouter, live, WellKept, Metered
  <2> HIDE DEF K, pp
  <2>5. /\ routers' = swept(routers) /\ WellKept(routers') /\ kernel' \subseteq Routes
        /\ \A r \in live(routers') : r \in live(routers)
        /\ upd'.via = "router" <=> live(routers') # {}
        /\ upd'.via = Device => pp
        /\ ppp' = pp
        /\ DeviceRoute \in K => DeviceRoute \in kernel'
        /\ SamePrefixes(routers, routers')
    BY <2>1, <2>2, <2>3, PublishFacts
  <2>6. live(routers') = {} /\ expire \in Nat
    BY <1>1, <2>4, <2>5 DEF RouterInv, Timed
  <2>7. Routed(routers', kernel') /\ Timed(routers', expire')
    BY <1>1, <2>6, NobodyLive
  <2>8. PrefixesKept(routers, routers')
    BY <2>2, <2>5, SameAreKept
  <2> QED
    BY <1>1, <2>3, <2>5, <2>7, <2>8 DEF RouterInv
<1>3. CASE ~(rsLeft = 0 /\ ~hasRouter(routers))
  <2>1. routers' = routers /\ kernel' = kernel /\ ppp' = ppp /\ upd' = upd
    BY <1>3 DEF RSTimer
  <2> QED
    BY <1>1, <2>1, UnchangedAreKept DEF RouterInv
<1> QED
  BY <1>2, <1>3

\* The expiry timer.
LEMMA ExpireKeeps ==
    ASSUME RouterInv, Expire
    PROVE  RouterInv' /\ PrefixesKept(routers, routers')
<1>1. /\ link' = link /\ serving' = serving /\ stop' = stop
      /\ expire' = nextExpiry(routers')
  BY DEF Expire
<1>6. publish(routers, kernel, ppp)
  BY DEF Expire
<1>2. WellKept(routers) /\ kernel \in SUBSET Routes /\ routers \in Tables
  BY DEF RouterInv, WellKept
<1>3. /\ WellKept(routers') /\ kernel' \subseteq Routes
      /\ Routed(routers, kernel) => Routed(routers', kernel')
      /\ \A r \in live(routers') : routers'[r].lifetime > 0
      /\ upd'.via = "router" <=> live(routers') # {}
      /\ upd'.via = Device => ppp
      /\ ppp' = ppp
      /\ DeviceRoute \in kernel => DeviceRoute \in kernel'
      /\ SamePrefixes(routers, routers') /\ NoneOver(routers')
  BY <1>2, <1>6, PublishFacts
<1>4. Timed(routers', expire')
  BY <1>1, <1>3, ExpiryFacts
<1>5. PrefixesKept(routers, routers')
  BY <1>2, <1>3, SameAreKept
<1> QED
  BY <1>1, <1>3, <1>4, <1>5 DEF RouterInv

\* The link goes and comes: the kernel drops the routes, and the round is over.
LEMMA LinkKeeps ==
    ASSUME RouterInv, LinkUp \/ \E gone \in BOOLEAN : LinkDown(gone)
    PROVE  RouterInv' /\ PrefixesKept(routers, routers')
<1>1. /\ routers' = routers /\ ppp' = ppp /\ upd' = upd /\ serving' = serving /\ expire' = expire
      /\ kernel' = {} \/ kernel' = kernel
      /\ ~(serving' /\ ~stop')
  BY DEF LinkUp, LinkDown, RouterInv
<1> QED
  BY <1>1, UnchangedAreKept DEF RouterInv

----------------------------------------------------------------------------
(* Time *)

\* A tick takes one from what is left, and nothing from what has no end.
LEMMA LessFacts ==
    ASSUME NEW t \in Nat \cup {NoTime}
    PROVE  /\ Less(t) \in Nat \cup {NoTime} /\ (t \in Nat => Less(t) \in Nat)
           /\ Less(t) = NoTime <=> t = NoTime
           /\ t > 0 => Less(t) = t - 1
           /\ Less(t) > 0 => t > 1
BY DEF Less, NoTime

\* A router's entry a tick later.
LEMMA EntryAges ==
    ASSUME NEW e \in Infos
    PROVE  LET x == [e EXCEPT
                        !.lifetime = Less(@),
                        !.prefixes = [p \in DOMAIN @ |-> [pref |-> Less(@[p].pref),
                                                          valid |-> Less(@[p].valid)]]]
           IN  /\ x \in Infos /\ x.lifetime = Less(e.lifetime)
               /\ x.metric = e.metric /\ x.gone = e.gone
<1> DEFINE ps == [p \in DOMAIN e.prefixes |-> [pref |-> Less(e.prefixes[p].pref),
                                               valid |-> Less(e.prefixes[p].valid)]]
           x == [e EXCEPT !.lifetime = Less(@),
                          !.prefixes = [p \in DOMAIN @ |-> [pref |-> Less(@[p].pref),
                                                            valid |-> Less(@[p].valid)]]]
           l == Less(e.lifetime)
<1>1. PICK S \in SUBSET Prefixes : e.prefixes \in [S -> Lifetimes]
  BY DEF Infos, Known
<1>2. \A p \in S : e.prefixes[p].pref \in Nat /\ e.prefixes[p].valid \in Nat
  BY <1>1 DEF Lifetimes
<1>3. ps \in [S -> Lifetimes]
  BY <1>1, <1>2, LessFacts DEF Lifetimes
<1>4. ps \in Known
  BY <1>3 DEF Known
<1>5. l \in Nat \cup {NoTime}
  BY LessFacts DEF Infos
<1>6. x = [e EXCEPT !.lifetime = l, !.prefixes = ps]
  OBVIOUS
<1> HIDE DEF x, l, ps
<1>7. x = [pref |-> e.pref, lifetime |-> l, prefixes |-> ps, dhcp |-> e.dhcp,
           gone |-> e.gone, metric |-> e.metric]
  BY <1>6 DEF Infos
<1>8. x \in Infos /\ x.lifetime = l /\ x.metric = e.metric /\ x.gone = e.gone
  BY <1>4, <1>5, <1>7 DEF Infos
<1> QED
  BY <1>8 DEF x, l

\* The routers and the kernel a tick later.
LEMMA TableAges ==
    ASSUME RouterInv, Tick
    PROVE  /\ WellKept(routers') /\ DOMAIN routers' = DOMAIN routers
           /\ \A r \in DOMAIN routers :
                 /\ routers'[r].lifetime = Less(routers[r].lifetime)
                 /\ routers'[r].metric = routers[r].metric
<1> DEFINE next(r) == [routers[r] EXCEPT
                          !.lifetime = Less(@),
                          !.prefixes = [p \in DOMAIN @ |-> [pref |-> Less(@[p].pref),
                                                            valid |-> Less(@[p].valid)]]]
<1>1. routers' = [r \in DOMAIN routers |-> next(r)]
  BY DEF Tick
<1>2. routers \in Tables /\ Metered(routers) /\ Apart(routers)
  BY DEF RouterInv, WellKept
<1>3. ASSUME NEW r \in DOMAIN routers
      PROVE  /\ next(r) \in Infos /\ next(r).lifetime = Less(routers[r].lifetime)
             /\ next(r).metric = routers[r].metric /\ next(r).gone = routers[r].gone
  <2>1. routers[r] \in Infos
    BY <1>2, EntryTypes
  <2> QED
    BY <2>1, EntryAges
<1> HIDE DEF next
<1>4. DOMAIN routers' = DOMAIN routers /\ \A r \in DOMAIN routers : routers'[r] = next(r)
  BY <1>1
<1>5. DOMAIN routers \subseteq Routers
  BY <1>2 DEF Tables
<1>6. routers' \in Tables
  BY <1>1, <1>3, <1>4, <1>5, TableOf
<1>7. \A r \in DOMAIN routers : Less(routers[r].lifetime) = NoTime <=> routers[r].lifetime = NoTime
  BY <1>2, EntryTypes, LessFacts
<1>8. Metered(routers')
  BY <1>2, <1>3, <1>4, <1>7 DEF Metered
<1>9. Apart(routers')
  BY <1>2, <1>3, <1>4 DEF Apart
<1> QED
  BY <1>3, <1>4, <1>6, <1>8, <1>9 DEF WellKept

\* A route a tick later.
LEMMA RouteAges ==
    ASSUME NEW x \in Routes
    PROVE  /\ [x EXCEPT !.left = Less(@)] \in Routes
           /\ [x EXCEPT !.left = Less(@)] = [metric |-> x.metric, gw |-> x.gw, left |-> Less(x.left)]
<1>1. Less(x.left) \in Nat \cup {NoTime}
  BY LessFacts DEF Routes
<1> QED
  BY <1>1 DEF Routes

\* Tick, whole.
LEMMA TickKeeps == ASSUME RouterInv, Tick PROVE RouterInv'
<1>1. /\ WellKept(routers') /\ DOMAIN routers' = DOMAIN routers
      /\ \A r \in DOMAIN routers : /\ routers'[r].lifetime = Less(routers[r].lifetime)
                                   /\ routers'[r].metric = routers[r].metric
  BY TableAges
<1>2. \A r \in DOMAIN routers : routers[r].lifetime \in Nat \cup {NoTime} /\ r \in Routers
  BY EntryTypes DEF RouterInv, WellKept
<1>3. /\ link' = link /\ serving' = serving /\ stop' = stop /\ ppp' = ppp /\ upd' = upd
      /\ expire # 0 /\ expire' = Less(expire)
      /\ kernel' = {[x EXCEPT !.left = Less(@)] : x \in {y \in kernel : y.left # 1}}
      /\ kernel \subseteq Routes
  BY DEF Tick, RouterInv
<1>4. kernel' \subseteq Routes
  BY <1>3, RouteAges
<1>5. \A x \in kernel : x.left # 1 =>
         [metric |-> x.metric, gw |-> x.gw, left |-> Less(x.left)] \in kernel'
  BY <1>3, RouteAges
<1>6. live(routers') = live(routers)
  BY <1>1, <1>2, LessFacts DEF live
<1>7. ASSUME Routed(routers, kernel) PROVE Routed(routers', kernel')
  <2> SUFFICES ASSUME NEW r \in DOMAIN routers, routers'[r].lifetime > 0
               PROVE  RouteOf(routers', r) \in kernel'
    BY <1>1 DEF Routed
  <2>1. routers[r].lifetime > 1 /\ routers[r].lifetime \in Nat
    BY <1>1, <1>2, LessFacts DEF NoTime
  <2>2. RouteOf(routers, r) \in kernel
    BY <1>7, <2>1 DEF Routed
  <2>3. /\ RouteOf(routers, r).metric = routers[r].metric /\ RouteOf(routers, r).gw = r
        /\ RouteOf(routers, r).left = routers[r].lifetime
    BY DEF RouteOf
  <2>4. [metric |-> routers[r].metric, gw |-> r, left |-> Less(routers[r].lifetime)] \in kernel'
    BY <1>5, <2>1, <2>2, <2>3
  <2> QED
    BY <1>1, <2>4 DEF RouteOf
<1>8. ASSUME serving PROVE Timed(routers', expire')
  <2>1. expire \in Nat /\ \A r \in live(routers) : expire <= routers[r].lifetime
    BY <1>8 DEF RouterInv, Timed
  <2>2. expire' = expire - 1 /\ expire > 0
    BY <1>3, <2>1 DEF Less
  <2>3. ASSUME NEW r \in live(routers') PROVE expire' <= routers'[r].lifetime
    <3>1. r \in live(routers) /\ r \in DOMAIN routers
      BY <1>6, <2>3 DEF live
    <3>2. routers[r].lifetime \in Nat /\ routers[r].lifetime > 0
      BY <1>2, <2>1, <2>2, <3>1 DEF NoTime
    <3> QED
      BY <1>1, <2>1, <2>2, <3>1, <3>2 DEF Less
  <2> QED
    BY <2>1, <2>2, <2>3 DEF Timed
<1>9. ASSUME DeviceRoute \in kernel PROVE DeviceRoute \in kernel'
  <2>1. DeviceRoute.left = NoTime /\ DeviceRoute.metric = pppMetric /\ DeviceRoute.gw = Device
    BY DEF DeviceRoute
  <2>2. Less(NoTime) = NoTime /\ NoTime # 1
    BY DEF Less, NoTime
  <2>3. [metric |-> pppMetric, gw |-> Device, left |-> NoTime] \in kernel'
    BY <1>5, <1>9, <2>1, <2>2
  <2> QED
    BY <2>3 DEF DeviceRoute
<1> QED
  BY <1>1, <1>3, <1>4, <1>6, <1>7, <1>8, <1>9 DEF RouterInv

----------------------------------------------------------------------------
(* The theorems *)

\* The client starts with nothing known.
LEMMA RouterStarts == Init => RouterInv
<1> SUFFICES ASSUME Init PROVE RouterInv
  OBVIOUS
<1>1. routers = <<>> /\ ~serving /\ upd.via = None
  BY DEF Init, NothingKnown
<1>2. kernel \subseteq Routes
  <2>1. PICK r \in Routers : kernel \in {{}, routeSet({}, r, routerMetric("medium"), Hour)}
    BY DEF Init
  <2>2. routerMetric("medium") = 1024
    BY DEF routerMetric
  <2>3. routeSet({}, r, 1024, Hour) = {[metric |-> 1024, gw |-> r, left |-> Hour]}
    BY DEF routeSet
  <2> QED
    BY <2>1, <2>2, <2>3, TimesAssumption DEF Routes
<1> QED
  BY <1>1, <1>2, NobodyKnown DEF RouterInv, None, Device

\* Every step keeps the invariant, and all but time and a new interface keep the prefixes.
LEMMA RouterStep ==
    ASSUME RouterInv, Next
    PROVE  /\ RouterInv'
           /\ Tick \/ (fresh /\ ~fresh') \/ PrefixesKept(routers, routers')
<1>1. CASE \E opened \in BOOLEAN : Serve(opened)
  BY <1>1, ServeKeeps
<1>2. CASE Stop
  BY <1>2, StopKeeps
<1>3. CASE RSTimer
  BY <1>3, RSTimerKeeps
<1>4. CASE \E ra \in Adverts, from \in Routers : handle(ra, from)
  BY <1>4, HandleKeeps
<1>5. CASE Expire
  BY <1>5, ExpireKeeps
<1>6. CASE LinkUp \/ \E gone \in BOOLEAN : LinkDown(gone)
  BY <1>6, LinkKeeps
<1>7. CASE Tick
  BY <1>7, TickKeeps
<1> QED
  BY <1>1, <1>2, <1>3, <1>4, <1>5, <1>6, <1>7 DEF Next

\* A step of another part leaves the invariant as it is.
LEMMA RouterStutter == RouterInv /\ UNCHANGED vars => RouterInv'
BY DEF RouterInv, vars

\* raclient.go keeps its routers, its routes and its timer as RouterInv says.
THEOREM RouterInvHolds == Spec => []RouterInv
<1>1. RouterInv /\ [Next]_vars => RouterInv'
  BY RouterStep, RouterStutter
<1> QED
  BY <1>1, RouterStarts, PTL DEF Spec

\* metricFor, dropDefault, handle and publish: however many routers there are and whatever they
\* advertise, each one that is counted on has its own route in the kernel for as long as it said.
THEOREM HeardStayRouted == Spec => []HeardRouted
<1>1. RouterInv => HeardRouted
  BY DEF RouterInv, HeardRouted, Routed, RouteOf
<1> QED
  BY <1>1, RouterInvHolds, PTL

\* nextExpiry, publish and linkLost: with fewer than 2048 routers, so that their metrics stay below
\* the one of the device route, a default router that is published is one that has not timed out.
THEOREM LossesAreTold == ASSUME FewRouters PROVE Spec => []LossTold
<1>1. RouterInv => LossTold
  <2> SUFFICES ASSUME RouterInv, Settled
               PROVE  /\ upd.via = "router" <=> \E r \in DOMAIN routers : routers[r].lifetime > 0
                      /\ upd.via = Device => \E x \in kernel : x.gw = Device
    BY DEF LossTold
  <2>1. serving /\ ~stop /\ expire # 0 /\ Timed(routers, expire)
    BY DEF Settled, RouterInv
  <2>2. \A r \in DOMAIN routers : routers[r].lifetime \in Nat \cup {NoTime}
    BY EntryTypes DEF RouterInv, WellKept
  <2>3. \A r \in DOMAIN routers : r \in live(routers) <=> routers[r].lifetime > 0
    BY <2>1, <2>2 DEF live, Timed, NoTime
  <2>4. live(routers) # {} <=> \E r \in DOMAIN routers : routers[r].lifetime > 0
    BY <2>3 DEF live
  <2>5. upd.via = Device => DeviceRoute \in kernel
    BY <2>1 DEF RouterInv
  <2>6. DeviceRoute.gw = Device
    BY DEF DeviceRoute
  <2> QED
    BY <2>4, <2>5, <2>6 DEF RouterInv
<1> QED
  BY <1>1, RouterInvHolds, PTL

\* mergePIOs, linkLost and publish: no RA, no timeout and no lost link takes a known prefix away
\* faster than RFC 4862 allows, for any prefixes, lifetimes and number of routers.
THEOREM KnownStay == Spec => KnownPrefixKept
<1> DEFINE A == \/ Tick
                \/ fresh /\ ~fresh'
                \/ \A r \in DOMAIN routers : \A p \in DOMAIN routers[r].prefixes :
                      LET v == routers[r].prefixes[p].valid
                      IN  \/ v = 0
                          \/ /\ r \in DOMAIN routers'
                             /\ ~routers'[r].gone /\ routers'[r].lifetime = NoTime
                          \/ /\ r \in DOMAIN routers'
                             /\ p \in DOMAIN routers'[r].prefixes
                             /\ routers'[r].prefixes[p].valid >= Min({v, TwoHours})
<1>1. RouterInv /\ [Next]_vars => [A]_vars
  BY RouterStep DEF PrefixesKept
<1> QED
  BY <1>1, RouterInvHolds, PTL DEF Spec, KnownPrefixKept

=============================================================================
