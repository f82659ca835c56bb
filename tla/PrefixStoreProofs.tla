-------------------------- MODULE PrefixStoreProofs --------------------------
(***************************************************************************)
(* Proofs about PrefixStore, for every configuration, offer and bound.      *)
(***************************************************************************)
EXTENDS PrefixStore, WellFoundedInduction, TLAPS

USE DEF Sources, NoTimer, None, Renew, Add, Revoke

(***************************************************************************)
(* The type invariant.                                                      *)
(***************************************************************************)
\* A set of natural numbers has its minimum, so the CHOOSE of Min chooses it.
LEMMA MinInSet ==
    ASSUME NEW S \in SUBSET Nat, S # {}
    PROVE  Min(S) \in S /\ \A y \in S : Min(S) =< y
<1> DEFINE R == {ss \in Nat \X Nat : ss[1] < ss[2]}
<1>1. IsWellFoundedOn(R, Nat)
  BY NatLessThanWellFounded, Zenon DEF OpToRel
<1> HIDE DEF R
<1>a. PICK x \in S : \A y \in S : ~(<<y, x>> \in R)
  BY <1>1, WFMin
<1>b. \A y \in S : y < x => <<y, x>> \in R
  BY S \subseteq Nat DEF R
<1>c. \A y \in S : ~(y < x)
  BY <1>a, <1>b, Zenon
<1>2. \A y \in S : x =< y
  BY <1>c, S \subseteq Nat
<1> QED
  BY <1>2 DEF Min

\* pickSource returns a source, or none, and an update.
LEMMA PickType ==
    ASSUME NEW s \in Store
    PROVE  PickSource(s) \in Sources \cup {""} /\ Picked(s) \in Update
<1> DEFINE present == {i \in 1..3 : s.sources[Order[i]].set}
           giving  == {i \in present : s.sources[Order[i]].ps # {}}
<1>1. Order \in [1..3 -> Sources]
  BY DEF Order
<1>2. giving # {} => Min(giving) \in 1..3
  BY MinInSet, giving \in SUBSET Nat
<1>3. present # {} => Min(present) \in 1..3
  BY MinInSet, present \in SUBSET Nat
<1>4. PickSource(s) \in Sources \cup {""}
  BY <1>1, <1>2, <1>3 DEF PickSource
<1>5. Absent \in Update
  BY OfferAssumption DEF Absent, Update
<1>6. s.sources \in [Sources -> Update]
  BY DEF Store
<1>7. \A x \in Sources : s.sources[x] \in Update /\ [s.sources[x] EXCEPT !.ps = {}] \in Update
  BY <1>6 DEF Update
<1> QED
  BY <1>4, <1>5, <1>7 DEF Picked

\* The live prefixes of LAN and WAN are well formed.
LEMMA SplitType ==
    ASSUME now \in Nat, NEW s \in Store, NEW deleg \in BOOLEAN,
           NEW qs, qs \subseteq [p : Prefixes, src : {"pd", "ra", "ula"}, pref : Nat, valid : Nat]
    PROVE  Split(s, qs, deleg) \subseteq LanEntry
<1>1. s.conf.lans \subseteq Lans /\ s.conf.index \in [Lans -> Nat]
  BY ConfigAssumption DEF Store
<1>2. \A q \in qs, l \in s.conf.lans : Carve(s, q, l, deleg) \in LanEntry
  BY <1>1 DEF Carve, LanEntry, Subnets, Faded
<1> QED
  BY <1>2 DEF Split

\* A source's LAN prefixes have their type.
LEMMA LiveLANType ==
    ASSUME now \in Nat, NEW s \in Store
    PROVE  LiveLAN(s) \subseteq LanEntry
<1> DEFINE Q == [p : Prefixes, src : {"pd", "ra", "ula"}, pref : Nat, valid : Nat]
<1>1. Picked(s).ps \subseteq Q
  BY PickType DEF Update, Given
<1>2. OwnUla(s) \subseteq Q
  BY ConfigAssumption, StoreAssumption DEF OwnUla, Store
<1>3. {[q EXCEPT !.src = "ula"] : q \in s.ulaPD} \subseteq Q
  BY DEF Store, Given
<1> HIDE DEF Q
<1>4. \A qs : qs \subseteq Q => Split(s, qs, TRUE) \subseteq LanEntry /\ Split(s, qs, FALSE) \subseteq LanEntry
  BY SplitType DEF Q
<1> QED
  BY <1>1, <1>2, <1>3, <1>4 DEF LiveLAN

\* So do its WAN prefixes.
LEMMA LiveWANType ==
    ASSUME now \in Nat, NEW s \in Store
    PROVE  LiveWAN(s) \subseteq WanItem
<1>1. Picked(s).ps \subseteq Given
  BY PickType DEF Update
<1>2. s.sources["ra"].ps \subseteq Given
  BY DEF Store, Update
<1>3. \A q \in Given : WanEntry(q) \in WanItem
  BY DEF WanEntry, WanItem, Given, Faded
<1> QED
  BY <1>1, <1>2, <1>3 DEF LiveWAN

\* So does the /64 the WAN interface takes of a delegation.
LEMMA WanSubnetType ==
    ASSUME NEW s \in Store, NEW lan \in SUBSET LanEntry, NEW wan
    PROVE  WanSubnet(s, lan, wan) \in Subnets \cup {<<>>}
<1> DEFINE fits(e)  == e.src = "pd" /\ ~e.stale /\ \A w \in wan : w.src = "ra" => w.p # e.sub[1]
           of(i, d) == {e \in lan : e.iface = LanOrder[i] /\ e.dep = d /\ fits(e)}
           at(d)    == {i \in DOMAIN LanOrder : LanOrder[i] \in s.conf.lans /\ of(i, d) # {}}
           first(d) == (CHOOSE e \in of(Min(at(d)), d) : TRUE).sub
<1>1. ASSUME NEW d \in BOOLEAN, at(d) # {}
      PROVE  first(d) \in Subnets
  <2>1. at(d) \in SUBSET Nat
    BY LanAssumption
  <2>2. Min(at(d)) \in at(d)
    BY <1>1, <2>1, MinInSet
  <2>3. of(Min(at(d)), d) # {}
    BY <2>2
  <2>4. of(Min(at(d)), d) \subseteq LanEntry
    OBVIOUS
  <2> QED
    BY <2>3, <2>4 DEF LanEntry
<1> QED
  BY <1>1 DEF WanSubnet

\* The withdrawn prefixes are well formed.
LEMMA EarlierType ==
    ASSUME NEW a \in Nat, NEW b \in Nat
    PROVE  Earlier(a, b) \in Nat
BY DEF Earlier

\* What a change withdraws has its type.
LEMMA WithdrawnType ==
    ASSUME now \in Nat, NEW l \in Lans, NEW sub \in Subnets,
           NEW src \in {"pd", "ra", "ula"}, NEW t \in Nat
    PROVE  Withdrawn(l, sub, src, t) \in LanEntry
BY DEF Withdrawn, LanEntry

\* So has what a restart finds gone.
LEMMA GoneType ==
    ASSUME now \in Nat, NEW s \in Store, NEW active
    PROVE  /\ GoneSinceRestart(s, active) \subseteq LanEntry
           /\ GoneFromLAN(s, active) \subseteq LanEntry
           /\ GoneFromWAN(s, active) \subseteq WanItem
<1>1. now + Hold \in Nat /\ now + WanHold \in Nat
  BY StoreAssumption
<1>2. GoneSinceRestart(s, active) \subseteq LanEntry
  <2>1. \A a \in s.previous : a.iface \in Lans /\ a.sub \in Subnets /\ a.valid \in Nat
    BY DEF Store, Record
  <2>2. \A a \in s.previous :
          Withdrawn(a.iface, a.sub, IF a.sub[1] \in Private THEN "ula" ELSE "pd",
                    Earlier(now + Hold, a.valid)) \in LanEntry
    BY <1>1, <2>1, WithdrawnType, EarlierType
  <2> QED
    BY <2>2 DEF GoneSinceRestart
<1>3. GoneFromLAN(s, active) \subseteq LanEntry
  <2>1. \A e \in s.cur.lan : /\ e.iface \in Lans /\ e.sub \in Subnets /\ e.valid \in Nat
                             /\ e.src \in {"pd", "ra", "ula"}
    BY DEF Store, Snapshot, LanEntry
  <2>2. \A e \in s.cur.lan :
          Withdrawn(e.iface, e.sub, e.src, Earlier(now + Hold, e.valid)) \in LanEntry
    BY <1>1, <2>1, WithdrawnType, EarlierType
  <2> QED
    BY <2>2 DEF GoneFromLAN
<1>4. GoneFromWAN(s, active) \subseteq WanItem
  <2>1. s.cur.wan \subseteq WanItem
    BY DEF Store, Snapshot
  <2>2. \A w \in WanItem : Earlier(now + WanHold, w.valid) \in Nat
    BY <1>1, EarlierType DEF WanItem
  <2>3. \A w \in WanItem :
          [w EXCEPT !.pref = now, !.valid = Earlier(now + WanHold, w.valid),
                    !.dep = TRUE, !.stale = TRUE] \in WanItem
    BY <2>2 DEF WanItem
  <2> QED
    BY <2>1, <2>3 DEF GoneFromWAN
<1> QED
  BY <1>2, <1>3, <1>4

\* So have the revoked prefixes that are kept.
LEMMA HeldType ==
    ASSUME now \in Nat, NEW s \in Store, NEW active
    PROVE  Held(s, active) \subseteq LanEntry /\ HeldW(s, active) \subseteq WanItem
<1>1. s.revoked \subseteq LanEntry /\ s.revokedW \subseteq WanItem
  BY DEF Store
<1> QED
  BY <1>1, GoneType DEF Held, HeldW, Over

\* Recompute, field by field.
LEMMA RecomputeFields ==
    ASSUME NEW s \in Store, NEW r, r = Recompute(s)
    PROVE  LET active == {e.sub : e \in LiveLAN(s)} IN
           /\ DOMAIN r = DOMAIN s
           /\ \A f \in DOMAIN s : f \notin {"cur", "revoked", "revokedW", "previous", "pending"}
                                  => r[f] = s[f]
           /\ r.cur.lan = LiveLAN(s) \cup r.revoked
           /\ r.cur.wan = LiveWAN(s) \cup r.revokedW
           /\ r.revoked = {h \in Held(s, active) : Alive(h)}
           /\ r.revokedW = {h \in HeldW(s, {w.p : w \in LiveWAN(s)}) : Alive(h)}
           /\ r.previous = IF Picked(s).ps # {} THEN {} ELSE s.previous
BY Zenon DEF Recompute, Store

\* recompute carries the line's information along.
LEMMA InfoType ==
    ASSUME NEW s \in Store
    PROVE  Info(s) \in Infos
<1>1. Picked(s).info \in Infos
  BY PickType DEF Update
<1>2. s.sources["pd"].info \in Infos /\ s.sources["ra"].info \in Infos
  BY DEF Store, Update
<1> QED
  BY <1>1, <1>2 DEF Info

\* recompute returns a snapshot, holds and a change.
LEMMA RecomputeType ==
    ASSUME now \in Nat, NEW s \in Store
    PROVE  Recompute(s) \in Store
<1> DEFINE lan      == LiveLAN(s)
           wan      == LiveWAN(s)
           active   == {e.sub : e \in lan}
           held     == Held(s, active)
           heldW    == HeldW(s, {w.p : w \in wan})
           revoked  == {r \in held : Alive(r)}
           revokedW == {r \in heldW : Alive(r)}
           pdPending == /\ ~s.sources["pd"].set
                        /\ s.sources["ra"].dhcp6 /\ now < s.graceEnd
           draft    == [source |-> PickSource(s), lan |-> lan \cup revoked,
                        wan |-> wan \cup revokedW,
                        subnet |-> WanSubnet(s, lan \cup revoked, wan \cup revokedW),
                        info |-> Info(s), extra |-> s.extra,
                        noRouter |-> s.sources["ra"].noRouter,
                        pdPending |-> pdPending, change |-> None]
           withdraws == \/ GoneSinceRestart(s, active) # {}
                        \/ GoneFromLAN(s, active) # {}
                        \/ held # revoked \/ heldW # revokedW
           change   == IF withdraws THEN Revoke ELSE Classify(s.cur, draft)
<1>1. lan \subseteq LanEntry /\ wan \subseteq WanItem
  BY LiveLANType, LiveWANType
<1>2. revoked \subseteq LanEntry /\ revokedW \subseteq WanItem
  BY HeldType
<1> HIDE DEF lan, wan, active, held, heldW, revoked, revokedW
<1>3. pdPending \in BOOLEAN
  OBVIOUS
<1> HIDE DEF pdPending
<1>4. WanSubnet(s, lan \cup revoked, wan \cup revokedW) \in Subnets \cup {<<>>}
  BY <1>1, <1>2, WanSubnetType
<1>5. s.sources["ra"].noRouter \in BOOLEAN /\ s.extra \in Extras \cup {NoInfo}
  BY DEF Store, Update
<1> HIDE DEF withdraws, change
<1>a. PickSource(s) \in Sources \cup {""} /\ Info(s) \in Infos
  BY PickType, InfoType
<1>b. (lan \cup revoked) \in SUBSET LanEntry /\ (wan \cup revokedW) \in SUBSET WanItem
  BY <1>1, <1>2
<1>6. draft \in Snapshot
  <2>1. None \in None..Revoke
    OBVIOUS
  <2> QED
    BY <1>3, <1>4, <1>5, <1>a, <1>b, <2>1, Zenon DEF Snapshot
<1> HIDE DEF draft
<1>7. change \in None..Revoke
  <2>1. Classify(s.cur, draft) \in {None, Renew, Add}
    BY Zenon DEF Classify
  <2> QED
    BY <2>1 DEF change
<1>8. [draft EXCEPT !.change = change] \in Snapshot
  BY <1>6, <1>7 DEF Snapshot
<1>9. Stronger(change, s.pending) \in None..Revoke
  BY <1>7 DEF Stronger, Store
<1>10. Recompute(s) =
         [s EXCEPT !.cur = [draft EXCEPT !.change = change],
                   !.revoked = revoked, !.revokedW = revokedW,
                   !.previous = IF Picked(s).ps # {} THEN {} ELSE @,
                   !.pending = Stronger(change, @)]
  BY DEF Recompute, draft, change, withdraws, revoked, revokedW, held, heldW, active, lan, wan, pdPending
<1> QED
  BY <1>2, <1>8, <1>9, <1>10, ZenonT(60) DEF Store

\* nextExpiry is a time, or none.
LEMMA NextExpiryType ==
    ASSUME NEW s \in Store
    PROVE  NextExpiry(s) \in Nat \cup {NoTimer}
<1> DEFINE ends == {r.valid : r \in s.revoked} \cup {r.valid : r \in s.revokedW}
                   \cup (IF Deferred(s) THEN {s.graceEnd} ELSE {})
<1>1. ends \in SUBSET Nat
  BY DEF Store, LanEntry, WanItem
<1> HIDE DEF ends
<1>2. Soonest(ends) \in Nat \cup {NoTimer}
  BY <1>1, MinInSet DEF Soonest
<1> QED
  BY <1>2 DEF NextExpiry, ends

\* Arming the timer keeps the type.
LEMMA TimedType ==
    ASSUME NEW s \in Store, NEW rearm \in BOOLEAN
    PROVE  Timed(s, rearm) \in Store
BY NextExpiryType DEF Timed, Store

\* An update of one source keeps the type.
LEMMA AssignType ==
    ASSUME NEW s \in Store, NEW c \in Snapshot, NEW k \in None..Revoke, NEW t \in Nat \cup {NoTimer}
    PROVE  [s EXCEPT !.cur = c, !.pending = k, !.pubAt = t] \in Store
BY DEF Store

\* Filling the channels keeps the type.
LEMMA PublishedType ==
    ASSUME NEW s \in Store
    PROVE  Published(s) \in Store
<1>1. s.pending \in None..Revoke /\ s.cur \in Snapshot
  BY DEF Store
<1> DEFINE C == [s.cur EXCEPT !.change = IF s.pending # None THEN s.pending ELSE @]
<1>2. C \in Snapshot
  BY <1>1 DEF Snapshot
<1>3. Published(s) = [s EXCEPT !.cur = C, !.pending = None, !.pubAt = NoTimer]
  BY DEF Published, Store
<1> HIDE DEF C
<1>4. None \in None..Revoke /\ NoTimer \in Nat \cup {NoTimer}
  OBVIOUS
<1> QED
  <2>1. [s EXCEPT !.cur = C, !.pending = None, !.pubAt = NoTimer] \in Store
    BY <1>2, <1>4, AssignType
  <2> QED
    BY <2>1, <1>3, Zenon

\* What saveAdvertised writes is a record.
LEMMA RecordedType ==
    ASSUME NEW lan \in SUBSET LanEntry
    PROVE  Recorded(lan) \subseteq Record
<1>1. \A e \in lan : [iface |-> e.iface, sub |-> e.sub, deleg |-> e.deleg,
                      valid |-> IF IsOwnUla(e) /\ ~e.stale THEN 0 ELSE e.valid] \in Record
  BY DEF LanEntry, Record
<1> QED
  BY <1>1 DEF Recorded

\* publish keeps the type.
LEMMA PublishType ==
    ASSUME NEW s \in Store, file \subseteq Record, Publish(s)
    PROVE  file' \subseteq Record
<1>1. s.cur.lan \in SUBSET LanEntry
  BY DEF Store, Snapshot
<1>2. file' = Recorded(s.cur.lan) \/ file' = file
  BY Zenon DEF Publish
<1> QED
  BY <1>1, <1>2, RecordedType

\* Waiting for the settle period keeps the type.
LEMMA ArmType ==
    ASSUME now \in Nat, NEW s \in Store
    PROVE  [s EXCEPT !.pubAt = IF @ = NoTimer THEN now + Settle ELSE @] \in Store
<1>1. s.pubAt \in Nat \cup {NoTimer} /\ now + Settle \in Nat
  BY StoreAssumption DEF Store
<1> QED
  BY <1>1 DEF Store

\* recompute and what follows it keep the type.
LEMMA RecomputedType ==
    ASSUME now \in Nat, NEW s \in Store, NEW rearm \in BOOLEAN, file \subseteq Record,
           Recomputed(s, rearm)
    PROVE  store' \in Store /\ file' \subseteq Record
<1> DEFINE r     == Recompute(s)
           armed == [r EXCEPT !.pubAt = IF @ = NoTimer THEN now + Settle ELSE @]
<1>1. r \in Store
  BY RecomputeType
<1>2. \/ store' = Timed(r, rearm) /\ file' = file
      \/ store' = Timed(Published(r), rearm) /\ Publish(r)
      \/ store' = Timed(armed, rearm) /\ file' = file
  BY Zenon DEF Recomputed, Concluded
<1> HIDE DEF r
<1>3. armed \in Store
  BY <1>1, ArmType
<1> HIDE DEF armed
<1>4. Published(r) \in Store
  BY <1>1, PublishedType
<1>5. /\ Timed(r, rearm) \in Store
      /\ Timed(Published(r), rearm) \in Store
      /\ Timed(armed, rearm) \in Store
  BY <1>1, <1>3, <1>4, TimedType
<1> QED
  BY <1>1, <1>2, <1>5, PublishType

\* A new store, and the one a start works on.
LEMMA EmptyStoreType ==
    ASSUME now \in Nat, NEW c \in Configs
    PROVE  EmptyStore(c) \in Store /\ [EmptyStore(c) EXCEPT !.graceEnd = 0] \in Store
<1>1. Absent \in Update /\ NoInfo \in Infos
  BY OfferAssumption DEF Absent, Update
<1>2. NoSnapshot \in Snapshot
  BY <1>1 DEF NoSnapshot, Snapshot
<1>3. [x \in Sources |-> Absent] \in [Sources -> Update]
  BY <1>1
<1>4. (IF Prefer = "pd" /\ Grace > 0 THEN now + Grace ELSE 0) \in Nat
  BY StoreAssumption
<1>5. EmptyStore(c) \in Store
  BY <1>2, <1>3, <1>4 DEF EmptyStore, Store
<1> QED
  BY <1>5 DEF Store

\* withdrawULA keeps the type.
LEMMA WithdrawULAType ==
    ASSUME now \in Nat, NEW s \in Store
    PROVE  WithdrawULA(s) \in Store
<1> DEFINE own      == {a \in s.previous : a.sub[1] \in Private /\ ~a.deleg}
           until(a) == IF a.valid = 0 THEN now + Hold ELSE Earlier(now + Hold, a.valid)
<1>1. \A a \in s.previous : a.iface \in Lans /\ a.sub \in Subnets /\ a.valid \in Nat
  BY DEF Store, Record
<1>2. \A a \in own : until(a) \in Nat
  <2>1. now + Hold \in Nat
    BY StoreAssumption
  <2> QED
    BY <1>1, <2>1 DEF Earlier
<1>3. \A a \in own : Withdrawn(a.iface, a.sub, "ula", until(a)) \in LanEntry
  BY <1>1, <1>2, WithdrawnType
<1>4. PICK bs, w : /\ bs \subseteq own
                   /\ w = {Withdrawn(a.iface, a.sub, "ula", until(a)) : a \in bs}
                   /\ WithdrawULA(s) = [s EXCEPT !.previous = @ \ own, !.revoked = w]
  BY DEF WithdrawULA
<1>5. w \subseteq LanEntry
  BY <1>3, <1>4
<1>6. s.previous \ own \subseteq Record
  BY DEF Store
<1> HIDE DEF own, until
<1> QED
  BY <1>4, <1>5, <1>6 DEF Store

\* An update with absolute lifetimes is well formed, and so is the store that holds it.
LEMMA SetType ==
    ASSUME now \in Nat, NEW s \in Store, NEW x \in Sources, NEW u \in Offers[x],
           NEW ula, ula \subseteq u.ps
    PROVE  [s EXCEPT !.sources[x] = [u EXCEPT !.ps = AtNow(@ \ ula)],
                     !.ulaPD = IF x = "pd" THEN AtNow(ula) ELSE @] \in Store
<1>1. u \in Update
  BY OfferAssumption
<1>2. \A q \in Given : [q EXCEPT !.pref = now + @, !.valid = now + @] \in Given
  <2> SUFFICES ASSUME NEW q \in Given, NEW a, a = now + q.pref, NEW b, b = now + q.valid
               PROVE  [q EXCEPT !.pref = a, !.valid = b] \in Given
    OBVIOUS
  <2>1. a \in Nat /\ b \in Nat
    BY DEF Given
  <2> QED
    BY <2>1 DEF Given
<1>3. \A qs : qs \subseteq Given => AtNow(qs) \subseteq Given
  BY <1>2 DEF AtNow
<1>4. u.ps \subseteq Given
  BY <1>1 DEF Update
<1>5. AtNow(u.ps \ ula) \subseteq Given /\ AtNow(ula) \subseteq Given
  BY <1>3, <1>4
<1> DEFINE v == [u EXCEPT !.ps = AtNow(@ \ ula)]
           n == IF x = "pd" THEN AtNow(ula) ELSE s.ulaPD
<1>6. v \in Update
  BY <1>1, <1>5 DEF Update
<1>7. n \subseteq Given
  BY <1>5 DEF Store
<1>8. [s.sources EXCEPT ![x] = v] \in [Sources -> Update]
  BY <1>6 DEF Store
<1>9. [s EXCEPT !.sources[x] = v, !.ulaPD = IF x = "pd" THEN AtNow(ula) ELSE @]
        = [s EXCEPT !.sources = [s.sources EXCEPT ![x] = v], !.ulaPD = n]
  BY DEF Store
<1> HIDE DEF v, n
<1>10. [s EXCEPT !.sources = [s.sources EXCEPT ![x] = v], !.ulaPD = n] \in Store
  <2> DEFINE m == [s.sources EXCEPT ![x] = v]
  <2>1. m \in [Sources -> Update]
    BY <1>8
  <2> HIDE DEF m
  <2>2. [s EXCEPT !.sources = m, !.ulaPD = n] \in Store
    BY <1>7, <2>1 DEF Store
  <2> QED
    BY <2>2 DEF m
<1> QED
  BY <1>9, <1>10 DEF v

\* The store starts with its type.
LEMMA TypeInit == Init => TypeOK
<1> SUFFICES ASSUME Init PROVE TypeOK
  OBVIOUS
<1>1. now \in Nat /\ up \in BOOLEAN /\ file \subseteq Record
  BY DEF Init
<1>2. store \in Store
  BY <1>1, EmptyStoreType DEF Init
<1> QED
  BY <1>1, <1>2 DEF TypeOK

\* Every step of the loop, of a consumer, of a start or a crash keeps the types.
LEMMA TypeNext == TypeOK /\ [Next]_vars => TypeOK'
<1> SUFFICES ASSUME TypeOK, [Next]_vars PROVE TypeOK'
  OBVIOUS
<1> USE DEF TypeOK
<1>1. ASSUME NEW x \in Sources, NEW u \in Offers[x], Set(x, u) PROVE TypeOK'
  <2> DEFINE ula == IF x = "pd" THEN {q \in u.ps : q.p \in Private} ELSE {}
             s   == [store EXCEPT !.sources[x] = [u EXCEPT !.ps = AtNow(@ \ ula)],
                                  !.ulaPD = IF x = "pd" THEN AtNow(ula) ELSE @]
  <2>1. s \in Store
    BY SetType
  <2>2. Recomputed(s, TRUE) /\ now' = now /\ up' = up
    BY <1>1 DEF Set
  <2> HIDE DEF s
  <2> QED
    BY <2>1, <2>2, RecomputedType
<1>2. ASSUME NEW x \in Extras, SetOther(x) PROVE TypeOK'
  <2> DEFINE s == [store EXCEPT !.extra = x]
  <2>1. s \in Store
    BY DEF Store
  <2>2. Recomputed(s, FALSE) /\ now' = now /\ up' = up
    BY <1>2 DEF SetOther
  <2> HIDE DEF s
  <2> QED
    BY <2>1, <2>2, RecomputedType
<1>3. CASE Expire
  BY <1>3, RecomputedType DEF Expire
<1>4. CASE PubTimer
  BY <1>4, PublishedType, PublishType DEF PubTimer
<1>5. ASSUME NEW c \in Consumers, Subscribe(c) \/ Serve(c) \/ Take(c) \/ Periodic(c) PROVE TypeOK'
  BY <1>5 DEF Subscribe, Serve, Take, Periodic
<1>6. ASSUME NEW c \in Configs, Start(c) PROVE TypeOK'
  <2> DEFINE s == WithdrawULA([EmptyStore(c) EXCEPT !.previous = file])
  <2>1. [EmptyStore(c) EXCEPT !.previous = file] \in Store
    <3>1. EmptyStore(c) \in Store
      BY EmptyStoreType
    <3>2. \A e \in Store : [e EXCEPT !.previous = file] \in Store
      BY DEF Store
    <3> QED
      BY <3>1, <3>2
  <2>2. s \in Store
    BY <2>1, WithdrawULAType
  <2>3. \/ Recomputed(s, TRUE)
        \/ store' = Timed(s, TRUE) /\ file' = file
    BY <1>6 DEF Start
  <2>4. now' = now /\ up' = TRUE
    BY <1>6 DEF Start
  <2> HIDE DEF s
  <2> QED
    BY <2>2, <2>3, <2>4, RecomputedType, TimedType
<1>7. CASE Crash
  <2>1. store.conf \in Configs
    BY DEF Store
  <2> QED
    BY <1>7, <2>1, EmptyStoreType DEF Crash
<1>8. CASE Tick
  BY <1>8 DEF Tick
<1>9. CASE UNCHANGED vars
  BY <1>9 DEF vars
<1> QED
  BY <1>1, <1>2, <1>3, <1>4, <1>5, <1>6, <1>7, <1>8, <1>9, Zenon DEF Next

\* TypeOK holds in every reachable state, whatever the configuration and the sources' updates.
THEOREM TypeCorrect == Spec => []TypeOK
BY TypeInit, TypeNext, PTL DEF Spec

(***************************************************************************)
(* A /64 is in the snapshot once.                                           *)
(***************************************************************************)
\* Distinct prefixes and distinct segments have distinct /64s.
LEMMA SplitOnePerSub ==
    ASSUME NEW s \in Store, NEW qs, OnePerPrefix(qs), NEW deleg
    PROVE  /\ OnePerSub(Split(s, qs, deleg))
           /\ \A e \in Split(s, qs, deleg) : \E q \in qs : e.sub[1] = q.p
<1>1. \A l, m \in s.conf.lans : s.conf.index[l] = s.conf.index[m] => l = m
  BY ConfigAssumption DEF Store
<1>2. \A e \in Split(s, qs, deleg) : \E q \in qs, l \in s.conf.lans : e = Carve(s, q, l, deleg)
  BY DEF Split
<1>3. \A q \in qs, l \in s.conf.lans : Carve(s, q, l, deleg).sub = <<q.p, s.conf.index[l]>>
  BY DEF Carve
<1>4. ASSUME NEW e \in Split(s, qs, deleg), NEW f \in Split(s, qs, deleg), e.sub = f.sub
      PROVE  e = f
  <2>1. PICK q \in qs, l \in s.conf.lans : e = Carve(s, q, l, deleg)
    BY <1>2
  <2>2. PICK r \in qs, m \in s.conf.lans : f = Carve(s, r, m, deleg)
    BY <1>2
  <2>3. q.p = r.p /\ s.conf.index[l] = s.conf.index[m]
    BY <1>3, <1>4, <2>1, <2>2
  <2>4. q = r /\ l = m
    BY <1>1, <2>3 DEF OnePerPrefix
  <2> QED
    BY <2>1, <2>2, <2>4
<1> QED
  BY <1>2, <1>3, <1>4 DEF OnePerSub

\* A source gives a segment each /64 once.
LEMMA LiveOnePerSub ==
    ASSUME NEW s \in Store, Consistent(s)
    PROVE  OnePerSub(LiveLAN(s))
<1> DEFINE line == Split(s, Picked(s).ps, FALSE)
           own  == Split(s, OwnUla(s), FALSE)
           deq  == {[q EXCEPT !.src = "ula"] : q \in s.ulaPD}
           del  == Split(s, deq, TRUE)
<1>1. OnePerPrefix(Picked(s).ps) /\ \A q \in Picked(s).ps : q.p \notin Private
  <2>1. Picked(s).ps = {} \/ \E x \in Sources : Picked(s).ps = s.sources[x].ps
    <3>1. PickSource(s) \in Sources \cup {""}
      BY PickType
    <3>2. \A x \in Sources : [s.sources[x] EXCEPT !.ps = {}].ps = {}
      BY DEF Store, Update
    <3>3. Absent.ps = {}
      BY DEF Absent
    <3> QED
      BY <3>1, <3>2, <3>3 DEF Picked
  <2> QED
    BY <2>1 DEF Consistent, OnePerPrefix
<1>2. OnePerPrefix(OwnUla(s)) /\ \A q \in OwnUla(s) : q.p \in Private
  BY ConfigAssumption DEF OwnUla, OnePerPrefix, Store
<1>3. OnePerPrefix(deq) /\ \A q \in deq : q.p \in Private
  <2>1. \A q \in s.ulaPD : [q EXCEPT !.src = "ula"].p = q.p
    BY DEF Store, Given
  <2>2. \A d \in deq : \E q \in s.ulaPD : d = [q EXCEPT !.src = "ula"] /\ d.p = q.p
    BY <2>1
  <2>3. \A d \in deq : d.p \in Private
    BY <2>2 DEF Consistent
  <2>4. ASSUME NEW d \in deq, NEW e \in deq, d.p = e.p PROVE d = e
    <3>1. PICK q \in s.ulaPD : d = [q EXCEPT !.src = "ula"] /\ d.p = q.p
      BY <2>2
    <3>2. PICK r \in s.ulaPD : e = [r EXCEPT !.src = "ula"] /\ e.p = r.p
      BY <2>2
    <3>3. q = r
      BY <2>4, <3>1, <3>2 DEF Consistent, OnePerPrefix
    <3> QED
      BY <3>1, <3>2, <3>3
  <2> QED
    BY <2>3, <2>4 DEF OnePerPrefix
<1> HIDE DEF deq
<1>4. OnePerSub(line) /\ OnePerSub(own) /\ OnePerSub(del)
  BY <1>1, <1>2, <1>3, SplitOnePerSub
<1>5. /\ \A e \in line : e.sub[1] \notin Private
      /\ \A e \in own : e.sub[1] \in Private
      /\ \A e \in del : e.sub[1] \in Private
  <2>1. \A e \in line : \E q \in Picked(s).ps : e.sub[1] = q.p
    BY <1>1, SplitOnePerSub, ZenonT(60)
  <2>2. \A e \in own : \E q \in OwnUla(s) : e.sub[1] = q.p
    BY <1>2, SplitOnePerSub
  <2>3. \A e \in del : \E q \in deq : e.sub[1] = q.p
    BY <1>3, SplitOnePerSub
  <2> HIDE DEF line, own, del
  <2> QED
    BY <1>1, <1>2, <1>3, <2>1, <2>2, <2>3, Zenon
<1>6. LiveLAN(s) = line \cup own \/ LiveLAN(s) = line \cup del
  BY DEF LiveLAN, deq
<1> HIDE DEF line, own, del
<1> QED
  BY <1>4, <1>5, <1>6 DEF OnePerSub

\* Adding what is withdrawn gives no /64 a second entry.
LEMMA OverOnePerSub ==
    ASSUME NEW old, NEW new, OnePerSub(old), OnePerSub(new)
    PROVE  OnePerSub(Over(old, new, "sub"))
BY DEF OnePerSub, Over

\* A prefix is withdrawn once, and never while it is in use.
LEMMA HeldOnePerSub ==
    ASSUME NEW s \in Store, Consistent(s), NEW active
    PROVE  /\ OnePerSub(Held(s, active))
           /\ \A h \in Held(s, active) : h.sub \notin active
<1> DEFINE kept == {r \in s.revoked : r.sub \notin active}
           gone == GoneSinceRestart(s, active)
           left == GoneFromLAN(s, active)
<1>1. OnePerSub(gone) /\ \A h \in gone : h.sub \notin active
  <2> DEFINE W(a) == Withdrawn(a.iface, a.sub, IF a.sub[1] \in Private THEN "ula" ELSE "pd",
                               Earlier(now + Hold, a.valid))
  <2>1. \A h \in gone : \E a \in s.previous : h = W(a) /\ a.sub \notin active
    BY DEF GoneSinceRestart
  <2>2. \A a : W(a).sub = a.sub
    BY DEF Withdrawn
  <2> HIDE DEF W, gone
  <2>3. ASSUME NEW h \in gone, NEW k \in gone, h.sub = k.sub PROVE h = k
    <3>1. PICK a \in s.previous : h = W(a)
      BY <2>1
    <3>2. PICK b \in s.previous : k = W(b)
      BY <2>1
    <3>3. a = b
      BY <2>2, <2>3, <3>1, <3>2 DEF Consistent, OnePerSub
    <3> QED
      BY <3>1, <3>2, <3>3
  <2>4. \A h \in gone : h.sub \notin active
    BY <2>1, <2>2
  <2> QED
    BY <2>3, <2>4 DEF OnePerSub
<1>2. OnePerSub(left) /\ \A h \in left : h.sub \notin active
  <2> DEFINE W(e) == Withdrawn(e.iface, e.sub, e.src, Earlier(now + Hold, e.valid))
  <2>1. \A h \in left : \E e \in s.cur.lan : h = W(e) /\ e.sub \notin active
    BY DEF GoneFromLAN
  <2>2. \A e : W(e).sub = e.sub
    BY DEF Withdrawn
  <2> HIDE DEF W, left
  <2>3. ASSUME NEW h \in left, NEW k \in left, h.sub = k.sub PROVE h = k
    <3>1. PICK d \in s.cur.lan : h = W(d)
      BY <2>1
    <3>2. PICK e \in s.cur.lan : k = W(e)
      BY <2>1
    <3>3. d = e
      BY <2>2, <2>3, <3>1, <3>2 DEF Consistent, OnePerSub
    <3> QED
      BY <3>1, <3>2, <3>3
  <2>4. \A h \in left : h.sub \notin active
    BY <2>1, <2>2
  <2> QED
    BY <2>3, <2>4 DEF OnePerSub
<1>3. OnePerSub(kept) /\ \A h \in kept : h.sub \notin active
  BY DEF Consistent, OnePerSub
<1> HIDE DEF kept, gone, left
<1>4. OnePerSub(Over(Over(kept, gone, "sub"), left, "sub"))
  BY <1>1, <1>2, <1>3, OverOnePerSub
<1>5. \A h \in Over(Over(kept, gone, "sub"), left, "sub") : h.sub \notin active
  BY <1>1, <1>2, <1>3 DEF Over
<1> QED
  BY <1>4, <1>5 DEF Held, kept, gone, left

\* recompute lists each /64 of a segment once.
LEMMA RecomputeConsistent ==
    ASSUME now \in Nat, NEW s \in Store, Consistent(s)
    PROVE  Consistent(Recompute(s))
<1> DEFINE r      == Recompute(s)
           active == {e.sub : e \in LiveLAN(s)}
<1>1. /\ r.sources = s.sources /\ r.ulaPD = s.ulaPD
      /\ r.cur.lan = LiveLAN(s) \cup r.revoked
      /\ r.revoked = {h \in Held(s, active) : Alive(h)}
      /\ r.previous \in {s.previous, {}}
  BY RecomputeFields DEF Store
<1> HIDE DEF r
<1>2. OnePerSub(r.revoked) /\ \A h \in r.revoked : h.sub \notin active
  BY <1>1, HeldOnePerSub DEF OnePerSub
<1>3. OnePerSub(r.cur.lan)
  BY <1>1, <1>2, LiveOnePerSub DEF OnePerSub
<1> QED
  BY <1>1, <1>2, <1>3 DEF Consistent, OnePerSub, r

\* Timers and labels have no part in it.
LEMMA ConsistentSame ==
    ASSUME NEW s, NEW t, Consistent(s), t.sources = s.sources, t.ulaPD = s.ulaPD,
           t.cur.lan = s.cur.lan, t.revoked = s.revoked, t.previous = s.previous
    PROVE  Consistent(t)
BY DEF Consistent

\* Arming the timer leaves the lists alone.
LEMMA TimedConsistent ==
    ASSUME NEW s \in Store, Consistent(s), NEW rearm \in BOOLEAN
    PROVE  Consistent(Timed(s, rearm))
<1>1. \A n : Consistent([s EXCEPT !.expireAt = n])
  <2> SUFFICES ASSUME NEW n PROVE Consistent([s EXCEPT !.expireAt = n])
    OBVIOUS
  <2> DEFINE t == [s EXCEPT !.expireAt = n]
  <2>1. /\ t.sources = s.sources /\ t.ulaPD = s.ulaPD /\ t.cur = s.cur
        /\ t.revoked = s.revoked /\ t.previous = s.previous
    BY DEF Store
  <2> HIDE DEF t
  <2>2. Consistent(t)
    BY <2>1, ConsistentSame
  <2> QED
    BY <2>2 DEF t
<1> QED
  BY <1>1 DEF Timed

\* Filling the channels hands the lists on.
LEMMA PublishedConsistent ==
    ASSUME NEW s \in Store, Consistent(s)
    PROVE  Consistent(Published(s))
<1> DEFINE C == [s.cur EXCEPT !.change = IF s.pending # None THEN s.pending ELSE @]
           t == [s EXCEPT !.cur = C, !.pending = None, !.pubAt = NoTimer]
<1>1. C.lan = s.cur.lan
  BY DEF Store, Snapshot
<1>2. Published(s) = t
  BY DEF Published, Store
<1> HIDE DEF C
<1>3. /\ t.sources = s.sources /\ t.ulaPD = s.ulaPD /\ t.cur = C
      /\ t.revoked = s.revoked /\ t.previous = s.previous
  BY DEF Store
<1> HIDE DEF t
<1>4. Consistent(t)
  BY <1>1, <1>3, ConsistentSame
<1> QED
  BY <1>2, <1>4

\* Waiting leaves the lists alone.
LEMMA ArmConsistent ==
    ASSUME NEW s \in Store, Consistent(s)
    PROVE  Consistent([s EXCEPT !.pubAt = IF @ = NoTimer THEN now + Settle ELSE @])
<1> DEFINE n == IF s.pubAt = NoTimer THEN now + Settle ELSE s.pubAt
           t == [s EXCEPT !.pubAt = n]
<1> HIDE DEF n
<1>1. /\ t.sources = s.sources /\ t.ulaPD = s.ulaPD /\ t.cur = s.cur
      /\ t.revoked = s.revoked /\ t.previous = s.previous
  BY DEF Store
<1> HIDE DEF t
<1>2. Consistent(t)
  BY <1>1, ConsistentSame
<1> QED
  BY <1>2 DEF t, n

\* The file records what the snapshot names once, once.
LEMMA PublishOnePerSub ==
    ASSUME NEW s, OnePerSub(s.cur.lan), OnePerSub(file), Publish(s)
    PROVE  OnePerSub(file')
<1> DEFINE R(e) == [iface |-> e.iface, sub |-> e.sub, deleg |-> e.deleg,
                    valid |-> IF IsOwnUla(e) /\ ~e.stale THEN 0 ELSE e.valid]
<1>1. file' = Recorded(s.cur.lan) \/ file' = file
  BY Zenon DEF Publish
<1>2. \A a \in Recorded(s.cur.lan) : \E e \in s.cur.lan : a = R(e)
  BY DEF Recorded
<1>3. \A e : R(e).sub = e.sub
  OBVIOUS
<1> HIDE DEF R
<1>4. ASSUME NEW a \in Recorded(s.cur.lan), NEW b \in Recorded(s.cur.lan), a.sub = b.sub
      PROVE  a = b
  <2>1. PICK e \in s.cur.lan : a = R(e)
    BY <1>2
  <2>2. PICK f \in s.cur.lan : b = R(f)
    BY <1>2
  <2>3. e = f
    BY <1>3, <1>4, <2>1, <2>2 DEF OnePerSub
  <2> QED
    BY <2>1, <2>2, <2>3
<1> QED
  BY <1>1, <1>4 DEF OnePerSub

\* recompute and what follows it keep the lists.
LEMMA RecomputedConsistent ==
    ASSUME now \in Nat, NEW s \in Store, Consistent(s), OnePerSub(file),
           NEW rearm \in BOOLEAN, Recomputed(s, rearm)
    PROVE  Consistent(store') /\ OnePerSub(file')
<1> DEFINE r     == Recompute(s)
           armed == [r EXCEPT !.pubAt = IF @ = NoTimer THEN now + Settle ELSE @]
<1>1. r \in Store /\ Consistent(r)
  BY RecomputeType, RecomputeConsistent
<1>2. \/ store' = Timed(r, rearm) /\ file' = file
      \/ store' = Timed(Published(r), rearm) /\ Publish(r)
      \/ store' = Timed(armed, rearm) /\ file' = file
  BY Zenon DEF Recomputed, Concluded
<1> HIDE DEF r
<1>3. armed \in Store /\ Consistent(armed)
  BY <1>1, ArmType, ArmConsistent
<1> HIDE DEF armed
<1>4. Published(r) \in Store /\ Consistent(Published(r))
  BY <1>1, PublishedType, PublishedConsistent
<1>5. /\ Consistent(Timed(r, rearm))
      /\ Consistent(Timed(Published(r), rearm))
      /\ Consistent(Timed(armed, rearm))
  BY <1>1, <1>3, <1>4, TimedConsistent
<1>6. Publish(r) => OnePerSub(file')
  BY <1>1, PublishOnePerSub DEF Consistent
<1> QED
  BY <1>2, <1>5, <1>6

\* A source's update replaces the one before it; a ULA in a delegation is kept apart.
LEMMA SetConsistent ==
    ASSUME now \in Nat, NEW s \in Store, Consistent(s), NEW x \in Sources, NEW u \in Offers[x],
           NEW ula, ula = IF x = "pd" THEN {q \in u.ps : q.p \in Private} ELSE {}
    PROVE  Consistent([s EXCEPT !.sources[x] = [u EXCEPT !.ps = AtNow(@ \ ula)],
                                !.ulaPD = IF x = "pd" THEN AtNow(ula) ELSE @])
<1> DEFINE v == [u EXCEPT !.ps = AtNow(@ \ ula)]
           n == IF x = "pd" THEN AtNow(ula) ELSE s.ulaPD
           t == [s EXCEPT !.sources[x] = v, !.ulaPD = IF x = "pd" THEN AtNow(ula) ELSE @]
<1>1. u \in Update /\ OnePerPrefix(u.ps)
  BY OfferAssumption DEF OnePerPrefix
<1>2. ASSUME NEW qs \in SUBSET u.ps
      PROVE  OnePerPrefix(AtNow(qs)) /\ \A a \in AtNow(qs) : \E q \in qs : a.p = q.p
  <2> DEFINE A(q) == [q EXCEPT !.pref = now + @, !.valid = now + @]
  <2>1. \A q \in qs : A(q).p = q.p
    BY <1>1 DEF Update, Given
  <2>2. \A a \in AtNow(qs) : \E q \in qs : a = A(q)
    BY DEF AtNow
  <2> HIDE DEF A
  <2>3. ASSUME NEW a \in AtNow(qs), NEW b \in AtNow(qs), a.p = b.p PROVE a = b
    <3>1. PICK q \in qs : a = A(q)
      BY <2>2
    <3>2. PICK r \in qs : b = A(r)
      BY <2>2
    <3>3. q = r
      BY <1>1, <2>1, <2>3, <3>1, <3>2 DEF OnePerPrefix
    <3> QED
      BY <3>1, <3>2, <3>3
  <2>4. \A a \in AtNow(qs) : \E q \in qs : a.p = q.p
    BY <2>1, <2>2
  <2> QED
    BY <2>3, <2>4 DEF OnePerPrefix
<1>3. v.ps = AtNow(u.ps \ ula)
  BY <1>1 DEF Update
<1>4. OnePerPrefix(v.ps) /\ \A q \in v.ps : q.p \notin Private
  <2>1. \A q \in u.ps \ ula : q.p \notin Private
    BY OfferAssumption
  <2> QED
    BY <1>2, <1>3, <2>1
<1>5. OnePerPrefix(n) /\ \A q \in n : q.p \in Private
  <2>1. CASE x = "pd"
    BY <1>2, <2>1
  <2>2. CASE x # "pd"
    BY <2>2 DEF Consistent
  <2> QED
    BY <2>1, <2>2
<1> HIDE DEF v
<1>6. /\ t.sources = [s.sources EXCEPT ![x] = v] /\ t.ulaPD = n
      /\ t.cur = s.cur /\ t.revoked = s.revoked /\ t.previous = s.previous
  BY DEF Store
<1> HIDE DEF n, t
<1>7. \A y \in Sources : t.sources[y] = IF y = x THEN v ELSE s.sources[y]
  BY <1>6 DEF Store
<1>8. Consistent(t)
  BY <1>4, <1>5, <1>6, <1>7 DEF Consistent
<1> QED
  BY <1>8 DEF t, v

\* A start reads the file; the ULAs it withdraws at once leave the record from before.
LEMMA StartConsistent ==
    ASSUME now \in Nat, NEW c \in Configs, file \subseteq Record, OnePerSub(file)
    PROVE  LET s == WithdrawULA([EmptyStore(c) EXCEPT !.previous = file])
           IN  Consistent(s)
<1> DEFINE s0       == [EmptyStore(c) EXCEPT !.previous = file]
           own      == {a \in s0.previous : a.sub[1] \in Private /\ ~a.deleg}
           until(a) == IF a.valid = 0 THEN now + Hold ELSE Earlier(now + Hold, a.valid)
           W(a)     == Withdrawn(a.iface, a.sub, "ula", until(a))
           s        == WithdrawULA(s0)
<1>1. s0.previous = file /\ s0.ulaPD = {} /\ s0.cur.lan = {}
      /\ s0.sources = [x \in Sources |-> Absent]
  BY DEF EmptyStore, NoSnapshot
<1>2. s0 \in Store
  <2>1. EmptyStore(c) \in Store
    BY EmptyStoreType
  <2>2. \A e \in Store : [e EXCEPT !.previous = file] \in Store
    BY DEF Store
  <2> QED
    BY <2>1, <2>2
<1> HIDE DEF s0
<1>3. PICK bs, w : /\ bs \subseteq own
                   /\ w = {W(a) : a \in bs}
                   /\ s = [s0 EXCEPT !.previous = @ \ own, !.revoked = w]
  BY DEF WithdrawULA
<1>4. \A a : W(a).sub = a.sub
  BY DEF Withdrawn
<1>5. /\ s.previous = file \ own /\ s.revoked = w
      /\ s.sources = s0.sources /\ s.ulaPD = s0.ulaPD /\ s.cur = s0.cur
  BY <1>1, <1>2, <1>3 DEF Store
<1> HIDE DEF W, s
<1>6. own \subseteq file
  BY <1>1
<1>7. OnePerSub(w)
  <2> SUFFICES ASSUME NEW h \in w, NEW k \in w, h.sub = k.sub PROVE h = k
    BY DEF OnePerSub
  <2>1. PICK a \in bs : h = W(a)
    BY <1>3
  <2>2. PICK b \in bs : k = W(b)
    BY <1>3
  <2>3. a = b
    BY <1>3, <1>4, <1>6, <2>1, <2>2 DEF OnePerSub
  <2> QED
    BY <2>1, <2>2, <2>3
<1>8. Absent.ps = {}
  BY DEF Absent
<1>9. Consistent(s)
  BY <1>1, <1>5, <1>7, <1>8 DEF Consistent, OnePerSub, OnePerPrefix
<1> QED
  BY <1>9 DEF s, s0

\* A store just made has nothing listed twice.
LEMMA FreshConsistent ==
    ASSUME now \in Nat, NEW c \in Configs
    PROVE  Consistent([EmptyStore(c) EXCEPT !.graceEnd = 0])
<1> DEFINE s == [EmptyStore(c) EXCEPT !.graceEnd = 0]
<1>1. /\ s.previous = {} /\ s.revoked = {} /\ s.ulaPD = {} /\ s.cur.lan = {}
      /\ s.sources = [x \in Sources |-> Absent]
  BY DEF EmptyStore, NoSnapshot
<1>2. Absent.ps = {}
  BY DEF Absent
<1> HIDE DEF s
<1>3. Consistent(s)
  BY <1>1, <1>2 DEF Consistent, OnePerSub, OnePerPrefix
<1> QED
  BY <1>3 DEF s

\* The invariant holds at first.
LEMMA StoreInvInit == Init => StoreInv
<1> SUFFICES ASSUME Init PROVE StoreInv
  OBVIOUS
<1>1. TypeOK
  BY TypeInit
<1>2. Consistent(store)
  BY <1>1, FreshConsistent DEF Init, TypeOK
<1>3. OnePerSub(file)
  BY DEF Init, OnePerSub
<1> QED
  BY <1>1, <1>2, <1>3 DEF StoreInv

\* Every step keeps it.
LEMMA StoreInvNext == StoreInv /\ [Next]_vars => StoreInv'
<1> SUFFICES ASSUME StoreInv, [Next]_vars PROVE Consistent(store') /\ OnePerSub(file')
  BY TypeNext DEF StoreInv, OnePerSub, Consistent, OnePerPrefix
<1> USE DEF StoreInv, TypeOK
<1>1. ASSUME NEW x \in Sources, NEW u \in Offers[x], Set(x, u)
      PROVE  Consistent(store') /\ OnePerSub(file')
  <2> DEFINE ula == IF x = "pd" THEN {q \in u.ps : q.p \in Private} ELSE {}
             s   == [store EXCEPT !.sources[x] = [u EXCEPT !.ps = AtNow(@ \ ula)],
                                  !.ulaPD = IF x = "pd" THEN AtNow(ula) ELSE @]
  <2>1. s \in Store /\ Consistent(s)
    BY SetType, SetConsistent
  <2>2. Recomputed(s, TRUE)
    BY <1>1 DEF Set
  <2> HIDE DEF s
  <2> QED
    BY <2>1, <2>2, RecomputedConsistent
<1>2. ASSUME NEW x \in Extras, SetOther(x)
      PROVE  Consistent(store') /\ OnePerSub(file')
  <2> DEFINE s == [store EXCEPT !.extra = x]
  <2>1. s \in Store
    BY DEF Store
  <2>2. /\ s.sources = store.sources /\ s.ulaPD = store.ulaPD /\ s.cur = store.cur
        /\ s.revoked = store.revoked /\ s.previous = store.previous
    BY DEF Store
  <2>3. Recomputed(s, FALSE)
    BY <1>2 DEF SetOther
  <2> HIDE DEF s
  <2>4. Consistent(s)
    BY <2>2, ConsistentSame
  <2> QED
    BY <2>1, <2>3, <2>4, RecomputedConsistent
<1>3. CASE Expire
  BY <1>3, RecomputedConsistent DEF Expire
<1>4. CASE PubTimer
  <2>1. Consistent(Published(store))
    BY PublishedConsistent
  <2>2. OnePerSub(store.cur.lan)
    BY DEF Consistent
  <2> QED
    BY <1>4, <2>1, <2>2, PublishOnePerSub DEF PubTimer
<1>5. ASSUME NEW c \in Consumers, Subscribe(c) \/ Serve(c) \/ Take(c) \/ Periodic(c)
      PROVE  Consistent(store') /\ OnePerSub(file')
  BY <1>5 DEF Subscribe, Serve, Take, Periodic
<1>6. ASSUME NEW c \in Configs, Start(c)
      PROVE  Consistent(store') /\ OnePerSub(file')
  <2> DEFINE s0 == [EmptyStore(c) EXCEPT !.previous = file]
             s  == WithdrawULA(s0)
  <2>1. s0 \in Store
    <3>1. EmptyStore(c) \in Store
      BY EmptyStoreType
    <3>2. \A e \in Store : [e EXCEPT !.previous = file] \in Store
      BY DEF Store
    <3> QED
      BY <3>1, <3>2
  <2>2. s \in Store
    BY <2>1, WithdrawULAType
  <2>3. Consistent(s)
    BY StartConsistent
  <2>4. \/ Recomputed(s, TRUE)
        \/ store' = Timed(s, TRUE) /\ file' = file
    BY <1>6 DEF Start
  <2> HIDE DEF s
  <2> QED
    BY <2>2, <2>3, <2>4, RecomputedConsistent, TimedConsistent
<1>7. CASE Crash
  <2>1. store.conf \in Configs
    BY DEF Store
  <2> QED
    BY <1>7, <2>1, FreshConsistent DEF Crash
<1>8. CASE Tick
  BY <1>8 DEF Tick
<1>9. CASE UNCHANGED vars
  BY <1>9 DEF vars
<1> QED
  BY <1>1, <1>2, <1>3, <1>4, <1>5, <1>6, <1>7, <1>8, <1>9, Zenon DEF Next

\* OneEntryPerSubnet holds in every reachable state: through renumbering, revocation, return of a
\* revoked prefix, restarts with another configuration, and failed writes of the file.
THEOREM SubnetsStayUnique == Spec => []OneEntryPerSubnet
<1>1. StoreInv => OneEntryPerSubnet
  BY DEF StoreInv, Consistent, OnePerSub, OneEntryPerSubnet
<1> QED
  BY <1>1, StoreInvInit, StoreInvNext, PTL DEF Spec

(***************************************************************************)
(* The expiry timer never oversleeps.                                       *)
(***************************************************************************)
\* pickSource's prefixes: none while an RA waits for PD.
LEMMA PickedPs ==
    ASSUME NEW s \in Store
    PROVE  /\ Picked(s).ps = UsedPs(s, now)
           /\ UsedPs(s, now) \subseteq Given /\ LinePs(s) \subseteq Given
<1>1. PickSource(s) \in Sources \cup {""}
  BY PickType
<1>2. \A x \in Sources : s.sources[x] \in Update /\ [s.sources[x] EXCEPT !.ps = {}].ps = {}
  BY DEF Store, Update
<1>3. Absent.ps = {}
  BY DEF Absent
<1>4. LinePs(s) \subseteq Given
  BY <1>1, <1>2 DEF LinePs, Update
<1>5. Picked(s).ps = UsedPs(s, now)
  BY <1>1, <1>2, <1>3 DEF Picked, UsedPs, Waiting, LinePs, Deferred
<1> QED
  BY <1>4, <1>5 DEF UsedPs

\* What splitLAN makes of the prefixes given.
IsOf(e, q, s, deleg) ==
    /\ Carved(e.sub, e.iface, s) /\ e.sub[1] = q.p /\ e.valid = q.valid
    /\ e.stale = FALSE /\ Alive(q) /\ e.deleg = deleg /\ e.src = q.src
    /\ e.pref = q.pref /\ e.dep = Faded(q)

\* A prefix gives each segment it is large enough for its /64, and nothing else gives one.
LEMMA SplitFacts ==
    ASSUME NEW s \in Store, NEW qs, NEW deleg
    PROVE  /\ \A e \in Split(s, qs, deleg) : \E q \in qs : IsOf(e, q, s, deleg)
           /\ \A q \in qs, l \in s.conf.lans :
                 Alive(q) /\ s.conf.index[l] < Size[q.p]
                    => \E e \in Split(s, qs, deleg) : e.sub = <<q.p, s.conf.index[l]>>
<1>1. \A q, l : LET e == Carve(s, q, l, deleg)
                IN  /\ e.iface = l /\ e.sub = <<q.p, s.conf.index[l]>> /\ e.valid = q.valid
                    /\ e.stale = FALSE /\ e.deleg = deleg /\ e.src = q.src /\ e.pref = q.pref
                    /\ e.dep = Faded(q) /\ e.sub[1] = q.p /\ e.sub[2] = s.conf.index[l]
  BY DEF Carve
<1>2. \A e \in Split(s, qs, deleg) :
         \E q \in qs, l \in s.conf.lans :
            e = Carve(s, q, l, deleg) /\ Alive(q) /\ e.sub[2] < Size[e.sub[1]]
  BY DEF Split
<1>3. \A q \in qs, l \in s.conf.lans :
         Alive(q) /\ Carve(s, q, l, deleg).sub[2] < Size[Carve(s, q, l, deleg).sub[1]]
           => Carve(s, q, l, deleg) \in Split(s, qs, deleg)
  BY DEF Split
<1>4. ASSUME NEW e \in Split(s, qs, deleg)
      PROVE  \E q \in qs : IsOf(e, q, s, deleg)
  <2>1. PICK q \in qs, l \in s.conf.lans :
            e = Carve(s, q, l, deleg) /\ Alive(q) /\ e.sub[2] < Size[e.sub[1]]
    BY <1>2
  <2> QED
    BY <1>1, <2>1 DEF Carved, IsOf
<1>5. ASSUME NEW q \in qs, NEW l \in s.conf.lans, Alive(q), s.conf.index[l] < Size[q.p]
      PROVE  \E e \in Split(s, qs, deleg) : e.sub = <<q.p, s.conf.index[l]>>
  BY <1>1, <1>3, <1>5
<1> QED
  BY <1>4, <1>5

\* A delegated ULA, once its source is ula.
LEMMA RenamedFacts ==
    ASSUME NEW s \in Store
    PROVE  /\ \A d \in {[q EXCEPT !.src = "ula"] : q \in s.ulaPD} :
                 \E q \in s.ulaPD : d.p = q.p /\ d.valid = q.valid /\ d.pref = q.pref /\ d.src = "ula"
           /\ \A q \in s.ulaPD : \E d \in {[r EXCEPT !.src = "ula"] : r \in s.ulaPD} :
                 d.p = q.p /\ d.valid = q.valid
<1> DEFINE E(q) == [q EXCEPT !.src = "ula"]
<1>1. \A q \in s.ulaPD : E(q).p = q.p /\ E(q).valid = q.valid /\ E(q).pref = q.pref /\ E(q).src = "ula"
  BY DEF Store, Given
<1> HIDE DEF E
<1>2. /\ \A d \in {E(q) : q \in s.ulaPD} :
            \E q \in s.ulaPD : d.p = q.p /\ d.valid = q.valid /\ d.pref = q.pref /\ d.src = "ula"
      /\ \A q \in s.ulaPD : \E d \in {E(r) : r \in s.ulaPD} : d.p = q.p /\ d.valid = q.valid
  BY <1>1
<1> QED
  BY <1>2, Zenon DEF E

\* Every live prefix is given, and every prefix given is live: the sources are the same.
LEMMA LiveBacked ==
    ASSUME now \in Nat, NEW s \in Store
    PROVE  /\ \A e \in LiveLAN(s) : ~e.stale /\ Backed(e, s, now)
           /\ \A e \in LiveLAN(s) : IsOwnUla(e) => /\ e.sub[1] \in s.conf.ula
                                                   /\ e.dep = (now + UlaPref <= now)
           /\ \A e : e.sub \in Subnets /\ Backed(e, s, now) /\ e.valid > now
                        => \E d \in LiveLAN(s) : d.sub = e.sub
<1> DEFINE line == Split(s, Picked(s).ps, FALSE)
           own  == Split(s, OwnUla(s), FALSE)
           deq  == {[q EXCEPT !.src = "ula"] : q \in s.ulaPD}
           del  == Split(s, deq, TRUE)
           From(S, qs, deleg) == \A e \in S : \E q \in qs : IsOf(e, q, s, deleg)
           To(S, qs) ==
              \A q \in qs, l \in s.conf.lans :
                 Alive(q) /\ s.conf.index[l] < Size[q.p]
                    => \E e \in S : e.sub = <<q.p, s.conf.index[l]>>
<1>1. LiveLAN(s) = line \cup (IF s.conf.ula # {} THEN own ELSE del)
  BY DEF LiveLAN
<1>2. Picked(s).ps = UsedPs(s, now) /\ UsedPs(s, now) \subseteq Given
  BY PickedPs
<1>3. /\ \A d \in deq : \E q \in s.ulaPD : d.p = q.p /\ d.valid = q.valid /\ d.pref = q.pref
      /\ \A q \in s.ulaPD : \E d \in deq : d.p = q.p /\ d.valid = q.valid
  <2>1. \A d \in deq : \E q \in s.ulaPD : d.p = q.p /\ d.valid = q.valid /\ d.pref = q.pref /\ d.src = "ula"
    BY RenamedFacts, Zenon
  <2>2. \A q \in s.ulaPD : \E d \in deq : d.p = q.p /\ d.valid = q.valid
    BY RenamedFacts, Zenon
  <2> HIDE DEF deq
  <2> QED
    BY <2>1, <2>2
<1>4. /\ \A d \in OwnUla(s) : d.p \in s.conf.ula /\ d.valid = now + UlaValid /\ d.pref = now + UlaPref
      /\ \A p \in s.conf.ula : \E d \in OwnUla(s) : d.p = p /\ d.valid = now + UlaValid
  <2>1. \A d \in OwnUla(s) : d.p \in s.conf.ula /\ d.valid = now + UlaValid /\ d.pref = now + UlaPref
    BY DEF OwnUla
  <2>2. \A p \in s.conf.ula :
           [p |-> p, src |-> "ula", pref |-> now + UlaPref, valid |-> now + UlaValid] \in OwnUla(s)
    BY DEF OwnUla
  <2>3. \A p \in s.conf.ula : \E d \in OwnUla(s) : d.p = p /\ d.valid = now + UlaValid
    BY <2>2
  <2> QED
    BY <2>1, <2>3
<1> HIDE DEF deq
<1>a. \A qs, deleg : From(Split(s, qs, deleg), qs, deleg) /\ To(Split(s, qs, deleg), qs)
  <2> SUFFICES ASSUME NEW qs, NEW deleg
               PROVE  From(Split(s, qs, deleg), qs, deleg) /\ To(Split(s, qs, deleg), qs)
    OBVIOUS
  <2> QED
    BY SplitFacts
<1> HIDE DEF From, To
<1>b. /\ From(line, Picked(s).ps, FALSE) /\ To(line, Picked(s).ps)
      /\ From(own, OwnUla(s), FALSE) /\ To(own, OwnUla(s))
      /\ From(del, deq, TRUE) /\ To(del, deq)
  BY <1>a, Zenon
<1> HIDE DEF line, own, del
<1>5. ASSUME NEW e \in LiveLAN(s)
      PROVE  /\ ~e.stale /\ Backed(e, s, now)
             /\ IsOwnUla(e) => e.sub[1] \in s.conf.ula /\ e.dep = (now + UlaPref <= now)
  <2>1. CASE e \in line
    <3>1. PICK q \in Picked(s).ps : IsOf(e, q, s, FALSE)
      BY <1>b, <2>1, Zenon DEF From
    <3>2. e.src # "ula"
      BY <1>2, <3>1 DEF Given, IsOf
    <3>3. Gives(UsedPs(s, now), e.sub[1], e.valid)
      BY <1>2, <3>1 DEF Gives, IsOf
    <3> QED
      BY <3>1, <3>2, <3>3, Zenon DEF IsOf, Backed, IsOwnUla
  <2>2. CASE s.conf.ula # {} /\ e \in own
    <3>1. PICK q \in OwnUla(s) : IsOf(e, q, s, FALSE)
      BY <1>b, <2>2, Zenon DEF From
    <3>2. e.sub[1] \in s.conf.ula /\ Faded(q) = (now + UlaPref <= now)
      BY <1>4, <3>1 DEF Faded, IsOf
    <3> QED
      BY <3>1, <3>2, Zenon DEF IsOf, Backed
  <2>3. CASE s.conf.ula = {} /\ e \in del
    <3>1. PICK q \in deq : IsOf(e, q, s, TRUE)
      BY <1>b, <2>3, Zenon DEF From
    <3>2. Gives(s.ulaPD, e.sub[1], e.valid)
      BY <1>3, <3>1 DEF Gives, IsOf
    <3> QED
      BY <2>3, <3>1, <3>2, Zenon DEF IsOf, Backed, IsOwnUla
  <2> QED
    BY <1>1, <2>1, <2>2, <2>3
<1>6. ASSUME NEW e, e.sub \in Subnets, Backed(e, s, now), e.valid > now
      PROVE  \E d \in LiveLAN(s) : d.sub = e.sub
  <2>1. e.iface \in s.conf.lans /\ e.sub = <<e.sub[1], s.conf.index[e.iface]>>
        /\ s.conf.index[e.iface] < Size[e.sub[1]]
    BY <1>6 DEF Backed, Carved, Subnets
  <2>2. CASE Gives(UsedPs(s, now), e.sub[1], e.valid)
    <3>1. PICK q \in Picked(s).ps : q.p = e.sub[1] /\ Alive(q)
      BY <1>2, <1>6, <2>2 DEF Gives, Alive
    <3>2. \E d \in line : d.sub = <<q.p, s.conf.index[e.iface]>>
      BY <1>b, <2>1, <3>1 DEF To
    <3> QED
      BY <1>1, <2>1, <3>1, <3>2
  <2>3. CASE e.sub[1] \in s.conf.ula
    <3>1. PICK q \in OwnUla(s) : q.p = e.sub[1] /\ Alive(q)
      BY <1>4, <2>3, StoreAssumption DEF Alive
    <3>2. \E d \in own : d.sub = <<q.p, s.conf.index[e.iface]>>
      BY <1>b, <2>1, <3>1 DEF To
    <3> QED
      BY <1>1, <2>1, <2>3, <3>1, <3>2
  <2>4. CASE s.conf.ula = {} /\ Gives(s.ulaPD, e.sub[1], e.valid)
    <3>1. PICK q \in deq : q.p = e.sub[1] /\ Alive(q)
      BY <1>3, <1>6, <2>4 DEF Gives, Alive
    <3>2. \E d \in del : d.sub = <<q.p, s.conf.index[e.iface]>>
      BY <1>b, <2>1, <3>1 DEF To
    <3> QED
      BY <1>1, <2>1, <2>4, <3>1, <3>2
  <2> QED
    BY <1>6, <2>2, <2>3, <2>4 DEF Backed
<1> QED
  BY <1>5, <1>6

\* The same for the WAN.
LEMMA LiveBackedW ==
    ASSUME now \in Nat, NEW s \in Store
    PROVE  /\ \A w \in LiveWAN(s) : BackedW(w, s)
           /\ \A w : BackedW(w, s) /\ w.valid > now => \E v \in LiveWAN(s) : v.p = w.p
<1> DEFINE u    == Picked(s)
           ours == {WanEntry(q) : q \in {r \in u.ps : Alive(r)}}
           also == IF PickSource(s) # "ra" \/ u.ps = {} THEN s.sources["ra"].ps ELSE {}
           more == {WanEntry(q) : q \in {r \in also : /\ Alive(r)
                                                      /\ \A w \in ours : <<w.p, w.src>> # <<r.p, r.src>>}}
<1>1. LiveWAN(s) = ours \cup more
  BY DEF LiveWAN
<1>2. u.ps = UsedPs(s, now)
  BY PickedPs
<1>3. \A q : WanEntry(q).p = q.p /\ WanEntry(q).src = q.src /\ WanEntry(q).valid = q.valid
  BY DEF WanEntry
<1>4. /\ \A w \in ours : \E q \in u.ps : w.p = q.p /\ w.valid = q.valid
      /\ \A w \in more : \E q \in s.sources["ra"].ps : w.p = q.p /\ w.valid = q.valid
  BY <1>3
<1>5. u.ps \subseteq LinePs(s)
  BY <1>2 DEF UsedPs
<1>6. \A q \in u.ps : Alive(q) => \E v \in ours : v.p = q.p
  BY <1>3
<1>7. \A q \in also : Alive(q) => \E v \in ours \cup more : v.p = q.p
  <2> SUFFICES ASSUME NEW q \in also, Alive(q) PROVE \E v \in ours \cup more : v.p = q.p
    OBVIOUS
  <2>1. CASE \E w \in ours : <<w.p, w.src>> = <<q.p, q.src>>
    BY <2>1
  <2>2. CASE \A w \in ours : <<w.p, w.src>> # <<q.p, q.src>>
    <3>1. WanEntry(q) \in more
      BY <2>2
    <3> QED
      BY <1>3, <3>1
  <2> QED
    BY <2>1, <2>2
<1>8. LinePs(s) \cup s.sources["ra"].ps \subseteq u.ps \cup also
  BY <1>2 DEF UsedPs, Waiting, LinePs
<1> HIDE DEF ours, more, also, u
<1>9. \A w \in LiveWAN(s) : BackedW(w, s)
  BY <1>1, <1>4, <1>5 DEF BackedW, Gives
<1>10. ASSUME NEW w, BackedW(w, s), w.valid > now PROVE \E v \in LiveWAN(s) : v.p = w.p
  <2>1. PICK q \in LinePs(s) \cup s.sources["ra"].ps : q.p = w.p /\ q.valid = w.valid
    BY <1>10 DEF BackedW, Gives
  <2>2. Alive(q) /\ q \in u.ps \cup also
    BY <1>8, <1>10, <2>1 DEF Alive
  <2> QED
    BY <1>1, <1>6, <1>7, <2>1, <2>2
<1> QED
  BY <1>9, <1>10

\* What a recompute withdraws: from the record of before a restart, or from the last snapshot.
FromRecord(h, s, active) ==
    /\ h.stale = TRUE /\ h.dep = TRUE /\ h.sub \notin active /\ h.valid > now /\ Picked(s).ps # {}
    /\ \E a \in s.previous : a.sub = h.sub /\ a.iface = h.iface
FromLAN(h, s, active) ==
    /\ h.stale = TRUE /\ h.dep = TRUE /\ h.sub \notin active
    /\ \E d \in s.cur.lan : d.sub = h.sub /\ d.iface = h.iface /\ ~d.dep /\ h.valid <= d.valid
FromWAN(h, s, activeW) ==
    /\ h.dep = TRUE /\ h.p \notin activeW
    /\ \E w \in s.cur.wan : w.p = h.p /\ ~w.dep /\ h.valid <= w.valid

\* The earlier of two times is no later than the second.
LEMMA EarlierBound ==
    ASSUME NEW a \in Nat, NEW b \in Nat
    PROVE  Earlier(a, b) <= b
BY DEF Earlier

\* Each withdrawal has one of these origins.
LEMMA GoneFrom ==
    ASSUME now \in Nat, NEW s \in Store, NEW active
    PROVE  /\ \A h \in GoneSinceRestart(s, active) : FromRecord(h, s, active)
           /\ \A h \in GoneFromLAN(s, active) : FromLAN(h, s, active)
           /\ \A h \in GoneFromWAN(s, active) : FromWAN(h, s, active)
<1>1. now + Hold \in Nat /\ now + WanHold \in Nat
  BY StoreAssumption
<1>2. \A l, sub, src, t : LET h == Withdrawn(l, sub, src, t)
                          IN  /\ h.iface = l /\ h.sub = sub /\ h.src = src /\ h.valid = t
                              /\ h.stale = TRUE /\ h.dep = TRUE
  BY DEF Withdrawn
<1>3. ASSUME NEW h \in GoneSinceRestart(s, active) PROVE FromRecord(h, s, active)
  <2>1. Picked(s).ps # {}
    BY DEF GoneSinceRestart
  <2>2. PICK a \in s.previous :
           /\ a.sub \notin active /\ Earlier(now + Hold, a.valid) > now
           /\ h = Withdrawn(a.iface, a.sub, IF a.sub[1] \in Private THEN "ula" ELSE "pd",
                            Earlier(now + Hold, a.valid))
    BY DEF GoneSinceRestart
  <2> QED
    BY <1>2, <2>1, <2>2 DEF FromRecord
<1>4. ASSUME NEW h \in GoneFromLAN(s, active) PROVE FromLAN(h, s, active)
  <2>1. PICK d \in s.cur.lan :
           /\ d.sub \notin active /\ ~d.dep
           /\ h = Withdrawn(d.iface, d.sub, d.src, Earlier(now + Hold, d.valid))
    BY DEF GoneFromLAN
  <2>2. d.valid \in Nat
    BY DEF Store, Snapshot, LanEntry
  <2>3. h.valid <= d.valid
    BY <1>1, <1>2, <2>1, <2>2, EarlierBound
  <2> QED
    BY <1>2, <2>1, <2>3 DEF FromLAN
<1>5. ASSUME NEW h \in GoneFromWAN(s, active) PROVE FromWAN(h, s, active)
  <2>1. PICK w \in s.cur.wan :
           /\ w.p \notin active /\ ~w.dep
           /\ h = [w EXCEPT !.pref = now, !.valid = Earlier(now + WanHold, w.valid),
                            !.dep = TRUE, !.stale = TRUE]
    BY DEF GoneFromWAN
  <2>2. w \in WanItem /\ w.valid \in Nat
    BY DEF Store, Snapshot, WanItem
  <2>3. h.p = w.p /\ h.dep = TRUE /\ h.valid = Earlier(now + WanHold, w.valid)
    BY <2>1, <2>2 DEF WanItem
  <2>4. h.valid <= w.valid
    BY <1>1, <2>2, <2>3, EarlierBound
  <2> QED
    BY <2>1, <2>3, <2>4 DEF FromWAN
<1> QED
  BY <1>3, <1>4, <1>5

\* What is withdrawn after a recompute was withdrawn before, or has such an origin.
LEMMA HeldFrom ==
    ASSUME now \in Nat, NEW s \in Store, NEW active
    PROVE  /\ \A h \in Held(s, active) :
                 h \in s.revoked \/ FromRecord(h, s, active) \/ FromLAN(h, s, active)
           /\ \A h \in HeldW(s, active) : h \in s.revokedW \/ FromWAN(h, s, active)
<1>1. \A h \in Held(s, active) :
         h \in s.revoked \/ h \in GoneSinceRestart(s, active) \/ h \in GoneFromLAN(s, active)
  BY Zenon DEF Held, Over
<1>2. \A h \in HeldW(s, active) : h \in s.revokedW \/ h \in GoneFromWAN(s, active)
  BY Zenon DEF HeldW, Over
<1> QED
  BY <1>1, <1>2, GoneFrom

\* The source in effect, and what is backed by it, are a matter of the sources and the grace alone.
LEMMA SameLine ==
    ASSUME NEW s, NEW r, NEW t, r.conf = s.conf, r.sources = s.sources, r.ulaPD = s.ulaPD,
           r.graceEnd = s.graceEnd
    PROVE  /\ UsedPs(r, t) = UsedPs(s, t) /\ LinePs(r) = LinePs(s)
           /\ \A e : Backed(e, r, t) = Backed(e, s, t)
           /\ \A w : BackedW(w, r) = BackedW(w, s)
<1>1. PickSource(r) = PickSource(s)
  BY DEF PickSource
<1>2. LinePs(r) = LinePs(s)
  BY <1>1 DEF LinePs
<1>3. UsedPs(r, t) = UsedPs(s, t)
  BY <1>1, <1>2 DEF UsedPs, Waiting
<1>4. \A w : BackedW(w, r) = BackedW(w, s)
  BY <1>2 DEF BackedW
<1>5. \A e : Backed(e, r, t) = Backed(e, s, t)
  BY <1>3 DEF Backed, Carved
<1> QED
  BY <1>2, <1>3, <1>4, <1>5

\* Every recompute leaves the snapshot settled.
LEMMA RecomputeSettled ==
    ASSUME now \in Nat, NEW s \in Store, \A h \in s.revoked : h.stale /\ h.dep,
           \A h \in s.revokedW : h.dep
    PROVE  Settled(Recompute(s), now)
<1> DEFINE r       == Recompute(s)
           active  == {e.sub : e \in LiveLAN(s)}
           activeW == {w.p : w \in LiveWAN(s)}
<1>1. /\ r.conf = s.conf /\ r.sources = s.sources /\ r.ulaPD = s.ulaPD /\ r.graceEnd = s.graceEnd
      /\ r.cur.lan = LiveLAN(s) \cup r.revoked /\ r.cur.wan = LiveWAN(s) \cup r.revokedW
      /\ r.revoked = {h \in Held(s, active) : Alive(h)}
      /\ r.revokedW = {h \in HeldW(s, activeW) : Alive(h)}
  BY RecomputeFields DEF Store
<1> HIDE DEF r
<1>2. \A h \in r.revoked : h.stale /\ h.dep
  BY <1>1, HeldFrom DEF FromRecord, FromLAN
<1>3. \A h \in r.revokedW : h.dep
  BY <1>1, HeldFrom DEF FromWAN
<1>4. \A e \in LiveLAN(s) : ~e.stale /\ Backed(e, r, now)
  BY <1>1, LiveBacked, SameLine
<1>5. \A w \in LiveWAN(s) : BackedW(w, r)
  BY <1>1, LiveBackedW, SameLine
<1>6. Settled(r, now)
  BY <1>1, <1>2, <1>3, <1>4, <1>5 DEF Settled
<1> QED
  BY <1>6 DEF r

\* The fields a recompute assigns are final: publishing and the settle period add labels and timers.
SameLists(s, r) ==
    /\ s.conf = r.conf /\ s.sources = r.sources /\ s.ulaPD = r.ulaPD /\ s.graceEnd = r.graceEnd
    /\ s.revoked = r.revoked /\ s.revokedW = r.revokedW /\ s.previous = r.previous
    /\ s.cur.lan = r.cur.lan /\ s.cur.wan = r.cur.wan

\* Publishing, and its timer.
LEMMA PublishedLists ==
    ASSUME NEW r \in Store
    PROVE  /\ SameLists(Published(r), r) /\ Published(r).expireAt = r.expireAt
           /\ \A n : SameLists([r EXCEPT !.pubAt = n], r) /\ [r EXCEPT !.pubAt = n].expireAt = r.expireAt
<1> DEFINE C == [r.cur EXCEPT !.change = IF r.pending # None THEN r.pending ELSE @]
           t == [r EXCEPT !.cur = C, !.pending = None, !.pubAt = NoTimer]
<1>1. C.lan = r.cur.lan /\ C.wan = r.cur.wan
  BY DEF Store, Snapshot
<1>2. Published(r) = t
  BY DEF Published, Store
<1> HIDE DEF C
<1>3. t.cur = C /\ t.expireAt = r.expireAt
      /\ t.conf = r.conf /\ t.sources = r.sources /\ t.ulaPD = r.ulaPD /\ t.graceEnd = r.graceEnd
      /\ t.revoked = r.revoked /\ t.revokedW = r.revokedW /\ t.previous = r.previous
  BY DEF Store
<1> HIDE DEF t
<1>4. SameLists(Published(r), r) /\ Published(r).expireAt = r.expireAt
  BY <1>1, <1>2, <1>3 DEF SameLists
<1>5. \A n : SameLists([r EXCEPT !.pubAt = n], r) /\ [r EXCEPT !.pubAt = n].expireAt = r.expireAt
  BY DEF SameLists, Store
<1> QED
  BY <1>4, <1>5

\* Setting the expiry timer.
LEMMA TimedLists ==
    ASSUME NEW r \in Store
    PROVE  /\ SameLists(Timed(r, TRUE), r) /\ Timed(r, TRUE).expireAt = NextExpiry(r)
           /\ Timed(r, FALSE) = r
BY DEF SameLists, Timed, Store

\* nextExpiry is the time of the first end, which the fields of SameLists tell.
LEMMA NextExpirySame ==
    ASSUME NEW s, NEW r, SameLists(s, r)
    PROVE  NextExpiry(s) = NextExpiry(r)
BY DEF NextExpiry, Deferred, SameLists

\* The store after a recompute.
LEMMA RecomputedLists ==
    ASSUME now \in Nat, NEW s \in Store, NEW rearm \in BOOLEAN, Recomputed(s, rearm)
    PROVE  /\ SameLists(store', Recompute(s))
           /\ store'.expireAt = IF rearm THEN NextExpiry(Recompute(s)) ELSE s.expireAt
<1> DEFINE r == Recompute(s)
           n == IF r.pubAt = NoTimer THEN now + Settle ELSE r.pubAt
           w == [r EXCEPT !.pubAt = n]
<1>1. r \in Store /\ r.expireAt = s.expireAt
  BY RecomputeType, RecomputeFields DEF Store
<1>2. \/ store' = Timed(r, rearm)
      \/ store' = Timed(Published(r), rearm)
      \/ store' = Timed([r EXCEPT !.pubAt = IF @ = NoTimer THEN now + Settle ELSE @], rearm)
  BY Zenon DEF Recomputed, Concluded
<1> HIDE DEF r
<1>3. w = [r EXCEPT !.pubAt = IF @ = NoTimer THEN now + Settle ELSE @]
  OBVIOUS
<1>4. w \in Store
  BY <1>1, <1>3, ArmType
<1>5. SameLists(w, r) /\ w.expireAt = r.expireAt
  BY <1>1, PublishedLists
<1>6. SameLists(r, r)
  BY DEF SameLists
<1> HIDE DEF w
<1>7. PICK m : m \in Store /\ SameLists(m, r) /\ m.expireAt = r.expireAt /\ store' = Timed(m, rearm)
  BY <1>1, <1>2, <1>3, <1>4, <1>5, <1>6, PublishedLists, PublishedType
<1>8. CASE rearm = FALSE
  BY <1>1, <1>7, <1>8, TimedLists DEF r
<1>9. CASE rearm = TRUE
  <2>1. SameLists(store', m) /\ store'.expireAt = NextExpiry(m)
    BY <1>7, <1>9, TimedLists
  <2>2. SameLists(store', r) /\ store'.expireAt = NextExpiry(r)
    BY <1>7, <2>1, NextExpirySame DEF SameLists
  <2> QED
    BY <1>9, <2>2 DEF r
<1> QED
  BY <1>8, <1>9

\* Being settled is a matter of those fields, being armed of the timer too.
LEMMA SettledSame ==
    ASSUME NEW s, NEW r, NEW t, SameLists(s, r)
    PROVE  /\ Settled(r, t) => Settled(s, t)
           /\ UsedPs(s, t) = UsedPs(r, t)
<1>1. /\ UsedPs(s, t) = UsedPs(r, t)
      /\ \A e : Backed(e, s, t) = Backed(e, r, t)
      /\ \A w : BackedW(w, s) = BackedW(w, r)
  BY SameLine DEF SameLists
<1> QED
  BY <1>1 DEF Settled, SameLists

\* nextExpiry is no later than the end of any hold period, and of the wait for PD.
LEMMA NextExpiryFirst ==
    ASSUME NEW s \in Store
    PROVE  LET x == NextExpiry(s) IN
           /\ \A h \in s.revoked \cup s.revokedW : x # NoTimer /\ x <= h.valid
           /\ Deferred(s) => x # NoTimer /\ x <= s.graceEnd
<1> DEFINE ends == {h.valid : h \in s.revoked} \cup {h.valid : h \in s.revokedW}
                   \cup (IF Deferred(s) THEN {s.graceEnd} ELSE {})
<1>1. ends \in SUBSET Nat
  BY DEF Store, LanEntry, WanItem
<1>2. /\ \A h \in s.revoked \cup s.revokedW : h.valid \in ends
      /\ Deferred(s) => s.graceEnd \in ends
  OBVIOUS
<1>3. NextExpiry(s) = Soonest(ends)
  BY DEF NextExpiry
<1> HIDE DEF ends
<1>4. ASSUME NEW y \in ends PROVE Soonest(ends) # NoTimer /\ Soonest(ends) <= y
  <2>1. Min(ends) \in ends /\ Min(ends) <= y
    BY <1>1, <1>4, MinInSet
  <2>2. Soonest(ends) = Min(ends)
    BY <1>4 DEF Soonest
  <2> QED
    BY <1>1, <2>1, <2>2
<1> QED
  BY <1>2, <1>3, <1>4

\* With the timer set afresh, it is armed.
LEMMA RearmedArmed ==
    ASSUME now \in Nat, NEW r \in Store, r.previous # {} => UsedPs(r, now) = {},
           NEW s, SameLists(s, r), s.expireAt = NextExpiry(r)
    PROVE  Armed(s, now)
<1>1. UsedPs(s, now) = UsedPs(r, now)
  BY SettledSame
<1>2. \A h \in s.revoked \cup s.revokedW : By(s, h.valid)
  BY NextExpiryFirst DEF By, SameLists
<1>3. ~s.sources["pd"].set /\ now < s.graceEnd => By(s, s.graceEnd)
  BY NextExpiryFirst DEF By, SameLists, Deferred
<1> QED
  BY <1>1, <1>2, <1>3 DEF Armed, SameLists

\* What a recompute that sets no timer withdraws was due already.
LEMMA UnarmedArmed ==
    ASSUME now \in Nat, NEW s \in Store, Settled(s, now), Armed(s, now)
    PROVE  /\ \A h \in Recompute(s).revoked \cup Recompute(s).revokedW : By(s, h.valid)
           /\ Recompute(s).previous # {} => UsedPs(s, now) = {}
<1> DEFINE r       == Recompute(s)
           active  == {e.sub : e \in LiveLAN(s)}
           activeW == {w.p : w \in LiveWAN(s)}
<1>1. /\ r.revoked = {h \in Held(s, active) : Alive(h)}
      /\ r.revokedW = {h \in HeldW(s, activeW) : Alive(h)}
      /\ r.previous = IF Picked(s).ps # {} THEN {} ELSE s.previous
  BY RecomputeFields
<1>2. r \in Store
  BY RecomputeType
<1> HIDE DEF r
<1>3. \A h \in r.revoked \cup r.revokedW : h.valid \in Nat /\ h.valid > now
  BY <1>1, <1>2 DEF Store, LanEntry, WanItem, Alive
<1>4. Picked(s).ps = UsedPs(s, now)
  BY PickedPs
<1>5. s.expireAt \in Nat \cup {NoTimer}
  BY DEF Store
<1>6. ASSUME NEW h \in r.revoked PROVE By(s, h.valid)
  <2>1. CASE h \in s.revoked
    BY <2>1 DEF Armed
  <2>2. CASE FromRecord(h, s, active)
    <3>1. By(s, now)
      BY <1>4, <2>2 DEF FromRecord, Armed
    <3> QED
      BY <1>3, <1>5, <1>6, <3>1 DEF By
  <2>3. CASE FromLAN(h, s, active)
    <3>1. PICK d \in s.cur.lan : d.sub = h.sub /\ ~d.dep /\ h.valid <= d.valid
      BY <2>3 DEF FromLAN
    <3>2. Backed(d, s, now) /\ d.sub \in Subnets /\ d.valid \in Nat
      BY <3>1 DEF Settled, Store, Snapshot, LanEntry
    <3>3. d.valid > now
      BY <1>3, <1>6, <3>1, <3>2
    <3>4. d.sub \in active
      BY <3>2, <3>3, LiveBacked
    <3> QED
      BY <2>3, <3>1, <3>4 DEF FromLAN
  <2> QED
    BY <1>1, <1>6, <2>1, <2>2, <2>3, HeldFrom
<1>7. ASSUME NEW h \in r.revokedW PROVE By(s, h.valid)
  <2>1. CASE h \in s.revokedW
    BY <2>1 DEF Armed
  <2>2. CASE FromWAN(h, s, activeW)
    <3>1. PICK w \in s.cur.wan : w.p = h.p /\ ~w.dep /\ h.valid <= w.valid
      BY <2>2 DEF FromWAN
    <3>2. BackedW(w, s) /\ w.valid \in Nat
      BY <3>1 DEF Settled, Store, Snapshot, WanItem
    <3>3. w.valid > now
      BY <1>3, <1>7, <3>1, <3>2
    <3>4. w.p \in activeW
      BY <3>2, <3>3, LiveBackedW
    <3> QED
      BY <2>2, <3>1, <3>4 DEF FromWAN
  <2> QED
    BY <1>1, <1>7, <2>1, <2>2, HeldFrom
<1> QED
  BY <1>1, <1>4, <1>6, <1>7 DEF r

\* A recompute that sets the timer, from any store whose withdrawn prefixes say so.
LEMMA RearmedSettled ==
    ASSUME now \in Nat, NEW s \in Store, Recomputed(s, TRUE),
           \A h \in s.revoked : h.stale /\ h.dep, \A h \in s.revokedW : h.dep
    PROVE  Settled(store', now) /\ Armed(store', now)
<1> DEFINE r == Recompute(s)
<1>1. r \in Store /\ Settled(r, now)
  BY RecomputeType, RecomputeSettled
<1>2. SameLists(store', r) /\ store'.expireAt = NextExpiry(r)
  BY RecomputedLists
<1>3. r.previous # {} => UsedPs(r, now) = {}
  <2>1. /\ r.previous = IF Picked(s).ps # {} THEN {} ELSE s.previous
        /\ r.conf = s.conf /\ r.sources = s.sources /\ r.ulaPD = s.ulaPD /\ r.graceEnd = s.graceEnd
    BY RecomputeFields DEF Store
  <2>2. Picked(s).ps = UsedPs(s, now)
    BY PickedPs
  <2> HIDE DEF r
  <2>3. UsedPs(r, now) = UsedPs(s, now)
    BY <2>1, SameLine
  <2> QED
    BY <2>1, <2>2, <2>3
<1> HIDE DEF r
<1> QED
  BY <1>1, <1>2, <1>3, SettledSame, RearmedArmed

\* One that does not, from a store that is settled and armed.
LEMMA UnarmedSettled ==
    ASSUME now \in Nat, NEW s \in Store, Recomputed(s, FALSE), Settled(s, now), Armed(s, now)
    PROVE  Settled(store', now) /\ Armed(store', now)
<1> DEFINE r == Recompute(s)
<1>1. Settled(r, now)
  BY RecomputeSettled DEF Settled
<1>2. SameLists(store', r) /\ store'.expireAt = s.expireAt
  BY RecomputedLists
<1>3. /\ \A h \in r.revoked \cup r.revokedW : By(s, h.valid)
      /\ r.previous # {} => UsedPs(s, now) = {}
  BY UnarmedArmed
<1>4. r.conf = s.conf /\ r.sources = s.sources /\ r.ulaPD = s.ulaPD /\ r.graceEnd = s.graceEnd
  BY RecomputeFields DEF Store
<1> HIDE DEF r
<1>5. UsedPs(store', now) = UsedPs(s, now)
  BY <1>2, <1>4, SameLine DEF SameLists
<1>6. Armed(store', now)
  <2>1. \A x : By(s, x) = By(store', x)
    BY <1>2 DEF By
  <2>2. store'.sources = s.sources /\ store'.graceEnd = s.graceEnd /\ store'.previous = r.previous
        /\ store'.revoked = r.revoked /\ store'.revokedW = r.revokedW
    BY <1>2, <1>4 DEF SameLists
  <2>3. ~s.sources["pd"].set /\ now < s.graceEnd => By(s, s.graceEnd)
    BY DEF Armed
  <2> QED
    BY <1>3, <1>5, <2>1, <2>2, <2>3 DEF Armed
<1> QED
  BY <1>1, <1>2, <1>6, SettledSame

\* Time passes: the end of the wait for PD is the only change, and the timer is set for it.
LEMMA TickArmed ==
    ASSUME now \in Nat, NEW s \in Store, Settled(s, now), Armed(s, now)
    PROVE  Settled(s, now + 1) /\ Armed(s, now + 1)
<1>1. s.graceEnd \in Nat /\ s.expireAt \in Nat \cup {NoTimer}
  BY DEF Store
<1>2. Waiting(s, now + 1) => Waiting(s, now)
  BY <1>1 DEF Waiting
<1>3. UsedPs(s, now) \subseteq UsedPs(s, now + 1)
  BY <1>2 DEF UsedPs
<1>4. \A e : Backed(e, s, now) => Backed(e, s, now + 1)
  BY <1>3 DEF Backed, Gives
<1>5. Settled(s, now + 1)
  BY <1>4 DEF Settled
<1>6. s.previous # {} /\ UsedPs(s, now + 1) # {} => By(s, now + 1)
  <2>1. CASE UsedPs(s, now) # {}
    BY <1>1, <2>1 DEF Armed, By
  <2>2. CASE UsedPs(s, now) = {} /\ UsedPs(s, now + 1) # {}
    <3>1. Waiting(s, now) /\ ~Waiting(s, now + 1)
      BY <2>2 DEF UsedPs
    <3>2. By(s, s.graceEnd) /\ ~(now + 1 < s.graceEnd)
      BY <3>1 DEF Waiting, Armed
    <3> QED
      BY <1>1, <3>2 DEF By
  <2> QED
    BY <2>1, <2>2
<1>7. ~s.sources["pd"].set /\ now + 1 < s.graceEnd => By(s, s.graceEnd)
  BY <1>1 DEF Armed
<1>8. \A h \in s.revoked \cup s.revokedW : By(s, h.valid)
  BY DEF Armed
<1> QED
  BY <1>5, <1>6, <1>7, <1>8 DEF Armed

\* A store nothing has been submitted to, with at most a record from before.
LEMMA IdleSettled ==
    ASSUME NEW s \in Store, s.sources = [x \in Sources |-> Absent], NEW t
    PROVE  /\ UsedPs(s, t) = {}
           /\ s.cur.lan = {} /\ s.cur.wan = {} /\ s.revoked = {} /\ s.revokedW = {} => Settled(s, t)
<1>1. \A x \in Sources : s.sources[x].set = FALSE
  BY DEF Absent
<1>2. \A i \in 1..3 : Order[i] \in Sources
  BY DEF Order
<1>3. PickSource(s) = ""
  BY <1>1, <1>2 DEF PickSource
<1>4. UsedPs(s, t) = {}
  BY <1>3 DEF UsedPs, Waiting, LinePs
<1> QED
  BY <1>4 DEF Settled

\* A fresh store, and one that is down.
LEMMA FreshArmed ==
    ASSUME now \in Nat, NEW c \in Configs
    PROVE  LET s == [EmptyStore(c) EXCEPT !.graceEnd = 0]
           IN  Settled(s, now) /\ Armed(s, now)
<1> DEFINE s == [EmptyStore(c) EXCEPT !.graceEnd = 0]
<1>1. /\ s.sources = [x \in Sources |-> Absent] /\ s.cur.lan = {} /\ s.cur.wan = {}
      /\ s.revoked = {} /\ s.revokedW = {} /\ s.previous = {} /\ s.graceEnd = 0
  BY DEF EmptyStore, NoSnapshot
<1>2. s \in Store
  BY EmptyStoreType
<1> HIDE DEF s
<1>3. Settled(s, now)
  BY <1>1, <1>2, IdleSettled
<1>4. Armed(s, now)
  BY <1>1 DEF Armed
<1> QED
  BY <1>3, <1>4 DEF s

\* The store withdrawULA leaves at a start.
LEMMA StartFields ==
    ASSUME now \in Nat, NEW c \in Configs, file \subseteq Record, NEW s,
           s = WithdrawULA([EmptyStore(c) EXCEPT !.previous = file])
    PROVE  /\ s \in Store /\ s.conf = c
           /\ s.sources = [x \in Sources |-> Absent] /\ s.cur.lan = {} /\ s.cur.wan = {}
           /\ s.revokedW = {} /\ \A h \in s.revoked : h.stale = TRUE /\ h.dep = TRUE
           /\ s.ulaPD = {} /\ (s.graceEnd # 0 => Prefer = "pd")
           /\ \A d \in file : ~(d.sub[1] \in Private /\ ~d.deleg) => d \in s.previous
<1> DEFINE s0       == [EmptyStore(c) EXCEPT !.previous = file]
           own      == {a \in s0.previous : a.sub[1] \in Private /\ ~a.deleg}
           until(a) == IF a.valid = 0 THEN now + Hold ELSE Earlier(now + Hold, a.valid)
           W(a)     == Withdrawn(a.iface, a.sub, "ula", until(a))
<1>1. /\ s0.previous = file /\ s0.cur.lan = {} /\ s0.cur.wan = {} /\ s0.revokedW = {} /\ s0.conf = c
      /\ s0.sources = [x \in Sources |-> Absent] /\ s0.ulaPD = {}
      /\ s0.graceEnd = IF Prefer = "pd" /\ Grace > 0 THEN now + Grace ELSE 0
  BY DEF EmptyStore, NoSnapshot
<1>2. s0 \in Store
  <2>1. EmptyStore(c) \in Store
    BY EmptyStoreType
  <2>2. \A e \in Store : [e EXCEPT !.previous = file] \in Store
    BY DEF Store
  <2> QED
    BY <2>1, <2>2
<1>3. s \in Store
  BY <1>2, WithdrawULAType
<1> HIDE DEF s0
<1>4. PICK bs, w : /\ bs \subseteq own
                   /\ w = {W(a) : a \in bs}
                   /\ s = [s0 EXCEPT !.previous = @ \ own, !.revoked = w]
  BY DEF WithdrawULA, s0
<1>5. \A a : W(a).stale = TRUE /\ W(a).dep = TRUE
  BY DEF Withdrawn
<1> HIDE DEF W
<1>6. /\ s.previous = s0.previous \ own /\ s.revoked = w
      /\ s.sources = s0.sources /\ s.cur = s0.cur /\ s.revokedW = s0.revokedW /\ s.conf = s0.conf
      /\ s.ulaPD = s0.ulaPD /\ s.graceEnd = s0.graceEnd
  BY <1>2, <1>4 DEF Store
<1>7. \A d \in file : ~(d.sub[1] \in Private /\ ~d.deleg) => d \in s.previous
  BY <1>1, <1>6
<1> HIDE DEF own
<1>8. \A h \in s.revoked : h.stale = TRUE /\ h.dep = TRUE
  <2> HIDE DEF until
  <2>1. \A h \in w : \E a : h = W(a)
    BY <1>4, Zenon
  <2>2. \A h \in w : h.stale = TRUE /\ h.dep = TRUE
    BY <1>5, <2>1
  <2> QED
    BY <1>6, <2>2
<1> QED
  BY <1>1, <1>3, <1>6, <1>7, <1>8

\* The invariant holds at first, and every step keeps it.
LEMMA ArmedInit == Init => ArmedInv
<1> SUFFICES ASSUME Init PROVE ArmedInv
  OBVIOUS
<1>1. StoreInv
  BY StoreInvInit
<1>2. now \in Nat
  BY DEF Init
<1> QED
  <2>1. PICK c \in Configs : store = [EmptyStore(c) EXCEPT !.graceEnd = 0]
    BY DEF Init
  <2>2. Settled(store, now) /\ Armed(store, now)
    BY <1>2, <2>1, FreshArmed
  <2> QED
    BY <1>1, <2>2 DEF ArmedInv

\* Case by case; only SetOther recomputes without setting the timer.
LEMMA ArmedNext == ArmedInv /\ [Next]_vars => ArmedInv'
<1> SUFFICES ASSUME ArmedInv, [Next]_vars PROVE ArmedInv'
  OBVIOUS
<1>0. StoreInv'
  BY StoreInvNext DEF ArmedInv
<1> SUFFICES Settled(store', now') /\ Armed(store', now')
  BY <1>0 DEF ArmedInv
<1>a. now \in Nat /\ store \in Store /\ file \subseteq Record /\ Settled(store, now) /\ Armed(store, now)
  BY DEF ArmedInv, StoreInv, TypeOK
<1>b. /\ \A h \in store.revoked : h.stale /\ h.dep
      /\ \A h \in store.revokedW : h.dep
  BY <1>a DEF Settled
<1>1. ASSUME NEW x \in Sources, NEW u \in Offers[x], Set(x, u)
      PROVE  Settled(store', now') /\ Armed(store', now')
  <2> DEFINE ula == IF x = "pd" THEN {q \in u.ps : q.p \in Private} ELSE {}
             s   == [store EXCEPT !.sources[x] = [u EXCEPT !.ps = AtNow(@ \ ula)],
                                  !.ulaPD = IF x = "pd" THEN AtNow(ula) ELSE @]
  <2>1. s \in Store
    BY <1>a, SetType
  <2>2. s.revoked = store.revoked /\ s.revokedW = store.revokedW
    BY <1>a DEF Store
  <2>3. Recomputed(s, TRUE) /\ now' = now
    BY <1>1 DEF Set
  <2> HIDE DEF s
  <2> QED
    BY <1>a, <1>b, <2>1, <2>2, <2>3, RearmedSettled
<1>2. ASSUME NEW x \in Extras, SetOther(x)
      PROVE  Settled(store', now') /\ Armed(store', now')
  <2> DEFINE s == [store EXCEPT !.extra = x]
  <2>1. s \in Store
    BY <1>a DEF Store
  <2>2. SameLists(s, store) /\ s.expireAt = store.expireAt
    BY <1>a DEF Store, SameLists
  <2>3. Recomputed(s, FALSE) /\ now' = now
    BY <1>2 DEF SetOther
  <2> HIDE DEF s
  <2>4. Settled(s, now) /\ UsedPs(s, now) = UsedPs(store, now)
    BY <1>a, <2>2, SettledSame
  <2>5. Armed(s, now)
    BY <1>a, <2>2, <2>4 DEF Armed, By, SameLists
  <2> QED
    BY <1>a, <2>1, <2>3, <2>4, <2>5, UnarmedSettled
<1>3. CASE Expire
  BY <1>3, <1>a, <1>b, RearmedSettled DEF Expire
<1>4. CASE PubTimer
  <2>1. SameLists(store', store) /\ store'.expireAt = store.expireAt /\ now' = now
    BY <1>4, <1>a, PublishedLists DEF PubTimer
  <2>2. Settled(store', now) /\ UsedPs(store', now) = UsedPs(store, now)
    BY <1>a, <2>1, SettledSame
  <2>3. Armed(store', now)
    BY <1>a, <2>1, <2>2 DEF Armed, By, SameLists
  <2> QED
    BY <2>1, <2>2, <2>3
<1>5. ASSUME NEW c \in Consumers, Subscribe(c) \/ Serve(c) \/ Take(c) \/ Periodic(c)
      PROVE  Settled(store', now') /\ Armed(store', now')
  BY <1>5, <1>a DEF Subscribe, Serve, Take, Periodic
<1>6. ASSUME NEW c \in Configs, Start(c)
      PROVE  Settled(store', now') /\ Armed(store', now')
  <2> DEFINE s == WithdrawULA([EmptyStore(c) EXCEPT !.previous = file])
  <2>1. /\ s \in Store
        /\ s.sources = [x \in Sources |-> Absent] /\ s.cur.lan = {} /\ s.cur.wan = {}
        /\ s.revokedW = {} /\ \A h \in s.revoked : h.stale /\ h.dep
    BY <1>a, StartFields, ZenonT(60)
  <2>2. \/ Recomputed(s, TRUE)
        \/ store' = Timed(s, TRUE) /\ s.revoked = {}
    BY <1>6 DEF Start
  <2>3. now' = now
    BY <1>6 DEF Start
  <2> HIDE DEF s
  <2>4. CASE Recomputed(s, TRUE)
    BY <1>a, <2>1, <2>3, <2>4, RearmedSettled
  <2>5. CASE store' = Timed(s, TRUE) /\ s.revoked = {}
    <3>1. SameLists(store', s) /\ store'.expireAt = NextExpiry(s)
      BY <2>1, <2>5, TimedLists
    <3>2. Settled(s, now) /\ UsedPs(s, now) = {}
      BY <2>1, <2>5, IdleSettled
    <3> QED
      BY <1>a, <2>1, <2>3, <3>1, <3>2, SettledSame, RearmedArmed
  <2> QED
    BY <2>2, <2>4, <2>5
<1>7. CASE Crash
  <2>1. store.conf \in Configs
    BY <1>a DEF Store
  <2> QED
    BY <1>7, <1>a, <2>1, FreshArmed DEF Crash
<1>8. CASE Tick
  BY <1>8, <1>a, TickArmed DEF Tick
<1>9. CASE UNCHANGED vars
  BY <1>9, <1>a DEF vars
<1> QED
  BY <1>1, <1>2, <1>3, <1>4, <1>5, <1>6, <1>7, <1>8, <1>9, Zenon DEF Next

\* ExpiryArmed holds in every reachable state, for any sources, hold and grace: five of the loop's
\* cases may leave the timer alone because, without an update, nothing new is ever withdrawn but
\* what the timer is set for.
THEOREM ExpiryStaysArmed == Spec => []ExpiryArmed
<1>1. ArmedInv => ExpiryArmed
  BY DEF ArmedInv, Armed, By, ExpiryArmed
<1> QED
  BY <1>1, ArmedInit, ArmedNext, PTL DEF Spec

(***************************************************************************)
(* A withdrawn prefix stays for its hold period.                            *)
(***************************************************************************)
\* A hold period that has not ended goes on, or is begun anew from the record.
LEMMA HeldStays ==
    ASSUME now \in Nat, NEW s \in Store, NEW active, NEW e \in s.revoked, Alive(e),
           e.sub \notin active, \A d \in s.cur.lan : d.sub = e.sub => d.dep
    PROVE  \E f \in {h \in Held(s, active) : Alive(h)} :
              f.sub = e.sub /\ (f = e \/ \E a \in s.previous : a.sub = e.sub)
<1> DEFINE kept == {r \in s.revoked : r.sub \notin active}
           gone == GoneSinceRestart(s, active)
           left == GoneFromLAN(s, active)
<1>1. /\ \A h \in gone : FromRecord(h, s, active)
      /\ \A h \in left : FromLAN(h, s, active)
  BY GoneFrom, Zenon
<1>2. e \in kept
  OBVIOUS
<1>3. Held(s, active) = Over(Over(kept, gone, "sub"), left, "sub")
  BY DEF Held
<1> HIDE DEF kept, gone, left
<1>4. \A h \in left : h.sub # e.sub
  BY <1>1 DEF FromLAN
<1>5. \A h \in gone : Alive(h) /\ \E a \in s.previous : a.sub = h.sub
  BY <1>1 DEF FromRecord, Alive
<1>6. CASE \E g \in gone : g.sub = e.sub
  <2>1. PICK g \in gone : g.sub = e.sub
    BY <1>6
  <2>2. g \in Held(s, active)
    BY <1>4, <1>3, <2>1 DEF Over
  <2> QED
    BY <1>5, <2>1, <2>2
<1>7. CASE \A g \in gone : g.sub # e.sub
  <2>1. e \in Held(s, active)
    BY <1>4, <1>2, <1>3, <1>7 DEF Over
  <2> QED
    BY <2>1
<1> QED
  BY <1>6, <1>7

\* So a recompute keeps the /64 in the snapshot, in use or withdrawn.
LEMMA RecomputeHolds ==
    ASSUME now \in Nat, NEW s \in Store, NEW e \in s.revoked, Alive(e),
           \A d \in s.cur.lan : d.sub = e.sub => d.dep
    PROVE  \/ e \in Recompute(s).cur.lan
           \/ \E f \in Recompute(s).cur.lan :
                 f.sub = e.sub /\ (~f.stale \/ \E a \in s.previous : a.sub = e.sub)
<1> DEFINE r      == Recompute(s)
           active == {d.sub : d \in LiveLAN(s)}
<1>1. /\ r.cur.lan = LiveLAN(s) \cup r.revoked
      /\ r.revoked = {h \in Held(s, active) : Alive(h)}
  BY RecomputeFields
<1> HIDE DEF r
<1>2. CASE e.sub \in active
  <2>1. PICK d \in LiveLAN(s) : d.sub = e.sub
    BY <1>2
  <2>2. ~d.stale
    BY LiveBacked
  <2> QED
    BY <1>1, <2>1, <2>2 DEF r
<1>3. CASE e.sub \notin active
  <2> HIDE DEF active
  <2>1. \E f \in r.revoked : f.sub = e.sub /\ (f = e \/ \E a \in s.previous : a.sub = e.sub)
    BY <1>1, <1>3, HeldStays
  <2> QED
    BY <1>1, <2>1 DEF r
<1> QED
  BY <1>2, <1>3

\* Every step while the program runs is a recompute of a store with the same snapshot, or leaves
\* the lists alone.
SameShown(s, r) ==
    /\ s.conf = r.conf /\ s.graceEnd = r.graceEnd /\ s.cur = r.cur /\ s.revoked = r.revoked
    /\ s.revokedW = r.revokedW /\ s.previous = r.previous
    /\ s.pending = r.pending /\ s.pubAt = r.pubAt
OneSource(s, r) == \E x \in Sources : \A y \in Sources \ {x} : s.sources[y] = r.sources[y]

\* Case by case.
LEMMA RunningStep ==
    ASSUME TypeOK, [Next]_vars, up, up'
    PROVE  \/ SameLists(store', store)
           \/ \E s \in Store : /\ SameShown(s, store) /\ SameLists(store', Recompute(s))
                               /\ now' = now /\ OneSource(s, store)
<1> USE DEF TypeOK
<1>1. ASSUME NEW x \in Sources, NEW u \in Offers[x], Set(x, u)
      PROVE  \E s \in Store : /\ SameShown(s, store) /\ SameLists(store', Recompute(s))
                              /\ now' = now /\ OneSource(s, store)
  <2> DEFINE ula == IF x = "pd" THEN {q \in u.ps : q.p \in Private} ELSE {}
             s   == [store EXCEPT !.sources[x] = [u EXCEPT !.ps = AtNow(@ \ ula)],
                                  !.ulaPD = IF x = "pd" THEN AtNow(ula) ELSE @]
  <2>1. s \in Store
    BY SetType
  <2>2. SameShown(s, store) /\ OneSource(s, store)
    BY DEF Store, SameShown, OneSource
  <2>3. Recomputed(s, TRUE) /\ now' = now
    BY <1>1 DEF Set
  <2> HIDE DEF s
  <2> QED
    BY <2>1, <2>2, <2>3, RecomputedLists
<1>2. ASSUME NEW x \in Extras, SetOther(x)
      PROVE  \E s \in Store : /\ SameShown(s, store) /\ SameLists(store', Recompute(s))
                              /\ now' = now /\ OneSource(s, store)
  <2> DEFINE s == [store EXCEPT !.extra = x]
  <2>1. s \in Store
    BY DEF Store
  <2>2. SameShown(s, store) /\ OneSource(s, store)
    BY DEF Store, SameShown, OneSource
  <2>3. Recomputed(s, FALSE) /\ now' = now
    BY <1>2 DEF SetOther
  <2> HIDE DEF s
  <2> QED
    BY <2>1, <2>2, <2>3, RecomputedLists
<1>3. ASSUME Expire
      PROVE  \E s \in Store : /\ SameShown(s, store) /\ SameLists(store', Recompute(s))
                              /\ now' = now /\ OneSource(s, store)
  <2>1. SameShown(store, store) /\ OneSource(store, store)
    BY DEF SameShown, OneSource
  <2>2. Recomputed(store, TRUE) /\ now' = now
    BY <1>3 DEF Expire
  <2> QED
    BY <2>1, <2>2, RecomputedLists
<1>4. ASSUME PubTimer PROVE SameLists(store', store)
  BY <1>4, PublishedLists DEF PubTimer
<1>5. ASSUME NEW c \in Consumers, Subscribe(c) \/ Serve(c) \/ Take(c) \/ Periodic(c)
      PROVE  SameLists(store', store)
  BY <1>5 DEF Subscribe, Serve, Take, Periodic, SameLists
<1>6. ASSUME NEW c \in Configs, Start(c) PROVE FALSE
  BY <1>6 DEF Start
<1>7. ASSUME Crash PROVE FALSE
  BY <1>7 DEF Crash
<1>8. ASSUME Tick PROVE SameLists(store', store)
  BY <1>8 DEF Tick, SameLists
<1>9. ASSUME UNCHANGED vars PROVE SameLists(store', store)
  BY <1>9 DEF vars, SameLists
<1> QED
  BY <1>1, <1>2, <1>3, <1>4, <1>5, <1>6, <1>7, <1>8, <1>9, Zenon DEF Next

\* StaleHeld holds of every behaviour: once withdrawn a /64 is advertised as such until its hold
\* period ends, whatever the sources do, unless it is given or withdrawn again.
THEOREM StaleStaysHeld == Spec => StaleHeld
<1>1. ArmedInv /\ [Next]_vars =>
        (up /\ up' => \A e \in store.cur.lan : e.stale /\ e.valid > now' =>
            \/ e \in store'.cur.lan
            \/ \E f \in store'.cur.lan :
                  f.sub = e.sub /\ (~f.stale \/ \E a \in store.previous : a.sub = e.sub))
  <2> SUFFICES ASSUME ArmedInv, [Next]_vars, up, up', NEW e \in store.cur.lan, e.stale, e.valid > now'
               PROVE  \/ e \in store'.cur.lan
                      \/ \E f \in store'.cur.lan :
                            f.sub = e.sub /\ (~f.stale \/ \E a \in store.previous : a.sub = e.sub)
    OBVIOUS
  <2>1. TypeOK /\ now \in Nat /\ Settled(store, now) /\ OnePerSub(store.cur.lan)
    BY DEF ArmedInv, StoreInv, TypeOK, Consistent
  <2>2. e \in store.revoked /\ e.dep
    BY <2>1 DEF Settled
  <2>3. \A d \in store.cur.lan : d.sub = e.sub => d.dep
    BY <2>1, <2>2 DEF OnePerSub
  <2>4. CASE SameLists(store', store)
    BY <2>4 DEF SameLists
  <2>5. ASSUME NEW s \in Store, SameShown(s, store), SameLists(store', Recompute(s)), now' = now
        PROVE  \/ e \in store'.cur.lan
               \/ \E f \in store'.cur.lan :
                     f.sub = e.sub /\ (~f.stale \/ \E a \in store.previous : a.sub = e.sub)
    <3>1. e \in s.revoked /\ Alive(e) /\ (\A d \in s.cur.lan : d.sub = e.sub => d.dep)
      BY <2>2, <2>3, <2>5 DEF SameShown, Alive
    <3> QED
      BY <2>1, <2>5, <3>1, RecomputeHolds DEF SameLists, SameShown
  <2> QED
    BY <2>1, <2>4, <2>5, RunningStep
<1> QED
  BY <1>1, ArmedInit, ArmedNext, PTL DEF Spec, StaleHeld

(***************************************************************************)
(* The startup grace.                                                       *)
(***************************************************************************)
\* The store an update is recomputed from.
LEMMA SetStore ==
    ASSUME TypeOK, NEW x \in Sources, NEW u \in Offers[x], Set(x, u)
    PROVE  \E s \in Store : /\ SameShown(s, store) /\ Recomputed(s, TRUE) /\ now' = now
                            /\ s.sources[x].set = TRUE
                            /\ \A y \in Sources \ {x} : s.sources[y] = store.sources[y]
                            /\ x # "pd" => s.ulaPD = store.ulaPD
                            /\ Consistent(store) => Consistent(s)
<1> USE DEF TypeOK
<1> DEFINE ula == IF x = "pd" THEN {q \in u.ps : q.p \in Private} ELSE {}
           v   == [u EXCEPT !.ps = AtNow(@ \ ula)]
           s   == [store EXCEPT !.sources[x] = v, !.ulaPD = IF x = "pd" THEN AtNow(ula) ELSE @]
<1>1. s \in Store
  BY SetType
<1>2. Consistent(store) => Consistent(s)
  BY SetConsistent
<1>3. u.set = TRUE
  BY OfferAssumption DEF Update
<1>4. v.set = TRUE
  BY <1>3, OfferAssumption DEF Update
<1>5. Recomputed(s, TRUE) /\ now' = now
  BY DEF Set
<1> HIDE DEF v
<1>6. /\ SameShown(s, store) /\ s.sources = [store.sources EXCEPT ![x] = v]
      /\ s.ulaPD = IF x = "pd" THEN AtNow(ula) ELSE store.ulaPD
  BY DEF Store, SameShown
<1> HIDE DEF s, ula
<1>7. s.sources[x] = v /\ \A y \in Sources \ {x} : s.sources[y] = store.sources[y]
  BY <1>6 DEF Store
<1> QED
  BY <1>1, <1>2, <1>4, <1>5, <1>6, <1>7

\* recompute leaves the sources alone.
LEMMA RecomputeKeeps ==
    ASSUME NEW s \in Store, NEW t, SameLists(t, Recompute(s))
    PROVE  t.conf = s.conf /\ t.sources = s.sources /\ t.ulaPD = s.ulaPD /\ t.graceEnd = s.graceEnd
<1>1. /\ Recompute(s).conf = s.conf /\ Recompute(s).sources = s.sources
      /\ Recompute(s).ulaPD = s.ulaPD /\ Recompute(s).graceEnd = s.graceEnd
  BY RecomputeFields DEF Store
<1> QED
  BY <1>1, Zenon DEF SameLists

\* The grace and the delegated ULA.
GraceOf(s) ==
    /\ s.graceEnd # 0 => Prefer = "pd"
    /\ s.ulaPD # {} => s.sources["pd"].set

\* They are as GraceInv says at first, and after every step.
LEMMA GraceInit == Init => GraceInv
<1> SUFFICES ASSUME Init PROVE GraceInv
  OBVIOUS
<1>1. PICK c \in Configs : store = [EmptyStore(c) EXCEPT !.graceEnd = 0]
  BY DEF Init
<1>2. store.graceEnd = 0 /\ store.ulaPD = {}
  BY <1>1 DEF EmptyStore
<1> QED
  BY <1>2, ArmedInit DEF GraceInv

\* Only a start sets the grace, only the PD client's update the delegated ULA.
LEMMA GraceNext == GraceInv /\ [Next]_vars => GraceInv'
<1> SUFFICES ASSUME GraceInv, [Next]_vars PROVE GraceInv'
  OBVIOUS
<1>0. ArmedInv /\ ArmedInv'
  BY ArmedNext DEF GraceInv
<1> SUFFICES GraceOf(store')
  BY <1>0 DEF GraceInv, GraceOf
<1>a. TypeOK /\ now \in Nat /\ store \in Store /\ file \subseteq Record /\ GraceOf(store)
  BY DEF GraceInv, ArmedInv, StoreInv, TypeOK, GraceOf
<1>1. ASSUME NEW x \in Sources, NEW u \in Offers[x], Set(x, u) PROVE GraceOf(store')
  <2>1. PICK s \in Store : /\ SameShown(s, store) /\ Recomputed(s, TRUE)
                           /\ s.sources[x].set = TRUE
                           /\ \A y \in Sources \ {x} : s.sources[y] = store.sources[y]
                           /\ x # "pd" => s.ulaPD = store.ulaPD
    BY <1>1, <1>a, SetStore
  <2>2. GraceOf(s)
    BY <1>a, <2>1 DEF GraceOf, SameShown
  <2>3. store'.sources = s.sources /\ store'.ulaPD = s.ulaPD /\ store'.graceEnd = s.graceEnd
    BY <1>a, <2>1, RecomputedLists, RecomputeKeeps
  <2> QED
    BY <2>2, <2>3 DEF GraceOf
<1>2. ASSUME NEW x \in Extras, SetOther(x) PROVE GraceOf(store')
  <2> DEFINE s == [store EXCEPT !.extra = x]
  <2>1. s \in Store /\ s.sources = store.sources /\ s.ulaPD = store.ulaPD /\ s.graceEnd = store.graceEnd
    BY <1>a DEF Store
  <2>2. Recomputed(s, FALSE)
    BY <1>2 DEF SetOther
  <2> HIDE DEF s
  <2>3. store'.sources = s.sources /\ store'.ulaPD = s.ulaPD /\ store'.graceEnd = s.graceEnd
    BY <1>a, <2>1, <2>2, RecomputedLists, RecomputeKeeps
  <2> QED
    BY <1>a, <2>1, <2>3 DEF GraceOf
<1>3. CASE Expire
  <2>1. store'.sources = store.sources /\ store'.ulaPD = store.ulaPD /\ store'.graceEnd = store.graceEnd
    BY <1>3, <1>a, RecomputedLists, RecomputeKeeps DEF Expire
  <2> QED
    BY <1>a, <2>1 DEF GraceOf
<1>4. CASE PubTimer
  BY <1>4, <1>a, PublishedLists DEF PubTimer, SameLists, GraceOf
<1>5. ASSUME NEW c \in Consumers, Subscribe(c) \/ Serve(c) \/ Take(c) \/ Periodic(c)
      PROVE  GraceOf(store')
  BY <1>5, <1>a DEF Subscribe, Serve, Take, Periodic
<1>6. ASSUME NEW c \in Configs, Start(c) PROVE GraceOf(store')
  <2> DEFINE s == WithdrawULA([EmptyStore(c) EXCEPT !.previous = file])
  <2>1. s \in Store /\ GraceOf(s)
    BY <1>a, StartFields DEF GraceOf
  <2>2. Recomputed(s, TRUE) \/ store' = Timed(s, TRUE)
    BY <1>6 DEF Start
  <2> HIDE DEF s
  <2>3. store'.sources = s.sources /\ store'.ulaPD = s.ulaPD /\ store'.graceEnd = s.graceEnd
    BY <1>a, <2>1, <2>2, RecomputedLists, RecomputeKeeps, TimedLists, ZenonT(60) DEF SameLists
  <2> QED
    BY <2>1, <2>3 DEF GraceOf
<1>7. CASE Crash
  <2>1. store'.graceEnd = 0 /\ store'.ulaPD = {}
    BY <1>7 DEF Crash, EmptyStore
  <2> QED
    BY <2>1 DEF GraceOf
<1>8. CASE Tick
  BY <1>8, <1>a DEF Tick
<1>9. CASE UNCHANGED vars
  BY <1>9, <1>a DEF vars
<1> QED
  BY <1>1, <1>2, <1>3, <1>4, <1>5, <1>6, <1>7, <1>8, <1>9, Zenon DEF Next

\* A source in effect has concluded.
LEMMA PickedIsSet ==
    ASSUME NEW s \in Store
    PROVE  PickSource(s) = "" \/ s.sources[PickSource(s)].set
<1> DEFINE present == {i \in 1..3 : s.sources[Order[i]].set}
           giving  == {i \in present : s.sources[Order[i]].ps # {}}
<1>0. giving \in SUBSET Nat /\ present \in SUBSET Nat
  <2>1. giving \subseteq 1..3 /\ present \subseteq 1..3
    BY Zenon
  <2> HIDE DEF giving, present
  <2> QED
    BY <2>1
<1>1. giving # {} => Min(giving) \in giving
  BY <1>0, MinInSet
<1>2. present # {} => Min(present) \in present
  BY <1>0, MinInSet
<1>3. \/ giving # {} /\ PickSource(s) = Order[Min(giving)]
      \/ present # {} /\ PickSource(s) = Order[Min(present)]
      \/ PickSource(s) = ""
  BY DEF PickSource
<1> QED
  BY <1>1, <1>2, <1>3

\* During the grace the LAN has the static configuration's prefixes at most, which come first.
LEMMA GraceUses ==
    ASSUME NEW s \in Store, NEW t \in Store, ~s.sources["pd"].set, now < s.graceEnd, Prefer = "pd",
           t.sources["static"] = s.sources["static"], UsedPs(s, now) # {}
    PROVE  UsedPs(t, now) = UsedPs(s, now)
<1>1. PickSource(s) = "static"
  <2>1. PickSource(s) \in Sources \cup {""}
    BY PickType
  <2>2. PickSource(s) # "" /\ PickSource(s) # "ra"
    BY DEF UsedPs, Waiting, LinePs
  <2>3. PickSource(s) # "pd"
    BY <2>2, PickedIsSet
  <2> QED
    BY <2>1, <2>2, <2>3
<1>2. UsedPs(s, now) = s.sources["static"].ps
  BY <1>1 DEF UsedPs, Waiting, LinePs
<1>3. s.sources["static"].set
  BY <1>1, PickedIsSet
<1> DEFINE present == {i \in 1..3 : t.sources[Order[i]].set}
           giving  == {i \in present : t.sources[Order[i]].ps # {}}
<1>4. Order[1] = "static"
  BY DEF Order
<1>5. 1 \in giving
  BY <1>2, <1>3, <1>4
<1>6. Min(giving) \in giving /\ Min(giving) <= 1
  BY <1>5, MinInSet, giving \in SUBSET Nat
<1>7. Min(giving) = 1
  <2>1. giving \subseteq 1..3
    OBVIOUS
  <2> HIDE DEF giving, present
  <2>2. Min(giving) \in 1..3
    BY <1>6, <2>1
  <2> HIDE DEF Order
  <2> QED
    BY <1>6, <2>2
<1>8. PickSource(t) = "static"
  BY <1>4, <1>5, <1>7 DEF PickSource
<1> QED
  BY <1>2, <1>8 DEF UsedPs, Waiting, LinePs

\* EarlyPDRevokesNothing holds of every behaviour: the answer of the DHCPv6 server, coming within
\* the grace, takes from the LAN nothing this run has advertised.
THEOREM EarlyPDIsHarmless == Spec => EarlyPDRevokesNothing
<1>1. GraceInv /\ [Next]_vars =>
        (up /\ up' /\ ~store.sources["pd"].set /\ now < store.graceEnd /\ store'.sources["pd"].set =>
         \A e \in store'.cur.lan : e.stale =>
            e \in store.cur.lan \/ \E a \in store.previous : a.sub = e.sub)
  <2> SUFFICES ASSUME GraceInv, [Next]_vars, up, up', ~store.sources["pd"].set, now < store.graceEnd,
                      store'.sources["pd"].set, NEW e \in store'.cur.lan, e.stale
               PROVE  e \in store.cur.lan \/ \E a \in store.previous : a.sub = e.sub
    OBVIOUS
  <2>1. /\ TypeOK /\ now \in Nat /\ store \in Store /\ store.graceEnd \in Nat
        /\ Settled(store, now) /\ GraceOf(store)
    BY DEF GraceInv, ArmedInv, StoreInv, TypeOK, Store, GraceOf
  <2>2. CASE SameLists(store', store)
    BY <2>2 DEF SameLists
  <2>3. ASSUME NEW s \in Store, SameShown(s, store), SameLists(store', Recompute(s)),
               OneSource(s, store)
        PROVE  e \in store.cur.lan \/ \E a \in store.previous : a.sub = e.sub
    <3> DEFINE r      == Recompute(s)
               active == {d.sub : d \in LiveLAN(s)}
    <3>1. /\ r.cur.lan = LiveLAN(s) \cup r.revoked
          /\ r.revoked = {h \in Held(s, active) : Alive(h)}
      BY RecomputeFields
    <3>2. store'.cur.lan = r.cur.lan
      BY <2>3 DEF SameLists
    <3>3. r \in Store
      BY <2>1, RecomputeType
    <3> HIDE DEF r
    <3>4. e \in r.revoked
      BY <2>1, <3>1, <3>2, LiveBacked
    <3>5. Alive(e) /\ e.valid \in Nat /\ e \in Held(s, active)
      BY <3>1, <3>3, <3>4 DEF Store, LanEntry
    <3>6. CASE e \in s.revoked
      BY <2>1, <2>3, <3>6 DEF Settled, SameShown
    <3>7. CASE FromRecord(e, s, active)
      BY <2>3, <3>7 DEF FromRecord, SameShown
    <3>8. CASE FromLAN(e, s, active)
      <4>1. PICK d \in store.cur.lan : d.sub = e.sub /\ ~d.dep /\ e.valid <= d.valid
        BY <2>3, <3>8 DEF FromLAN, SameShown
      <4>2. Backed(d, store, now) /\ d.sub \in Subnets /\ d.valid \in Nat
        BY <2>1, <4>1 DEF Settled, Store, Snapshot, LanEntry
      <4>3. d.valid > now
        BY <2>1, <3>5, <4>1, <4>2 DEF Alive
      <4>4. Prefer = "pd" /\ store.ulaPD = {}
        BY <2>1 DEF GraceOf
      <4>5. s.sources["static"] = store.sources["static"]
        <5>1. store'.sources = s.sources
          BY <2>3, RecomputeKeeps
        <5>2. s.sources["pd"] # store.sources["pd"]
          BY <5>1
        <5> QED
          BY <2>3, <5>2 DEF OneSource
      <4>6. Backed(d, s, now)
        BY <2>1, <2>3, <4>2, <4>4, <4>5, GraceUses DEF Backed, Gives, Carved, SameShown
      <4>7. d.sub \in active
        BY <2>1, <4>2, <4>3, <4>6, LiveBacked
      <4> QED
        BY <3>8, <4>1, <4>7 DEF FromLAN
    <3> QED
      BY <2>1, <3>5, <3>6, <3>7, <3>8, HeldFrom
  <2> QED
    BY <2>1, <2>2, <2>3, RunningStep
<1> QED
  BY <1>1, GraceInit, GraceNext, PTL DEF Spec, EarlyPDRevokesNothing

(***************************************************************************)
(* Nothing hosts may have is dropped.                                       *)
(***************************************************************************)
\* A prefix in use that is no longer given is withdrawn.
LEMMA LeftHeld ==
    ASSUME now \in Nat, Hold # 0, NEW s \in Store, NEW active, NEW d \in s.cur.lan, ~d.dep,
           d.sub \notin active, d.valid > now
    PROVE  \E f \in {h \in Held(s, active) : Alive(h)} : f.sub = d.sub
<1> DEFINE w    == Withdrawn(d.iface, d.sub, d.src, Earlier(now + Hold, d.valid))
           left == GoneFromLAN(s, active)
<1>1. w \in left
  BY DEF GoneFromLAN
<1>2. left \subseteq Held(s, active)
  BY Zenon DEF Held, Over
<1>3. d.valid \in Nat /\ Hold \in Nat
  BY StoreAssumption DEF Store, Snapshot, LanEntry
<1>4. Earlier(now + Hold, d.valid) > now
  BY <1>3 DEF Earlier
<1>5. w.sub = d.sub /\ w.valid = Earlier(now + Hold, d.valid)
  BY DEF Withdrawn
<1> HIDE DEF w, left
<1> QED
  BY <1>1, <1>2, <1>4, <1>5 DEF Alive

\* One recorded before a restart is withdrawn once the line gives something else.
LEMMA RecordHeld ==
    ASSUME now \in Nat, Hold # 0, NEW s \in Store, NEW active, NEW a \in s.previous,
           a.sub \notin active, a.iface \in s.conf.lans, a.valid > now, Picked(s).ps # {},
           \A d \in s.cur.lan : d.sub # a.sub
    PROVE  \E f \in {h \in Held(s, active) : Alive(h)} : f.sub = a.sub
<1> DEFINE w    == Withdrawn(a.iface, a.sub, IF a.sub[1] \in Private THEN "ula" ELSE "pd",
                             Earlier(now + Hold, a.valid))
           kept == {r \in s.revoked : r.sub \notin active}
           gone == GoneSinceRestart(s, active)
           left == GoneFromLAN(s, active)
<1>1. a.valid \in Nat /\ Hold \in Nat
  BY StoreAssumption DEF Store, Record
<1>2. Earlier(now + Hold, a.valid) > now
  BY <1>1 DEF Earlier
<1>3. w \in gone
  BY <1>2 DEF GoneSinceRestart
<1>4. \A h \in left : FromLAN(h, s, active)
  BY GoneFrom, Zenon
<1>5. Held(s, active) = Over(Over(kept, gone, "sub"), left, "sub")
  BY DEF Held
<1>6. w.sub = a.sub /\ w.valid = Earlier(now + Hold, a.valid)
  BY DEF Withdrawn
<1> HIDE DEF w, kept, gone, left
<1>7. \A h \in left : h.sub # a.sub
  BY <1>4 DEF FromLAN
<1>8. w \in Held(s, active)
  BY <1>3, <1>5, <1>6, <1>7 DEF Over
<1> QED
  BY <1>2, <1>6, <1>8 DEF Alive

\* What a recompute owes the hosts is in the snapshot, or still on record, after it.
LEMMA RecomputeAccounts ==
    ASSUME now \in Nat, Hold # 0, NEW s \in Store, OnePerSub(s.cur.lan),
           \A e \in s.cur.lan : e.stale => e \in s.revoked /\ e.dep,
           NEW a, a.valid > now, a.iface \in s.conf.lans,
           \/ a \in s.cur.lan /\ (~a.dep \/ a.stale)
           \/ a \in s.previous /\ \A e \in s.cur.lan : e.sub # a.sub
    PROVE  Accounted(a, Recompute(s))
<1> DEFINE r      == Recompute(s)
           active == {d.sub : d \in LiveLAN(s)}
<1>1. /\ r.cur.lan = LiveLAN(s) \cup r.revoked
      /\ r.revoked = {h \in Held(s, active) : Alive(h)}
      /\ r.previous = IF Picked(s).ps # {} THEN {} ELSE s.previous
  BY RecomputeFields
<1> HIDE DEF r
<1>2. CASE a.sub \in active
  <2>1. PICK d \in LiveLAN(s) : d.sub = a.sub
    BY <1>2
  <2> QED
    BY <1>1, <2>1 DEF Accounted, r
<1> HIDE DEF active
<1>3. CASE a.sub \notin active /\ a \in s.cur.lan /\ a.stale
  <2>1. a \in s.revoked /\ Alive(a) /\ \A d \in s.cur.lan : d.sub = a.sub => d.dep
    BY <1>3 DEF OnePerSub, Alive
  <2>2. \E f \in r.revoked : f.sub = a.sub
    BY <1>1, <1>3, <2>1, HeldStays
  <2> QED
    BY <1>1, <2>2 DEF Accounted, r
<1>4. CASE a.sub \notin active /\ a \in s.cur.lan /\ ~a.dep
  <2>1. \E f \in r.revoked : f.sub = a.sub
    BY <1>1, <1>4, LeftHeld
  <2> QED
    BY <1>1, <2>1 DEF Accounted, r
<1>5. CASE /\ a.sub \notin active /\ a \in s.previous /\ \A e \in s.cur.lan : e.sub # a.sub
           /\ Picked(s).ps # {}
  <2>1. \E f \in r.revoked : f.sub = a.sub
    BY <1>1, <1>5, RecordHeld
  <2> QED
    BY <1>1, <2>1 DEF Accounted, r
<1>6. CASE a \in s.previous /\ Picked(s).ps = {}
  BY <1>1, <1>6 DEF Accounted, r
<1> QED
  BY <1>2, <1>3, <1>4, <1>5, <1>6

\* This router's own ULA, live, is one; the record knows it by that.
OwnOK(lan) == \A e \in lan : IsOwnUla(e) /\ ~e.stale => e.sub[1] \in Private

\* A recompute lists it so.
LEMMA RecomputeOwn ==
    ASSUME now \in Nat, NEW s \in Store, \A h \in s.revoked : h.stale = TRUE
    PROVE  OwnOK(Recompute(s).cur.lan)
<1> DEFINE r      == Recompute(s)
           active == {d.sub : d \in LiveLAN(s)}
<1>1. /\ r.cur.lan = LiveLAN(s) \cup r.revoked
      /\ r.revoked = {h \in Held(s, active) : Alive(h)}
  BY RecomputeFields
<1> HIDE DEF r
<1>2. \A h \in r.revoked : h.stale = TRUE
  BY <1>1, HeldFrom DEF FromRecord, FromLAN
<1>3. s.conf.ula \subseteq Private
  BY ConfigAssumption DEF Store
<1>4. \A e \in LiveLAN(s) : IsOwnUla(e) => e.sub[1] \in Private
  BY <1>3, LiveBacked
<1>5. OwnOK(r.cur.lan)
  BY <1>1, <1>2, <1>4 DEF OwnOK
<1> QED
  BY <1>5 DEF r

\* publish keeps the file's recall of what was told, whether the write succeeds or fails.
RecallOK(ts, fs) == \A a \in ts : a.rec => \E b \in fs : Recalls(b, a)

\* By the record of each entry.
LEMMA PublishRecalled ==
    ASSUME NEW s \in Store, OwnOK(s.cur.lan), Publish(s), RecallOK(told, file)
    PROVE  RecallOK(told', file')
<1> DEFINE R(e) == [iface |-> e.iface, sub |-> e.sub, deleg |-> e.deleg,
                    valid |-> IF IsOwnUla(e) /\ ~e.stale THEN 0 ELSE e.valid]
           T(e, ok) == [iface |-> e.iface, sub |-> e.sub, pref |-> e.pref, valid |-> e.valid,
                        rec |-> ok]
<1>1. \A e \in s.cur.lan : R(e) \in Recorded(s.cur.lan)
  BY DEF Recorded
<1>2. \A ok : \A a \in Told(s.cur.lan, ok) : \E e \in s.cur.lan : a = T(e, ok)
  BY DEF Told
<1>3. \A e \in s.cur.lan : Recalls(R(e), T(e, TRUE))
  <2> SUFFICES ASSUME NEW e \in s.cur.lan PROVE Recalls(R(e), T(e, TRUE))
    OBVIOUS
  <2>1. /\ R(e).sub = T(e, TRUE).sub /\ R(e).iface = T(e, TRUE).iface
        /\ T(e, TRUE).valid = e.valid /\ R(e).deleg = e.deleg /\ R(e).sub = e.sub
        /\ R(e).valid = IF IsOwnUla(e) /\ ~e.stale THEN 0 ELSE e.valid
    OBVIOUS
  <2>2. IsOwnUla(e) /\ ~e.stale => e.sub[1] \in Private /\ ~e.deleg
    BY DEF OwnOK, IsOwnUla
  <2> HIDE DEF R, T
  <2> QED
    BY <2>1, <2>2 DEF Recalls
<1>4. \A e, ok : T(e, ok).rec = ok
  OBVIOUS
<1> HIDE DEF R, T
<1>5. PICK ok \in BOOLEAN :
         \/ file' = (IF ok THEN Recorded(s.cur.lan) ELSE file) /\ told' = Told(s.cur.lan, ok)
         \/ /\ file' = file
            /\ told' = {a \in told : \A e \in s.cur.lan : e.sub # a.sub} \cup Told(s.cur.lan, FALSE)
  <2>1. {TRUE} \cup (IF SaveFails THEN {FALSE} ELSE {}) \subseteq BOOLEAN
    OBVIOUS
  <2> QED
    BY <2>1, Zenon DEF Publish
<1>6. \A a \in Told(s.cur.lan, FALSE) : a.rec = FALSE
  BY DEF Told
<1>7. \A a \in Told(s.cur.lan, TRUE) : \E b \in Recorded(s.cur.lan) : Recalls(b, a)
  BY <1>1, <1>2, <1>3
<1> QED
  BY <1>5, <1>6, <1>7 DEF RecallOK

\* recompute and what follows it.
LEMMA RecomputedRecalled ==
    ASSUME now \in Nat, NEW s \in Store, NEW rearm \in BOOLEAN, Recomputed(s, rearm),
           \A h \in s.revoked : h.stale = TRUE, RecallOK(told, file)
    PROVE  OwnOK(store'.cur.lan) /\ RecallOK(told', file')
<1> DEFINE r == Recompute(s)
<1>1. r \in Store /\ OwnOK(r.cur.lan)
  BY RecomputeType, RecomputeOwn
<1>2. SameLists(store', r)
  BY RecomputedLists
<1>3. (told' = told /\ file' = file) \/ Publish(r)
  BY Zenon DEF Recomputed, Concluded
<1> HIDE DEF r
<1> QED
  BY <1>1, <1>2, <1>3, PublishRecalled DEF SameLists

\* The record's part of the invariant, at first and after every step.
LEMMA RecordInit == Init => RecordInv
<1> SUFFICES ASSUME Init PROVE RecordInv
  OBVIOUS
<1>1. PICK c \in Configs : store = [EmptyStore(c) EXCEPT !.graceEnd = 0]
  BY DEF Init
<1>2. store.cur.lan = {} /\ told = {}
  BY <1>1 DEF Init, EmptyStore, NoSnapshot
<1> QED
  BY <1>2, ArmedInit DEF RecordInv

\* Only publish changes the file.
LEMMA RecordNext == RecordInv /\ [Next]_vars => RecordInv'
<1> SUFFICES ASSUME RecordInv, [Next]_vars PROVE RecordInv'
  OBVIOUS
<1>0. ArmedInv /\ ArmedInv'
  BY ArmedNext DEF RecordInv
<1> SUFFICES OwnOK(store'.cur.lan) /\ RecallOK(told', file')
  BY <1>0 DEF RecordInv, OwnOK, RecallOK
<1>a. /\ TypeOK /\ now \in Nat /\ store \in Store /\ file \subseteq Record
      /\ OwnOK(store.cur.lan) /\ RecallOK(told, file) /\ Settled(store, now)
  BY DEF RecordInv, ArmedInv, StoreInv, TypeOK, OwnOK, RecallOK
<1>b. \A h \in store.revoked : h.stale = TRUE
  BY <1>a DEF Settled, Store, LanEntry
<1>1. ASSUME NEW x \in Sources, NEW u \in Offers[x], Set(x, u)
      PROVE  OwnOK(store'.cur.lan) /\ RecallOK(told', file')
  <2>1. PICK s \in Store : SameShown(s, store) /\ Recomputed(s, TRUE)
    BY <1>1, <1>a, SetStore
  <2>2. \A h \in s.revoked : h.stale = TRUE
    BY <1>b, <2>1 DEF SameShown
  <2> QED
    BY <1>a, <2>1, <2>2, RecomputedRecalled
<1>2. ASSUME NEW x \in Extras, SetOther(x)
      PROVE  OwnOK(store'.cur.lan) /\ RecallOK(told', file')
  <2> DEFINE s == [store EXCEPT !.extra = x]
  <2>1. s \in Store /\ s.revoked = store.revoked
    BY <1>a DEF Store
  <2>2. Recomputed(s, FALSE)
    BY <1>2 DEF SetOther
  <2> HIDE DEF s
  <2> QED
    BY <1>a, <1>b, <2>1, <2>2, RecomputedRecalled
<1>3. CASE Expire
  BY <1>3, <1>a, <1>b, RecomputedRecalled DEF Expire
<1>4. CASE PubTimer
  BY <1>4, <1>a, PublishedLists, PublishRecalled DEF PubTimer, SameLists
<1>5. ASSUME NEW c \in Consumers, Subscribe(c) \/ Serve(c) \/ Take(c) \/ Periodic(c)
      PROVE  OwnOK(store'.cur.lan) /\ RecallOK(told', file')
  BY <1>5, <1>a DEF Subscribe, Serve, Take, Periodic
<1>6. ASSUME NEW c \in Configs, Start(c)
      PROVE  OwnOK(store'.cur.lan) /\ RecallOK(told', file')
  <2> DEFINE s == WithdrawULA([EmptyStore(c) EXCEPT !.previous = file])
  <2>1. s \in Store /\ s.cur.lan = {} /\ \A h \in s.revoked : h.stale = TRUE
    BY <1>a, StartFields
  <2>2. Recomputed(s, TRUE) \/ (store' = Timed(s, TRUE) /\ file' = file /\ told' = told)
    BY <1>6 DEF Start
  <2> HIDE DEF s
  <2>3. CASE Recomputed(s, TRUE)
    BY <1>a, <2>1, <2>3, RecomputedRecalled
  <2>4. CASE store' = Timed(s, TRUE) /\ file' = file /\ told' = told
    BY <1>a, <2>1, <2>4, TimedLists DEF SameLists, OwnOK
  <2> QED
    BY <2>2, <2>3, <2>4
<1>7. CASE Crash
  <2>1. store'.cur.lan = {} /\ file' = file /\ told' = told
    BY <1>7 DEF Crash, EmptyStore, NoSnapshot
  <2> QED
    BY <1>a, <2>1 DEF OwnOK
<1>8. CASE Tick
  BY <1>8, <1>a DEF Tick
<1>9. CASE UNCHANGED vars
  BY <1>9, <1>a DEF vars
<1> QED
  BY <1>1, <1>2, <1>3, <1>4, <1>5, <1>6, <1>7, <1>8, <1>9, Zenon DEF Next

\* withdrawULA withdraws every recorded ULA of this router's that -ula does not give again.
LEMMA StartWithdraws ==
    ASSUME now \in Nat, Hold # 0, NEW c \in Configs, file \subseteq Record, NEW s,
           s = WithdrawULA([EmptyStore(c) EXCEPT !.previous = file]),
           NEW b \in file, b.sub[1] \in Private, ~b.deleg, b.iface \in c.lans,
           b.valid = 0 \/ b.valid > now
    PROVE  \/ /\ b.sub[1] \in c.ula /\ c.index[b.iface] < Size[b.sub[1]]
              /\ b.sub[2] = c.index[b.iface]
           \/ \E h \in s.revoked : h.sub = b.sub /\ Alive(h)
<1> DEFINE s0       == [EmptyStore(c) EXCEPT !.previous = file]
           own      == {a \in s0.previous : a.sub[1] \in Private /\ ~a.deleg}
           given(a) == /\ a.sub[1] \in s0.conf.ula
                       /\ s0.conf.index[a.iface] < Size[a.sub[1]]
                       /\ a.sub[2] = s0.conf.index[a.iface]
           until(a) == IF a.valid = 0 THEN now + Hold ELSE Earlier(now + Hold, a.valid)
           W(a)     == Withdrawn(a.iface, a.sub, "ula", until(a))
           bs       == {a \in own : a.iface \in s0.conf.lans /\ ~given(a) /\ until(a) > now}
<1>1. s0.previous = file /\ s0.conf = c
  BY DEF EmptyStore
<1>2. s0 \in Store
  <2>1. EmptyStore(c) \in Store
    BY EmptyStoreType
  <2>2. \A e \in Store : [e EXCEPT !.previous = file] \in Store
    BY DEF Store
  <2> QED
    BY <2>1, <2>2
<1> HIDE DEF s0
<1>3. s = [s0 EXCEPT !.previous = @ \ own, !.revoked = {W(a) : a \in bs}]
  BY Zenon DEF WithdrawULA, s0
<1>4. b.valid \in Nat /\ Hold \in Nat
  BY StoreAssumption DEF Record
<1>5. until(b) > now
  BY <1>4 DEF Earlier
<1>6. W(b).sub = b.sub /\ W(b).valid = until(b)
  BY DEF Withdrawn
<1>7. b \in own
  BY <1>1
<1> HIDE DEF W, own, until
<1>8. CASE ~given(b)
  <2>1. b \in bs
    BY <1>1, <1>5, <1>7, <1>8
  <2> HIDE DEF bs
  <2>2. s.revoked = {W(a) : a \in bs}
    BY <1>2, <1>3 DEF Store
  <2>3. W(b) \in s.revoked
    BY <2>1, <2>2
  <2> QED
    BY <1>5, <1>6, <2>3 DEF Alive
<1>9. CASE given(b)
  BY <1>1, <1>9
<1> QED
  BY <1>8, <1>9

\* A start accounts for what the file recalls.
LEMMA StartAccounts ==
    ASSUME now \in Nat, Hold # 0, NEW c \in Configs, file \subseteq Record, Start(c),
           NEW b \in file, NEW a, Recalls(b, a), a.valid > now, a.iface \in c.lans
    PROVE  Accounted(a, store')
<1> DEFINE s == WithdrawULA([EmptyStore(c) EXCEPT !.previous = file])
<1>1. /\ s \in Store /\ s.conf = c /\ s.sources = [x \in Sources |-> Absent] /\ s.cur.lan = {}
      /\ \A d \in file : ~(d.sub[1] \in Private /\ ~d.deleg) => d \in s.previous
  BY StartFields, ZenonT(60)
<1>2. \/ Recomputed(s, TRUE)
      \/ store' = Timed(s, TRUE) /\ s.revoked = {} /\ c.ula = {}
  BY DEF Start
<1>3. b.sub[1] \in Private /\ ~b.deleg =>
        \/ /\ b.sub[1] \in c.ula /\ c.index[b.iface] < Size[b.sub[1]]
           /\ b.sub[2] = c.index[b.iface]
        \/ \E h \in s.revoked : h.sub = b.sub /\ Alive(h)
  <2> SUFFICES ASSUME b.sub[1] \in Private, ~b.deleg
               PROVE  \/ /\ b.sub[1] \in c.ula /\ c.index[b.iface] < Size[b.sub[1]]
                         /\ b.sub[2] = c.index[b.iface]
                      \/ \E h \in s.revoked : h.sub = b.sub /\ Alive(h)
    OBVIOUS
  <2>1. b.iface \in c.lans /\ (b.valid = 0 \/ b.valid > now)
    BY DEF Recalls
  <2> QED
    BY <2>1, StartWithdraws
<1>4. b.sub = a.sub /\ b.iface = a.iface /\ b.sub \in Subnets
  BY DEF Recalls, Record
<1> HIDE DEF s
<1> DEFINE r      == Recompute(s)
           active == {d.sub : d \in LiveLAN(s)}
<1>5. Recomputed(s, TRUE) => SameLists(store', r)
  BY <1>1, RecomputedLists
<1>6. /\ r.cur.lan = LiveLAN(s) \cup r.revoked
      /\ r.revoked = {h \in Held(s, active) : Alive(h)}
      /\ r.previous = IF Picked(s).ps # {} THEN {} ELSE s.previous
  BY <1>1, RecomputeFields
<1>7. Picked(s).ps = {}
  BY <1>1, PickedPs, IdleSettled
<1> HIDE DEF r
<1>8. CASE ~(b.sub[1] \in Private /\ ~b.deleg)
  <2>1. b \in s.previous
    BY <1>1, <1>8
  <2>2. store'.previous = s.previous
    BY <1>1, <1>2, <1>5, <1>6, <1>7, TimedLists DEF SameLists
  <2> QED
    BY <1>4, <2>1, <2>2 DEF Accounted
<1>9. CASE b.sub[1] \in c.ula /\ c.index[b.iface] < Size[b.sub[1]] /\ b.sub[2] = c.index[b.iface]
  <2> DEFINE e == [sub |-> b.sub, iface |-> b.iface, valid |-> now + 1]
  <2>1. e.sub = b.sub /\ e.iface = b.iface /\ e.valid = now + 1
    OBVIOUS
  <2> HIDE DEF e
  <2>2. Backed(e, s, now)
    BY <1>1, <1>4, <1>9, <2>1 DEF Backed, Carved
  <2>3. \E d \in LiveLAN(s) : d.sub = e.sub
    BY <1>1, <1>4, <2>1, <2>2, LiveBacked
  <2>4. store'.cur.lan = r.cur.lan
    BY <1>2, <1>5, <1>9 DEF SameLists
  <2> QED
    BY <1>4, <1>6, <2>1, <2>3, <2>4 DEF Accounted
<1>10. CASE \E h \in s.revoked : h.sub = b.sub /\ Alive(h)
  <2>1. PICK h \in s.revoked : h.sub = b.sub /\ Alive(h)
    BY <1>10
  <2>2. \E f \in r.cur.lan : f.sub = h.sub
    BY <1>1, <2>1, RecomputeHolds DEF r
  <2>3. store'.cur.lan = r.cur.lan
    BY <1>2, <1>5, <2>1 DEF SameLists
  <2> QED
    BY <1>4, <2>1, <2>2, <2>3 DEF Accounted
<1> QED
  BY <1>3, <1>8, <1>9, <1>10

\* NothingDropped holds of every behaviour, for any sources, lifetimes, changes of -ula and -lan
\* at a restart and failed writes of the file, as long as withdrawals are held at all.
THEOREM NothingIsDropped ==
    ASSUME Hold # 0
    PROVE  Spec => NothingDropped
<1>1. RecordInv /\ [Next]_vars =>
        (up' => \A a \in Owed : a.valid > now' /\ a.iface \in store'.conf.lans
                                  => Accounted(a, store'))
  <2> SUFFICES ASSUME RecordInv, [Next]_vars, up', NEW a \in Owed, a.valid > now',
                      a.iface \in store'.conf.lans
               PROVE  Accounted(a, store')
    OBVIOUS
  <2>1. /\ TypeOK /\ now \in Nat /\ store \in Store /\ file \subseteq Record /\ up \in BOOLEAN
        /\ Settled(store, now) /\ OnePerSub(store.cur.lan) /\ RecallOK(told, file)
    BY DEF RecordInv, ArmedInv, StoreInv, TypeOK, Consistent, RecallOK
  <2>2. CASE up
    <3>1. \/ a \in store.cur.lan /\ (~a.dep \/ a.stale)
          \/ a \in store.previous /\ \A e \in store.cur.lan : e.sub # a.sub
      BY <2>2 DEF Owed
    <3>2. CASE SameLists(store', store)
      BY <3>1, <3>2 DEF SameLists, Accounted
    <3>3. ASSUME NEW s \in Store, SameShown(s, store), SameLists(store', Recompute(s)), now' = now
          PROVE  Accounted(a, store')
      <4>1. \A e \in s.cur.lan : e.stale => e \in s.revoked /\ e.dep
        BY <2>1, <3>3 DEF Settled, SameShown
      <4>2. OnePerSub(s.cur.lan) /\ a.valid > now
        BY <2>1, <3>3 DEF SameShown
      <4>3. a.iface \in s.conf.lans
        BY <3>3, RecomputeKeeps
      <4>4. \/ a \in s.cur.lan /\ (~a.dep \/ a.stale)
            \/ a \in s.previous /\ \A e \in s.cur.lan : e.sub # a.sub
        BY <3>1, <3>3 DEF SameShown
      <4>5. Accounted(a, Recompute(s))
        BY <2>1, <4>1, <4>2, <4>3, <4>4, RecomputeAccounts
      <4> QED
        BY <3>3, <4>5 DEF Accounted, SameLists
    <3> QED
      BY <2>1, <2>2, <3>2, <3>3, RunningStep
  <2>3. CASE ~up
    <3>1. PICK c \in Configs : Start(c)
      BY <2>3 DEF Next, Set, SetOther, Expire, PubTimer, Subscribe, Serve, Take, Periodic, Crash,
                  Tick, vars
    <3>2. PICK b \in file : Recalls(b, a)
      BY <2>1, <2>3 DEF Owed, RecallOK
    <3>3. store'.conf = c /\ now' = now
      <4> DEFINE s == WithdrawULA([EmptyStore(c) EXCEPT !.previous = file])
      <4>1. s \in Store /\ s.conf = c
        BY <2>1, StartFields
      <4>2. now' = now /\ (Recomputed(s, TRUE) \/ store' = Timed(s, TRUE))
        BY <3>1 DEF Start
      <4> HIDE DEF s
      <4> QED
        BY <2>1, <4>1, <4>2, RecomputedLists, RecomputeKeeps, TimedLists DEF SameLists
    <3> QED
      BY <2>1, <3>1, <3>2, <3>3, StartAccounts
  <2> QED
    BY <2>1, <2>2, <2>3
<1> QED
  BY <1>1, RecordInit, RecordNext, PTL DEF Spec, NothingDropped

(***************************************************************************)
(* No consumer is left behind.                                              *)
(***************************************************************************)
\* The ULA prefixes of -ula reach the LAN as this router's own alone.
LEMMA LiveOwn ==
    ASSUME now \in Nat, NEW s \in Store, Consistent(s)
    PROVE  /\ \A e \in LiveLAN(s) : e.sub[1] \in s.conf.ula <=> IsOwnUla(e)
           /\ \A e \in LiveLAN(s) : IsOwnUla(e) => e.dep = (UlaPref = 0)
<1> DEFINE line == Split(s, Picked(s).ps, FALSE)
           own  == Split(s, OwnUla(s), FALSE)
           deq  == {[q EXCEPT !.src = "ula"] : q \in s.ulaPD}
           del  == Split(s, deq, TRUE)
<1>1. LiveLAN(s) = line \cup (IF s.conf.ula # {} THEN own ELSE del)
  BY DEF LiveLAN
<1>2. s.conf.ula \subseteq Private
  BY ConfigAssumption DEF Store
<1>3. \A q \in Picked(s).ps : q.p \notin Private
  <2>1. Picked(s).ps \subseteq LinePs(s)
    BY PickedPs DEF UsedPs
  <2>2. LinePs(s) = {} \/ \E x \in Sources : LinePs(s) = s.sources[x].ps
    BY PickType DEF LinePs
  <2> QED
    BY <2>1, <2>2 DEF Consistent
<1>4. \A q \in OwnUla(s) : q.src = "ula"
  BY DEF OwnUla
<1>5. /\ \A e \in line : \E q \in Picked(s).ps : IsOf(e, q, s, FALSE)
      /\ \A e \in own : \E q \in OwnUla(s) : IsOf(e, q, s, FALSE)
  BY SplitFacts, Zenon
<1>6. /\ \A e \in LiveLAN(s) : IsOwnUla(e) => /\ e.sub[1] \in s.conf.ula
                                              /\ e.dep = (now + UlaPref <= now)
  BY LiveBacked
<1>7. (now + UlaPref <= now) = (UlaPref = 0)
  BY StoreAssumption
<1> HIDE DEF line, own, del
<1>8. ASSUME NEW e \in LiveLAN(s), e.sub[1] \in s.conf.ula PROVE IsOwnUla(e)
  <2>1. e \notin line
    BY <1>2, <1>3, <1>5, <1>8 DEF IsOf
  <2>2. e \in own
    BY <1>1, <1>8, <2>1
  <2>3. PICK q \in OwnUla(s) : IsOf(e, q, s, FALSE)
    BY <1>5, <2>2
  <2> QED
    BY <1>4, <2>3 DEF IsOf, IsOwnUla
<1> QED
  BY <1>6, <1>7, <1>8

\* recompute lists them so.
LEMMA RecomputeOwnEntries ==
    ASSUME now \in Nat, NEW s \in Store, Consistent(s), \A h \in s.revoked : h.stale /\ h.dep,
           \A h \in s.revokedW : h.dep
    PROVE  OwnEntries(Recompute(s))
<1> DEFINE r      == Recompute(s)
           active == {d.sub : d \in LiveLAN(s)}
<1>1. /\ r.cur.lan = LiveLAN(s) \cup r.revoked /\ r.conf = s.conf
      /\ r.revoked = {h \in Held(s, active) : Alive(h)}
  BY RecomputeFields DEF Store
<1>2. Settled(r, now) /\ r \in Store
  BY RecomputeSettled, RecomputeType
<1> HIDE DEF r
<1>3. \A h \in r.revoked : h.sub \notin active /\ h.stale /\ h.sub \in Subnets
  BY <1>1, <1>2, HeldOnePerSub DEF Settled, Store, LanEntry
<1>4. ASSUME NEW h \in r.revoked, h.sub[1] \in s.conf.ula, NEW l \in s.conf.lans, Carved(h.sub, l, s)
      PROVE  FALSE
  <2> DEFINE e == [sub |-> h.sub, iface |-> l, valid |-> now + 1]
  <2>1. e.sub = h.sub /\ e.iface = l /\ e.valid = now + 1
    OBVIOUS
  <2> HIDE DEF e
  <2>2. Backed(e, s, now)
    BY <1>4, <2>1 DEF Backed
  <2>3. \E d \in LiveLAN(s) : d.sub = e.sub
    BY <1>3, <2>1, <2>2, LiveBacked
  <2> QED
    BY <1>3, <2>1, <2>3
<1>5. \A l, sub : Carved(sub, l, r) = Carved(sub, l, s)
  BY <1>1 DEF Carved
<1>6. \A e \in LiveLAN(s) : ~e.stale
  BY LiveBacked
<1>7. /\ \A e \in LiveLAN(s) : e.sub[1] \in s.conf.ula <=> IsOwnUla(e)
      /\ \A e \in LiveLAN(s) : IsOwnUla(e) => e.dep = (UlaPref = 0)
  BY LiveOwn
<1>8. OwnEntries(r)
  <2> SUFFICES ASSUME NEW e \in r.cur.lan
               PROVE  IF e.stale
                      THEN ~(e.sub[1] \in r.conf.ula /\ \E l \in r.conf.lans : Carved(e.sub, l, r))
                      ELSE /\ e.sub[1] \in r.conf.ula <=> IsOwnUla(e)
                           /\ IsOwnUla(e) => e.dep = (UlaPref = 0)
    BY DEF OwnEntries
  <2>1. CASE e \in LiveLAN(s)
    BY <1>1, <1>6, <1>7, <2>1
  <2>2. CASE e \in r.revoked
    BY <1>1, <1>3, <1>4, <1>5, <2>2
  <2> QED
    BY <1>1, <2>1, <2>2
<1> QED
  BY <1>8 DEF r

\* The change a recompute finds, and adds to the pending one.
LEMMA RecomputeChange ==
    ASSUME NEW s \in Store, NEW r, r = Recompute(s)
    PROVE  LET active == {e.sub : e \in LiveLAN(s)} IN
           /\ r.pending = Stronger(r.cur.change, s.pending) /\ r.pubAt = s.pubAt
           /\ \/ r.cur.change = Revoke
              \/ /\ GoneSinceRestart(s, active) = {} /\ GoneFromLAN(s, active) = {}
                 /\ \E d : d.lan = r.cur.lan /\ r.cur.change = Classify(s.cur, d)
<1> DEFINE lan      == LiveLAN(s)
           wan      == LiveWAN(s)
           active   == {e.sub : e \in lan}
           held     == Held(s, active)
           heldW    == HeldW(s, {w.p : w \in wan})
           revoked  == {h \in held : Alive(h)}
           revokedW == {h \in heldW : Alive(h)}
           pdPending == /\ ~s.sources["pd"].set
                        /\ s.sources["ra"].dhcp6 /\ now < s.graceEnd
           draft    == [source |-> PickSource(s), lan |-> lan \cup revoked,
                        wan |-> wan \cup revokedW,
                        subnet |-> WanSubnet(s, lan \cup revoked, wan \cup revokedW),
                        info |-> Info(s), extra |-> s.extra,
                        noRouter |-> s.sources["ra"].noRouter,
                        pdPending |-> pdPending, change |-> None]
           withdraws == \/ GoneSinceRestart(s, active) # {}
                        \/ GoneFromLAN(s, active) # {}
                        \/ held # revoked \/ heldW # revokedW
           change   == IF withdraws THEN Revoke ELSE Classify(s.cur, draft)
           cur      == [draft EXCEPT !.change = change]
<1>1. r = [s EXCEPT !.cur = cur, !.revoked = revoked, !.revokedW = revokedW,
                    !.previous = IF Picked(s).ps # {} THEN {} ELSE @,
                    !.pending = Stronger(change, @)]
  BY DEF Recompute
<1> HIDE DEF lan, wan, active, held, heldW, revoked, revokedW, pdPending
<1>2. cur.lan = draft.lan /\ cur.change = change
  BY Zenon
<1> HIDE DEF cur
<1>3. r.cur = cur /\ r.pending = Stronger(change, s.pending) /\ r.pubAt = s.pubAt
  BY <1>1 DEF Store
<1>4. change = Revoke \/ (change = Classify(s.cur, draft) /\ ~withdraws)
  BY Zenon
<1> HIDE DEF draft, change
<1> QED
  BY <1>2, <1>3, <1>4 DEF active, lan

\* What Classify's answer says of a LAN prefix of the new snapshot.
LEMMA ClassifyFacts ==
    ASSUME NEW old, NEW d, Classify(old, d) # Add, NEW e \in d.lan,
           NEW os, os = {o \in old.lan : o.sub = e.sub}
    PROVE  /\ IsOwnUla(e) => os # {}
           /\ ~IsOwnUla(e) => ~Appears(e, os)
           /\ Classify(old, d) # Renew /\ ~IsOwnUla(e) => ~Relifed(e, os)
<1> DEFINE oldLAN(x) == {o \in old.lan : o.sub = x.sub}
           oldWAN(w) == {o \in old.wan : o.p = w.p /\ o.src = w.src}
           adds == \/ \E x \in d.lan : IF IsOwnUla(x) THEN oldLAN(x) = {} ELSE Appears(x, oldLAN(x))
                   \/ \E w \in d.wan : Appears(w, oldWAN(w))
           renews == \/ \E x \in d.lan : ~IsOwnUla(x) /\ Relifed(x, oldLAN(x))
                     \/ \E w \in d.wan : Relifed(w, oldWAN(w))
                     \/ <<old.subnet, old.info, old.extra, old.noRouter, old.pdPending>>
                          # <<d.subnet, d.info, d.extra, d.noRouter, d.pdPending>>
<1>1. Classify(old, d) = IF adds THEN Add ELSE IF renews THEN Renew ELSE None
  BY Zenon DEF Classify
<1>2. os = oldLAN(e)
  OBVIOUS
<1>3. ((IsOwnUla(e) /\ os = {}) \/ (~IsOwnUla(e) /\ Appears(e, os))) => adds
  BY <1>2, Zenon
<1>4. ~IsOwnUla(e) /\ Relifed(e, os) => renews
  BY <1>2, Zenon
<1> HIDE DEF adds, renews, oldLAN
<1>5. ~adds
  BY <1>1
<1>6. Classify(old, d) # Renew => ~renews
  BY <1>1, <1>5
<1> QED
  BY <1>3, <1>4, <1>5, <1>6

\* What the invariant says of the snapshot of a store that is about to recompute.
ShownOK(s) ==
    /\ Consistent(s) /\ OwnEntries(s)
    /\ s.revoked \subseteq s.cur.lan
    /\ \A h \in s.revoked : h.stale /\ h.dep
    /\ \A h \in s.revokedW : h.dep
    /\ \A e \in s.cur.lan : IF e.stale THEN e \in s.revoked ELSE Carved(e.sub, e.iface, s)

\* A change that is no more than new lifetimes brings no prefix into use, and withdraws none.
LEMMA QuietShown ==
    ASSUME now \in Nat, NEW s \in Store, ShownOK(s), NEW r, r = Recompute(s),
           r.cur.change \notin {Add, Revoke}, NEW e \in r.cur.lan
    PROVE  /\ e.stale => e \in s.cur.lan
           /\ ~e.stale /\ ~e.dep =>
                \E o \in s.cur.lan :
                   /\ o.sub = e.sub /\ ~o.dep /\ o.stale = e.stale /\ o.iface = e.iface
                   /\ IsOwnUla(o) => IsOwnUla(e)
                   /\ r.cur.change = None => SameLifetimes(e, o) \/ IsOwnUla(e)
<1> DEFINE active == {d.sub : d \in LiveLAN(s)}
<1>1. /\ r.cur.lan = LiveLAN(s) \cup r.revoked
      /\ r.revoked = {h \in Held(s, active) : Alive(h)}
  BY RecomputeFields
<1>2. /\ GoneSinceRestart(s, active) = {} /\ GoneFromLAN(s, active) = {}
      /\ \E d : d.lan = r.cur.lan /\ r.cur.change = Classify(s.cur, d)
  BY RecomputeChange
<1>3. PICK d : d.lan = r.cur.lan /\ r.cur.change = Classify(s.cur, d)
  BY <1>2
<1>4. \A f \in LiveLAN(s) : ~f.stale /\ Carved(f.sub, f.iface, s)
  BY LiveBacked DEF Backed
<1>5. \A f \in LiveLAN(s) : /\ f.sub[1] \in s.conf.ula <=> IsOwnUla(f)
                            /\ IsOwnUla(f) => f.dep = (UlaPref = 0)
  BY LiveOwn DEF ShownOK
<1>6. e.stale => e \in s.cur.lan
  <2> SUFFICES ASSUME e.stale PROVE e \in s.cur.lan
    OBVIOUS
  <2>1. e \in Held(s, active)
    BY <1>1, <1>4
  <2> HIDE DEF active
  <2>2. e \in s.revoked
    BY <1>2, <2>1, Zenon DEF Held, Over
  <2> QED
    BY <2>2 DEF ShownOK
<1>7. ASSUME ~e.stale, ~e.dep
      PROVE  \E o \in s.cur.lan :
                /\ o.sub = e.sub /\ ~o.dep /\ o.stale = e.stale /\ o.iface = e.iface
                /\ IsOwnUla(o) => IsOwnUla(e)
                /\ r.cur.change = None => SameLifetimes(e, o) \/ IsOwnUla(e)
  <2>1. e \in LiveLAN(s)
    <3>1. Settled(r, now)
      BY RecomputeSettled DEF ShownOK
    <3> QED
      BY <1>1, <1>7, <3>1 DEF Settled
  <2> DEFINE os == {o \in s.cur.lan : o.sub = e.sub}
  <2>2. /\ IsOwnUla(e) => os # {}
        /\ ~IsOwnUla(e) => ~Appears(e, os)
        /\ r.cur.change = None /\ ~IsOwnUla(e) => ~Relifed(e, os)
    BY <1>3, ClassifyFacts
  <2>3. os # {}
    BY <2>2 DEF Appears
  <2>4. PICK o \in s.cur.lan : o.sub = e.sub
    BY <2>3
  <2>5. o \in LanEntry /\ e \in LanEntry
    BY <2>1, LiveLANType DEF Store, Snapshot
  <2>6. ~o.dep /\ o.stale = FALSE
    <3>1. CASE IsOwnUla(e)
      <4>1. e.sub[1] \in s.conf.ula /\ UlaPref # 0 /\ e.iface \in s.conf.lans /\ Carved(e.sub, e.iface, s)
        BY <1>4, <1>5, <1>7, <2>1, <3>1 DEF Carved
      <4>2. ~o.stale
        BY <2>4, <4>1 DEF ShownOK, OwnEntries
      <4> QED
        BY <2>4, <2>5, <4>1, <4>2 DEF ShownOK, OwnEntries, LanEntry
    <3>2. CASE ~IsOwnUla(e)
      <4>1. ~o.dep
        BY <1>7, <2>2, <2>4, <3>2 DEF Appears
      <4>2. o \in s.revoked \/ ~o.stale
        BY DEF ShownOK
      <4> QED
        BY <2>5, <4>1, <4>2 DEF ShownOK, LanEntry
    <3> QED
      BY <3>1, <3>2
  <2>7. o.iface = e.iface
    <3>1. Carved(o.sub, o.iface, s) /\ Carved(e.sub, e.iface, s)
      BY <1>4, <2>1, <2>6 DEF ShownOK
    <3>2. \A l, m \in s.conf.lans : s.conf.index[l] = s.conf.index[m] => l = m
      BY ConfigAssumption DEF Store
    <3> QED
      BY <2>4, <3>1, <3>2 DEF Carved
  <2>8. IsOwnUla(o) => IsOwnUla(e)
    BY <1>5, <2>1, <2>4, <2>6 DEF ShownOK, OwnEntries
  <2>9. r.cur.change = None => SameLifetimes(e, o) \/ IsOwnUla(e)
    BY <2>2, <2>4 DEF Relifed
  <2> QED
    BY <1>7, <2>4, <2>5, <2>6, <2>7, <2>8, <2>9 DEF LanEntry
<1> QED
  BY <1>6, <1>7

\* What a consumer that works with the LAN prefixes es lacks of lan, and whether it will be told.
Shows(es, e) ==
    \E f \in es : /\ f.iface = e.iface /\ f.sub = e.sub /\ f.stale = e.stale
                  /\ SameLifetimes(e, f) \/ IsOwnUla(e)
Covers(es, lan) == \A e \in lan : ~e.dep \/ e.stale => Shows(es, e)
Fed(s, es) ==
    /\ s.pubAt = NoTimer => Covers(es, s.cur.lan)
    /\ Unheard(es, s.cur.lan) => s.pending \in {Add, Revoke}

\* One that has the snapshot itself lacks nothing.
LEMMA SelfFed ==
    ASSUME NEW s
    PROVE  Fed(s, s.cur.lan)
<1>1. Covers(s.cur.lan, s.cur.lan)
  BY DEF Covers, Shows, SameLifetimes
<1>2. ~Unheard(s.cur.lan, s.cur.lan)
  BY DEF Unheard
<1> QED
  BY <1>1, <1>2 DEF Fed

\* The accumulated change is no weaker than either.
LEMMA StrongerTells ==
    ASSUME NEW x \in None..Revoke, NEW y \in None..Revoke, x \in {Add, Revoke} \/ y \in {Add, Revoke}
    PROVE  Stronger(x, y) \in {Add, Revoke}
BY DEF Stronger, None, Renew, Add, Revoke

\* After a recompute a consumer will be told of what it has not heard of, and lacks nothing where
\* nothing material changed.
LEMMA RecomputeFed ==
    ASSUME now \in Nat, NEW s \in Store, ShownOK(s), NEW r, r = Recompute(s), NEW es, Fed(s, es)
    PROVE  /\ Unheard(es, r.cur.lan) => r.pending \in {Add, Revoke}
           /\ r.cur.change = None /\ r.pubAt = NoTimer => Covers(es, r.cur.lan)
<1>1. r \in Store /\ r.pending = Stronger(r.cur.change, s.pending) /\ r.pubAt = s.pubAt
  BY RecomputeType, RecomputeChange
<1>2. s.pending \in None..Revoke /\ r.cur.change \in None..Revoke /\ s.cur.lan \subseteq LanEntry
      /\ r.cur.lan \subseteq LanEntry
  BY <1>1 DEF Store, Snapshot
<1>3. Settled(r, now)
  BY RecomputeSettled DEF ShownOK
<1>4. CASE r.cur.change \in {Add, Revoke}
  <2>1. r.pending \in {Add, Revoke}
    BY <1>1, <1>2, <1>4, StrongerTells
  <2>2. r.cur.change # None
    BY <1>4 DEF Add, Revoke, None
  <2> QED
    BY <2>1, <2>2
<1>5. CASE r.cur.change \notin {Add, Revoke}
  <2>1. \A e \in r.cur.lan :
           /\ e.stale => e \in s.cur.lan
           /\ ~e.stale /\ ~e.dep =>
                \E o \in s.cur.lan :
                   /\ o.sub = e.sub /\ ~o.dep /\ o.stale = e.stale /\ o.iface = e.iface
                   /\ IsOwnUla(o) => IsOwnUla(e)
                   /\ r.cur.change = None => SameLifetimes(e, o) \/ IsOwnUla(e)
    BY <1>5, QuietShown
  <2>2. Unheard(es, r.cur.lan) => Unheard(es, s.cur.lan)
    <3>1. \A e \in r.cur.lan : e.stale => e.dep
      BY <1>3 DEF Settled
    <3>2. \A e \in r.cur.lan : ~e.dep => \E o \in s.cur.lan : o.sub = e.sub /\ ~o.dep
      BY <2>1, <3>1
    <3>3. \A e \in r.cur.lan : e.stale => e \in s.cur.lan
      BY <2>1
    <3> QED
      BY <3>2, <3>3 DEF Unheard
  <2>3. Unheard(es, r.cur.lan) => r.pending \in {Add, Revoke}
    BY <1>1, <1>2, <2>2, StrongerTells DEF Fed
  <2>4. ASSUME r.cur.change = None, r.pubAt = NoTimer, NEW e \in r.cur.lan, ~e.dep \/ e.stale
        PROVE  Shows(es, e)
    <3>1. \A o \in s.cur.lan : ~o.dep \/ o.stale => Shows(es, o)
      BY <1>1, <2>4 DEF Fed, Covers
    <3>2. CASE e.stale
      BY <2>1, <3>1, <3>2
    <3>3. CASE ~e.stale
      <4>1. PICK o \in s.cur.lan :
                   /\ o.sub = e.sub /\ ~o.dep /\ o.stale = e.stale /\ o.iface = e.iface
                   /\ IsOwnUla(o) => IsOwnUla(e)
                   /\ SameLifetimes(e, o) \/ IsOwnUla(e)
        BY <2>1, <2>4, <3>3
      <4>2. Shows(es, o)
        BY <3>1, <4>1
      <4>3. PICK f \in es : /\ f.iface = o.iface /\ f.sub = o.sub /\ f.stale = o.stale
                            /\ SameLifetimes(o, f) \/ IsOwnUla(o)
        BY <4>2 DEF Shows
      <4> QED
        BY <4>1, <4>3 DEF Shows, SameLifetimes
    <3> QED
      BY <3>2, <3>3
  <2> QED
    BY <2>3, <2>4 DEF Covers
<1> QED
  BY <1>4, <1>5

\* What publish leaves a subscriber.
LEMMA PublishReaches ==
    ASSUME NEW r \in Store, ch \in [Consumers -> Channel], view \in [Consumers -> Channel],
           Publish(r), view' = view
    PROVE  /\ ch' \in [Consumers -> Channel]
           /\ \A c \in Consumers :
                /\ Subscribed(c)' => Subscribed(c)
                /\ Subscribed(c) => ch'[c] = <<Published(r).cur>> /\ Newest(c)' = Published(r).cur
<1> DEFINE snap == Published(r).cur
<1>1. snap \in Snapshot
  BY PublishedType DEF Store
<1>2. ch' = [c \in Consumers |-> IF Subscribed(c) THEN <<snap>> ELSE ch[c]]
  BY DEF Publish
<1> HIDE DEF snap
<1>3. ch' \in [Consumers -> Channel]
  BY <1>1, <1>2 DEF Channel
<1>4. ASSUME NEW c \in Consumers
      PROVE  /\ Subscribed(c)' => Subscribed(c)
             /\ Subscribed(c) => ch'[c] = <<snap>> /\ Newest(c)' = snap
  BY <1>2 DEF Subscribed, Newest
<1> QED
  BY <1>3, <1>4 DEF snap

\* How the published snapshot is labelled.
LEMMA PublishedLabel ==
    ASSUME NEW r \in Store
    PROVE  /\ Published(r).cur.lan = r.cur.lan
           /\ r.pending \in {Add, Revoke} => Published(r).cur.change \in {Add, Revoke}
<1> DEFINE label == IF r.pending # None THEN r.pending ELSE r.cur.change
           C     == [r.cur EXCEPT !.change = IF r.pending # None THEN r.pending ELSE @]
<1>1. r.pending \in {Add, Revoke} => label = r.pending
  BY DEF None, Add, Revoke
<1>2. C = [r.cur EXCEPT !.change = label]
  OBVIOUS
<1> HIDE DEF label
<1>3. C.lan = r.cur.lan /\ (r.pending \in {Add, Revoke} => C.change = r.pending)
  BY <1>1, <1>2 DEF Store, Snapshot
<1>4. Published(r) = [r EXCEPT !.cur = C, !.pending = None, !.pubAt = NoTimer]
  BY DEF Published, Store
<1> HIDE DEF C
<1>5. Published(r).cur = C
  BY <1>4 DEF Store
<1> QED
  BY <1>3, <1>5

\* What a subscriber has heard is in the label of what it gets.
Labelled(c) ==
    Subscribed(c) /\ ch'[c] # <<>> /\ ch'[c] # ch[c] =>
        (Unheard(Newest(c).lan, ch'[c][1].lan) => ch'[c][1].change \in {Add, Revoke})

\* A publication tells every subscriber all it lacks.
LEMMA PublishFeeds ==
    ASSUME NEW r \in Store, ch \in [Consumers -> Channel], view \in [Consumers -> Channel],
           Publish(r), view' = view, store'.cur.lan = r.cur.lan,
           NEW c \in Consumers,
           Subscribed(c) => (Unheard(Newest(c).lan, r.cur.lan) => r.pending \in {Add, Revoke})
    PROVE  /\ Subscribed(c)' => Fed(store', Newest(c)'.lan)
           /\ Labelled(c)
<1> DEFINE snap == Published(r).cur
<1>1. /\ Subscribed(c)' => Subscribed(c)
      /\ Subscribed(c) => ch'[c] = <<snap>> /\ Newest(c)' = snap
  BY PublishReaches
<1>2. snap.lan = r.cur.lan /\ (r.pending \in {Add, Revoke} => snap.change \in {Add, Revoke})
  BY PublishedLabel
<1> HIDE DEF snap
<1>3. Subscribed(c)' => Fed(store', Newest(c)'.lan)
  BY <1>1, <1>2, SelfFed
<1>4. Labelled(c)
  BY <1>1, <1>2 DEF Labelled
<1> QED
  BY <1>3, <1>4

\* A step that leaves the channels alone.
LEMMA SameChannels ==
    ASSUME ch' = ch, view' = view, NEW c
    PROVE  Subscribed(c)' = Subscribed(c) /\ Newest(c)' = Newest(c) /\ Labelled(c)
BY DEF Subscribed, Newest, Labelled

\* The three ways a recompute ends.
LEMMA RecomputedCases ==
    ASSUME now \in Nat, NEW s \in Store, NEW rearm \in BOOLEAN, Recomputed(s, rearm),
           NEW r, r = Recompute(s)
    PROVE  /\ store'.cur.lan = r.cur.lan
           /\ \/ ch' = ch /\ r.cur.change = None /\ store'.pubAt = r.pubAt /\ store'.pending = r.pending
              \/ Publish(r)
              \/ ch' = ch /\ store'.pubAt # NoTimer /\ store'.pending = r.pending
<1> DEFINE n == IF r.pubAt = NoTimer THEN now + Settle ELSE r.pubAt
           w == [r EXCEPT !.pubAt = n]
<1>1. r \in Store
  BY RecomputeType
<1>2. store'.cur.lan = r.cur.lan
  BY RecomputedLists DEF SameLists
<1>3. \/ r.cur.change = None /\ store' = Timed(r, rearm) /\ ch' = ch
      \/ Publish(r)
      \/ store' = Timed([r EXCEPT !.pubAt = IF @ = NoTimer THEN now + Settle ELSE @], rearm) /\ ch' = ch
  BY Zenon DEF Recomputed, Concluded
<1>4. n \in Nat \cup {NoTimer} /\ n # NoTimer
  BY <1>1, StoreAssumption DEF Store, NoTimer
<1>5. w = [r EXCEPT !.pubAt = IF @ = NoTimer THEN now + Settle ELSE @]
  OBVIOUS
<1> HIDE DEF n
<1>6. w \in Store /\ w.pubAt = n /\ w.pending = r.pending
  BY <1>1, <1>4 DEF Store
<1> HIDE DEF w
<1>7. \A m \in Store : Timed(m, rearm).pubAt = m.pubAt /\ Timed(m, rearm).pending = m.pending
  BY DEF Timed, Store
<1> QED
  BY <1>1, <1>2, <1>3, <1>4, <1>5, <1>6, <1>7

\* So a recompute leaves no subscriber behind.
LEMMA RecomputedFed ==
    ASSUME now \in Nat, NEW s \in Store, NEW rearm \in BOOLEAN, Recomputed(s, rearm), ShownOK(s),
           ch \in [Consumers -> Channel], view \in [Consumers -> Channel], view' = view,
           \A c \in Consumers : Subscribed(c) => Fed(s, Newest(c).lan)
    PROVE  /\ ch' \in [Consumers -> Channel]
           /\ \A c \in Consumers : /\ Subscribed(c)' => Fed(store', Newest(c)'.lan)
                                   /\ Labelled(c)
<1> DEFINE r == Recompute(s)
<1>1. r \in Store
  BY RecomputeType
<1>2. \A c \in Consumers : Subscribed(c) =>
         /\ Unheard(Newest(c).lan, r.cur.lan) => r.pending \in {Add, Revoke}
         /\ r.cur.change = None /\ r.pubAt = NoTimer => Covers(Newest(c).lan, r.cur.lan)
  BY RecomputeFed
<1>3. /\ store'.cur.lan = r.cur.lan
      /\ \/ ch' = ch /\ r.cur.change = None /\ store'.pubAt = r.pubAt /\ store'.pending = r.pending
         \/ Publish(r)
         \/ ch' = ch /\ store'.pubAt # NoTimer /\ store'.pending = r.pending
  BY RecomputedCases
<1> HIDE DEF r
<1>4. CASE Publish(r)
  BY <1>1, <1>2, <1>3, <1>4, PublishReaches, PublishFeeds
<1>5. CASE ch' = ch /\ r.cur.change = None /\ store'.pubAt = r.pubAt /\ store'.pending = r.pending
  BY <1>2, <1>3, <1>5, SameChannels DEF Fed
<1>6. CASE ch' = ch /\ store'.pubAt # NoTimer /\ store'.pending = r.pending
  BY <1>2, <1>3, <1>6, SameChannels DEF Fed
<1> QED
  BY <1>3, <1>4, <1>5, <1>6

\* The store a recompute works on shows what the store did.
LEMMA ShownFromInv ==
    ASSUME NEW s, SameShown(s, store), ArmedInv, OwnEntries(store), Consistent(s)
    PROVE  ShownOK(s)
<1>1. Settled(store, now)
  BY DEF ArmedInv
<1>2. /\ s.revoked \subseteq s.cur.lan
      /\ \A h \in s.revoked : h.stale /\ h.dep
      /\ \A h \in s.revokedW : h.dep
  BY <1>1 DEF Settled, SameShown
<1>3. s.cur.lan = store.cur.lan /\ s.conf = store.conf /\ s.revoked = store.revoked
  BY DEF SameShown
<1>4. \A sub, l : Carved(sub, l, s) = Carved(sub, l, store)
  BY <1>3 DEF Carved
<1>5. OwnEntries(s)
  BY <1>3, <1>4 DEF OwnEntries
<1>6. \A e \in s.cur.lan : IF e.stale THEN e \in s.revoked ELSE Carved(e.sub, e.iface, s)
  BY <1>1, <1>3, <1>4 DEF Settled, Backed
<1> QED
  BY <1>2, <1>5, <1>6 DEF ShownOK

\* FeedInv with what the consumers lack in one formula.
FeedOK == \A c \in Consumers : Subscribed(c) => Fed(store, Newest(c).lan)

LEMMA FeedForm ==
    FeedInv <=> /\ ArmedInv /\ OwnEntries(store)
                /\ ch \in [Consumers -> Channel] /\ view \in [Consumers -> Channel]
                /\ ~up => \A c \in Consumers : ~Subscribed(c)
                /\ FeedOK
BY DEF FeedInv, FeedOK, Fed, NewestCoversCur, Covers, Shows

\* A recompute while the program runs.
LEMMA RunningFed ==
    ASSUME FeedInv, NEW s \in Store, SameShown(s, store), Consistent(s), NEW rearm \in BOOLEAN,
           Recomputed(s, rearm), view' = view
    PROVE  /\ OwnEntries(store') /\ ch' \in [Consumers -> Channel] /\ FeedOK'
           /\ \A c \in Consumers : Labelled(c)
<1>1. /\ ArmedInv /\ OwnEntries(store) /\ FeedOK
      /\ ch \in [Consumers -> Channel] /\ view \in [Consumers -> Channel]
  BY FeedForm
<1>2. now \in Nat
  BY <1>1 DEF ArmedInv, StoreInv, TypeOK
<1>3. ShownOK(s)
  BY <1>1, ShownFromInv
<1>4. \A c \in Consumers : Subscribed(c) => Fed(s, Newest(c).lan)
  BY <1>1 DEF FeedOK, Fed, SameShown
<1>5. /\ ch' \in [Consumers -> Channel]
      /\ \A c \in Consumers : /\ Subscribed(c)' => Fed(store', Newest(c)'.lan)
                              /\ Labelled(c)
  BY <1>1, <1>2, <1>3, <1>4, RecomputedFed
<1>6. OwnEntries(store')
  <2>1. OwnEntries(Recompute(s))
    BY <1>2, <1>3, RecomputeOwnEntries DEF ShownOK
  <2>2. store'.conf = Recompute(s).conf /\ store'.cur.lan = Recompute(s).cur.lan
    BY <1>2, RecomputedLists DEF SameLists
  <2> QED
    BY <2>1, <2>2 DEF OwnEntries, Carved
<1> QED
  BY <1>5, <1>6 DEF FeedOK

\* A consumer's own steps: it takes what the store has, or what its channel has.
LEMMA ConsumerFed ==
    ASSUME FeedInv, NEW c \in Consumers, Subscribe(c) \/ Serve(c) \/ Take(c) \/ Periodic(c)
    PROVE  /\ ch' \in [Consumers -> Channel] /\ view' \in [Consumers -> Channel]
           /\ up' /\ store' = store /\ FeedOK' /\ \A d \in Consumers : Labelled(d)
<1>1. /\ FeedOK /\ store.cur \in Snapshot
      /\ ch \in [Consumers -> Channel] /\ view \in [Consumers -> Channel]
  BY FeedForm DEF ArmedInv, StoreInv, TypeOK, Store
<1>2. <<store.cur>> \in Channel /\ <<>> \in Channel /\ \A x : <<x>> # <<>> /\ <<x>>[1] = x
  BY <1>1 DEF Channel
<1>3. Fed(store, store.cur.lan)
  BY SelfFed
<1>4. ch[c] \in Channel /\ view[c] \in Channel
  BY <1>1
<1>5. CASE Subscribe(c)
  <2>1. ch' = [ch EXCEPT ![c] = <<store.cur>>] /\ view' = view /\ up' /\ store' = store /\ ~Subscribed(c)
    BY <1>5 DEF Subscribe
  <2>2. ch' \in [Consumers -> Channel]
    BY <1>1, <1>2, <2>1
  <2>3. ASSUME NEW d \in Consumers
        PROVE  (Subscribed(d)' => Fed(store, Newest(d)'.lan)) /\ Labelled(d)
    <3>1. CASE d = c
      BY <1>1, <1>2, <1>3, <2>1, <3>1 DEF Newest, Labelled
    <3>2. CASE d # c
      BY <1>1, <2>1, <3>2 DEF Newest, Subscribed, Labelled, FeedOK
    <3> QED
      BY <3>1, <3>2
  <2> QED
    BY <1>1, <2>1, <2>2, <2>3 DEF FeedOK
<1>6. CASE Serve(c)
  <2>1. view' = [view EXCEPT ![c] = <<store.cur>>] /\ ch' = ch /\ up' /\ store' = store /\ Subscribed(c)
    BY <1>6 DEF Serve
  <2>2. view' \in [Consumers -> Channel]
    BY <1>1, <1>2, <2>1
  <2>3. ASSUME NEW d \in Consumers
        PROVE  (Subscribed(d)' => Fed(store, Newest(d)'.lan)) /\ Labelled(d)
    <3>1. CASE d = c
      BY <1>1, <1>2, <1>3, <2>1, <3>1 DEF Newest, Labelled, FeedOK
    <3>2. CASE d # c
      BY <1>1, <2>1, <3>2 DEF Newest, Subscribed, Labelled, FeedOK
    <3> QED
      BY <3>1, <3>2
  <2> QED
    BY <1>1, <2>1, <2>2, <2>3 DEF FeedOK
<1>7. CASE Take(c)
  <2>1. /\ view' = [view EXCEPT ![c] = ch[c]] /\ ch' = [ch EXCEPT ![c] = <<>>]
        /\ up' /\ store' = store /\ ch[c] # <<>>
    BY <1>7 DEF Take
  <2>2. view' \in [Consumers -> Channel] /\ ch' \in [Consumers -> Channel]
    BY <1>1, <1>2, <1>4, <2>1
  <2>3. ASSUME NEW d \in Consumers
        PROVE  (Subscribed(d)' => Fed(store, Newest(d)'.lan)) /\ Labelled(d)
    <3>1. CASE d = c
      BY <1>1, <2>1, <3>1 DEF Newest, Subscribed, Labelled, FeedOK
    <3>2. CASE d # c
      BY <1>1, <2>1, <3>2 DEF Newest, Subscribed, Labelled, FeedOK
    <3> QED
      BY <3>1, <3>2
  <2> QED
    BY <2>1, <2>2, <2>3 DEF FeedOK
<1>8. CASE Periodic(c)
  BY <1>1, <1>8, SameChannels DEF Periodic, FeedOK
<1> QED
  BY <1>5, <1>6, <1>7, <1>8

\* A start, when nobody has subscribed yet.
LEMMA StartFed ==
    ASSUME FeedInv, NEW c \in Configs, Start(c)
    PROVE  /\ ch' = ch /\ view' = view /\ up' /\ OwnEntries(store')
           /\ \A d \in Consumers : ~Subscribed(d)
<1> DEFINE s == WithdrawULA([EmptyStore(c) EXCEPT !.previous = file])
<1>1. /\ now \in Nat /\ file \subseteq Record /\ OnePerSub(file)
      /\ ch \in [Consumers -> Channel]
      /\ ~up => \A d \in Consumers : ~Subscribed(d)
  BY FeedForm DEF ArmedInv, StoreInv, TypeOK
<1>2. /\ s \in Store /\ s.cur.lan = {} /\ s.revokedW = {}
      /\ \A h \in s.revoked : h.stale /\ h.dep
  BY <1>1, StartFields
<1>3. Consistent(s)
  BY <1>1, StartConsistent
<1>4. /\ ~up /\ up' /\ view' = view
      /\ Recomputed(s, TRUE) \/ (store' = Timed(s, TRUE) /\ ch' = ch)
  BY DEF Start
<1> HIDE DEF s
<1>5. \A d \in Consumers : ~Subscribed(d)
  BY <1>1, <1>4
<1>6. CASE Recomputed(s, TRUE)
  <2> DEFINE r == Recompute(s)
  <2>1. OwnEntries(r)
    BY <1>1, <1>2, <1>3, RecomputeOwnEntries
  <2>2. store'.conf = r.conf /\ store'.cur.lan = r.cur.lan
    BY <1>1, <1>2, <1>6, RecomputedLists DEF SameLists
  <2>3. ch' = ch \/ Publish(r)
    BY <1>1, <1>2, <1>6, RecomputedCases
  <2> HIDE DEF r
  <2>4. Publish(r) => ch' = ch
    <3>1. Publish(r) => ch' = [d \in Consumers |-> IF Subscribed(d) THEN <<Published(r).cur>> ELSE ch[d]]
      BY DEF Publish
    <3> QED
      BY <1>1, <1>5, <3>1
  <2> QED
    BY <1>4, <1>5, <2>1, <2>2, <2>3, <2>4 DEF OwnEntries, Carved
<1>7. CASE store' = Timed(s, TRUE) /\ ch' = ch
  <2>1. store'.cur.lan = {}
    BY <1>2, <1>7, TimedLists DEF SameLists
  <2> QED
    BY <1>4, <1>5, <1>7, <2>1 DEF OwnEntries
<1> QED
  BY <1>4, <1>6, <1>7

\* Nobody has subscribed at first.
LEMMA FeedInit == Init => FeedInv
<1> SUFFICES ASSUME Init PROVE FeedInv
  OBVIOUS
<1>1. ArmedInv
  BY ArmedInit
<1>2. store.cur.lan = {}
  <2>1. PICK c \in Configs : store = [EmptyStore(c) EXCEPT !.graceEnd = 0]
    BY DEF Init
  <2> QED
    BY <2>1 DEF EmptyStore, NoSnapshot
<1>3. /\ ch \in [Consumers -> Channel] /\ view \in [Consumers -> Channel]
      /\ \A c \in Consumers : ~Subscribed(c)
  BY DEF Init, Channel, Subscribed
<1> QED
  BY <1>1, <1>2, <1>3, FeedForm DEF OwnEntries, FeedOK

\* Case by case.
LEMMA FeedStep ==
    ASSUME FeedInv, [Next]_vars
    PROVE  FeedInv' /\ \A c \in Consumers : Labelled(c)
<1>a. /\ ArmedInv /\ OwnEntries(store) /\ FeedOK
      /\ ch \in [Consumers -> Channel] /\ view \in [Consumers -> Channel]
      /\ ~up => \A c \in Consumers : ~Subscribed(c)
  BY FeedForm
<1>b. TypeOK /\ now \in Nat /\ store \in Store /\ Consistent(store)
  BY <1>a DEF ArmedInv, StoreInv, TypeOK
<1>c. ArmedInv'
  BY <1>a, ArmedNext
<1> DEFINE Kept == /\ OwnEntries(store)'
                   /\ ch' \in [Consumers -> Channel] /\ view' \in [Consumers -> Channel]
                   /\ ~up' => \A c \in Consumers : ~Subscribed(c)'
                   /\ FeedOK'
                   /\ \A c \in Consumers : Labelled(c)
<1> SUFFICES Kept
  BY <1>c DEF FeedInv, FeedOK, Fed, NewestCoversCur, Covers, Shows
<1>1. ASSUME NEW x \in Sources, NEW u \in Offers[x], Set(x, u) PROVE Kept
  <2>1. PICK s \in Store : SameShown(s, store) /\ Recomputed(s, TRUE) /\ Consistent(s)
    BY <1>1, <1>b, SetStore
  <2>2. up' /\ view' = view
    BY <1>1 DEF Set
  <2> QED
    BY <1>a, <2>1, <2>2, RunningFed
<1>2. ASSUME NEW x \in Extras, SetOther(x) PROVE Kept
  <2> DEFINE s == [store EXCEPT !.extra = x]
  <2>1. s \in Store /\ SameShown(s, store)
    BY <1>b DEF Store, SameShown
  <2>2. Consistent(s)
    BY <1>b DEF Store, Consistent
  <2>3. Recomputed(s, FALSE) /\ up' /\ view' = view
    BY <1>2 DEF SetOther
  <2> HIDE DEF s
  <2> QED
    BY <1>a, <2>1, <2>2, <2>3, RunningFed
<1>3. CASE Expire
  <2>1. Recomputed(store, TRUE) /\ up' /\ view' = view /\ SameShown(store, store)
    BY <1>3 DEF Expire, SameShown
  <2> QED
    BY <1>a, <1>b, <2>1, RunningFed
<1>4. CASE PubTimer
  <2>1. store' = Published(store) /\ Publish(store) /\ up' /\ view' = view
    BY <1>4 DEF PubTimer
  <2>2. SameLists(store', store)
    BY <1>b, <2>1, PublishedLists
  <2>3. ch' \in [Consumers -> Channel]
    BY <1>a, <1>b, <2>1, PublishReaches
  <2>4. \A c \in Consumers : (Subscribed(c)' => Fed(store', Newest(c)'.lan)) /\ Labelled(c)
    BY <1>a, <1>b, <2>1, <2>2, PublishFeeds DEF FeedOK, Fed, SameLists
  <2>5. OwnEntries(store)'
    BY <1>a, <2>2 DEF OwnEntries, Carved, SameLists
  <2> QED
    BY <1>a, <2>1, <2>3, <2>4, <2>5 DEF FeedOK
<1>5. ASSUME NEW c \in Consumers, Subscribe(c) \/ Serve(c) \/ Take(c) \/ Periodic(c) PROVE Kept
  BY <1>5, <1>a, ConsumerFed
<1>6. ASSUME NEW c \in Configs, Start(c) PROVE Kept
  <2>1. /\ ch' = ch /\ view' = view /\ up' /\ OwnEntries(store')
        /\ \A d \in Consumers : ~Subscribed(d)
    BY <1>6, StartFed
  <2> QED
    BY <1>a, <2>1, SameChannels DEF FeedOK
<1>7. CASE Crash
  <2>1. /\ ch' = [c \in Consumers |-> <<>>] /\ view' = [c \in Consumers |-> <<>>]
        /\ store'.cur.lan = {}
    BY <1>7 DEF Crash, EmptyStore, NoSnapshot
  <2>2. <<>> \in Channel
    BY DEF Channel
  <2>3. \A c \in Consumers : ~Subscribed(c)' /\ Labelled(c)
    BY <2>1 DEF Subscribed, Labelled
  <2> QED
    BY <2>1, <2>2, <2>3 DEF OwnEntries, FeedOK
<1>8. CASE Tick
  <2>1. store' = store /\ ch' = ch /\ view' = view /\ up' = up
    BY <1>8 DEF Tick
  <2> QED
    BY <1>a, <2>1, SameChannels DEF FeedOK
<1>9. CASE UNCHANGED vars
  <2>1. store' = store /\ ch' = ch /\ view' = view /\ up' = up
    BY <1>9 DEF vars
  <2> QED
    BY <1>a, <2>1, SameChannels DEF FeedOK
<1> HIDE DEF Kept
<1> QED
  BY <1>1, <1>2, <1>3, <1>4, <1>5, <1>6, <1>7, <1>8, <1>9, Zenon DEF Next

\* NewestCoversCur holds in every reachable state, for any sources, settle period and consumers:
\* what recompute takes for nothing material, and what it lets wait, keeps no prefix from anyone.
THEOREM NobodyIsLeftBehind == Spec => []NewestCoversCur
<1>1. FeedInv /\ [Next]_vars => FeedInv'
  BY FeedStep
<1>2. FeedInv => NewestCoversCur
  BY DEF FeedInv
<1> QED
  BY <1>1, <1>2, FeedInit, PTL DEF Spec

\* LabelTellsChange holds of every behaviour: the label accumulated over the settle period is never
\* weaker than what the subscriber has not heard of.
THEOREM LabelsTellChange == Spec => LabelTellsChange
<1>1. FeedInv /\ [Next]_vars => FeedInv'
  BY FeedStep
<1>2. FeedInv /\ [Next]_vars =>
        \A c \in Consumers : Subscribed(c) /\ ch'[c] # <<>> /\ ch'[c] # ch[c] =>
         LET old == Newest(c).lan
             new == ch'[c][1].lan
         IN  /\ (\E e \in new : e.stale /\ \A o \in old : ~(o.sub = e.sub /\ o.stale))
                   => ch'[c][1].change \in {Add, Revoke}
             /\ (\E e \in new : ~e.dep /\ \A o \in old : ~(o.sub = e.sub /\ ~o.dep))
                   => ch'[c][1].change \in {Add, Revoke}
  BY FeedStep DEF Labelled, Unheard
<1> QED
  BY <1>1, <1>2, FeedInit, PTL DEF Spec, LabelTellsChange
=============================================================================
