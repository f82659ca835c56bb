-------------------------- MODULE LeaseServerProofs -------------------------
(***************************************************************************)
(* Proofs about LeaseServer, for any clients, static bindings, hashes,      *)
(* pool, lifetimes and prefixes, with a file that may fail to be written.   *)
(***************************************************************************)
EXTENDS LeaseServer, TLAPS, WellFoundedInduction, SequenceTheorems

(***************************************************************************)
(* Addresses.                                                               *)
(***************************************************************************)
\* Min of a set of numbers that has a member is one of its members.
LEMMA MinIn ==
    ASSUME NEW S \in SUBSET Nat, S # {}
    PROVE  Min(S) \in S
<1> DEFINE R == {p \in Nat \X Nat : p[1] < p[2]}
<1>0. IsWellFoundedOn(R, Nat)
  BY NatLessThanWellFounded DEF OpToRel
<1>1. PICK x \in S : \A y \in S : ~(<<y, x>> \in R)
  BY <1>0, WFMin
<1>2. ASSUME NEW y \in S PROVE x =< y
  <2>1. <<y, x>> \in Nat \X Nat /\ ~(<<y, x>> \in R)
    BY <1>1
  <2>2. ~(y < x)
    BY <2>1
  <2> QED
    BY <2>2
<1> QED
  BY <1>2 DEF Min

\* allocate gives a client without a static binding an address that is not in use.
LEMMA AllocatedFree ==
    ASSUME NEW c \in Clients, NEW net, ~IsStatic(c), CanAllocate(c, net)
    PROVE  Allocate(c, net) \notin Used
<1>1. FreeSlots(c, net) \in SUBSET Nat /\ FreeSlots(c, net) # {}
  BY LeaseAssumption DEF CanAllocate, FreeSlots, Size
<1>2. Min(FreeSlots(c, net)) \in FreeSlots(c, net)
  BY <1>1, MinIn
<1> QED
  BY <1>2 DEF Allocate, FreeSlots

\* The active prefix is one of the segment's.
LEMMA ActiveIn ==
    ASSUME NEW lan \in Seq(LANPrefix), HasActive(lan)
    PROVE  Active(lan) \in LANPrefix
<1>1. Fresh(lan, FALSE) \in SUBSET Nat /\ Fresh(lan, TRUE) \in SUBSET Nat
  BY DEF Fresh
<1>4. \A i \in DOMAIN lan : lan[i] \in LANPrefix
  OBVIOUS
<1>2. CASE Fresh(lan, FALSE) # {}
  <2>1. Min(Fresh(lan, FALSE)) \in DOMAIN lan
    BY <1>1, <1>2, MinIn DEF Fresh
  <2>2. Active(lan) = lan[Min(Fresh(lan, FALSE))]
    BY <1>2 DEF Active
  <2> QED
    BY <1>4, <2>1, <2>2
<1>3. CASE Fresh(lan, FALSE) = {}
  <2>1. Min(Fresh(lan, TRUE)) \in DOMAIN lan
    BY <1>1, <1>3, MinIn DEF Fresh, HasActive
  <2>2. Active(lan) = lan[Min(Fresh(lan, TRUE))]
    BY <1>3 DEF Active
  <2> QED
    BY <1>4, <2>1, <2>2
<1> QED
  BY <1>2, <1>3

\* What is left of a lifetime is a number.
LEMMA LeftIsNat ==
    ASSUME now \in Nat, snap \in Seq(LANPrefix), HasActive(snap)
    PROVE  ValidLeft \in Nat
<1>1. Active(snap).valid \in Nat
  BY ActiveIn DEF LANPrefix
<1> QED
  BY <1>1, LeaseAssumption DEF ValidLeft, Lesser

\* A static binding gives the address it says.
LEMMA StaticAsBound ==
    ASSUME NEW c \in Clients, IsStatic(c), NEW net
    PROVE  StaticAddr(c, net) = StaticAddr(c, StaticAddr(c, net).net)
BY DEF StaticAddr

(***************************************************************************)
(* Sets of leases.                                                          *)
(***************************************************************************)
\* Fewer leases are as well kept as more.
LEMMA FewerWellKept ==
    ASSUME NEW L, NEW S \in SUBSET L, WellKept(L)
    PROVE  WellKept(S)
BY DEF WellKept, Distinct, Dynamic, OnePerClient, AsBound

\* The empty set, which a server without a file starts with.
LEMMA NoneWellKept == WellKept({})
BY DEF WellKept, Distinct, Dynamic, OnePerClient, AsBound

\* A lease for c keeps the leases well kept, with an address that no other client has, or c's own
\* static one.
LEMMA CommitWellKept ==
    ASSUME NEW L, WellKept(L), NEW l, l.c \in Clients,
           ~IsStatic(l.c) => \A m \in Dynamic(Others(L, l.c)) : m.addr # l.addr,
           IsStatic(l.c) => l.addr = StaticAddr(l.c, l.addr.net)
    PROVE  WellKept(Others(L, l.c) \cup {l})
<1> DEFINE N == Others(L, l.c) \cup {l}
<1>1. OnePerClient(N)
  BY DEF WellKept, OnePerClient, Others
<1>2. AsBound(N)
  BY DEF WellKept, AsBound, Others
<1>3. Distinct(N)
  BY DEF WellKept, Distinct, Dynamic, Others
<1> QED
  BY <1>1, <1>2, <1>3 DEF WellKept

\* The file is the leases, or what it was.
LEMMA SavedWellKept ==
    ASSUME NEW L, WellKept(L), WellKept(file), Save(L)
    PROVE  WellKept(file') /\ (~SaveFails => file' = L)
<1>1. file' = L \/ (SaveFails /\ file' = file)
  BY LeaseAssumption DEF Save
<1>2. CASE file' = L
  BY <1>2 DEF WellKept, Distinct, Dynamic, OnePerClient, AsBound
<1>3. CASE SaveFails /\ file' = file
  BY <1>3 DEF WellKept, Distinct, Dynamic, OnePerClient, AsBound
<1> QED
  BY <1>1, <1>2, <1>3

(***************************************************************************)
(* One lemma per kind of step.                                              *)
(***************************************************************************)
\* The invariant holds at first.
LEMMA Starts == Init => LeaseInv
<1> SUFFICES ASSUME Init PROVE LeaseInv
  OBVIOUS
<1>1. Timed
  BY DEF Init, Timed
<1>2. DeclinedKeptOut /\ Recorded /\ OnRecord
  BY DEF Init, DeclinedKeptOut, Holding, Recorded, OnRecord
<1> QED
  BY <1>1, <1>2, NoneWellKept DEF Init, LeaseInv

\* A step that gives c the address a.
LEMMA Commits ==
    ASSUME LeaseInv, up, HasActive(snap), NEW c \in Clients, NEW a, NEW keyed, Commit(c, a, keyed),
           declined' \in SUBSET declined, UNCHANGED <<now, up, cur, ch, snap>>,
           ~IsStatic(c) => \A m \in Dynamic(Others(leases, c)) : m.addr # a,
           IsStatic(c) => a = StaticAddr(c, a.net),
           ~IsStatic(c) => \A d \in Holding : d.addr = a =>
                               \E h \in Hosts : IsStatic(h) /\ a = StaticAddr(h, a.net)
    PROVE  LeaseInv'
<1> DEFINE l == [c |-> c, addr |-> a, expires |-> now + ValidLeft, keyed |-> Keyed(c, keyed)]
<1>1. /\ leases' = Others(leases, l.c) \cup {l}
      /\ told' = Others(told, c) \cup Dynamic({l})
      /\ Save(leases')
  BY DEF Commit
<1>2. WellKept(Others(leases, l.c) \cup {l})
  BY CommitWellKept DEF LeaseInv
<1>3. WellKept(leases')
  BY <1>1, <1>2
<1>4. WellKept(file') /\ (~SaveFails => file' = leases')
  BY <1>1, <1>3, SavedWellKept DEF LeaseInv
<1>5. now \in Nat /\ now + ValidLeft \in Nat /\ now <= now + ValidLeft
  BY LeftIsNat DEF LeaseInv, Timed
<1>6. Timed'
  BY <1>1, <1>5 DEF LeaseInv, Timed, Others, Dynamic
<1>7. DeclinedKeptOut'
  <2> SUFFICES ASSUME NEW d \in Holding', NEW m \in Dynamic(leases'), m.addr = d.addr
               PROVE  \E h \in Hosts : IsStatic(h) /\ m.addr = StaticAddr(h, m.addr.net)
    BY DEF DeclinedKeptOut, Reserved, Dynamic
  <2>1. d \in Holding
    BY DEF Holding
  <2>2. CASE m = l
    BY <2>1, <2>2 DEF Dynamic
  <2>3. CASE m \in Others(leases, l.c)
    BY <2>1, <2>3 DEF LeaseInv, DeclinedKeptOut, Reserved, Dynamic, Others
  <2> QED
    BY <1>1, <2>2, <2>3 DEF Dynamic
<1>8. Recorded'
  BY <1>4 DEF Recorded
<1>9. OnRecord'
  BY <1>1, <1>4 DEF LeaseInv, OnRecord, Recorded, Others, Dynamic
<1> QED
  BY <1>3, <1>4, <1>6, <1>7, <1>8, <1>9 DEF LeaseInv

\* A step that takes leases away and writes what is left.
LEMMA Removes ==
    ASSUME LeaseInv, up, leases' \in SUBSET leases, Save(leases'), told' \in SUBSET told,
           ~SaveFails => told' \in SUBSET leases', UNCHANGED <<now, up, cur, ch, snap>>,
           \A d \in declined' : d \in declined \/ d.until \in Nat, DeclinedKeptOut'
    PROVE  LeaseInv'
<1>1. WellKept(leases')
  BY FewerWellKept DEF LeaseInv
<1>2. WellKept(file') /\ (~SaveFails => file' = leases')
  BY <1>1, SavedWellKept DEF LeaseInv
<1>3. Timed'
  BY DEF LeaseInv, Timed
<1> QED
  BY <1>1, <1>2, <1>3 DEF LeaseInv, Recorded, OnRecord

\* Fewer leases, and no more declines, keep the declined addresses out.
LEMMA FewerKeptOut ==
    ASSUME DeclinedKeptOut, leases' \in SUBSET leases, Holding' \in SUBSET Holding
    PROVE  DeclinedKeptOut'
BY DEF DeclinedKeptOut, Reserved, Dynamic

\* A step that leaves the books alone.
LEMMA BooksUnchanged ==
    ASSUME LeaseInv, UNCHANGED <<now, books>>, up' = up, cur' \in Seq(LANPrefix), snap' \in Seq(LANPrefix),
           ch' \in Seq([lan : Seq(LANPrefix), moved : BOOLEAN])
    PROVE  LeaseInv'
<1>1. WellKept(leases') /\ WellKept(file')
  BY DEF LeaseInv, books, WellKept, Distinct, Dynamic, OnePerClient, AsBound
<1>2. Timed'
  BY DEF LeaseInv, Timed, books
<1>3. DeclinedKeptOut'
  BY FewerKeptOut DEF LeaseInv, books, Holding
<1> QED
  BY <1>1, <1>2, <1>3 DEF LeaseInv, books, Recorded, OnRecord

(***************************************************************************)
(* The invariant, step by step.                                             *)
(***************************************************************************)
\* A renewal keeps the address, which no other client has.
LEMMA RenewStep ==
    ASSUME LeaseInv, NEW c \in Clients, Renew(c)
    PROVE  LeaseInv'
<1>1. PICK l \in Bound(c) : Commit(c, l.addr, l.keyed)
  BY DEF Renew
<1>2. l \in leases /\ l.c = c /\ HasActive(snap)
  BY DEF Bound, OfClient, OnPrefix
<1>3. ~IsStatic(c) => \A m \in Dynamic(Others(leases, c)) : m.addr # l.addr
  BY <1>2 DEF LeaseInv, WellKept, Distinct, Dynamic, Others
<1>4. IsStatic(c) => l.addr = StaticAddr(c, l.addr.net)
  BY <1>2 DEF LeaseInv, WellKept, AsBound
<1>5. ~IsStatic(c) => \A d \in Holding : d.addr = l.addr =>
          \E h \in Hosts : IsStatic(h) /\ l.addr = StaticAddr(h, l.addr.net)
  BY <1>2 DEF LeaseInv, DeclinedKeptOut, Reserved, Dynamic
<1> QED
  BY <1>1, <1>2, <1>3, <1>4, <1>5, Commits DEF Renew

\* assign with allocate: a static address, or one that is not in use.
LEMMA AssignStep ==
    ASSUME LeaseInv, NEW c \in Clients, Assign(c)
    PROVE  LeaseInv'
<1> DEFINE a == Allocate(c, Active(snap).net)
<1>1. up /\ HasActive(snap) /\ CanAllocate(c, Active(snap).net) /\ Commit(c, a, FALSE)
  BY DEF Assign
<1>2. declined' \in SUBSET declined
  BY DEF Assign, Holding
<1>3. ASSUME ~IsStatic(c) PROVE a \notin Used
  BY <1>1, <1>3, AllocatedFree
<1>4. ~IsStatic(c) => \A m \in Dynamic(Others(leases, c)) : m.addr # a
  BY <1>3 DEF Used, Dynamic, Others
<1>5. IsStatic(c) => a = StaticAddr(c, a.net)
  BY StaticAsBound DEF Allocate
<1>6. ~IsStatic(c) => \A d \in Holding : d.addr # a
  BY <1>3 DEF Used
<1> HIDE DEF a
<1> QED
  BY <1>1, <1>2, <1>4, <1>5, <1>6, Commits DEF Assign

\* An answer without an address changes nothing but the declines that ran out.
LEMMA RefuseStep ==
    ASSUME LeaseInv, NEW c \in Clients, Refuse(c)
    PROVE  LeaseInv'
<1>1. /\ up /\ leases' = leases /\ told' = told /\ Save(leases')
      /\ declined' \in SUBSET declined /\ UNCHANGED <<now, up, cur, ch, snap>>
  BY DEF Refuse, Holding, Save
<1>2. Holding' \in SUBSET Holding
  BY <1>1 DEF Holding
<1>3. DeclinedKeptOut'
  BY <1>1, <1>2, FewerKeptOut DEF LeaseInv
<1>4. ~SaveFails => told' \in SUBSET leases'
  BY <1>1 DEF LeaseInv, OnRecord, Recorded
<1> QED
  BY <1>1, <1>3, <1>4, Removes

\* The address of a lease that goes is held: no other client without a static binding has it.
LEMMA DeclineStep ==
    ASSUME LeaseInv, NEW c \in Clients, Decline(c)
    PROVE  LeaseInv'
<1> DEFINE gone == {l.addr : l \in OfClient(leases, c)}
           held == {[addr |-> a, until |-> now + DeclineHold] : a \in gone}
<1>1. /\ up /\ leases' = Others(leases, c) /\ told' = Others(told, c) /\ Save(leases')
      /\ declined' = {d \in declined : d.addr \notin gone} \cup held
      /\ UNCHANGED <<now, up, cur, ch, snap>>
  BY DEF Decline
<1>2. now + DeclineHold \in Nat
  BY LeaseAssumption DEF LeaseInv, Timed
<1>3. \A d \in declined' : d \in declined \/ d.until \in Nat
  BY <1>1, <1>2
<1>4. DeclinedKeptOut'
  <2> SUFFICES ASSUME NEW d \in Holding', NEW m \in Dynamic(leases'), m.addr = d.addr
               PROVE  \E h \in Hosts : IsStatic(h) /\ m.addr = StaticAddr(h, m.addr.net)
    BY DEF DeclinedKeptOut, Reserved, Dynamic
  <2>1. m \in Dynamic(leases) /\ m.c # c
    BY <1>1 DEF Dynamic, Others
  <2>2. CASE d \in declined
    <3>1. d \in Holding
      BY <1>1, <2>2 DEF Holding
    <3> QED
      BY <2>1, <3>1 DEF LeaseInv, DeclinedKeptOut, Reserved, Dynamic
  <2>3. CASE d \in held
    <3>1. PICK l \in OfClient(leases, c) : d.addr = l.addr
      BY <2>3
    <3>2. l \in leases /\ l.c = c
      BY <3>1 DEF OfClient
    <3>3. IsStatic(c)
      BY <2>1, <3>1, <3>2 DEF LeaseInv, WellKept, Distinct, Dynamic
    <3>4. c \in Hosts /\ l.addr = StaticAddr(c, l.addr.net)
      BY <3>2, <3>3, LeaseAssumption DEF LeaseInv, WellKept, AsBound
    <3> QED
      BY <3>1, <3>3, <3>4
  <2> QED
    BY <1>1, <2>2, <2>3 DEF Holding
<1>5. ~SaveFails => told' \in SUBSET leases'
  BY <1>1 DEF LeaseInv, OnRecord, Recorded, Others
<1>6. leases' \in SUBSET leases /\ told' \in SUBSET told
  BY <1>1 DEF Others
<1> HIDE DEF gone, held
<1> QED
  BY <1>1, <1>3, <1>4, <1>5, <1>6, Removes

\* A Release takes the client's lease away.
LEMMA ReleaseStep ==
    ASSUME LeaseInv, NEW c \in Clients, Release(c)
    PROVE  LeaseInv'
<1>1. /\ up /\ leases' = Others(leases, c) /\ told' = Others(told, c) /\ Save(leases')
      /\ UNCHANGED <<now, up, cur, ch, snap, declined>>
  BY DEF Release
<1>2. leases' \in SUBSET leases /\ told' \in SUBSET told
  BY <1>1 DEF Others
<1>3. DeclinedKeptOut'
  BY <1>1, <1>2, FewerKeptOut DEF LeaseInv, Holding
<1>4. ~SaveFails => told' \in SUBSET leases'
  BY <1>1 DEF LeaseInv, OnRecord, Recorded, Others
<1> QED
  BY <1>1, <1>2, <1>3, <1>4, Removes

\* The sweep takes no lease that was promised and has not run out.
LEMMA ExpireStep ==
    ASSUME LeaseInv, ExpireLeases
    PROVE  LeaseInv'
<1>1. /\ up /\ leases' = {l \in leases : now <= l.expires} /\ told' = told /\ Save(leases')
      /\ UNCHANGED <<now, up, cur, ch, snap, declined>>
  BY DEF ExpireLeases
<1>2. leases' \in SUBSET leases /\ told' \in SUBSET told
  BY <1>1
<1>3. DeclinedKeptOut'
  BY <1>1, <1>2, FewerKeptOut DEF LeaseInv, Holding
<1>4. ~SaveFails => told' \in SUBSET leases'
  BY <1>1 DEF LeaseInv, OnRecord, Recorded, Timed
<1> QED
  BY <1>1, <1>2, <1>3, <1>4, Removes

\* onPrefixChange takes leases away, and the promises with them.
LEMMA PrefixChangeStep ==
    ASSUME LeaseInv, OnPrefixChange
    PROVE  LeaseInv'
<1> DEFINE stays == {l \in leases : OnPrefix(snap, l.addr) \/ l.keyed}
<1>1. /\ up /\ leases' = stays /\ told' = {t \in told : \A l \in leases \ stays : t.c # l.c}
      /\ Save(leases') /\ UNCHANGED <<now, up, cur, ch, snap, declined>>
  BY DEF OnPrefixChange, Save
<1>2. leases' \in SUBSET leases /\ told' \in SUBSET told
  BY <1>1
<1>3. DeclinedKeptOut'
  BY <1>1, <1>2, FewerKeptOut DEF LeaseInv, Holding
<1>4. ~SaveFails => told' \in SUBSET leases'
  <2> SUFFICES ASSUME ~SaveFails, NEW t \in told' PROVE t \in leases'
    OBVIOUS
  <2>1. t \in told /\ t \in leases
    BY <1>1 DEF LeaseInv, OnRecord, Recorded
  <2> HIDE DEF stays
  <2> QED
    BY <1>1, <2>1
<1> HIDE DEF stays
<1> QED
  BY <1>1, <1>2, <1>3, <1>4, Removes

\* Snapshots come and go; the books stay.
LEMMA SnapshotStep ==
    ASSUME LeaseInv, Take \/ Serve \/ \E o \in Offers, moved \in BOOLEAN : Publish(o, moved)
    PROVE  LeaseInv'
<1>1. /\ UNCHANGED <<now, books>> /\ up' = up
      /\ cur' \in Seq(LANPrefix) /\ snap' \in Seq(LANPrefix)
      /\ ch' \in Seq([lan : Seq(LANPrefix), moved : BOOLEAN])
  <2>1. CASE Take
    <3>1. ch \in Seq([lan : Seq(LANPrefix), moved : BOOLEAN]) /\ ch # <<>>
      BY <2>1 DEF Take, LeaseInv, Timed
    <3>2. ch[1] \in [lan : Seq(LANPrefix), moved : BOOLEAN]
      <4>1. ASSUME NEW S, ch \in Seq(S) PROVE ch[1] \in S
        BY <3>1, <4>1, EmptySeq
      <4> QED
        BY <3>1, <4>1
    <3> QED
      BY <2>1, <3>2 DEF Take, LeaseInv, Timed
  <2>2. CASE Serve
    BY <2>2 DEF Serve, LeaseInv, Timed
  <2>3. CASE \E o \in Offers, moved \in BOOLEAN : Publish(o, moved)
    BY <2>3, LeaseAssumption DEF Publish, LeaseInv, Timed
  <2> QED
    BY <2>1, <2>2, <2>3
<1> QED
  BY <1>1, BooksUnchanged

\* serve saves what it has when it ends.
LEMMA LinkDownStep ==
    ASSUME LeaseInv, LinkDown
    PROVE  LeaseInv'
<1>1. /\ up /\ leases' = leases /\ told' = told /\ Save(leases')
      /\ UNCHANGED <<now, up, cur, ch, snap, declined>>
  BY DEF LinkDown, Save
<1>2. leases' \in SUBSET leases
  BY <1>1
<1>3. DeclinedKeptOut'
  BY <1>1, <1>2, FewerKeptOut DEF LeaseInv, Holding
<1>4. ~SaveFails => told' \in SUBSET leases'
  BY <1>1 DEF LeaseInv, OnRecord, Recorded
<1> QED
  BY <1>1, <1>3, <1>4, Removes

\* The leases and the declines are lost; what was promised is in the file.
LEMMA CrashStep ==
    ASSUME LeaseInv, Crash
    PROVE  LeaseInv'
<1>1. /\ ~up' /\ leases' = {} /\ declined' = {} /\ UNCHANGED <<now, file, told>>
      /\ cur' = <<>> /\ ch' = <<>> /\ snap' = <<>>
  BY DEF Crash
<1>2. WellKept(leases') /\ WellKept(file')
  BY <1>1 DEF LeaseInv, WellKept, Distinct, Dynamic, OnePerClient, AsBound
<1>3. Timed'
  BY <1>1 DEF LeaseInv, Timed
<1>4. DeclinedKeptOut'
  BY <1>1 DEF DeclinedKeptOut, Holding
<1> QED
  BY <1>1, <1>2, <1>3, <1>4 DEF LeaseInv, Recorded, OnRecord

\* The file is as well kept as the leases were.
LEMMA StartStep ==
    ASSUME LeaseInv, Start, declined = {}
    PROVE  LeaseInv'
<1>1. up' /\ leases' = file /\ file' = file /\ UNCHANGED <<now, told, declined, cur, ch, snap>>
  BY DEF Start
<1>2. WellKept(leases') /\ WellKept(file')
  BY <1>1 DEF LeaseInv, WellKept, Distinct, Dynamic, OnePerClient, AsBound
<1>3. Timed'
  BY <1>1 DEF LeaseInv, Timed
<1>4. DeclinedKeptOut'
  BY <1>1 DEF DeclinedKeptOut, Holding
<1> QED
  BY <1>1, <1>2, <1>3, <1>4 DEF LeaseInv, Recorded, OnRecord

\* Time ends promises and holds, and makes none.
LEMMA TickStep ==
    ASSUME LeaseInv, Tick
    PROVE  LeaseInv'
<1>1. /\ now \in Nat /\ now' = now + 1 /\ told' = {t \in told : now' <= t.expires}
      /\ UNCHANGED <<up, cur, ch, snap, leases, declined, file>>
  BY DEF LeaseInv, Timed, Tick
<1>2. WellKept(leases') /\ WellKept(file')
  BY <1>1 DEF LeaseInv, WellKept, Distinct, Dynamic, OnePerClient, AsBound
<1>3. Timed'
  BY <1>1 DEF LeaseInv, Timed
<1>4. Holding' \in SUBSET Holding
  BY <1>1 DEF Holding, LeaseInv, Timed
<1>5. DeclinedKeptOut'
  BY <1>1, <1>4, FewerKeptOut DEF LeaseInv
<1> QED
  BY <1>1, <1>2, <1>3, <1>5 DEF LeaseInv, Recorded, OnRecord

\* A step of another part.
LEMMA Stutters ==
    ASSUME LeaseInv, UNCHANGED vars
    PROVE  LeaseInv'
BY BooksUnchanged DEF vars, LeaseInv, Timed

\* The invariant is inductive.
LEMMA StepsKeep == LeaseInv /\ [Next]_vars => LeaseInv'
<1> SUFFICES ASSUME LeaseInv, [Next]_vars PROVE LeaseInv'
  OBVIOUS
<1>1. CASE \E c \in Clients : Renew(c) \/ Assign(c) \/ Refuse(c) \/ Decline(c) \/ Release(c)
  BY <1>1, RenewStep, AssignStep, RefuseStep, DeclineStep, ReleaseStep
<1>2. CASE ExpireLeases
  BY <1>2, ExpireStep
<1>3. CASE Take \/ Serve \/ \E o \in Offers, moved \in BOOLEAN : Publish(o, moved)
  BY <1>3, SnapshotStep
<1>4. CASE OnPrefixChange
  BY <1>4, PrefixChangeStep
<1>5. CASE LinkDown
  BY <1>5, LinkDownStep
<1>6. CASE Crash
  BY <1>6, CrashStep
<1>7. CASE Start
  BY <1>7, StartStep DEF LeaseInv, Start
<1>8. CASE Tick
  BY <1>8, TickStep
<1>9. CASE UNCHANGED vars
  BY <1>9, Stutters
<1> QED
  BY <1>1, <1>2, <1>3, <1>4, <1>5, <1>6, <1>7, <1>8, <1>9 DEF Next

(***************************************************************************)
(* The refinement of Promises.                                              *)
(***************************************************************************)
\* A step that gives c the address a is an answer to c, or takes the promise of a client back that
\* has its address by a static binding.
LEMMA CommitsPromise ==
    ASSUME LeaseInv, ~SaveFails, up, HasActive(snap), NEW c \in Clients, NEW a, NEW keyed,
           Commit(c, a, keyed), now' = now,
           ~IsStatic(c) => \A m \in Dynamic(Others(leases, c)) : m.addr # a
    PROVE  Abstract!Next
<1> DEFINE l == [c |-> c, addr |-> a, expires |-> now + ValidLeft, keyed |-> Keyed(c, keyed)]
<1>1. told' = Others(told, c) \cup Dynamic({l})
  BY DEF Commit
<1>2. CASE IsStatic(c)
  <2>1. told' \subseteq told
    BY <1>1, <1>2 DEF Others, Dynamic
  <2> QED
    BY <2>1 DEF Abstract!Next, Abstract!TakeBack
<1>3. CASE ~IsStatic(c)
  <2>1. told' = Others(told, c) \cup {l}
    BY <1>1, <1>3 DEF Dynamic
  <2>2. l.c = c /\ l.addr = a /\ l.expires >= now
    BY LeftIsNat DEF LeaseInv, Timed
  <2>3. \A q \in told : q.c # c => q.addr # a
    BY <1>3 DEF LeaseInv, OnRecord, Recorded, Dynamic, Others
  <2> HIDE DEF l
  <2>4. told' = {q \in told : q.c # c} \cup {l}
    BY <2>1 DEF Others
  <2>5. Abstract!Answer(c, {l})
    BY <2>2, <2>3, <2>4 DEF Abstract!Answer, ClientOf, SameAddr
  <2>6. c \in {ClientOf(p) : p \in told'} /\ {l} \in SUBSET told'
    BY <2>2, <2>4 DEF ClientOf
  <2> QED
    BY <2>5, <2>6 DEF Abstract!Next
<1> QED
  BY <1>2, <1>3

\* Every step of the server is a step of Promises, or none.
LEMMA StepsPromise ==
    ASSUME LeaseInv, ~SaveFails, [Next]_vars
    PROVE  [Abstract!Next]_(Abstract!vars)
<1>1. ASSUME NEW c \in Clients, Renew(c) PROVE Abstract!Next
  <2>1. PICK l \in Bound(c) : Commit(c, l.addr, l.keyed)
    BY <1>1 DEF Renew
  <2>2. l \in leases /\ l.c = c /\ HasActive(snap) /\ up /\ now' = now
    BY <1>1 DEF Renew, Bound, OfClient, OnPrefix
  <2>3. ~IsStatic(c) => \A m \in Dynamic(Others(leases, c)) : m.addr # l.addr
    BY <2>2 DEF LeaseInv, WellKept, Distinct, Dynamic, Others
  <2> QED
    BY <2>1, <2>2, <2>3, CommitsPromise
<1>2. ASSUME NEW c \in Clients, Assign(c) PROVE Abstract!Next
  <2> DEFINE a == Allocate(c, Active(snap).net)
  <2>1. up /\ HasActive(snap) /\ CanAllocate(c, Active(snap).net) /\ Commit(c, a, FALSE) /\ now' = now
    BY <1>2 DEF Assign
  <2>2. ASSUME ~IsStatic(c) PROVE a \notin Used
    BY <2>1, <2>2, AllocatedFree
  <2>3. ~IsStatic(c) => \A m \in Dynamic(Others(leases, c)) : m.addr # a
    BY <2>2 DEF Used, Dynamic, Others
  <2> HIDE DEF a
  <2> QED
    BY <2>1, <2>3, CommitsPromise
<1>3. ASSUME told' \subseteq told, now' = now PROVE Abstract!Next
  BY <1>3 DEF Abstract!Next, Abstract!TakeBack
<1>4. ASSUME NEW c \in Clients, Refuse(c) \/ Decline(c) \/ Release(c) PROVE Abstract!Next
  BY <1>3, <1>4 DEF Refuse, Decline, Release, Others
<1>5. CASE ExpireLeases \/ OnPrefixChange \/ LinkDown \/ Crash \/ Start
  BY <1>3, <1>5 DEF ExpireLeases, OnPrefixChange, LinkDown, Crash, Start
<1>6. CASE Take \/ Serve \/ \E o \in Offers, moved \in BOOLEAN : Publish(o, moved)
  BY <1>3, <1>6 DEF Take, Serve, Publish, books
<1>7. CASE Tick
  <2>1. now' = now + 1 /\ told' = {t \in told : now' <= t.expires} /\ now \in Nat
    BY <1>7 DEF Tick, LeaseInv, Timed
  <2>2. \A q \in told : q.expires \in Nat
    BY DEF LeaseInv, Timed
  <2> QED
    BY <2>1, <2>2 DEF Abstract!Next, Abstract!Tick
<1>8. CASE UNCHANGED vars
  BY <1>8 DEF vars, books, Abstract!vars
<1> QED
  BY <1>1, <1>2, <1>4, <1>5, <1>6, <1>7, <1>8 DEF Next

(***************************************************************************)
(* The theorems.                                                            *)
(***************************************************************************)
\* dhcp6s.go keeps its books as LeaseInv says, whatever the clients and the upstream do.
THEOREM LeaseInvHolds == Spec => []LeaseInv
BY Starts, StepsKeep, PTL DEF Spec

\* allocate, expireLeases, onPrefixChange and loadLeases: two clients without a static binding never
\* have the same address, in memory or in the file, also when the file cannot always be written.
THEOREM AddressesStayDistinct == Spec => []AddressesDistinct
<1>1. LeaseInv => AddressesDistinct
  BY DEF LeaseInv, WellKept, AddressesDistinct
<1> QED
  BY <1>1, LeaseInvHolds, PTL

\* saveLeases before each answer: with a file that can be written, no crash makes the server promise
\* an address again while somebody may hold it.
THEOREM PromisesStayDistinct == Spec => []PromisesDistinct
<1>1. LeaseInv => PromisesDistinct
  BY DEF LeaseInv, WellKept, PromisesDistinct, OnRecord, Distinct, Dynamic
<1> QED
  BY <1>1, LeaseInvHolds, PTL

\* s.declined: an address in use by somebody else stays out of the pool for the hold.
THEOREM DeclinedStayOut == Spec => []DeclinedKeptOut
<1>1. LeaseInv => DeclinedKeptOut
  BY DEF LeaseInv
<1> QED
  BY <1>1, LeaseInvHolds, PTL

\* assign: no message, sweep or prefix change exchanges an address that is good.
THEOREM AddressesAreKept == Spec => AddressKept
<1> DEFINE P == \A c \in Clients : \A l \in Bound(c) : \A m \in OfClient(leases', c) : m.addr = l.addr
<1>1. LeaseInv /\ [Next]_vars => [P]_vars
  <2> SUFFICES ASSUME LeaseInv, Next, NEW c \in Clients, NEW l \in Bound(c), NEW m \in OfClient(leases', c)
               PROVE  m.addr = l.addr
    OBVIOUS
  <2>1. l \in leases /\ l.c = c /\ m \in leases' /\ m.c = c
    BY DEF Bound, OfClient
  <2>2. m \in leases => m = l
    BY <2>1 DEF LeaseInv, WellKept, OnePerClient
  <2>3. ASSUME NEW x \in Clients, Renew(x) PROVE m.addr = l.addr
    <3>1. PICK y \in Bound(x) : Commit(x, y.addr, y.keyed)
      BY <2>3 DEF Renew
    <3>2. y \in leases /\ y.c = x
      BY DEF Bound, OfClient
    <3>3. m \in leases \/ (x = c /\ m.addr = y.addr)
      BY <2>1, <3>1 DEF Commit, Others
    <3>4. x = c => y = l
      BY <2>1, <3>2 DEF LeaseInv, WellKept, OnePerClient
    <3> QED
      BY <2>2, <3>3, <3>4
  <2>4. ASSUME NEW x \in Clients, Assign(x) PROVE m.addr = l.addr
    <3>1. Bound(x) = {} /\ Commit(x, Allocate(x, Active(snap).net), FALSE)
      BY <2>4 DEF Assign
    <3>2. x # c
      BY <3>1
    <3>3. m \in leases
      <4> DEFINE a == Allocate(x, Active(snap).net)
                 n == [c |-> x, addr |-> a, expires |-> now + ValidLeft, keyed |-> Keyed(x, FALSE)]
      <4>1. leases' = Others(leases, x) \cup {n} /\ n.c = x
        BY <3>1 DEF Commit
      <4> HIDE DEF n
      <4> QED
        BY <2>1, <3>2, <4>1 DEF Others
    <3> QED
      BY <2>2, <3>3
  <2>5. ASSUME NEW x \in Clients, Refuse(x) \/ Decline(x) \/ Release(x) PROVE m.addr = l.addr
    BY <2>1, <2>2, <2>5 DEF Refuse, Decline, Release, Others
  <2>6. CASE ExpireLeases \/ OnPrefixChange \/ LinkDown \/ Crash \/ Tick
    BY <2>1, <2>2, <2>6 DEF ExpireLeases, OnPrefixChange, LinkDown, Crash, Tick
  <2>7. CASE Take \/ Serve \/ \E o \in Offers, moved \in BOOLEAN : Publish(o, moved)
    BY <2>1, <2>2, <2>7 DEF Take, Serve, Publish, books
  <2>8. CASE Start
    BY <2>1, <2>8 DEF Start, LeaseInv
  <2> QED
    BY <2>3, <2>4, <2>5, <2>6, <2>7, <2>8 DEF Next
<1> QED
  BY <1>1, LeaseInvHolds, PTL DEF Spec, AddressKept

\* saveLeases before each answer, loadLeases, expireLeases after the end and not before it: with a
\* file that can be written dhcp6s.go implements Promises, over any number of restarts.
THEOREM PromisesAreKept ==
    ASSUME ~SaveFails
    PROVE  Spec => PromisesKept
<1>1. Init => Abstract!Init
  BY DEF Init, Abstract!Init
<1>2. LeaseInv /\ [Next]_vars => [Abstract!Next]_(Abstract!vars)
  BY StepsPromise
<1> QED
  BY <1>1, <1>2, LeaseInvHolds, PTL DEF Spec, PromisesKept, Abstract!Spec
=============================================================================
