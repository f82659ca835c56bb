--------------------------- MODULE NDProxyProofs ---------------------------
(***************************************************************************)
(* Proofs about NDProxy, for any hosts, limits, layout and modes: what the *)
(* proxy keeps is bounded, what it learned is routed, and confirmed        *)
(* neighbours outlast a flood. Each operator on the tables has a lemma     *)
(* that says what it gives at an address, and one that it keeps WellKept.  *)
(***************************************************************************)
EXTENDS NDProxy, TLAPS, FiniteSetTheorems

----------------------------------------------------------------------------
(* Sizes *)

\* The table is finite.
LEMMA TableFinite == \A x : IsFiniteSet(inTable(x)) /\ Cardinality(inTable(x)) \in Nat
<1> SUFFICES ASSUME NEW x PROVE IsFiniteSet(inTable(x)) /\ Cardinality(inTable(x)) \in Nat
  OBVIOUS
<1>1. inTable(x) \subseteq Hosts
  BY DEF inTable
<1> QED
  BY <1>1, FS_Subset, FS_CardinalityType, ConstantsAssumption

\* Losing sessions keeps the size of the table.
LEMMA FewerSized ==
    ASSUME NEW x, NEW y, Sized(x), inTable(y) \subseteq inTable(x)
    PROVE  Sized(y)
<1>1. Cardinality(inTable(y)) <= Cardinality(inTable(x))
  BY TableFinite, FS_Subset
<1> QED
  BY <1>1, TableFinite, ConstantsAssumption DEF Sized

\* One more session fits a table that is not full.
LEMMA OneMoreSized ==
    ASSUME NEW x, NEW y, NEW t, Cardinality(inTable(x)) < MaxSessions,
           inTable(y) \subseteq inTable(x) \cup {t}
    PROVE  Sized(y)
<1>1. IsFiniteSet(inTable(x) \cup {t})
  BY TableFinite, FS_AddElement
<1>2. Cardinality(inTable(x) \cup {t}) \in {Cardinality(inTable(x)), Cardinality(inTable(x)) + 1}
  BY TableFinite, FS_AddElement
<1>3. Cardinality(inTable(y)) <= Cardinality(inTable(x) \cup {t})
  BY <1>1, FS_Subset
<1>4. Cardinality(inTable(x) \cup {t}) \in Nat
  BY <1>1, FS_CardinalityType
<1> QED
  BY <1>2, <1>3, <1>4, TableFinite, ConstantsAssumption DEF Sized

----------------------------------------------------------------------------
(* What the operators give *)

\* dropRoute touches the routes of A alone.
LEMMA DropFacts ==
    ASSUME NEW x \in Tables, NEW A
    PROVE  /\ dropRoute(x, A) \in Tables
           /\ dropRoute(x, A).sessions = x.sessions
           /\ dropRoute(x, A).pending = x.pending
           /\ dropRoute(x, A).full = x.full
           /\ \A h \in Hosts :
                 /\ dropRoute(x, A).kernelSet[h] = IF h \in A THEN None ELSE x.kernelSet[h]
                 /\ h \notin A => dropRoute(x, A).kernel[h] = x.kernel[h]
<1> DEFINE y == dropRoute(x, A)
           ks == [h \in Hosts |-> IF h \in A THEN None ELSE x.kernelSet[h]]
<1>1. ks \in [Hosts -> Sides \cup {None}]
  BY DEF Tables
<1>2. unrouted(x, A) \in [Hosts -> Sides \cup {None}]
  BY DEF Tables, unrouted
<1>3. y = [x EXCEPT !.kernel = unrouted(x, A), !.kernelSet = ks]
  BY DEF dropRoute
<1>4. /\ y.sessions = x.sessions /\ y.pending = x.pending /\ y.full = x.full
      /\ y.kernelSet = ks /\ y.kernel = unrouted(x, A)
  BY <1>3 DEF Tables
<1>5. y \in Tables
  BY <1>1, <1>2, <1>3 DEF Tables
<1>6. \A h \in Hosts : h \notin A => unrouted(x, A)[h] = x.kernel[h]
  BY DEF unrouted
<1> QED
  BY <1>4, <1>5, <1>6

\* forget takes away all there is of A, and nothing else.
LEMMA ForgetFacts ==
    ASSUME NEW x \in Tables, NEW A
    PROVE  /\ forget(x, A) \in Tables
           /\ \A h \in Hosts :
                 /\ forget(x, A).sessions[h] = IF h \in A THEN NoSession ELSE x.sessions[h]
                 /\ forget(x, A).pending[h] = IF h \in A THEN {} ELSE x.pending[h]
                 /\ forget(x, A).kernelSet[h] = IF h \in A THEN None ELSE x.kernelSet[h]
                 /\ h \notin A => forget(x, A).kernel[h] = x.kernel[h]
<1> DEFINE d == dropRoute(x, A)
           y == forget(x, A)
           ss == [h \in Hosts |-> IF h \in A THEN NoSession ELSE d.sessions[h]]
           pp == [h \in Hosts |-> IF h \in A THEN {} ELSE d.pending[h]]
<1>1. y = [d EXCEPT !.sessions = ss, !.pending = pp]
  BY DEF forget
<1>2. /\ d \in Tables /\ d.sessions = x.sessions /\ d.pending = x.pending
      /\ \A h \in Hosts : /\ d.kernelSet[h] = IF h \in A THEN None ELSE x.kernelSet[h]
                          /\ h \notin A => d.kernel[h] = x.kernel[h]
  BY DropFacts
<1> HIDE DEF d, y
<1>3. ss \in [Hosts -> [state : {None, "probing", "valid"}, side : Sides \cup {None}, left : Nat,
                        asked : BOOLEAN, fresh : BOOLEAN]]
  BY <1>2 DEF Tables, NoSession
<1>4. pp \in [Hosts -> SUBSET Solicitors]
  BY <1>2 DEF Tables
<1> HIDE DEF ss, pp
<1>5. y \in Tables
  BY <1>1, <1>2, <1>3, <1>4 DEF Tables
<1>6. y.sessions = ss /\ y.pending = pp /\ y.kernelSet = d.kernelSet /\ y.kernel = d.kernel
  BY <1>1, <1>2 DEF Tables
<1>7. \A h \in Hosts : /\ ss[h] = IF h \in A THEN NoSession ELSE x.sessions[h]
                       /\ pp[h] = IF h \in A THEN {} ELSE x.pending[h]
  BY <1>2 DEF ss, pp
<1> QED
  BY <1>2, <1>5, <1>6, <1>7 DEF y

----------------------------------------------------------------------------
(* Well kept *)

\* A neighbour an NA confirmed whose time is not up, which no step but the clock ends; and what an
\* operator does that takes the tables from x to y.
Confirmed(x, h) == x.sessions[h].state = "valid" /\ x.sessions[h].left > 0
Outlasts(x, y) == \A h \in Hosts : Confirmed(x, h) => Confirmed(y, h)
Keeps(x, y) == WellKept(y) /\ (Installed(x) => Installed(y)) /\ Outlasts(x, y)

\* Operators that keep the tables can follow one another.
LEMMA KeepsOn ==
    ASSUME NEW x, NEW y, NEW z, Keeps(x, y), Keeps(y, z)
    PROVE  Keeps(x, z)
BY DEF Keeps, Outlasts

\* Forgetting sessions keeps the rest well kept, and what is on record installed.
LEMMA ForgetKeeps ==
    ASSUME NEW x, WellKept(x), NEW A
    PROVE  /\ WellKept(forget(x, A))
           /\ inTable(forget(x, A)) = inTable(x) \ A
           /\ Installed(x) => Installed(forget(x, A))
           /\ (\A h \in A \cap Hosts : ~Confirmed(x, h)) => Keeps(x, forget(x, A))
<1> DEFINE y == forget(x, A)
<1>1. x \in Tables
  BY DEF WellKept
<1>2. /\ y \in Tables
      /\ \A h \in Hosts : /\ y.sessions[h] = IF h \in A THEN NoSession ELSE x.sessions[h]
                          /\ y.pending[h] = IF h \in A THEN {} ELSE x.pending[h]
                          /\ y.kernelSet[h] = IF h \in A THEN None ELSE x.kernelSet[h]
                          /\ h \notin A => y.kernel[h] = x.kernel[h]
  BY <1>1, ForgetFacts
<1> HIDE DEF y
<1>3. inTable(y) = inTable(x) \ A
  BY <1>2 DEF inTable, NoSession
<1>4. Sized(y)
  BY <1>3, FewerSized DEF WellKept
<1>5. Tidy(y)
  BY <1>2, <1>3 DEF WellKept, Tidy, NoSession
<1>6. Few(y)
  BY <1>2, FS_EmptySet, ConstantsAssumption DEF WellKept, Few
<1>7. Noted(y)
  BY <1>2 DEF WellKept, Noted, NoSession
<1>8. Installed(x) => Installed(y)
  BY <1>2 DEF Installed
<1>9. (\A h \in A \cap Hosts : ~Confirmed(x, h)) => Outlasts(x, y)
  BY <1>2 DEF Outlasts, Confirmed
<1> QED
  BY <1>2, <1>3, <1>4, <1>5, <1>6, <1>7, <1>8, <1>9 DEF WellKept, Keeps, y

\* A table past its time is swept, and is as well kept as before.
LEMMA SweepKeeps ==
    ASSUME NEW x, WellKept(x)
    PROVE  Keeps(x, sweep(x)) /\ inTable(sweep(x)) \subseteq inTable(x)
BY ForgetKeeps DEF sweep, Confirmed

\* Making room takes sessions away that nobody confirmed, or whose time is up.
LEMMA RoomKeeps ==
    ASSUME NEW x, WellKept(x)
    PROVE  Keeps(x, makeRoom(x)) /\ inTable(makeRoom(x)) \subseteq inTable(x)
<1> DEFINE y == sweep(x)
           z == forget(y, {h \in Hosts : y.sessions[h].state = "probing"})
<1>1. Keeps(x, y) /\ inTable(y) \subseteq inTable(x)
  BY SweepKeeps
<1>2. makeRoom(x) \in {y, z}
  BY Zenon DEF makeRoom
<1> HIDE DEF y
<1>3. Keeps(y, z) /\ inTable(z) \subseteq inTable(y)
  BY <1>1, ForgetKeeps DEF Keeps, Confirmed
<1> HIDE DEF z
<1> QED
  BY <1>1, <1>2, <1>3, KeepsOn

\* The note that the table is full is all it changes.
LEMMA FullKeeps ==
    ASSUME NEW x, WellKept(x), NEW b \in BOOLEAN
    PROVE  Keeps(x, [x EXCEPT !.full = b]) /\ inTable([x EXCEPT !.full = b]) = inTable(x)
<1> DEFINE y == [x EXCEPT !.full = b]
<1>1. /\ y \in Tables /\ y.sessions = x.sessions /\ y.pending = x.pending
      /\ y.kernelSet = x.kernelSet /\ y.kernel = x.kernel
  BY DEF WellKept, Tables
<1> HIDE DEF y
<1>2. inTable(y) = inTable(x)
  BY <1>1 DEF inTable
<1>3. WellKept(y) /\ (Installed(x) => Installed(y)) /\ Outlasts(x, y)
  BY <1>1, <1>2 DEF WellKept, Sized, Tidy, Few, Noted, Installed, Outlasts, Confirmed
<1> QED
  BY <1>1, <1>2, <1>3 DEF y, Keeps

\* admit keeps the tables, and where it says that one more fits it does.
LEMMA AdmitKeeps ==
    ASSUME NEW x, WellKept(x)
    PROVE  /\ Keeps(x, admit(x).tab)
           /\ admit(x).ok => Cardinality(inTable(admit(x).tab)) < MaxSessions
           /\ inTable(admit(x).tab) \subseteq inTable(x)
<1> DEFINE y == makeRoom(x)
           z == [y EXCEPT !.full = TRUE]
<1>1. Keeps(x, y) /\ inTable(y) \subseteq inTable(x)
  BY RoomKeeps
<1>2. \/ Cardinality(inTable(x)) < MaxSessions /\ admit(x) = [ok |-> TRUE, tab |-> x]
      \/ admit(x) = [ok |-> FALSE, tab |-> x]
      \/ Cardinality(inTable(y)) < MaxSessions /\ admit(x) = [ok |-> TRUE, tab |-> y]
      \/ admit(x) = [ok |-> FALSE, tab |-> z]
  BY Zenon DEF admit
<1> HIDE DEF y
<1>3. Keeps(y, z) /\ inTable(z) = inTable(y)
  BY <1>1, FullKeeps DEF Keeps
<1> HIDE DEF z
<1>4. Keeps(x, x) /\ Keeps(x, z)
  BY <1>1, <1>3, KeepsOn DEF Keeps, Outlasts
<1> QED
  BY <1>1, <1>2, <1>3, <1>4

\* A session s entered for a target, in a table that has it or has room: what the proxy does when it
\* learns a host or starts a probe.
Entering(x, t, s) == [x EXCEPT !.sessions[t] = s]
Fits(x, t) == t \in inTable(x) \/ Cardinality(inTable(x)) < MaxSessions
Entries == [state : {"probing", "valid"}, side : Sides, left : Nat,
            asked : BOOLEAN, fresh : BOOLEAN]

\* What entering a session gives.
LEMMA EnterFacts ==
    ASSUME NEW x \in Tables, NEW t \in Hosts, NEW s \in Entries
    PROVE  /\ Entering(x, t, s) \in Tables
           /\ Entering(x, t, s).pending = x.pending
           /\ Entering(x, t, s).kernelSet = x.kernelSet
           /\ Entering(x, t, s).kernel = x.kernel
           /\ \A h \in Hosts : Entering(x, t, s).sessions[h] = IF h = t THEN s ELSE x.sessions[h]
           /\ inTable(Entering(x, t, s)) = inTable(x) \cup {t}
<1> DEFINE y == Entering(x, t, s)
<1>1. /\ y.sessions = [x.sessions EXCEPT ![t] = s]
      /\ y.pending = x.pending /\ y.kernelSet = x.kernelSet /\ y.kernel = x.kernel
  BY DEF Tables, Entering
<1>2. y \in Tables
  BY DEF Tables, Entering, Entries
<1>3. \A h \in Hosts : y.sessions[h] = IF h = t THEN s ELSE x.sessions[h]
  BY <1>1 DEF Tables
<1> HIDE DEF y
<1>4. inTable(y) = inTable(x) \cup {t}
  BY <1>3 DEF inTable, None, Entries
<1> QED
  BY <1>1, <1>2, <1>3, <1>4 DEF y

\* Entering a session that fits keeps the tables, unless it is fresh and has its route to come, or
\* takes the place of a confirmed one.
LEMMA EnterKeeps ==
    ASSUME NEW x, WellKept(x), NEW t \in Hosts, Fits(x, t), NEW s \in Entries,
           s.fresh /\ need(s.side) => x.kernelSet[t] = s.side,
           Confirmed(x, t) => s.state = "valid" /\ s.left > 0
    PROVE  Keeps(x, Entering(x, t, s)) /\ inTable(Entering(x, t, s)) = inTable(x) \cup {t}
<1> DEFINE y == Entering(x, t, s)
<1>1. /\ y \in Tables /\ y.pending = x.pending /\ y.kernelSet = x.kernelSet /\ y.kernel = x.kernel
      /\ \A h \in Hosts : y.sessions[h] = IF h = t THEN s ELSE x.sessions[h]
      /\ inTable(y) = inTable(x) \cup {t}
  BY EnterFacts DEF WellKept
<1> HIDE DEF y
<1>2. Sized(y)
  BY <1>1, OneMoreSized, FewerSized DEF WellKept, Fits
<1>3. Tidy(y) /\ Few(y)
  BY <1>1 DEF WellKept, Tidy, Few
<1>7. s.side # None
  BY DEF Entries, Sides, None
<1>4. Noted(y)
  BY <1>1, <1>7 DEF WellKept, Noted
<1>5. Installed(x) => Installed(y)
  BY <1>1 DEF Installed
<1>6. Outlasts(x, y)
  BY <1>1 DEF Outlasts, Confirmed
<1> QED
  BY <1>1, <1>2, <1>3, <1>4, <1>5, <1>6 DEF WellKept, Keeps, y

\* A host that fits is learned with its route.
LEMMA RoutedKeeps ==
    ASSUME NEW x, WellKept(x), NEW t \in Hosts, Fits(x, t), NEW side \in Sides
    PROVE  LET z == Entering(x, t, Valid(side, TRUE))
           IN  Keeps(x, routed(z, side, t)) /\ inTable(routed(z, side, t)) = inTable(x) \cup {t}
<1> DEFINE s == Valid(side, TRUE)
           z == Entering(x, t, s)
           d == dropRoute(z, {t})
           y == routed(z, side, t)
<1>1. /\ s \in Entries /\ s.state = "valid" /\ s.left > 0 /\ s.side = side /\ s.fresh
  BY ConstantsAssumption DEF Valid, Entries, Sides
<1> HIDE DEF s
<1>2. /\ z \in Tables /\ z.pending = x.pending /\ z.kernelSet = x.kernelSet /\ z.kernel = x.kernel
      /\ \A h \in Hosts : z.sessions[h] = IF h = t THEN s ELSE x.sessions[h]
      /\ inTable(z) = inTable(x) \cup {t}
  BY <1>1, EnterFacts DEF WellKept
<1>3. ASSUME ~need(side) \/ z.kernelSet[t] = side
      PROVE  Keeps(x, y) /\ inTable(y) = inTable(x) \cup {t}
  <2>1. y = z
    BY <1>3 DEF routed
  <2>2. Keeps(x, z)
    BY <1>1, <1>2, <1>3, EnterKeeps
  <2> QED
    BY <1>2, <2>1, <2>2
<1>4. ASSUME need(side), z.kernelSet[t] # side
      PROVE  Keeps(x, y) /\ inTable(y) = inTable(x) \cup {t}
  <2> HIDE DEF z
  <2>1. y = [d EXCEPT !.kernelSet[t] = side, !.kernel[t] = side]
    BY <1>4 DEF routed
  <2>2. /\ d \in Tables /\ d.sessions = z.sessions /\ d.pending = z.pending
        /\ \A h \in Hosts : h # t => d.kernelSet[h] = z.kernelSet[h] /\ d.kernel[h] = z.kernel[h]
    BY <1>2, DropFacts
  <2> HIDE DEF d, y
  <2>3. /\ y \in Tables /\ y.sessions = z.sessions /\ y.pending = x.pending
        /\ y.kernelSet = [d.kernelSet EXCEPT ![t] = side]
        /\ y.kernel = [d.kernel EXCEPT ![t] = side]
    BY <1>2, <2>1, <2>2 DEF Tables
  <2>4. \A h \in Hosts :
           /\ y.kernelSet[h] = IF h = t THEN side ELSE x.kernelSet[h]
           /\ y.kernel[h] = IF h = t THEN side ELSE x.kernel[h]
           /\ y.sessions[h] = IF h = t THEN s ELSE x.sessions[h]
    BY <1>2, <2>2, <2>3 DEF Tables
  <2>5. inTable(y) = inTable(x) \cup {t}
    BY <1>2, <2>3 DEF inTable
  <2>6. Sized(y)
    BY <2>5, OneMoreSized, FewerSized DEF WellKept, Fits
  <2>7. Tidy(y) /\ Few(y)
    BY <2>3, <2>4, <2>5 DEF WellKept, Tidy, Few
  <2>11. side # None
    BY DEF Sides, None
  <2>8. Noted(y)
    BY <1>1, <2>4, <2>11 DEF WellKept, Noted
  <2>9. Installed(x) => Installed(y)
    BY <2>4 DEF Installed
  <2>10. Outlasts(x, y)
    BY <1>1, <2>4 DEF Outlasts, Confirmed
  <2> QED
    BY <2>3, <2>5, <2>6, <2>7, <2>8, <2>9, <2>10 DEF WellKept, Keeps
<1> QED
  BY <1>3, <1>4 DEF s

\* learn keeps the tables; a host that is in the table stays in it.
LEMMA LearnKeeps ==
    ASSUME NEW x, WellKept(x), NEW side \in Sides, NEW t \in Hosts
    PROVE  Keeps(x, learn(x, side, t))
<1> DEFINE a == IF x.sessions[t].state # None THEN [ok |-> TRUE, tab |-> x] ELSE admit(x)
           z == Entering(a.tab, t, Valid(side, TRUE))
<1>1. /\ Keeps(x, a.tab) /\ (a.ok => Fits(a.tab, t))
  <2>1. CASE x.sessions[t].state # None
    BY <2>1 DEF Keeps, Outlasts, Fits, inTable
  <2>2. CASE x.sessions[t].state = None
    BY <2>2, AdmitKeeps DEF Fits
  <2> QED
    BY <2>1, <2>2
<1>2. learn(x, side, t) = IF a.ok THEN routed(z, side, t) ELSE a.tab
  BY DEF learn, Entering
<1> HIDE DEF a
<1>3. a.ok => Keeps(a.tab, routed(z, side, t))
  BY <1>1, RoutedKeeps DEF Keeps
<1> HIDE DEF z
<1> QED
  BY <1>1, <1>2, <1>3, KeepsOn

\* Whoever can ask is one of finitely many.
LEMMA SolicitorsFinite == IsFiniteSet(Solicitors)
<1>1. IsFiniteSet(Hosts \cup {Unspecified})
  BY FS_AddElement, ConstantsAssumption
<1>2. IsFiniteSet({"wan"} \cup {"lan"}) /\ {"wan"} \cup {"lan"} = Sides
  BY FS_Singleton, FS_AddElement DEF Sides
<1> QED
  BY <1>1, <1>2, FS_Product DEF Solicitors

\* One more asker fits, or the list stays.
LEMMA AskerFits ==
    ASSUME NEW L \in SUBSET Solicitors, Cardinality(L) <= MaxAskers, NEW a \in Solicitors
    PROVE  /\ appendAsker(L, a) \in SUBSET Solicitors
           /\ Cardinality(appendAsker(L, a)) <= MaxAskers
<1>1. IsFiniteSet(L) /\ Cardinality(L) \in Nat
  BY SolicitorsFinite, FS_Subset, FS_CardinalityType
<1>2. Cardinality(L \cup {a}) \in {Cardinality(L), Cardinality(L) + 1}
  BY <1>1, FS_AddElement
<1> QED
  BY <1>1, <1>2, ConstantsAssumption DEF appendAsker

\* Changing the askers of a target that is in the table keeps the tables.
LEMMA PendingKeeps ==
    ASSUME NEW x, WellKept(x), NEW t \in Hosts, NEW L \in SUBSET Solicitors,
           Cardinality(L) <= MaxAskers, L = {} \/ t \in inTable(x)
    PROVE  Keeps(x, [x EXCEPT !.pending[t] = L])
<1> DEFINE y == [x EXCEPT !.pending[t] = L]
<1>1. x \in Tables
  BY DEF WellKept
<1>2. /\ y \in Tables /\ y.sessions = x.sessions
      /\ y.kernelSet = x.kernelSet /\ y.kernel = x.kernel
      /\ y.pending = [x.pending EXCEPT ![t] = L]
  BY <1>1 DEF Tables
<1>3. \A h \in Hosts : y.pending[h] = IF h = t THEN L ELSE x.pending[h]
  BY <1>1, <1>2 DEF Tables
<1> HIDE DEF y
<1>4. inTable(y) = inTable(x)
  BY <1>2 DEF inTable
<1>5. WellKept(y) /\ (Installed(x) => Installed(y)) /\ Outlasts(x, y)
  BY <1>2, <1>3, <1>4 DEF WellKept, Sized, Tidy, Few, Noted, Installed, Outlasts, Confirmed
<1> QED
  BY <1>5 DEF Keeps, y

\* Whoever asks for a target in the table waits for it.
LEMMA AskingKeeps ==
    ASSUME NEW x, WellKept(x), NEW t \in inTable(x), NEW from \in Froms, NEW side \in Sides
    PROVE  Keeps(x, asking(x, t, from, side))
<1>1. t \in Hosts
  BY DEF inTable
<1>2. CASE from = Self
  BY <1>2 DEF asking, Keeps, Outlasts
<1>3. CASE from # Self
  <2> DEFINE L == appendAsker(x.pending[t], <<from, side>>)
  <2>1. x.pending[t] \in SUBSET Solicitors /\ Cardinality(x.pending[t]) <= MaxAskers
    BY <1>1 DEF WellKept, Tables, Few
  <2>2. <<from, side>> \in Solicitors
    BY <1>3 DEF Froms, Solicitors
  <2>3. L \in SUBSET Solicitors /\ Cardinality(L) <= MaxAskers
    BY <2>1, <2>2, AskerFits
  <2>4. asking(x, t, from, side) = [x EXCEPT !.pending[t] = L]
    BY <1>3 DEF asking
  <2> HIDE DEF L
  <2> QED
    BY <1>1, <2>3, <2>4, PendingKeeps
<1> QED
  BY <1>2, <1>3

----------------------------------------------------------------------------
(* The handlers *)

\* Learning the sender keeps the tables.
LEMMA SenderKeeps ==
    ASSUME ProxyInv, NEW side \in Sides, NEW t, NEW from
    PROVE  Keeps(n, withSender(side, t, from))
<1>1. WellKept(n) /\ Keeps(n, n)
  BY DEF ProxyInv, Keeps, Outlasts
<1>2. from \in scope => Keeps(n, learn(n, side, from))
  BY <1>1, LearnKeeps DEF ProxyInv
<1> QED
  BY <1>1, <1>2 DEF withSender

\* An NS that starts a probe, or joins one.
LEMMA UnknownKeeps ==
    ASSUME ProxyInv, NEW side \in Sides, NEW t \in Hosts, NEW from \in Froms,
           SolicitUnknown(side, t, from)
    PROVE  Keeps(n, n')
<1> DEFINE x == withSender(side, t, from)
           s == x.sessions[t]
           a == IF s.state = None THEN admit(x) ELSE [ok |-> TRUE, tab |-> x]
           z == Entering(a.tab, t, Probing(other(side)))
<1>1. Keeps(n, x) /\ WellKept(x)
  BY SenderKeeps DEF Keeps
<1>2. /\ s.state # "valid"
      /\ n' = IF s.asked THEN asking(x, t, from, side)
              ELSE IF ~a.ok THEN a.tab ELSE asking(z, t, from, side)
  BY DEF SolicitUnknown, Entering
<1> HIDE DEF x
<1>3. CASE s.asked
  <2>1. t \in inTable(x)
    BY <1>1, <1>3 DEF WellKept, Tidy
  <2> QED
    BY <1>1, <1>2, <1>3, <2>1, AskingKeeps, KeepsOn
<1>4. CASE ~s.asked
  <2>1. Keeps(x, a.tab) /\ (a.ok => Fits(a.tab, t)) /\ a.tab.sessions[t].state # "valid"
    <3>1. CASE s.state = None
      <4>1. Keeps(x, a.tab) /\ (a.ok => Fits(a.tab, t)) /\ inTable(a.tab) \subseteq inTable(x)
        BY <1>1, <3>1, AdmitKeeps DEF Fits
      <4>2. t \notin inTable(a.tab)
        BY <3>1, <4>1 DEF inTable
      <4> HIDE DEF a
      <4> QED
        BY <4>1, <4>2 DEF inTable, None
    <3>2. CASE s.state # None
      BY <1>1, <1>2, <3>2 DEF Keeps, Outlasts, Fits, inTable
    <3> QED
      BY <3>1, <3>2
  <2>2. Keeps(n, a.tab) /\ WellKept(a.tab)
    BY <1>1, <2>1, KeepsOn DEF Keeps
  <2>3. ASSUME a.ok PROVE Keeps(a.tab, z) /\ t \in inTable(z)
    <3>1. Probing(other(side)) \in Entries /\ ~Probing(other(side)).fresh
      BY ConstantsAssumption DEF Probing, Entries, other, Sides
    <3> HIDE DEF a
    <3>2. ~Confirmed(a.tab, t)
      BY <2>1 DEF Confirmed
    <3> QED
      BY <2>1, <2>2, <2>3, <3>1, <3>2, EnterKeeps
  <2> HIDE DEF a, z
  <2>4. a.ok => Keeps(n, z) /\ Keeps(z, asking(z, t, from, side))
    BY <2>2, <2>3, KeepsOn, AskingKeeps DEF Keeps
  <2> QED
    BY <1>2, <1>4, <2>2, <2>4, KeepsOn
<1> QED
  BY <1>3, <1>4

\* prefix mode enters what it answers for.
LEMMA PrefixKeeps ==
    ASSUME ProxyInv, NEW t \in Hosts, NEW from \in Froms, SolicitPrefix(t, from)
    PROVE  Keeps(n, n')
<1> DEFINE a == admit(n)
           z == Entering(a.tab, t, Valid("lan", FALSE))
<1>1. Keeps(n, a.tab) /\ (a.ok => Fits(a.tab, t))
  BY AdmitKeeps DEF ProxyInv, Fits
<1>2. n' = IF a.ok THEN z ELSE a.tab
  BY DEF SolicitPrefix, Entering
<1>3. /\ Valid("lan", FALSE) \in Entries /\ ~Valid("lan", FALSE).fresh
      /\ Valid("lan", FALSE).state = "valid" /\ Valid("lan", FALSE).left > 0
  BY ConstantsAssumption DEF Valid, Entries, Sides
<1> HIDE DEF a
<1>4. a.ok => Keeps(a.tab, z)
  BY <1>1, <1>3, EnterKeeps DEF Keeps
<1> HIDE DEF z
<1> QED
  BY <1>1, <1>2, <1>4, KeepsOn

\* An NA: the host is learned, and nobody waits for it any more.
LEMMA AdvertKeeps ==
    ASSUME ProxyInv, NEW side \in Sides, NEW t \in Hosts, onAdvert(side, t)
    PROVE  Keeps(n, n')
<1> DEFINE known == n.sessions[t].state # None
           x == IF known \/ (side = "lan" /\ t \in scope) THEN learn(n, side, t) ELSE n
<1>1. Keeps(n, x) /\ WellKept(x)
  <2>1. Keeps(n, n) /\ Keeps(n, learn(n, side, t))
    BY LearnKeeps DEF ProxyInv, Keeps, Outlasts
  <2> QED
    BY <2>1 DEF Keeps
<1>2. n' = IF known THEN [x EXCEPT !.pending[t] = {}] ELSE x
  BY DEF onAdvert
<1> HIDE DEF x, known
<1>3. Keeps(x, [x EXCEPT !.pending[t] = {}])
  BY <1>1, PendingKeeps, FS_EmptySet, ConstantsAssumption
<1> QED
  BY <1>1, <1>2, <1>3, KeepsOn

----------------------------------------------------------------------------
(* The invariant *)

\* The invariant holds at first.
LEMMA ProxyStarts == Init => ProxyInv
<1> SUFFICES ASSUME Init PROVE ProxyInv
  OBVIOUS
<1>1. n \in Tables
  BY DEF Init, Tables, NoSession
<1>2. /\ \A h \in Hosts : /\ n.sessions[h] = NoSession /\ n.pending[h] = {}
                          /\ n.kernelSet[h] = None /\ n.kernel[h] = None
      /\ scope = {} /\ serving = FALSE
  BY DEF Init
<1>3. inTable(n) = {}
  BY <1>2 DEF inTable, NoSession
<1>0. Cardinality({}) = 0
  BY FS_EmptySet
<1>4. Sized(n)
  BY <1>0, <1>3, ConstantsAssumption DEF Sized
<1>6. Few(n)
  <2>1. \A h \in Hosts : Cardinality(n.pending[h]) = 0
    BY <1>0, <1>2
  <2> QED
    BY <2>1, ConstantsAssumption DEF Few
<1>5. Tidy(n) /\ Noted(n)
  BY <1>2 DEF Tidy, Noted, NoSession
<1> QED
  BY <1>1, <1>2, <1>4, <1>5, <1>6 DEF ProxyInv, WellKept

\* What the handlers and the collector do to the tables.
LEMMA HandlersKeep ==
    ASSUME ProxyInv, Next
    PROVE  \/ Keeps(n, n') /\ UNCHANGED <<serving, lanLost>> /\ scope' \subseteq Hosts
           \/ WanDown \/ LanBounce \/ (\E S \in {Hosts, {}} : Run(S)) \/ Tick
<1>1. scope \subseteq Hosts /\ WellKept(n) /\ Keeps(n, n)
  BY DEF ProxyInv, Keeps, Outlasts
<1>2. ASSUME NEW side \in Sides, NEW t \in Hosts, NEW from \in Froms, SolicitKnown(side, t, from)
      PROVE  Keeps(n, n') /\ UNCHANGED <<serving, lanLost, scope>>
  BY <1>2, SenderKeeps DEF SolicitKnown
<1>3. ASSUME NEW side \in Sides, NEW t \in Hosts, NEW from \in Froms, SolicitUnknown(side, t, from)
      PROVE  Keeps(n, n') /\ UNCHANGED <<serving, lanLost, scope>>
  <2>1. UNCHANGED <<serving, lanLost, scope>>
    BY <1>3 DEF SolicitUnknown
  <2> QED
    BY <1>3, <2>1, UnknownKeeps
<1>4. ASSUME NEW t \in Hosts, NEW from \in Froms, SolicitPrefix(t, from)
      PROVE  Keeps(n, n') /\ UNCHANGED <<serving, lanLost, scope>>
  <2>1. UNCHANGED <<serving, lanLost, scope>>
    BY <1>4 DEF SolicitPrefix
  <2> QED
    BY <1>4, <2>1, PrefixKeeps
<1>5. ASSUME NEW side \in Sides, NEW t \in Hosts, onAdvert(side, t)
      PROVE  Keeps(n, n') /\ UNCHANGED <<serving, lanLost, scope>>
  <2>1. UNCHANGED <<serving, lanLost, scope>>
    BY <1>5 DEF onAdvert
  <2> QED
    BY <1>5, <2>1, AdvertKeeps
<1>6. ASSUME NEW S \in {Hosts, {}}, setPrefixes(S)
      PROVE  Keeps(n, n') /\ UNCHANGED <<serving, lanLost>> /\ scope' \subseteq Hosts
  BY <1>1, <1>6 DEF setPrefixes
<1>7. ASSUME Collect PROVE Keeps(n, n') /\ UNCHANGED <<serving, lanLost, scope>>
  BY <1>1, <1>7, SweepKeeps DEF Collect
<1> QED
  BY <1>1, <1>2, <1>3, <1>4, <1>5, <1>6, <1>7, Zenon DEF Next

\* Routes the kernel drops are no part of the proxy's books.
LEMMA FlushKeeps ==
    ASSUME WellKept(n), NEW side \in Sides, n' = [n EXCEPT !.kernel = Flush(n, side)]
    PROVE  WellKept(n') /\ Outlasts(n, n')
<1>1. Flush(n, side) \in [Hosts -> Sides \cup {None}]
  BY DEF WellKept, Tables, Flush
<1>2. /\ n' \in Tables /\ n'.sessions = n.sessions /\ n'.pending = n.pending
      /\ n'.kernelSet = n.kernelSet
  BY <1>1 DEF WellKept, Tables
<1>3. inTable(n') = inTable(n)
  BY <1>2 DEF inTable
<1> QED
  BY <1>2, <1>3 DEF WellKept, Sized, Tidy, Few, Noted, Outlasts, Confirmed

\* A new round forgets which routes it has, and counts no host as learned.
LEMMA RunKeeps ==
    ASSUME WellKept(n), NEW S, Run(S)
    PROVE  WellKept(n') /\ Installed(n') /\ Outlasts(n, n')
<1> DEFINE ks == [h \in Hosts |-> None]
           ss == [h \in Hosts |-> [n.sessions[h] EXCEPT !.fresh = FALSE]]
<1>1. n \in Tables /\ n' = [n EXCEPT !.kernelSet = ks, !.sessions = ss]
  BY DEF Run, WellKept
<1>2. \A h \in Hosts :
         /\ n.sessions[h] \in [state : {None, "probing", "valid"}, side : Sides \cup {None},
                               left : Nat, asked : BOOLEAN, fresh : BOOLEAN]
         /\ ss[h] \in [state : {None, "probing", "valid"}, side : Sides \cup {None},
                       left : Nat, asked : BOOLEAN, fresh : BOOLEAN]
         /\ ss[h].state = n.sessions[h].state /\ ss[h].left = n.sessions[h].left
         /\ ss[h].asked = n.sessions[h].asked /\ ss[h].fresh = FALSE
  <2> SUFFICES ASSUME NEW h \in Hosts
      PROVE  /\ n.sessions[h] \in [state : {None, "probing", "valid"}, side : Sides \cup {None},
                                    left : Nat, asked : BOOLEAN, fresh : BOOLEAN]
             /\ ss[h] \in [state : {None, "probing", "valid"}, side : Sides \cup {None},
                            left : Nat, asked : BOOLEAN, fresh : BOOLEAN]
             /\ ss[h].state = n.sessions[h].state /\ ss[h].left = n.sessions[h].left
             /\ ss[h].asked = n.sessions[h].asked /\ ss[h].fresh = FALSE
    OBVIOUS
  <2>1. n.sessions[h] \in [state : {None, "probing", "valid"}, side : Sides \cup {None},
                            left : Nat, asked : BOOLEAN, fresh : BOOLEAN]
    BY <1>1 DEF Tables
  <2>2. ss[h] = [n.sessions[h] EXCEPT !.fresh = FALSE]
    OBVIOUS
  <2> HIDE DEF ss
  <2> QED
    BY ONLY <2>1, <2>2
<1>3. /\ ss \in [Hosts -> [state : {None, "probing", "valid"}, side : Sides \cup {None},
                           left : Nat, asked : BOOLEAN, fresh : BOOLEAN]]
      /\ ks \in [Hosts -> Sides \cup {None}] /\ \A h \in Hosts : ks[h] = None
  BY <1>2
<1> HIDE DEF ss, ks
<1>4. /\ n' \in Tables /\ n'.sessions = ss /\ n'.pending = n.pending /\ n'.kernelSet = ks
  BY <1>1, <1>3 DEF Tables
<1>5. inTable(n') = inTable(n)
  BY <1>2, <1>4 DEF inTable
<1> QED
  BY <1>2, <1>3, <1>4, <1>5
     DEF WellKept, Sized, Tidy, Few, Noted, Installed, Outlasts, Confirmed

\* A session a tick later is the same session.
LEMMA OlderFacts ==
    ASSUME NEW s \in [state : {None, "probing", "valid"}, side : Sides \cup {None},
                      left : Nat, asked : BOOLEAN, fresh : BOOLEAN]
    PROVE  /\ Older(s) \in [state : {None, "probing", "valid"}, side : Sides \cup {None},
                            left : Nat, asked : BOOLEAN, fresh : BOOLEAN]
           /\ Older(s).state = s.state /\ Older(s).side = s.side
           /\ Older(s).asked = FALSE /\ Older(s).fresh = s.fresh
<1> DEFINE left == IF s.left > 0 THEN s.left - 1 ELSE 0
<1>1. left \in Nat
  OBVIOUS
<1>2. Older(s) = [s EXCEPT !.left = left, !.asked = FALSE]
  BY DEF Older
<1> HIDE DEF left
<1> QED
  BY <1>1, <1>2

\* Time passes: no session comes or goes.
LEMMA TickKeeps ==
    ASSUME WellKept(n), Tick
    PROVE  /\ WellKept(n') /\ (Installed(n) => Installed(n'))
           /\ \A h \in Hosts : n'.sessions[h].state = n.sessions[h].state
<1> DEFINE ss == [h \in Hosts |-> Older(n.sessions[h])]
<1>1. n \in Tables /\ n' = [n EXCEPT !.full = FALSE, !.sessions = ss]
  BY DEF Tick, WellKept
<1>2. \A h \in Hosts :
         /\ n.sessions[h] \in [state : {None, "probing", "valid"}, side : Sides \cup {None},
                               left : Nat, asked : BOOLEAN, fresh : BOOLEAN]
         /\ ss[h] \in [state : {None, "probing", "valid"}, side : Sides \cup {None},
                       left : Nat, asked : BOOLEAN, fresh : BOOLEAN]
         /\ ss[h].state = n.sessions[h].state /\ ss[h].side = n.sessions[h].side
         /\ ss[h].asked = FALSE /\ ss[h].fresh = n.sessions[h].fresh
  <2> TAKE h \in Hosts
  <2>1. n.sessions[h] \in [state : {None, "probing", "valid"}, side : Sides \cup {None},
                            left : Nat, asked : BOOLEAN, fresh : BOOLEAN]
    BY <1>1 DEF Tables
  <2>2. ss[h] = Older(n.sessions[h])
    OBVIOUS
  <2> QED
    BY <2>1, <2>2, OlderFacts
<1>3. ss \in [Hosts -> [state : {None, "probing", "valid"}, side : Sides \cup {None},
                        left : Nat, asked : BOOLEAN, fresh : BOOLEAN]]
  BY <1>2
<1> HIDE DEF ss
<1>4. /\ n' \in Tables /\ n'.sessions = ss /\ n'.pending = n.pending
      /\ n'.kernelSet = n.kernelSet /\ n'.kernel = n.kernel
  BY <1>1, <1>3 DEF Tables
<1>5. inTable(n') = inTable(n)
  BY <1>2, <1>4 DEF inTable
<1> QED
  BY <1>2, <1>4, <1>5 DEF WellKept, Sized, Tidy, Few, Noted, Installed

\* Every step keeps the invariant, and every step but a tick a confirmed neighbour's time.
LEMMA ProxyStep ==
    ASSUME ProxyInv, Next
    PROVE  /\ ProxyInv'
           /\ \A h \in Hosts : Confirmed(n, h) => n'.sessions[h].state = "valid"
<1>1. WellKept(n) /\ scope \subseteq Hosts
  BY DEF ProxyInv
<1>2. CASE Keeps(n, n') /\ UNCHANGED <<serving, lanLost>> /\ scope' \subseteq Hosts
  BY <1>2 DEF Keeps, ProxyInv, Outlasts, Confirmed
<1>3. CASE WanDown
  <2>1. WellKept(n') /\ Outlasts(n, n')
    BY <1>1, <1>3, FlushKeeps DEF WanDown, Sides
  <2> QED
    BY <1>1, <1>3, <2>1 DEF WanDown, ProxyInv, Outlasts, Confirmed
<1>4. CASE LanBounce
  <2>1. WellKept(n') /\ Outlasts(n, n')
    BY <1>1, <1>4, FlushKeeps DEF LanBounce, Sides
  <2> QED
    BY <1>1, <1>4, <2>1 DEF LanBounce, ProxyInv, Outlasts, Confirmed
<1>5. ASSUME NEW S \in {Hosts, {}}, Run(S)
      PROVE  ProxyInv' /\ \A h \in Hosts : Confirmed(n, h) => n'.sessions[h].state = "valid"
  <2>1. WellKept(n') /\ Installed(n') /\ Outlasts(n, n')
    BY <1>1, <1>5, RunKeeps
  <2> QED
    BY <1>5, <2>1 DEF Run, ProxyInv, Outlasts, Confirmed
<1>6. CASE Tick
  <2>1. /\ WellKept(n') /\ (Installed(n) => Installed(n'))
        /\ \A h \in Hosts : n'.sessions[h].state = n.sessions[h].state
    BY <1>1, <1>6, TickKeeps
  <2> QED
    BY <1>1, <1>6, <2>1 DEF Tick, ProxyInv, Confirmed
<1> QED
  BY <1>2, <1>3, <1>4, <1>5, <1>6, HandlersKeep

\* A step of another part leaves the invariant as it is.
LEMMA ProxyStutter == ProxyInv /\ UNCHANGED vars => ProxyInv'
BY DEF ProxyInv, vars

----------------------------------------------------------------------------
(* The theorems *)

\* ndproxy.go keeps its tables as ProxyInv says.
THEOREM ProxyInvHolds == Spec => []ProxyInv
<1>1. ProxyInv /\ [Next]_vars => ProxyInv'
  BY ProxyStep, ProxyStutter
<1> QED
  BY <1>1, ProxyStarts, PTL DEF Spec

\* admit, forget and appendAsker: for any hosts and limits the sessions and the askers stay within
\* maxProxySessions and maxAskers, and nothing is kept for a target without a session.
THEOREM StaysBounded == Spec => []Bounded
<1>1. ProxyInv => Bounded
  BY DEF ProxyInv, WellKept, Sized, Tidy, Few, Bounded
<1> QED
  BY <1>1, ProxyInvHolds, PTL

\* learn and dropRoute: a host learned where the layout has no on-link /64 is routed to the side it
\* is on, in every layout, through moves, renewals and rounds.
THEOREM LearnedStayRouted == Spec => []LearnedRouted
<1>1. ProxyInv => LearnedRouted
  <2> SUFFICES ASSUME ProxyInv, serving, ~lanLost, NEW h \in Hosts,
                      n.sessions[h].fresh, need(n.sessions[h].side)
               PROVE  n.kernelSet[h] = n.sessions[h].side /\ n.kernel[h] = n.sessions[h].side
    BY DEF LearnedRouted
  <2>1. n.kernelSet[h] = n.sessions[h].side /\ h \in inTable(n)
    BY DEF ProxyInv, WellKept, Noted, Tidy
  <2>2. n.sessions[h].side # None
    BY DEF ProxyInv, WellKept, Noted
  <2> QED
    BY <2>1, <2>2 DEF ProxyInv, Installed
<1> QED
  BY <1>1, ProxyInvHolds, PTL

\* sweep, makeRoom and onSolicit: whatever floods the table, a neighbour an NA confirmed keeps its
\* session until its time is up.
THEOREM ConfirmedStay == Spec => ConfirmedKept
<1> DEFINE A == \A h \in Hosts : n.sessions[h].state = "valid" /\ n.sessions[h].left > 0
                                     => n'.sessions[h].state = "valid"
<1>1. ProxyInv /\ [Next]_vars => [A]_vars
  BY ProxyStep DEF Confirmed
<1> QED
  BY <1>1, ProxyInvHolds, PTL DEF Spec, ConfirmedKept

----------------------------------------------------------------------------
(* Who asked is served *)

\* A session an operator on the tables x may give up; what an operator leaves of any other, in y: its
\* askers, and the session itself unless it is a confirmed one by now.
GiveUp(x, h) == \/ x.sessions[h].left = 0
                \/ x.sessions[h].state = "probing" /\ Cardinality(inTable(x)) >= MaxSessions
Spared(x, y, h) == /\ x.pending[h] \subseteq y.pending[h]
                   /\ \/ y.sessions[h] = x.sessions[h]
                      \/ y.sessions[h].left # 0 /\ y.sessions[h].state # "probing"
Spares(x, y) == \A h \in Hosts : GiveUp(x, h) \/ Spared(x, y, h)

\* Forgetting what may be given up spares the rest.
LEMMA ForgetSpares ==
    ASSUME NEW x, WellKept(x), NEW A, \A h \in A \cap Hosts : GiveUp(x, h)
    PROVE  Spares(x, forget(x, A))
BY ForgetFacts DEF WellKept, Spares, Spared

\* sweep spares every session whose time is not up.
LEMMA SweepSpares ==
    ASSUME NEW x, WellKept(x)
    PROVE  /\ Spares(x, sweep(x))
           /\ \A h \in Hosts : x.sessions[h].left # 0 =>
                 x.pending[h] \subseteq sweep(x).pending[h] /\ sweep(x).sessions[h] = x.sessions[h]
<1>1. Spares(x, sweep(x))
  BY ForgetSpares DEF sweep, GiveUp
<1>2. x \in Tables
  BY DEF WellKept
<1> QED
  BY <1>1, <1>2, ForgetFacts DEF sweep

\* makeRoom of a full table gives up probes only, and what is past its time.
LEMMA RoomSpares ==
    ASSUME NEW x, WellKept(x), ~(Cardinality(inTable(x)) < MaxSessions)
    PROVE  Spares(x, makeRoom(x))
<1> DEFINE y == sweep(x)
           P == {h \in Hosts : y.sessions[h].state = "probing"}
           z == forget(y, P)
<1>1. /\ Keeps(x, y) /\ WellKept(y) /\ Spares(x, y)
      /\ \A h \in Hosts : x.sessions[h].left # 0 =>
            x.pending[h] \subseteq y.pending[h] /\ y.sessions[h] = x.sessions[h]
  BY SweepKeeps, SweepSpares DEF Keeps
<1>2. makeRoom(x) \in {y, z}
  BY Zenon DEF makeRoom
<1> HIDE DEF y
<1>3. \A h \in Hosts : h \notin P => z.pending[h] = y.pending[h] /\ z.sessions[h] = y.sessions[h]
  BY <1>1, ForgetFacts DEF WellKept
<1> HIDE DEF z
<1>4. Cardinality(inTable(x)) >= MaxSessions
  BY TableFinite, ConstantsAssumption
<1>5. ASSUME NEW h \in Hosts, ~GiveUp(x, h) PROVE Spared(x, z, h)
  <2>1. x.sessions[h].left # 0 /\ x.sessions[h].state # "probing"
    BY <1>4, <1>5 DEF GiveUp
  <2>2. x.pending[h] \subseteq y.pending[h] /\ y.sessions[h] = x.sessions[h]
    BY <1>1, <2>1
  <2>3. h \notin P
    BY <2>1, <2>2
  <2> QED
    BY <1>3, <2>2, <2>3 DEF Spared
<1>6. Spares(x, z)
  BY <1>5 DEF Spares
<1> QED
  BY <1>1, <1>2, <1>6

\* admit gives up a session of a full table alone.
LEMMA AdmitSpares ==
    ASSUME NEW x, WellKept(x)
    PROVE  Spares(x, admit(x).tab)
<1> DEFINE y == makeRoom(x)
           z == [y EXCEPT !.full = TRUE]
<1>1. \/ admit(x).tab = x
      \/ ~(Cardinality(inTable(x)) < MaxSessions) /\ admit(x).tab \in {y, z}
  BY DEF admit
<1>2. Spares(x, x)
  BY DEF Spares, Spared
<1>3. ~(Cardinality(inTable(x)) < MaxSessions) => Spares(x, y)
  BY RoomSpares
<1>4. y \in Tables
  BY RoomKeeps DEF Keeps, WellKept
<1> HIDE DEF y
<1>5. z.sessions = y.sessions /\ z.pending = y.pending
  BY <1>4 DEF Tables
<1> HIDE DEF z
<1>6. Spares(x, y) => Spares(x, z)
  BY <1>5 DEF Spares, Spared
<1> QED
  BY <1>1, <1>2, <1>3, <1>6

\* The route of a host leaves sessions and askers alone.
LEMMA RoutedSame ==
    ASSUME NEW x \in Tables, NEW side, NEW t
    PROVE  routed(x, side, t).sessions = x.sessions /\ routed(x, side, t).pending = x.pending
<1> DEFINE d == dropRoute(x, {t})
<1>1. d \in Tables /\ d.sessions = x.sessions /\ d.pending = x.pending
  BY DropFacts
<1>2. routed(x, side, t) \in {x, [d EXCEPT !.kernelSet[t] = side, !.kernel[t] = side]}
  BY DEF routed
<1> HIDE DEF d
<1> QED
  BY <1>1, <1>2 DEF Tables

\* A host is learned over its probe, or in the room admit makes: the table is larger by one at most.
LEMMA LearnSpares ==
    ASSUME NEW x, WellKept(x), NEW side \in Sides, NEW t \in Hosts
    PROVE  LET y == learn(x, side, t)
           IN  /\ Spares(x, y)
               /\ Cardinality(inTable(y)) <= Cardinality(inTable(x)) + 1
               /\ t \in inTable(x) => y.pending = x.pending /\ y.sessions[t] = Valid(side, TRUE)
<1> DEFINE a == IF x.sessions[t].state # None THEN [ok |-> TRUE, tab |-> x] ELSE admit(x)
           s == Valid(side, TRUE)
           z == Entering(a.tab, t, s)
           y == learn(x, side, t)
<1>1. /\ Spares(x, a.tab) /\ WellKept(a.tab) /\ inTable(a.tab) \subseteq inTable(x)
      /\ t \in inTable(x) => a.ok /\ a.tab = x
  <2>1. CASE x.sessions[t].state # None
    BY <2>1 DEF Spares, Spared
  <2>2. CASE x.sessions[t].state = None
    BY <2>2, AdmitSpares, AdmitKeeps DEF Keeps, inTable
  <2> QED
    BY <2>1, <2>2
<1>2. y = IF a.ok THEN routed(z, side, t) ELSE a.tab
  BY DEF learn, Entering
<1>3. s \in Entries /\ s.left # 0 /\ s.state # "probing"
  BY ConstantsAssumption DEF Valid, Entries, Sides
<1> HIDE DEF a, s, y
<1>4. /\ z \in Tables /\ z.pending = a.tab.pending /\ inTable(z) = inTable(a.tab) \cup {t}
      /\ \A h \in Hosts : z.sessions[h] = IF h = t THEN s ELSE a.tab.sessions[h]
  BY <1>1, <1>3, EnterFacts DEF WellKept
<1> HIDE DEF z
<1>5. CASE a.ok
  <2>1. y.sessions = z.sessions /\ y.pending = z.pending /\ inTable(y) = inTable(z)
    BY <1>2, <1>4, <1>5, RoutedSame DEF inTable
  <2>2. Spares(x, y)
    BY <1>1, <1>3, <1>4, <2>1 DEF Spares, Spared
  <2>3. inTable(y) \subseteq inTable(x) \cup {t}
    BY <1>1, <1>4, <2>1
  <2>4. Cardinality(inTable(y)) <= Cardinality(inTable(x)) + 1
    <3>1. /\ IsFiniteSet(inTable(x) \cup {t})
          /\ Cardinality(inTable(x) \cup {t})
                \in {Cardinality(inTable(x)), Cardinality(inTable(x)) + 1}
      BY TableFinite, FS_AddElement
    <3>2. Cardinality(inTable(y)) <= Cardinality(inTable(x) \cup {t})
      BY <2>3, <3>1, FS_Subset
    <3> QED
      BY <3>1, <3>2, TableFinite
  <2> QED
    BY <1>1, <1>4, <2>1, <2>2, <2>4 DEF y, s
<1>6. CASE ~a.ok
  <2>1. y = a.tab /\ t \notin inTable(x)
    BY <1>1, <1>2, <1>6
  <2>2. Cardinality(inTable(y)) <= Cardinality(inTable(x))
    BY <1>1, <2>1, TableFinite, FS_Subset
  <2>3. Cardinality(inTable(y)) <= Cardinality(inTable(x)) + 1
    BY <2>2, TableFinite
  <2>4. Spares(x, y)
    BY <1>1, <2>1
  <2> QED
    BY <2>1, <2>3, <2>4 DEF y
<1> QED
  BY <1>5, <1>6

\* appendAsker takes nobody off the list.
LEMMA AskingSpares ==
    ASSUME NEW x \in Tables, NEW t \in Hosts, NEW from, NEW side
    PROVE  \A h \in Hosts : x.pending[h] \subseteq asking(x, t, from, side).pending[h]
<1> DEFINE L == appendAsker(x.pending[t], <<from, side>>)
<1>1. x.pending[t] \subseteq L
  BY DEF appendAsker
<1>2. asking(x, t, from, side) \in {x, [x EXCEPT !.pending[t] = L]}
  BY DEF asking
<1> HIDE DEF L
<1> QED
  BY <1>1, <1>2 DEF Tables

\* What becomes of an asker in a step, as AskersServed has it.
Served(h, a) ==
    \/ a \in n'.pending[h]
    \/ Reply(a[2], h, a[1]) \in answered'
    \/ n'.sessions[h].state = "valid" /\ n'.sessions[h].side = a[2]
    \/ n.sessions[h].left = 0
    \/ /\ n.sessions[h].state = "probing"
       /\ Cardinality(inTable(n)) + 1 >= MaxSessions

\* A step that spares sessions serves askers.
LEMMA SparedServed ==
    ASSUME Spares(n, n'), NEW h \in Hosts, NEW a \in n.pending[h]
    PROVE  Served(h, a)
<1>1. GiveUp(n, h) \/ Spared(n, n', h)
  BY DEF Spares
<1>2. CASE GiveUp(n, h)
  BY <1>2, TableFinite, ConstantsAssumption DEF GiveUp, Served
<1>3. CASE Spared(n, n', h)
  BY <1>3 DEF Spared, Served
<1> QED
  BY <1>1, <1>2, <1>3

\* The sender of an NS is learned, which spares sessions and adds one at most.
LEMMA SenderSpares ==
    ASSUME ProxyInv, NEW side \in Sides, NEW t, NEW from
    PROVE  LET x == withSender(side, t, from)
           IN  Spares(n, x) /\ Cardinality(inTable(x)) <= Cardinality(inTable(n)) + 1
<1>1. Spares(n, n) /\ Cardinality(inTable(n)) <= Cardinality(inTable(n)) + 1
  BY TableFinite DEF Spares, Spared
<1>2. ASSUME from \in scope
      PROVE  /\ Spares(n, learn(n, side, from))
             /\ Cardinality(inTable(learn(n, side, from))) <= Cardinality(inTable(n)) + 1
  BY <1>2, LearnSpares DEF ProxyInv
<1> QED
  BY <1>1, <1>2 DEF withSender

\* The NS that probes makes room twice: for its sender, then for its target.
LEMMA UnknownServes ==
    ASSUME ProxyInv, NEW side \in Sides, NEW t \in Hosts, NEW from \in Froms,
           SolicitUnknown(side, t, from), NEW h \in Hosts, NEW c \in n.pending[h]
    PROVE  Served(h, c)
<1> DEFINE x == withSender(side, t, from)
           s == x.sessions[t]
           a == IF s.state = None THEN admit(x) ELSE [ok |-> TRUE, tab |-> x]
           z == Entering(a.tab, t, Probing(other(side)))
<1>1. /\ Spares(n, x) /\ WellKept(x)
      /\ Cardinality(inTable(x)) <= Cardinality(inTable(n)) + 1
  BY SenderSpares, SenderKeeps DEF Keeps
<1>2. n' = IF s.asked THEN asking(x, t, from, side)
           ELSE IF ~a.ok THEN a.tab ELSE asking(z, t, from, side)
  BY DEF SolicitUnknown, Entering
<1> HIDE DEF x
<1>3. Spares(x, a.tab) /\ WellKept(a.tab)
  <2>1. CASE s.state = None
    BY <1>1, <2>1, AdmitSpares, AdmitKeeps DEF Keeps
  <2>2. CASE s.state # None
    BY <1>1, <2>2 DEF Spares, Spared
  <2> QED
    BY <2>1, <2>2
<1>4. Probing(other(side)) \in Entries
  BY ConstantsAssumption DEF Probing, Entries, other, Sides
<1> HIDE DEF a, s
<1>5. z \in Tables /\ z.pending = a.tab.pending
  BY <1>3, <1>4, EnterFacts DEF WellKept
<1> HIDE DEF z
<1>6. x.pending[h] \subseteq n'.pending[h] \/ a.tab.pending[h] \subseteq n'.pending[h]
  <2>1. x.pending[h] \subseteq asking(x, t, from, side).pending[h]
    BY <1>1, AskingSpares DEF WellKept
  <2>2. z.pending[h] \subseteq asking(z, t, from, side).pending[h]
    BY <1>5, AskingSpares
  <2> QED
    BY <1>2, <1>5, <2>1, <2>2
<1>7. CASE GiveUp(n, h)
  BY <1>7, TableFinite, ConstantsAssumption DEF GiveUp, Served
<1>8. CASE Spared(n, x, h) /\ Spared(x, a.tab, h)
  BY <1>6, <1>8 DEF Spared, Served
<1>9. CASE Spared(n, x, h) /\ GiveUp(x, h)
  <2>1. x.sessions[h] = n.sessions[h]
    BY <1>9 DEF Spared, GiveUp
  <2>2. CASE n.sessions[h].left = 0
    BY <2>2 DEF Served
  <2>3. CASE n.sessions[h].state = "probing" /\ Cardinality(inTable(x)) >= MaxSessions
    <3>1. Cardinality(inTable(n)) + 1 >= MaxSessions
      BY <1>1, <2>3, TableFinite, ConstantsAssumption
    <3> QED
      BY <2>3, <3>1 DEF Served
  <2> QED
    BY <1>9, <2>1, <2>2, <2>3 DEF GiveUp
<1> QED
  BY <1>1, <1>3, <1>7, <1>8, <1>9 DEF Spares

\* An NA answers the askers on the other side, and finds the host on the side of the others.
LEMMA AdvertServes ==
    ASSUME ProxyInv, NEW side \in Sides, NEW t \in Hosts, onAdvert(side, t),
           NEW h \in Hosts, NEW a \in n.pending[h]
    PROVE  Served(h, a)
<1> DEFINE x == learn(n, side, t)
<1>1. WellKept(n)
  BY DEF ProxyInv
<1>2. /\ Spares(n, x) /\ WellKept(x)
      /\ t \in inTable(n) => x.pending = n.pending /\ x.sessions[t] = Valid(side, TRUE)
  BY <1>1, LearnSpares, LearnKeeps DEF Keeps
<1>3. CASE t \in inTable(n)
  <2>1. /\ n' = [x EXCEPT !.pending[t] = {}]
        /\ answered' = {Reply(b[2], t, b[1]) : b \in waiting(side, t)}
    BY <1>3 DEF onAdvert, inTable
  <2> HIDE DEF x
  <2>2. /\ n'.sessions = x.sessions
        /\ h # t => n'.pending[h] = x.pending[h]
    BY <1>2, <2>1 DEF WellKept, Tables
  <2>3. CASE h # t
    BY <1>2, <1>3, <2>2, <2>3 DEF Served
  <2>4. CASE h = t /\ a[2] # side
    <3>1. a \in waiting(side, t)
      BY <2>4 DEF waiting
    <3> QED
      BY <2>1, <2>4, <3>1 DEF Served
  <2>5. CASE h = t /\ a[2] = side
    BY <1>2, <1>3, <2>2, <2>5 DEF Served, Valid
  <2> QED
    BY <2>3, <2>4, <2>5
<1>4. CASE t \notin inTable(n)
  <2>1. n' \in {x, n}
    BY <1>4 DEF onAdvert, inTable
  <2>2. Spares(n, n)
    BY DEF Spares, Spared
  <2> QED
    BY <1>2, <2>1, <2>2, SparedServed
<1> QED
  BY <1>3, <1>4

\* Every step serves who asked before it.
LEMMA StepServes ==
    ASSUME ProxyInv, Next, NEW h \in Hosts, NEW a \in n.pending[h]
    PROVE  Served(h, a)
<1>1. WellKept(n) /\ n \in Tables
  BY DEF ProxyInv, WellKept
<1>2. ASSUME n'.pending = n.pending PROVE Served(h, a)
  BY <1>2 DEF Served
<1>3. ASSUME NEW side \in Sides, NEW t \in Hosts, NEW from \in Froms, SolicitKnown(side, t, from)
      PROVE  Served(h, a)
  <2>1. Spares(n, n')
    BY <1>3, SenderSpares DEF SolicitKnown
  <2> QED
    BY <2>1, SparedServed
<1>4. ASSUME NEW t \in Hosts, NEW from \in Froms, SolicitPrefix(t, from)
      PROVE  Served(h, a)
  <2> DEFINE b == admit(n)
             s == Valid("lan", FALSE)
  <2>1. n' = IF b.ok THEN Entering(b.tab, t, s) ELSE b.tab
    BY <1>4 DEF SolicitPrefix, Entering
  <2>2. Spares(n, b.tab) /\ b.tab \in Tables
    BY <1>1, AdmitSpares, AdmitKeeps DEF Keeps, WellKept
  <2>3. s \in Entries /\ s.left # 0 /\ s.state # "probing"
    BY ConstantsAssumption DEF Valid, Entries, Sides
  <2> HIDE DEF b, s
  <2>4. Spares(n, Entering(b.tab, t, s))
    BY <2>2, <2>3, EnterFacts DEF Spares, Spared
  <2>5. Spares(n, n')
    BY <2>1, <2>2, <2>4
  <2> QED
    BY <2>5, SparedServed
<1>5. CASE Collect
  <2>1. Spares(n, n')
    BY <1>1, <1>5, SweepSpares DEF Collect
  <2> QED
    BY <2>1, SparedServed
<1>6. ASSUME NEW S, setPrefixes(S) \/ Run(S) PROVE Served(h, a)
  BY <1>1, <1>2, <1>6 DEF setPrefixes, Run, Tables
<1>7. CASE WanDown \/ LanBounce \/ Tick
  BY <1>1, <1>2, <1>7 DEF WanDown, LanBounce, Tick, Tables
<1> QED
  BY <1>3, <1>4, <1>5, <1>6, <1>7, UnknownServes, AdvertServes, Zenon DEF Next

\* onAdvert, forget and appendAsker: nobody who asked is lost, in any layout and at any limits: an
\* asker goes with the reply to it, with a host found on its own side, or with a session whose time
\* was up or which a full table gave up.
THEOREM AskersAreServed == Spec => AskersServed
<1> DEFINE A == \A h \in Hosts : \A a \in n.pending[h] :
          \/ a \in n'.pending[h]
          \/ Reply(a[2], h, a[1]) \in answered'
          \/ n'.sessions[h].state = "valid" /\ n'.sessions[h].side = a[2]
          \/ n.sessions[h].left = 0
          \/ /\ n.sessions[h].state = "probing"
             /\ Cardinality(inTable(n)) + 1 >= MaxSessions
<1>1. ProxyInv /\ [Next]_vars => [A]_vars
  BY StepServes DEF Served
<1> QED
  BY <1>1, ProxyInvHolds, PTL DEF Spec, AskersServed

=============================================================================
