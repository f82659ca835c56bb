------------------------------ MODULE NDProxy ------------------------------
(***************************************************************************)
(* The Neighbor Discovery proxy (ndproxy.go) between the WAN and a LAN     *)
(* that share a /64: its session table, the hosts waiting for a probe, and *)
(* the /128 routes the layout needs. Everything the struct keeps is under  *)
(* its mutex, so a handler is one step. onSolicit reads the side of a      *)
(* session after it unlocked, which decides only whether it replies: a     *)
(* session moved in between gives what the NS would have got just before   *)
(* or just after the move.                                                 *)
(*                                                                         *)
(* A tick is a second; what a session has left is counted in ticks, 0 once *)
(* its time is up.                                                         *)
(***************************************************************************)
EXTENDS Integers, FiniteSets

CONSTANTS
    Hosts,        \* the addresses of the shared /64
    Unspecified,  \* the source of a DAD probe
    MaxSessions,  \* maxProxySessions
    MaxAskers,    \* maxAskers
    TTL,          \* -ndproxy-ttl, in ticks
    ProbeTime,    \* how long a probe waits for its answer, in ticks
    Layout,       \* -wan-shared64: "wan", "lan" or "split"
    Modes         \* the modes that answer: "forward", "prefix"

Sides == {"wan", "lan"}
other(side) == IF side = "wan" THEN "lan" ELSE "wan"

None == "none"
Self == "self"    \* the router asks for itself: its kernel resolves a neighbour

ASSUME ConstantsAssumption ==
    /\ IsFiniteSet(Hosts) /\ Unspecified \notin Hosts
    /\ Self \notin Hosts /\ Self # Unspecified
    /\ MaxSessions \in Nat \ {0} /\ MaxAskers \in Nat
    /\ TTL \in Nat \ {0} /\ ProbeTime \in Nat \ {0}
    /\ Layout \in {"wan", "lan", "split"}

Solicitors == (Hosts \cup {Unspecified}) \X Sides

\* A session. asked says that its probe is less than a second old; fresh, for
\* the properties, that it was learned since the round of serve began.
NoSession == [state |-> None, side |-> None, left |-> 0, asked |-> FALSE,
              fresh |-> FALSE]
Probing(side) == [state |-> "probing", side |-> side, left |-> ProbeTime,
                  asked |-> TRUE, fresh |-> FALSE]
Valid(side, fresh) == [state |-> "valid", side |-> side, left |-> TTL,
                       asked |-> FALSE, fresh |-> fresh]

VARIABLES
    mode,     \* the mode the proxy runs in
    serving,  \* its sockets are open
    scope,    \* the targets covered: the prefixes, less the router's own
    n,        \* what ndProxy keeps under its mutex, and the kernel's routes
    lanLost,  \* the LAN lost its routes since the round began
    answered  \* the replies the last step sent

vars == <<mode, serving, scope, n, lanLost, answered>>

\* sessions, pending and kernelSet by address; kernel is the outgoing side
\* of the address's /128 route; full says the table was found full within
\* the last second.
Tables == [sessions : [Hosts -> [state : {None, "probing", "valid"},
                                 side : Sides \cup {None}, left : Nat,
                                 asked : BOOLEAN, fresh : BOOLEAN]],
           pending : [Hosts -> SUBSET Solicitors],
           kernelSet : [Hosts -> Sides \cup {None}],
           kernel : [Hosts -> Sides \cup {None}],
           full : BOOLEAN]

----------------------------------------------------------------------------
(* The table; each operator takes the tables and gives them back *)

inTable(x) == {h \in Hosts : x.sessions[h].state # None}

\* The kernel's table after routeDel of the routes kernelSet has for A.
unrouted(x, A) ==
    [h \in Hosts |-> IF h \in A /\ x.kernelSet[h] # None /\ x.kernel[h] = x.kernelSet[h]
                     THEN None ELSE x.kernel[h]]

dropRoute(x, A) ==
    [x EXCEPT !.kernel = unrouted(x, A),
              !.kernelSet = [h \in Hosts |-> IF h \in A THEN None ELSE @[h]]]

\* Faulty variant: a session goes, its askers stay.
AskersStay(x, A) ==
    [dropRoute(x, A) EXCEPT
        !.sessions = [h \in Hosts |-> IF h \in A THEN NoSession ELSE @[h]]]

forget(x, A) ==
    [dropRoute(x, A) EXCEPT
        !.sessions = [h \in Hosts |-> IF h \in A THEN NoSession ELSE @[h]],
        !.pending = [h \in Hosts |-> IF h \in A THEN {} ELSE @[h]]]

sweep(x) == forget(x, {h \in inTable(x) : x.sessions[h].left = 0})

\* Faulty variant: room is made among the confirmed neighbours too.
AnyoneGoes(x) == forget(sweep(x), inTable(x))

\* A full table loses what is past its time and, where that is not enough,
\* the probes without an answer.
makeRoom(x) ==
    LET y == sweep(x)
    IN  IF Cardinality(inTable(y)) < MaxSessions THEN y
        ELSE forget(y, {h \in Hosts : y.sessions[h].state = "probing"})

\* Whether one more session fits, and the tables after making room for it. A
\* table found full is not walked again for a second.
admit(x) ==
    IF Cardinality(inTable(x)) < MaxSessions THEN [ok |-> TRUE, tab |-> x]
    ELSE IF x.full THEN [ok |-> FALSE, tab |-> x]
    ELSE LET y == makeRoom(x)
         IN  IF Cardinality(inTable(y)) < MaxSessions
             THEN [ok |-> TRUE, tab |-> y]
             ELSE [ok |-> FALSE, tab |-> [y EXCEPT !.full = TRUE]]

\* The sides where the layout has no on-link /64, so that a host needs a /128.
lanHostRoutes == Layout # "lan"
wanOnLink == Layout = "wan"
need(side) == IF side = "lan" THEN lanHostRoutes ELSE ~wanOnLink

\* Faulty variant: a host that has a route keeps it, whichever side it is on now.
RoutedOnce(x, side, t) ==
    IF ~need(side) \/ x.kernelSet[t] # None THEN x
    ELSE [x EXCEPT !.kernelSet[t] = side, !.kernel[t] = side]

\* The route of a host just learned; replacing one takes the old one's place.
routed(x, side, t) ==
    IF ~need(side) \/ x.kernelSet[t] = side THEN x
    ELSE [dropRoute(x, {t}) EXCEPT !.kernelSet[t] = side, !.kernel[t] = side]

learn(x, side, t) ==
    LET a == IF x.sessions[t].state # None THEN [ok |-> TRUE, tab |-> x] ELSE admit(x)
    IN  IF a.ok THEN routed([a.tab EXCEPT !.sessions[t] = Valid(side, TRUE)], side, t)
        ELSE a.tab

appendAsker(list, a) == IF Cardinality(list) >= MaxAskers THEN list ELSE list \cup {a}

asking(x, t, from, side) ==
    IF from = Self THEN x
    ELSE [x EXCEPT !.pending[t] = appendAsker(@, <<from, side>>)]

----------------------------------------------------------------------------
(* Handlers *)

\* The sender of an NS is learned from it, in forward mode.
withSender(side, t, from) ==
    IF from \in scope /\ from # t /\ mode = "forward" THEN learn(n, side, from) ELSE n

Reply(side, t, to) == [side |-> side, target |-> t, to |-> to]

\* An NS on side for a confirmed target: the proxy replies for a host that is
\* on the other side; on the same side they talk directly.
SolicitKnown(side, t, from) ==
    LET x == withSender(side, t, from)
    IN  /\ serving /\ mode = "forward" /\ t \in scope
        /\ x.sessions[t].state = "valid"
        /\ n' = x
        /\ answered' = IF from # Self /\ x.sessions[t].side # side
                       THEN {Reply(side, t, from)} ELSE {}
        /\ UNCHANGED <<mode, serving, scope, lanLost>>

\* The capture sees what the router sends: an NS of its own on the side that
\* is being probed is the probe.
ownProbe(side, t, from) ==
    /\ from = Self
    /\ n.sessions[t].state = "probing" /\ n.sessions[t].side = side

\* An NS for a target not known: probe the other side, unless one is under
\* way, for a second at a time.
SolicitUnknown(side, t, from) ==
    LET x == withSender(side, t, from)
        s == x.sessions[t]
        a == IF s.state = None THEN admit(x) ELSE [ok |-> TRUE, tab |-> x]
    IN  /\ serving /\ mode = "forward" /\ t \in scope
        /\ ~ownProbe(side, t, from)
        /\ s.state # "valid"
        /\ n' = IF s.asked THEN asking(x, t, from, side)
                ELSE IF ~a.ok THEN a.tab
                ELSE asking([a.tab EXCEPT !.sessions[t] = Probing(other(side))],
                            t, from, side)
        /\ answered' = {}
        /\ UNCHANGED <<mode, serving, scope, lanLost>>

\* prefix mode answers on the WAN for every target, and on the WAN only.
SolicitPrefix(t, from) ==
    LET a == admit(n)
    IN  /\ serving /\ mode = "prefix" /\ t \in scope /\ from # Self
        /\ n' = IF a.ok THEN [a.tab EXCEPT !.sessions[t] = Valid("lan", FALSE)]
                ELSE a.tab
        /\ answered' = {Reply("wan", t, from)}
        /\ UNCHANGED <<mode, serving, scope, lanLost>>

\* Faulty variant: the askers on the side of the answer are the ones answered.
SameSide(side, t) == {a \in n.pending[t] : a[2] = side}

\* The askers an NA on side answers: the ones on the other side.
waiting(side, t) == {a \in n.pending[t] : a[2] # side}

\* An NA on side: whoever waited on the other side is answered. One nobody
\* asked for is learned on the LAN. In prefix mode only the WAN has a reader.
onAdvert(side, t) ==
    LET known == n.sessions[t].state # None
        x     == IF known \/ (side = "lan" /\ t \in scope) THEN learn(n, side, t) ELSE n
    IN  /\ serving
        /\ mode = "forward" \/ side = "wan"
        /\ n' = IF known THEN [x EXCEPT !.pending[t] = {}] ELSE x
        /\ answered' = IF known THEN {Reply(a[2], t, a[1]) : a \in waiting(side, t)}
                       ELSE {}
        /\ UNCHANGED <<mode, serving, scope, lanLost>>

\* A snapshot changes the scope: what was outside it keeps its session.
setPrefixes(S) ==
    /\ serving
    /\ scope' = S
    /\ answered' = {}
    /\ UNCHANGED <<mode, serving, n, lanLost>>

\* The collector of serve.
Collect ==
    /\ serving
    /\ n' = sweep(n)
    /\ answered' = {}
    /\ UNCHANGED <<mode, serving, scope, lanLost>>

----------------------------------------------------------------------------
(* The interfaces and time *)

Flush(x, side) == [h \in Hosts |-> IF x.kernel[h] = side THEN None ELSE x.kernel[h]]

\* A round of supervise ends as the WAN goes down, which takes the routes on
\* it; sessions and askers stay.
WanDown ==
    /\ serving
    /\ serving' = FALSE
    /\ n' = [n EXCEPT !.kernel = Flush(n, "wan")]
    /\ answered' = {}
    /\ UNCHANGED <<mode, scope, lanLost>>

\* The LAN goes down and comes back: its routes go, and the proxy is not told.
LanBounce ==
    /\ n' = [n EXCEPT !.kernel = Flush(n, "lan")]
    /\ lanLost' = TRUE
    /\ answered' = {}
    /\ UNCHANGED <<mode, serving, scope>>

\* The next round: the routes count as lost, the scope is read again.
Run(S) ==
    /\ ~serving
    /\ serving' = TRUE
    /\ n' = [n EXCEPT !.kernelSet = [h \in Hosts |-> None],
                      !.sessions = [h \in Hosts |-> [@[h] EXCEPT !.fresh = FALSE]]]
    /\ scope' = S
    /\ lanLost' = FALSE
    /\ answered' = {}
    /\ UNCHANGED mode

\* A session a tick later.
Older(s) == [s EXCEPT !.left = IF @ > 0 THEN @ - 1 ELSE 0, !.asked = FALSE]

Tick ==
    /\ n' = [n EXCEPT !.full = FALSE,
                      !.sessions = [h \in Hosts |-> Older(n.sessions[h])]]
    /\ answered' = {}
    /\ UNCHANGED <<mode, serving, scope, lanLost>>

Init ==
    /\ mode \in Modes /\ serving = FALSE /\ scope = {}
    /\ n = [sessions |-> [h \in Hosts |-> NoSession], pending |-> [h \in Hosts |-> {}],
            kernelSet |-> [h \in Hosts |-> None], kernel |-> [h \in Hosts |-> None],
            full |-> FALSE]
    /\ lanLost = FALSE /\ answered = {}

Froms == Hosts \cup {Unspecified, Self}

Next ==
    \/ \E side \in Sides, t \in Hosts, from \in Froms :
          SolicitKnown(side, t, from) \/ SolicitUnknown(side, t, from)
    \/ \E t \in Hosts, from \in Froms : SolicitPrefix(t, from)
    \/ \E side \in Sides, t \in Hosts : onAdvert(side, t)
    \/ \E S \in {Hosts, {}} : setPrefixes(S) \/ Run(S)
    \/ Collect
    \/ WanDown
    \/ LanBounce
    \/ Tick

Spec == Init /\ [][Next]_vars

----------------------------------------------------------------------------
(* Properties *)

\* A host walking the prefix cannot grow what the proxy keeps: the sessions
\* stay within maxProxySessions, the askers of each within maxAskers, and
\* neither askers nor routes on record outlive their session (admit, forget,
\* appendAsker).
Bounded ==
    /\ Cardinality(inTable(n)) <= MaxSessions
    /\ \A h \in Hosts :
          /\ Cardinality(n.pending[h]) <= MaxAskers
          /\ h \notin inTable(n) => n.pending[h] = {} /\ n.kernelSet[h] = None

\* A host learned in this round on a side where the layout has no on-link /64
\* is routed to that side, whichever side it was on before and however often
\* its session was renewed, as long as the LAN kept its routes (learn,
\* dropRoute, run).
LearnedRouted ==
    serving /\ ~lanLost =>
        \A h \in Hosts :
            n.sessions[h].fresh /\ need(n.sessions[h].side)
                => /\ n.kernelSet[h] = n.sessions[h].side
                   /\ n.kernel[h] = n.sessions[h].side

\* A flood costs new targets their entry, never a neighbour an NA confirmed:
\* its session stays until its time is up (admit, sweep, onSolicit).
ConfirmedKept ==
    [][\A h \in Hosts : n.sessions[h].state = "valid" /\ n.sessions[h].left > 0
          => n'.sessions[h].state = "valid"]_vars

\* Nobody who asked is lost on the way: an asker is taken off the list with
\* the reply to it, when the host turns out to be on its own side, or with
\* the session, whose time was up or which a full table gave up: an NS can
\* fill it with its sender and then need room for its target (onAdvert,
\* forget).
AskersServed ==
    [][\A h \in Hosts : \A a \in n.pending[h] :
          \/ a \in n'.pending[h]
          \/ Reply(a[2], h, a[1]) \in answered'
          \/ n'.sessions[h].state = "valid" /\ n'.sessions[h].side = a[2]
          \/ n.sessions[h].left = 0
          \/ /\ n.sessions[h].state = "probing"
             /\ Cardinality(inTable(n)) + 1 >= MaxSessions]_vars

\* The parts of the inductive invariant, each about the tables x: types, the
\* size, a target without a session has nothing, and the routes on record are
\* the ones needed. Those on record are in the kernel while the round lasts
\* and the LAN kept its routes.
Sized(x) == Cardinality(inTable(x)) <= MaxSessions
Tidy(x) == \A h \in Hosts : h \notin inTable(x) =>
    /\ x.pending[h] = {} /\ x.kernelSet[h] = None
    /\ ~x.sessions[h].asked /\ ~x.sessions[h].fresh
Few(x) == \A h \in Hosts : Cardinality(x.pending[h]) <= MaxAskers
Noted(x) == \A h \in Hosts : x.sessions[h].fresh =>
    /\ x.sessions[h].side # None
    /\ need(x.sessions[h].side) => x.kernelSet[h] = x.sessions[h].side
Installed(x) == \A h \in Hosts : x.kernelSet[h] # None => x.kernel[h] = x.kernelSet[h]

WellKept(x) == x \in Tables /\ Sized(x) /\ Tidy(x) /\ Few(x) /\ Noted(x)

ProxyInv ==
    /\ WellKept(n)
    /\ scope \subseteq Hosts
    /\ serving /\ ~lanLost => Installed(n)

=============================================================================
