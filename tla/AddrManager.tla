---------------------------- MODULE AddrManager ----------------------------
(***************************************************************************)
(* The address manager of the WAN (addr.go): the static addresses of the   *)
(* prefixes the snapshot picks, one per -wan-iid policy, moved on when     *)
(* Duplicate Address Detection fails; the temporary addresses that rotate  *)
(* and drain; the tunnel endpoints; and the new addresses still to be      *)
(* announced. It polls the kernel's address table for DAD verdicts only    *)
(* while dadDue is set.                                                    *)
(*                                                                         *)
(* serve is one goroutine, so every case of its select is an action. The   *)
(* kernel's verdicts, the DHCPv6 client's address and the store's snapshot *)
(* change between them. Setting or deleting an address succeeds.           *)
(***************************************************************************)
EXTENDS Integers, Sequences, FiniteSets, SequencesExt

CONSTANTS
    Prefixes64, \* the /64s of the WAN
    Policies,   \* the -wan-iid policies, 1 .. k
    IID,        \* IID[p][i][c]: the address of policy i with DAD_Counter c
    TempPool,   \* TempPool[p]: addresses randomIID can give
    PrefixOf,   \* the /64 of an address
    Leased,     \* the address IA_NA gives
    Leftovers,  \* addresses an earlier run may have left on the interface
    Snapshots,  \* what the store can publish
    Announcements,  \* MAX_NEIGHBOR_ADVERTISEMENT, 3 in the code
    MaxTemps,   \* -tempaddr-max
    MaxEvents,  \* how many snapshots, timers and changes of lease or link a run has
    MaxFails,   \* how many addresses fail DAD in a run
    MaxCounter  \* how far a DAD_Counter goes in a run

None == "none"

\* parseIIDPolicies gives one policy at least; the counter is an octet.
ASSUME PolicyAssumption ==
    1 \in Policies /\ Policies \subseteq Nat /\ MaxCounter \in Nat

ASSUME SnapshotAssumption ==
    /\ Prefixes64 # {}
    /\ \A s \in Snapshots :
          s \in [static : SUBSET Prefixes64, temp : SUBSET Prefixes64, active : SUBSET s.temp,
                plen : Nat, endpoints : SUBSET DOMAIN PrefixOf, wan : {None}, aftr : BOOLEAN]

\* An address is one of 2^128 and lies in the prefix it was made for. Neither a hash nor a random
\* number hits the address another made, and IA_NA does not give a -wan-iid address.
Statics == {IID[p][i][c] : p \in Prefixes64, i \in Policies, c \in 0 .. MaxCounter}
Pool    == UNION {TempPool[p] : p \in Prefixes64}

ASSUME AddressAssumption ==
    /\ IsFiniteSet(DOMAIN PrefixOf) /\ None \notin DOMAIN PrefixOf
    /\ Statics \cup Pool \cup Leftovers \cup {Leased} \subseteq DOMAIN PrefixOf
    /\ \A p \in Prefixes64, i \in Policies, c \in 0 .. MaxCounter : PrefixOf[IID[p][i][c]] = p
    /\ \A p \in Prefixes64 : \A a \in TempPool[p] : PrefixOf[a] = p
    /\ Pool \cap Statics = {} /\ Leased \notin Pool \cup Statics

\* An endpoint of its own is none of these, except that the operator may give
\* one policy its suffix, which is used until its first DAD failure.
ASSUME EndpointAssumption ==
    \A s \in Snapshots : \A a \in s.endpoints :
        /\ a \notin Pool /\ a # Leased
        /\ \A p \in Prefixes64, i \in Policies, c \in 0 .. MaxCounter :
              IID[p][i][c] = a => c = 0 /\ \A j \in Policies : IID[p][j][0] = a => j = i

VARIABLES
    lease,  \* the IA_NA address the DHCPv6 client holds, or None
    m,      \* the manager with its snapshot, the kernel's table and the store's flags
    fails,  \* addresses that failed DAD so far
    events  \* snapshots, timers and changes so far

vars == <<lease, m, fails, events>>

Without(f, S) == [a \in DOMAIN f \ S |-> f[a]]
With(f, S, v) == [a \in DOMAIN f \cup S |-> IF a \in S THEN v ELSE f[a]]

----------------------------------------------------------------------------
(* The kernel's address table *)

\* An address with a finite valid lifetime that fails DAD is deleted, one
\* with an infinite one is kept and marked.
Entry(dad, pref, finite, plen) ==
    [dad |-> dad, pref |-> pref, finite |-> finite, plen |-> plen]

\* Setting an address that exists keeps its prefix length and its DAD state.
addrSet(k, S, dad, pref, finite, plen) ==
    [a \in DOMAIN k \cup S |->
        IF a \notin S THEN k[a]
        ELSE IF a \in DOMAIN k THEN [k[a] EXCEPT !.pref = pref, !.finite = finite]
        ELSE Entry(dad, pref, finite, plen)]

dadIs(x, a, d) == a \in DOMAIN x.kernel /\ x.kernel[a].dad = d

\* Temporary addresses are optimistic: usable before DAD ends.
optimistic(a) == a \in Pool

----------------------------------------------------------------------------
(* Temporary addresses, each with its place in the order of creation *)

preferred(x) == {a \in DOMAIN x.temps : x.temps[a].state = "preferred"}
preferredIn(x, p) == {a \in preferred(x) : PrefixOf[a] = p}

awaitAnnounce(x, S) ==
    [x EXCEPT !.announce = With(@, S, Announcements), !.dadDue = @ \/ S # {}]

deprecate(x, S) ==
    [x EXCEPT
        !.kernel = addrSet(@, S, "ok", FALSE, FALSE, x.snap.plen),
        !.temps = [a \in DOMAIN @ |->
            IF a \in S THEN [@[a] EXCEPT !.state = "deprecated", !.empty = 0] ELSE @[a]]]

remove(x, S) == [x EXCEPT !.kernel = Without(@, S), !.temps = Without(@, S)]

latest(x) == Max({0} \cup {x.temps[a].born : a \in DOMAIN x.temps})

\* Appended to temps one after the other, in any order.
append(x, S, state) ==
    LET place == CHOOSE f \in [S -> 1 .. Cardinality(S)] :
                    \A a, b \in S : f[a] = f[b] => a = b
    IN  [x EXCEPT !.temps = [a \in DOMAIN @ \cup S |->
            IF a \in S THEN [state |-> state, empty |-> 0, born |-> latest(x) + place[a]]
            ELSE @[a]]]

\* A random identifier is new; which one it is makes no difference. With none
\* left the address cannot be set, and the prefix goes without.
fresh(x, p) == TempPool[p] \ (DOMAIN x.kernel \cup DOMAIN x.temps)
randomIID(x, p) == CHOOSE a \in fresh(x, p) : TRUE
created(x, targets) == {randomIID(x, p) : p \in {q \in targets : fresh(x, q) # {}}}

\* The oldest go when there are more than the limit.
surplus(x) ==
    {a \in DOMAIN x.temps :
        Cardinality({b \in DOMAIN x.temps : x.temps[b].born >= x.temps[a].born}) > MaxTemps}
enforceMax(x) == IF MaxTemps <= 0 THEN x ELSE remove(x, surplus(x))

\* Faulty variant: the address of a prefix that is no longer active stays preferred.
ReplacedOnly(x, new) == {a \in preferred(x) : \E b \in new : PrefixOf[b] = PrefixOf[a]}

\* The preferred addresses that new ones replace, and those of prefixes no
\* longer active.
outdated(x, new) ==
    {a \in preferred(x) : \/ \E b \in new : PrefixOf[b] = PrefixOf[a]
                          \/ PrefixOf[a] \notin x.snap.active}

\* A new address in each target prefix, all of them active.
rotateFor(x, targets) ==
    LET new == created(x, targets)
        y   == awaitAnnounce([x EXCEPT !.kernel = addrSet(@, new, "tentative", TRUE, FALSE,
                                                          x.snap.plen)], new)
    IN  enforceMax(append(deprecate(y, outdated(y, new)), new, "preferred"))

rotate(x) == rotateFor(x, x.snap.active)

ensureTemps(x) == rotateFor(x, {p \in x.snap.active : preferredIn(x, p) = {}})

keepTempsNewest(x) == IF preferred(x) # {} THEN rotate(x) ELSE x

----------------------------------------------------------------------------
(* Static addresses *)

\* The address each policy gives in each prefix picked.
want(x) == {IID[p][i][x.dadCnt[p][i]] : p \in x.snap.static, i \in Policies}

\* Addresses in a managed prefix that are in none of the known sets.
strayAddrs(x) ==
    {a \in DOMAIN x.kernel : /\ PrefixOf[a] \in x.snap.static \cup x.snap.temp
                             /\ a \notin x.applied
                             /\ a \notin DOMAIN x.endpoints
                             /\ a \notin DOMAIN x.temps}

adoptStrays(x) ==
    LET strays == strayAddrs(x)
        y == append(x, strays, "deprecated")
    IN  [y EXCEPT !.kernel = addrSet(@, strays, "ok", FALSE, FALSE, x.snap.plen),
                  !.adopted = @ \cup strays]

\* An address whose prefix length changed is deleted and added again.
moved(x) == {a \in want(x) \cap DOMAIN x.plens : x.plens[a] # x.snap.plen}

\* The addresses whose DAD starts now.
starting(x) == (want(x) \ x.applied) \cup moved(x)

configure(x) ==
    LET w    == want(x)
        new  == starting(x)
        gone == x.applied \ w
        k    == addrSet(Without(x.kernel, moved(x)), w, "tentative", TRUE, TRUE, x.snap.plen)
    IN  awaitAnnounce(
          [x EXCEPT !.kernel = Without(k, gone),
                    !.plens = Without(With(@, w, x.snap.plen), gone),
                    !.dadDue = @ \/ new # {},
                    !.dadWait = (@ \cup new) \ gone,
                    !.applied = w], new)

applyPrefixAddrs(x) ==
    LET y == adoptStrays(configure(x))
    IN  IF starting(x) # {} THEN keepTempsNewest(y) ELSE y

\* The slot an address came from: the first policy that gives it now.
slotOf(x, a) ==
    LET p == PrefixOf[a]
        is == {i \in Policies : IID[p][i][x.dadCnt[p][i]] = a}
    IN  IF is = {} THEN 1 ELSE CHOOSE i \in is : \A j \in is : i <= j

\* On to the next DAD_Counter; the store is told of the first policy's.
prefixDADFailed(x, a) ==
    LET p == PrefixOf[a]
        i == slotOf(x, a)
        c == x.dadCnt[p][i] + 1
        y == [x EXCEPT !.dadCnt[p][i] = c, !.dadWait = @ \ {a},
                       !.applied = @ \ {a}, !.plens = Without(@, {a})]
        z == applyPrefixAddrs(y)
    IN  IF i = 1 THEN [z EXCEPT !.self = With(@, {p}, IID[p][1][c])] ELSE z

----------------------------------------------------------------------------
(* Tunnel endpoints *)

ownedElsewhere(x, a) == a \in x.applied \/ a = x.snap.wan

\* Endpoints that are an address of someone else's are used as they are; one
\* whose owner let go is added, and those no longer wanted go.
applyEndpoints(x) ==
    LET known(a) == /\ a \in DOMAIN x.endpoints
                    /\ (x.endpoints[a] = "external") = ownedElsewhere(x, a)
        change   == {a \in x.snap.endpoints : ~known(a)}
        use      == {a \in change : ownedElsewhere(x, a)}
        add      == change \ use
        gone     == DOMAIN x.endpoints \ x.snap.endpoints
        ours     == {a \in gone : x.endpoints[a] \notin {"conflict", "external"}}
        told     == {a \in use \cup gone : a \in DOMAIN x.endpoints /\ x.endpoints[a] = "conflict"}
        k        == addrSet(x.kernel, add, "tentative", FALSE, FALSE, 128)
    IN  awaitAnnounce(
          [x EXCEPT !.kernel = Without(k, ours),
                    !.endpoints = Without(With(With(@, use, "external"), add, "tentative"), gone),
                    !.conflicts = @ \ told,
                    !.adopted = @ \cup {a \in use : dadIs(x, a, "failed")}], add)

watchWANAddr(x) ==
    LET a == x.snap.wan
    IN  IF a # None /\ a # x.wanAddr
        THEN keepTempsNewest(awaitAnnounce([x EXCEPT !.wanAddr = a], {a})) ELSE x

----------------------------------------------------------------------------
(* The DAD poll *)

\* One more announcement of every listed address that can be used.
announced(x) ==
    LET ready == {a \in DOMAIN x.announce : \/ dadIs(x, a, "ok")
                                            \/ dadIs(x, a, "tentative") /\ optimistic(a)}
        done  == {a \in ready : x.announce[a] = 1}
                 \cup {a \in DOMAIN x.announce : dadIs(x, a, "failed")}
    IN  Without([a \in DOMAIN x.announce |->
                    x.announce[a] - (IF a \in ready THEN 1 ELSE 0)], done)

\* The listed addresses whose verdict is still to come.
undecided(x) ==
    {a \in DOMAIN x.kernel :
        /\ x.kernel[a].dad = "tentative"
        /\ IF a \in DOMAIN x.endpoints THEN x.endpoints[a] # "external"
           ELSE a \in x.applied \cup DOMAIN x.temps}

\* Faulty variant: the conflict is noted and not reported.
Unreported(x) ==
    LET failed == {a \in DOMAIN x.endpoints : /\ x.endpoints[a] # "external"
                                              /\ dadIs(x, a, "failed")}
    IN  [x EXCEPT !.endpoints = With(@, failed, "conflict"),
                  !.kernel = Without(@, failed)]

\* Endpoints: a conflict is reported and the address given up, never moved.
endpointVerdicts(x) ==
    LET own    == {a \in DOMAIN x.endpoints : x.endpoints[a] # "external"}
        failed == {a \in own : dadIs(x, a, "failed") /\ x.endpoints[a] # "conflict"}
        passed == {a \in own : dadIs(x, a, "ok")}
    IN  [x EXCEPT !.endpoints = With(With(@, failed, "conflict"), passed, "ok"),
                  !.kernel = Without(@, failed),
                  !.conflicts = @ \cup failed]

\* A temporary address failed: it goes, and if it was the preferred one of its
\* prefix another takes its place.
tempFailed(x, a) ==
    LET y == remove(x, {a})
    IN  IF a \in preferred(x) THEN rotateFor(y, x.snap.active \cap {PrefixOf[a]}) ELSE y

\* The manager's addresses that failed: marked in the table, or gone from it
\* before their verdict was seen.
marked(x) == {a \in (x.applied \cup DOMAIN x.temps) \ DOMAIN x.endpoints : dadIs(x, a, "failed")}
lost(x)   == x.dadWait \ DOMAIN x.kernel

\* One of them is replaced; list is the table as it was read.
replace(x, list, a) ==
    IF a \in list
    THEN IF a \in x.applied THEN prefixDADFailed([x EXCEPT !.kernel = Without(@, {a})], a)
         ELSE IF a \in DOMAIN x.temps THEN tempFailed(x, a) ELSE x
    ELSE IF a \in x.dadWait THEN prefixDADFailed(x, a) ELSE x

replaceAll(x, list, order) ==
    LET after[n \in 0 .. Len(order)] ==
            IF n = 0 THEN x ELSE replace(after[n - 1], list, order[n])
    IN  after[Len(order)]

\* Faulty variant: the addresses that replace the failed ones are not waited for.
UnsettledListed(x) ==
    \/ undecided(x) # {}
    \/ \E a \in DOMAIN announced(x) : a \in DOMAIN x.kernel

\* Something is left to wait for.
unsettled(x) ==
    \/ undecided(x) # {} \/ marked(x) # {} \/ lost(x) # {}
    \/ \E a \in DOMAIN announced(x) : a \in DOMAIN x.kernel

\* The whole poll: verdicts and announcements, then the replacements in the
\* order of the table, then those that are not in it. What is added on the way
\* is not in the list, and neither are its announcements kept.
verdicts(x) ==
    [endpointVerdicts(x) EXCEPT
        !.announce = announced(x),
        !.dadWait = {a \in @ : a \in DOMAIN x.endpoints \/ ~dadIs(x, a, "ok")}]

checkDAD(x, order, late) ==
    LET list == DOMAIN x.kernel
        y    == replaceAll(replaceAll(verdicts(x), list, order), list, late)
    IN  [y EXCEPT !.announce = Without(@, DOMAIN @ \ list), !.dadDue = unsettled(x)]

----------------------------------------------------------------------------
(* Steps of serve *)

update(x) == LET y == applyPrefixAddrs(x)
             IN  ensureTemps(watchWANAddr(applyEndpoints(y)))

\* A round of supervise begins: only what is in the store outlives the last.
Fresh(s, k, confl, self) ==
    [snap |-> s, applied |-> {}, plens |-> [a \in DOMAIN k |-> k[a].plen],
     dadCnt |-> [p \in Prefixes64 |-> [i \in Policies |-> 0]], dadDue |-> FALSE,
     dadWait |-> {}, announce |-> <<>>, endpoints |-> <<>>, temps |-> <<>>,
     wanAddr |-> None, kernel |-> k, conflicts |-> confl, self |-> self,
     adopted |-> {}]

Counted == events < MaxEvents /\ events' = events + 1

\* A DS-Lite tunnel ends at the address from IA_NA, once there is one.
resolve(s) ==
    [s EXCEPT !.wan = lease, !.endpoints = IF s.aftr /\ lease # None THEN {lease} ELSE @]

Snapshot(s) ==
    /\ Counted
    /\ m' = update([m EXCEPT !.snap = resolve(s)])
    /\ UNCHANGED <<lease, fails>>

Rotate ==
    /\ Counted
    /\ m' = rotate(m)
    /\ UNCHANGED <<lease, fails>>

\* Deprecated addresses that two checks in a row find unused are reclaimed.
Drain ==
    /\ Counted
    /\ \E used \in SUBSET DOMAIN m.temps :
         LET count(a) == IF a \in preferred(m) THEN m.temps[a]
                         ELSE [m.temps[a] EXCEPT !.state = "draining",
                                                 !.empty = IF a \in used THEN 0 ELSE @ + 1]
             x == [m EXCEPT !.temps = [a \in DOMAIN @ |-> count(a)]]
         IN  m' = remove(x, {a \in DOMAIN x.temps : x.temps[a].empty >= 2})
    /\ UNCHANGED <<lease, fails>>

\* The counters have room for as many failures.
Poll ==
    /\ m.dadDue
    /\ \A p \in Prefixes64, i \in Policies :
          Cardinality(marked(m) \cup lost(m)) <= MaxCounter - m.dadCnt[p][i]
    /\ \E order \in SetToSeqs(marked(m)), late \in SetToSeqs(lost(m)) : m' = checkDAD(m, order, late)
    /\ UNCHANGED <<lease, fails, events>>

----------------------------------------------------------------------------
(* The kernel, the link and the DHCPv6 client *)

Passes(a) ==
    /\ dadIs(m, a, "tentative")
    /\ m' = [m EXCEPT !.kernel[a].dad = "ok"]
    /\ UNCHANGED <<lease, fails, events>>

Fails(a) ==
    /\ dadIs(m, a, "tentative") /\ a # Leased /\ fails < MaxFails
    /\ m' = [m EXCEPT !.kernel = IF @[a].finite THEN Without(@, {a})
                                 ELSE [@ EXCEPT ![a].dad = "failed"]]
    /\ fails' = fails + 1
    /\ UNCHANGED <<lease, events>>

\* The DHCPv6 client configures its address, and gives it up.
Bind ==
    /\ Counted
    /\ lease = None
    /\ lease' = Leased
    /\ m' = [m EXCEPT !.kernel = addrSet(@, {Leased}, "tentative", TRUE, TRUE, 128)]
    /\ UNCHANGED fails

Unbind ==
    /\ Counted
    /\ lease # None
    /\ lease' = None
    /\ m' = [m EXCEPT !.kernel = Without(@, {Leased})]
    /\ UNCHANGED fails

\* The link goes down and comes back, with none of its addresses but the one
\* the DHCPv6 client restores.
Bounce ==
    /\ Counted
    /\ LET k == addrSet(<<>>, {lease} \ {None}, "tentative", TRUE, TRUE, 128)
       IN  \E s \in Snapshots :
              m' = update(Fresh(resolve(s), k, m.conflicts, m.self))
    /\ UNCHANGED <<lease, fails>>

Init ==
    /\ lease = None /\ fails = 0 /\ events = 0
    /\ \E s \in Snapshots, left \in SUBSET Leftovers :
          m = update(Fresh(resolve(s), addrSet(<<>>, left, "ok", TRUE, TRUE, 64), {}, <<>>))

Next ==
    \/ \E s \in Snapshots : Snapshot(s)
    \/ Rotate \/ Drain \/ Poll
    \/ \E a \in DOMAIN m.kernel : Passes(a) \/ Fails(a)
    \/ Bind \/ Unbind \/ Bounce

Spec == Init /\ [][Next]_vars

----------------------------------------------------------------------------
(* Properties *)

\* The manager's addresses that take a DAD verdict. An address that is also an
\* endpoint is left to dadWait (the external case of checkDAD).
watched(x) ==
    {a \in x.applied \cup preferred(x) \cup DOMAIN x.endpoints :
        a \in DOMAIN x.endpoints => x.endpoints[a] \notin {"external", "conflict"}}

\* No verdict is missed: while one of the manager's addresses is tentative or
\* marked as a duplicate, or was deleted by the kernel before it passed, the
\* poll goes on. It stops by itself, and every path that adds an address, even
\* in the middle of a poll, has to leave it running (checkDAD). Left out are
\* addresses adopted as strays, and an endpoint that a static address took over
\* when the kernel had marked it already.
VerdictAwaited ==
    \/ m.dadDue
    \/ /\ \A a \in watched(m) \ m.adopted : ~dadIs(m, a, "tentative") /\ ~dadIs(m, a, "failed")
       /\ m.dadWait \subseteq DOMAIN m.kernel \cup m.adopted

\* One source address at a time: a prefix has at most one preferred temporary
\* address, it is configured, and none is preferred where the prefix itself is
\* no longer (rotateFor, deprecate, enforceMax).
OnePreferred ==
    \A p \in Prefixes64 :
        /\ Cardinality(preferredIn(m, p)) <= (IF p \in m.snap.active THEN 1 ELSE 0)
        /\ preferredIn(m, p) \subseteq DOMAIN m.kernel

\* What the manager thinks of an endpoint is so: one it waits for or uses is
\* configured, and one in conflict is off the interface and reported to the
\* store (applyEndpoints, checkDAD). An adopted one is drained like a temporary
\* address.
EndpointsSettled ==
    \A a \in DOMAIN m.endpoints :
        /\ m.endpoints[a] \in {"tentative", "ok"} => a \in DOMAIN m.kernel \cup m.adopted
        /\ m.endpoints[a] = "conflict" => a \in m.conflicts /\ a \notin DOMAIN m.kernel

\* The address the DHCPv6 client holds stays on the interface: the manager
\* leaves it to its owner (the comment in applyEndpoints).
LeasedKept ==
    [][lease # None /\ lease' = lease => lease \in DOMAIN m'.kernel]_vars

=============================================================================
