------------------------------ MODULE RAClient ------------------------------
(***************************************************************************)
(* The RA client of the WAN (raclient.go): the routers it hears, the       *)
(* prefixes each advertises, the default route it keeps in the kernel for  *)
(* every live router, and what it publishes to the store.                  *)
(*                                                                         *)
(* Times are what is left of them: an instant of the code is the number of *)
(* ticks until it, 0 once it has passed, so that no run needs a last       *)
(* instant. A router's lifetime is NoTime while the code's is the zero     *)
(* time. The goroutines of serve are one process: every case of its select *)
(* is an action.                                                           *)
(***************************************************************************)
EXTENDS Integers, FiniteSets, FiniteSetsExt

CONSTANTS
    Routers,    \* the link-local addresses routers speak from
    Prefixes,   \* the prefixes they advertise
    Adverts,    \* the Router Advertisements that can arrive
    TwoHours,   \* the floor of RFC 4862 section 5.5.3 e), in ticks
    Hour,       \* the longest the expiry timer sleeps, in ticks
    Solicits,   \* how often a round solicits while no router speaks, 3 in the code
    RSWait,     \* ticks between two Router Solicitations
    PointToPoint \* whether the WAN is a point-to-point device

ASSUME TimesAssumption ==
    /\ TwoHours \in Nat /\ Solicits \in Nat /\ Hour \in Nat \ {0} /\ RSWait \in Nat \ {0}
    /\ TwoHours >= Hour

\* A Router Advertisement: router lifetime, preference, whether M or O is
\* set, and the Prefix Information Options, a valid lifetime of 0 revoking.
Lifetimes == [pref : Nat, valid : Nat]
Preferences == {"low", "medium", "high"}

ASSUME AdvertsAssumption ==
    \A ra \in Adverts :
        /\ ra.life \in Nat /\ ra.pref \in Preferences /\ ra.dhcp \in BOOLEAN
        /\ DOMAIN ra.pios \subseteq Prefixes
        /\ \A p \in DOMAIN ra.pios : ra.pios[p] \in Lifetimes

NoTime == -1
Off == -1           \* a timer that is not running
None == "none"
Device == "device"  \* the next hop of a default route that has no gateway

ASSUME RoutersAssumption ==
    IsFiniteSet(Routers) /\ None \notin Routers /\ Device \notin Routers

VARIABLES
    link,     \* "up" or "down"
    fresh,    \* the interface was recreated since serve last saw it
    serving,  \* serve is running on an open socket
    stop,     \* the context of this round is cancelled: the link was lost
    routers,  \* raClient.routers
    ppp,      \* the default route points at the device
    started,  \* the DHCPv6 client was woken
    lastSet,  \* {the prefix set of the last publish}, {} before the first
    reconfirm, \* the last publish asked the DHCPv6 client to reconfirm
    kernel,   \* the default routes of the WAN in the kernel
    rsLeft,   \* Router Solicitations still to send
    rsTimer, expire, \* the timers of serve, ticks until they fire
    upd       \* what the store holds of this source

vars == <<link, fresh, serving, stop, routers, ppp, started, lastSet,
          reconfirm, kernel, rsLeft, rsTimer, expire, upd>>

----------------------------------------------------------------------------
(* One RA *)

\* The PIOs an RA makes usable, and the ones it revokes. One that is
\* preferred for longer than it is valid is skipped, and so is all that a
\* router with lifetime 0 offers.
usable(ra) ==
    {p \in DOMAIN ra.pios : /\ ra.pios[p].valid > 0
                            /\ ra.pios[p].pref <= ra.pios[p].valid
                            /\ ra.life > 0}
revoked(ra) == {p \in DOMAIN ra.pios : ra.pios[p].valid = 0}

\* Faulty variant: a shorter lifetime is taken as it comes.
AnyLifetime(old, vl) == vl

\* The valid lifetime a known prefix takes from one of vl.
shortened(old, vl) ==
    IF vl > TwoHours \/ vl > old THEN vl
    ELSE IF old <= TwoHours THEN old ELSE TwoHours

mergePIOs(have, ra) ==
    [p \in DOMAIN have \cup usable(ra) |->
        IF p \in usable(ra) /\ p \notin DOMAIN have THEN ra.pios[p]
        ELSE IF p \in usable(ra)
        THEN LET v == shortened(have[p].valid, ra.pios[p].valid)
             IN  [valid |-> v, pref |-> Min({ra.pios[p].pref, v})]
        ELSE IF p \in revoked(ra)
        THEN [valid |-> shortened(have[p].valid, 0), pref |-> 0]
        ELSE IF usable(ra) # {} THEN [have[p] EXCEPT !.pref = 0]
        ELSE have[p]]

deprecate(ps) == [p \in DOMAIN ps |-> [ps[p] EXCEPT !.pref = 0]]

----------------------------------------------------------------------------
(* Default routes *)

routerMetric(p) == CASE p = "high" -> 512 [] p = "low" -> 2048 [] OTHER -> 1024

\* Faulty variant: one metric for all routers of a preference.
SharedMetric(rs, from, p) == routerMetric(p)

\* The metric of the preference plus the first offset no other router holds.
metricFor(rs, from, p) ==
    Min({m \in routerMetric(p) .. routerMetric(p) + Cardinality(Routers) :
            \A a \in DOMAIN rs : a # from => rs[a].metric # m})

\* The kernel keeps one default route per metric; a replace takes the place
\* of the one with the same metric, a delete names the gateway too.
routeSet(k, gw, metric, left) ==
    {x \in k : x.metric # metric} \cup
        {[metric |-> metric, gw |-> gw, left |-> left]}
routeDel(k, gw, metric) == {x \in k : x.metric # metric \/ x.gw # gw}

dropDefault(k, addr, r) ==
    IF r.metric # 0 THEN routeDel(k, addr, r.metric) ELSE k

\* The kernel's own view, a hand-made route counting as well as the client's.
defaultRouteVia(k) == k # {}

pppMetric == 4096

----------------------------------------------------------------------------
(* Publishing *)

\* The routers after publish looked at them: one past its lifetime is no
\* default router any more, prefixes past theirs go, and a router that is
\* gone goes when it has none left.
swept(rs) ==
    LET ended(r) == rs[r].lifetime = 0
        alive(r) == {p \in DOMAIN rs[r].prefixes : rs[r].prefixes[p].valid > 0}
        kept(r)  == [p \in alive(r) |-> rs[r].prefixes[p]]
        next(r)  == IF ended(r)
                    THEN [rs[r] EXCEPT !.lifetime = NoTime, !.gone = TRUE,
                                       !.metric = 0,
                                       !.prefixes = deprecate(kept(r))]
                    ELSE [rs[r] EXCEPT !.prefixes = kept(r)]
    IN  [r \in {x \in DOMAIN rs : alive(x) # {} \/ ~(rs[x].gone \/ ended(x))}
            |-> next(r)]

\* publish deletes the default routes of the routers that timed out.
sweptRoutes(rs, k) ==
    {x \in k : ~\E r \in DOMAIN rs : /\ rs[r].lifetime = 0
                                     /\ x.gw = r /\ x.metric = rs[r].metric}

\* Go walks a map in any order: the first router that holds a prefix has its
\* copy published.
Orders == {o \in [Routers -> 1 .. Cardinality(Routers)] :
               \A a, b \in Routers : o[a] = o[b] => a = b}

prefRank(p) == CASE p = "high" -> 2 [] p = "medium" -> 1 [] OTHER -> 0

First(o, S) == CHOOSE r \in S : \A x \in S : o[r] <= o[x]

live(rs) == {r \in DOMAIN rs : rs[r].lifetime # NoTime}

\* What publish hands to the store. via is what stands as the default router,
\* None for the code's NoRouter: a router, the device, or a route found in the
\* kernel. prefixes maps each to the router whose copy was taken, opts is the
\* router the DNS, PREF64 and MTU come from.
merged(rs, k, pp, o) ==
    LET present  == {r \in DOMAIN rs : ~rs[r].gone}
        top      == {r \in present :
                        \A x \in present : prefRank(rs[r].pref) >= prefRank(rs[x].pref)}
        seen     == UNION {DOMAIN rs[r].prefixes : r \in DOMAIN rs}
        holds(p) == {r \in DOMAIN rs : p \in DOMAIN rs[r].prefixes}
    IN  [via      |-> IF live(rs) # {} THEN "router" ELSE IF pp THEN Device
                      ELSE IF defaultRouteVia(k) THEN "found" ELSE None,
         prefixes |-> [p \in seen |-> First(o, holds(p))],
         dhcp     |-> \E r \in present : rs[r].dhcp,
         opts     |-> IF top = {} THEN None ELSE First(o, top)]

\* publish, from routers rs, kernel routes k and the ppp flag pp. Where the
\* prefix set differs from the last one the DHCPv6 client is asked to
\* reconfirm.
publish(rs, k, pp) ==
    /\ routers' = swept(rs)
    /\ kernel' = sweptRoutes(rs, k)
    /\ ppp' = pp
    /\ \E o \in Orders : upd' = merged(swept(rs), sweptRoutes(rs, k), pp, o)
    /\ lastSet' = {DOMAIN upd'.prefixes}
    /\ reconfirm' = (lastSet # {} /\ lastSet' # lastSet)

hasRouter(rs) == \E r \in DOMAIN rs : ~rs[r].gone

\* Faulty variant: the timer minds the prefixes and forgets the routers.
PrefixesOnly(rs) ==
    Max({1, Min({Hour} \cup UNION {{rs[r].prefixes[p].valid : p \in DOMAIN rs[r].prefixes}
                                      : r \in DOMAIN rs})})

\* When something of a router's ends: its lifetime, a prefix, or a prefix's
\* preference.
endsOf(r) ==
    ({r.lifetime} \ {NoTime})
        \cup {r.prefixes[p].valid : p \in DOMAIN r.prefixes}
        \cup ({r.prefixes[p].pref : p \in DOMAIN r.prefixes} \ {0})

\* How long the expiry timer sleeps: until the first of them, an hour at most.
nextExpiry(rs) == Max({1, Min({Hour} \cup UNION {endsOf(rs[r]) : r \in DOMAIN rs})})

\* The link is gone: no router is a default router, the prefixes stay.
lost(rs) ==
    [r \in DOMAIN rs |-> [rs[r] EXCEPT !.lifetime = NoTime, !.metric = 0,
                                       !.gone = TRUE, !.prefixes = deprecate(@)]]

linkLost == publish(lost(routers), kernel, FALSE)

----------------------------------------------------------------------------
(* Steps of serve *)

NothingKnown == [via |-> None, prefixes |-> <<>>, dhcp |-> FALSE,
                 opts |-> None]

\* A round begins: on a recreated interface everything is forgotten, on the
\* same one it is as if the link had just been lost. When the socket cannot
\* be opened serve returns and supervise tries again.
Serve(opened) ==
    /\ ~serving /\ link = "up"
    /\ fresh' = FALSE
    /\ IF fresh
       THEN /\ routers' = <<>> /\ ppp' = FALSE /\ upd' = NothingKnown
            /\ UNCHANGED <<kernel, lastSet, reconfirm>>
       ELSE linkLost
    /\ serving' = opened
    /\ stop' = FALSE
    /\ rsLeft' = Solicits
    /\ rsTimer' = IF opened THEN 0 ELSE Off
    /\ expire' = IF opened THEN Hour ELSE Off
    /\ UNCHANGED <<link, started>>

\* The round ends; where the link is down the LAN is told at once.
Stop ==
    /\ serving /\ stop
    /\ serving' = FALSE
    /\ rsTimer' = Off /\ expire' = Off
    /\ IF link = "down" THEN linkLost
       ELSE UNCHANGED <<routers, kernel, ppp, upd, lastSet, reconfirm>>
    /\ UNCHANGED <<link, fresh, stop, started, rsLeft>>

\* The solicitation timer: another RS while no router has spoken, and once
\* they are used up a point-to-point link gets a route to the device.
RSTimer ==
    /\ serving /\ rsTimer = 0
    /\ IF rsLeft = 0 /\ ~hasRouter(routers)
       THEN LET pp == PointToPoint /\ link = "up"
            IN  publish(routers,
                        IF pp THEN routeSet(kernel, Device, pppMetric, NoTime)
                        ELSE kernel, pp)
       ELSE UNCHANGED <<routers, kernel, ppp, upd, lastSet, reconfirm>>
    /\ IF rsLeft > 0 /\ ~hasRouter(routers)
       THEN rsLeft' = rsLeft - 1 /\ rsTimer' = RSWait
       ELSE rsTimer' = Off /\ UNCHANGED rsLeft
    /\ UNCHANGED <<link, fresh, serving, stop, started, expire>>

\* A router heard for the first time.
NewRouter == [pref |-> "medium", lifetime |-> NoTime, prefixes |-> <<>>,
              dhcp |-> FALSE, gone |-> FALSE, metric |-> 0]

\* The kernel's routes after an RA with a lifetime: the old route goes when
\* the metric changes. Setting one fails while the link is down.
routesAfter(rs, k, from, ra) ==
    LET m    == metricFor(rs, from, ra.pref)
        base == IF m # rs[from].metric THEN dropDefault(k, from, rs[from]) ELSE k
    IN  IF link = "up" THEN routeSet(base, from, m, ra.life) ELSE base

\* The routers among which the one that speaks has an entry.
met(from) ==
    IF from \in DOMAIN routers THEN routers
    ELSE [r \in DOMAIN routers \cup {from} |->
              IF r = from THEN NewRouter ELSE routers[r]]

\* Its entry after the RA. A router with lifetime 0 loses its prefixes.
heard(rs, from, ra) ==
    IF ra.life > 0
    THEN [pref |-> ra.pref, lifetime |-> ra.life,
          prefixes |-> mergePIOs(rs[from].prefixes, ra), dhcp |-> ra.dhcp,
          gone |-> FALSE, metric |-> metricFor(rs, from, ra.pref)]
    ELSE [pref |-> ra.pref, lifetime |-> NoTime, prefixes |-> <<>>,
          dhcp |-> ra.dhcp, gone |-> FALSE, metric |-> 0]

\* One RA is handled, the result published, and the expiry timer set again.
handle(ra, from) ==
    LET rs == met(from)
    IN  /\ serving
        /\ started' = TRUE
        /\ publish([rs EXCEPT ![from] = heard(rs, from, ra)],
                   IF ra.life > 0 THEN routesAfter(rs, kernel, from, ra)
                   ELSE dropDefault(kernel, from, rs[from]), ppp)
        /\ expire' = nextExpiry(routers')
        /\ UNCHANGED <<link, fresh, serving, stop, rsLeft, rsTimer>>

Expire ==
    /\ serving /\ expire = 0
    /\ publish(routers, kernel, ppp)
    /\ expire' = nextExpiry(routers')
    /\ UNCHANGED <<link, fresh, serving, stop, started, rsLeft, rsTimer>>

----------------------------------------------------------------------------
(* The kernel, the link and time *)

\* The link goes down, or away to come back as another interface: the
\* kernel drops its routes and supervise cancels the round.
LinkDown(gone) ==
    /\ link = "up"
    /\ link' = "down"
    /\ fresh' = (fresh \/ gone)
    /\ kernel' = {}
    /\ stop' = serving
    /\ UNCHANGED <<serving, routers, ppp, started, lastSet, reconfirm, rsLeft,
                   rsTimer, expire, upd>>

LinkUp ==
    /\ link = "down"
    /\ link' = "up"
    /\ UNCHANGED <<fresh, serving, stop, routers, ppp, started, lastSet, reconfirm,
                   kernel, rsLeft, rsTimer, expire, upd>>

Less(t) == IF t > 0 THEN t - 1 ELSE t

\* A tick. A timer that is due fires before time goes on; a default route
\* with a lifetime ends in the kernel by itself.
Tick ==
    /\ rsTimer # 0 /\ expire # 0
    /\ routers' = [r \in DOMAIN routers |->
           [routers[r] EXCEPT
               !.lifetime = Less(@),
               !.prefixes = [p \in DOMAIN @ |->
                                [pref |-> Less(@[p].pref), valid |-> Less(@[p].valid)]]]]
    /\ kernel' = {[x EXCEPT !.left = Less(@)] : x \in {y \in kernel : y.left # 1}}
    /\ rsTimer' = Less(rsTimer)
    /\ expire' = Less(expire)
    /\ UNCHANGED <<link, fresh, serving, stop, ppp, started, lastSet, reconfirm,
                   rsLeft, upd>>

Init ==
    /\ link = "up" /\ fresh = TRUE /\ serving = FALSE /\ stop = FALSE
    /\ routers = <<>> /\ ppp = FALSE /\ started = FALSE /\ lastSet = {}
    /\ reconfirm = FALSE
    \* a run before this one may have left a default route
    /\ \E r \in Routers : kernel \in {{}, routeSet({}, r, routerMetric("medium"), Hour)}
    /\ rsLeft = Solicits /\ rsTimer = Off /\ expire = Off
    /\ upd = NothingKnown

Next ==
    \/ \E opened \in BOOLEAN : Serve(opened)
    \/ Stop
    \/ RSTimer
    \/ \E ra \in Adverts, from \in Routers : handle(ra, from)
    \/ Expire
    \/ \E gone \in BOOLEAN : LinkDown(gone)
    \/ LinkUp
    \/ Tick

Spec == Init /\ [][Next]_vars

----------------------------------------------------------------------------
(* Properties *)

\* No timer is due and the link was not lost since the round began: what the
\* client had to do, it has done.
Settled == serving /\ ~stop /\ rsTimer # 0 /\ expire # 0

\* Every router the client counts as a default router has its own route in the
\* kernel, at its own metric and for as long as it said, whichever other
\* routers came, went, changed preference or timed out (metricFor,
\* dropDefault, handle, publish).
HeardRouted ==
    serving /\ ~stop =>
        \A r \in DOMAIN routers : routers[r].lifetime > 0 =>
            [metric |-> routers[r].metric, gw |-> r,
             left |-> routers[r].lifetime] \in kernel

\* The LAN is told of the loss of the WAN's default router when it happens: a
\* router published as such is one whose lifetime has not ended, the device
\* route is in the kernel, and no live router goes unpublished (nextExpiry and
\* the timer, publish, linkLost).
LossTold ==
    Settled =>
        /\ upd.via = "router" <=> \E r \in DOMAIN routers : routers[r].lifetime > 0
        /\ upd.via = Device => \E x \in kernel : x.gw = Device

\* An RA never takes a known prefix away faster than RFC 4862 allows, two
\* hours or what was left of it; nor does the link going down, a router timing
\* out or another router's RA. Only the router that leaves, with lifetime 0,
\* and a recreated interface drop one (mergePIOs, linkLost, publish).
KnownPrefixKept ==
    [][\/ Tick
       \/ fresh /\ ~fresh'
       \/ \A r \in DOMAIN routers : \A p \in DOMAIN routers[r].prefixes :
             LET v == routers[r].prefixes[p].valid
             IN  \/ v = 0
                 \/ /\ r \in DOMAIN routers'
                    /\ ~routers'[r].gone /\ routers'[r].lifetime = NoTime
                 \/ /\ r \in DOMAIN routers'
                    /\ p \in DOMAIN routers'[r].prefixes
                    /\ routers'[r].prefixes[p].valid >= Min({v, TwoHours})]_vars

\* The parts of the inductive invariant. A router that is gone is no default
\* router, one has a metric while it is one, and no two have the same.
Known == UNION {[S -> Lifetimes] : S \in SUBSET Prefixes}
Infos == [pref : Preferences, lifetime : Nat \cup {NoTime}, prefixes : Known,
          dhcp : BOOLEAN, gone : BOOLEAN, metric : Nat]
Tables == UNION {[S -> Infos] : S \in SUBSET Routers}
Routes == [metric : Nat, gw : Routers \cup {Device}, left : Nat \cup {NoTime}]

Apart(rs) == \A r, s \in DOMAIN rs : r # s /\ rs[r].metric # 0 => rs[r].metric # rs[s].metric
Metered(rs) == \A r \in DOMAIN rs :
    /\ rs[r].gone => rs[r].lifetime = NoTime
    /\ rs[r].lifetime = NoTime <=> rs[r].metric = 0
WellKept(rs) == rs \in Tables /\ Metered(rs) /\ Apart(rs)

RouteOf(rs, r) == [metric |-> rs[r].metric, gw |-> r, left |-> rs[r].lifetime]
Routed(rs, k) == \A r \in DOMAIN rs : rs[r].lifetime > 0 => RouteOf(rs, r) \in k

\* The timer fires no later than the first router's lifetime ends.
Timed(rs, e) == e \in Nat /\ \A r \in live(rs) : e <= rs[r].lifetime

\* The metrics of the routers stay below the one of the device route.
FewRouters == Cardinality(Routers) < 2048
DeviceRoute == [metric |-> pppMetric, gw |-> Device, left |-> NoTime]

RouterInv ==
    /\ WellKept(routers)
    /\ kernel \subseteq Routes
    /\ serving /\ ~stop => link = "up" /\ Routed(routers, kernel)
    /\ serving => Timed(routers, expire)
    /\ upd.via = "router" <=> live(routers) # {}
    /\ upd.via = Device => ppp
    /\ FewRouters /\ serving /\ ~stop /\ ppp => DeviceRoute \in kernel

=============================================================================
