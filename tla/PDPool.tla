------------------------------- MODULE PDPool -------------------------------
(***************************************************************************)
(* The downstream delegation pool of sixup (pd.go and the IA_PD part of     *)
(* dhcp6s.go): prefixes carved out of the upstream delegation and the ULA   *)
(* for the routers behind this one.  One pool, behind one mutex, serves     *)
(* every LAN interface; each interface has a DHCPv6 server with a snapshot  *)
(* of the prefix state of its own, fed by the store over a channel of       *)
(* capacity 1.  The delegations are in memory, in a file that survives a    *)
(* restart, in the kernel's routes and in the firewall's set; the kernel's  *)
(* routes survive a restart of the process, not the loss of the link.       *)
(*                                                                          *)
(* A prefix is [lo, bits, ula]: bits is its length, lo its first /64 and    *)
(* ula tells the two address spaces apart.                                  *)
(***************************************************************************)
EXTENDS Integers, Sequences, FiniteSets, FiniteSetsExt

CONSTANTS
    Ifaces,       \* the LAN interfaces
    Routers,      \* the IA_PDs of the downstream routers: DUID and IAID
    Peers,        \* Peers[r]: link-local addresses the router of r may use
    Hash,         \* Hash[key]: the FNV hash of the key
    PLen,         \* -dhcp6s-pd-len, 0 for auto
    MaxProbes,    \* maxProbes
    ServerValid,  \* -dhcp6s-lease-valid
    Offers,       \* snapshots the store may publish, lifetimes relative
    Hints,        \* what a router may ask for: NoHint, a length alone, or a prefix
    SaveFails,    \* whether writing the file may fail
    MaxTime,      \* bound on the clock
    LastPublish,  \* bound: no publication after this time
    MaxCrashes    \* bound on the number of crashes

Prefix64 == [lo : Nat, bits : 0..64, ula : BOOLEAN]
Upstream == [lo : Nat, bits : 0..64, ula : BOOLEAN, valid : Nat, dep : BOOLEAN]
Snap     == [ups : Seq(Upstream), lan : SUBSET Prefix64, kept : SUBSET Prefix64]

\* A hint is a prefix, or, with lo = -1, a length alone; bits = -1 is no hint at all.
NoHint == [lo |-> -1, bits |-> -1, ula |-> FALSE]

ASSUME PoolAssumption ==
    /\ PLen \in 0..64 /\ MaxProbes \in Nat \ {0} /\ ServerValid \in Nat
    /\ Hash \in [Routers \X BOOLEAN -> Nat]
    /\ Offers \subseteq Snap
    /\ \A h \in Hints : h = NoHint \/ h \in [lo : Nat \cup {-1}, bits : 0..128, ula : BOOLEAN]
    /\ SaveFails \in BOOLEAN
    /\ MaxTime \in Nat /\ LastPublish \in Nat /\ MaxCrashes \in Nat

VARIABLES
    now,      \* the clock
    up,       \* whether the process runs
    cur,      \* the store's snapshot
    ch,       \* ch[i]: the channel of the server of i: <<>> or <<[snap, moved]>>
    snap,     \* snap[i]: the snapshot the server of i works with
    serving,  \* serving[i]: the interface is up and its server runs
    leases,   \* the pool's map, keyed by Key(l)
    file,     \* pd-leases.json
    route,    \* the kernel's routes to downstream routers
    fw,       \* the delegations the firewall was told of
    told,     \* history: the delegations last answered and not taken back
    crashes   \* crashes so far (bound)

feed == <<cur, ch, snap, serving>>
pool == <<leases, file, route, fw, told>>
vars == <<now, up, feed, pool, crashes>>

(***************************************************************************)
(* Prefixes.                                                                *)
(***************************************************************************)
Lesser(a, b) == IF a < b THEN a ELSE b
Span(b) == 2 ^ (64 - b.bits)

\* netip.Prefix.Overlaps, which compares for equality first, and .Contains
Overlaps(a, b) ==
    a = b \/ (a.ula = b.ula /\ a.lo < b.lo + Span(b) /\ b.lo < a.lo + Span(a))
Contains(u, b) == u.ula = b.ula /\ u.lo <= b.lo /\ b.lo < u.lo + Span(u)

\* delegable: where in s the upstream delegations are, or the ULAs, a prefix can be carved from.
Delegable(s, ula) == {j \in DOMAIN s.ups : s.ups[j].ula = ula /\ ~s.ups[j].dep /\ s.ups[j].bits < 64}

\* shortest: the shortest length delegated out of a delegation of length bits.
Shortest(bits) ==
    IF PLen > 0 THEN PLen
    ELSE IF bits < 48 THEN 48 ELSE IF bits < 56 THEN 56 ELSE IF bits < 60 THEN 60 ELSE 64

(***************************************************************************)
(* The pool.                                                                *)
(***************************************************************************)
\* pdKey: an IA_PD takes one prefix of the upstream delegation and one of the ULA.
Key(l)  == <<l.r, l.pf.ula>>
Live(l) == now < l.expires

\* Faulty variant: the delegations of other routers are not looked at.
FreeOfLAN(L, s, pf, key) == \A b \in s.lan \cup s.kept : ~Overlaps(b, pf)

\* free: no LAN prefix, nothing on-link on the WAN or kept by the ISP, and no live delegation of
\* another key overlaps pf.
Free(L, s, pf, key) ==
    /\ \A b \in s.lan \cup s.kept : ~Overlaps(b, pf)
    /\ \A l \in L : Key(l) # key /\ Live(l) => ~Overlaps(l.pf, pf)

\* pick's usable: in the first delegation that contains pf, not too short, and free.
Home(s, pf, key) ==
    {j \in Delegable(s, key[2]) : s.ups[j].bits < pf.bits /\ Contains(s.ups[j], pf)}
Usable(L, s, pf, key) ==
    /\ Home(s, pf, key) # {}
    /\ pf.bits >= Shortest(s.ups[Min(Home(s, pf, key))].bits) /\ pf.bits <= 64
    /\ Free(L, s, pf, key)

\* block: the i-th candidate of length n in u, from the slot the key hashes to, and those free.
Slot(u, n, key, i) ==
    [lo |-> u.lo + ((Hash[key] + i) % 2 ^ (n - u.bits)) * 2 ^ (64 - n), bits |-> n, ula |-> u.ula]
FreeSlots(L, s, u, n, key) ==
    {i \in 0..(Lesser(2 ^ (n - u.bits), MaxProbes) - 1) : Free(L, s, Slot(u, n, key, i), key)}

\* A length alone stands for either key of the IA_PD; a prefix, for the one it lies in.
HintFor(want, key) == IF want.lo >= 0 /\ want.ula # key[2] THEN NoHint ELSE want

\* The lengths pick tries in u: from the one hinted, no shorter than shortest, towards /64.
Lengths(u, want) ==
    {n \in 0..64 : n >= Shortest(u.bits) /\ n >= Lesser(want.bits, 64) /\ n > u.bits}

\* Faulty variant: the first length is the only one tried.
FreeLengthsFirstOnly(L, s, j, key, want) ==
    {n \in {Min(Lengths(s.ups[j], want))} : FreeSlots(L, s, s.ups[j], n, key) # {}}

FreeLengths(L, s, j, key, want) ==
    {n \in Lengths(s.ups[j], want) : FreeSlots(L, s, s.ups[j], n, key) # {}}

\* The first free block of the shortest length that has one, in the first delegation that has one.
Blocks(L, s, key, want) == {j \in Delegable(s, key[2]) : FreeLengths(L, s, j, key, want) # {}}
FirstBlock(L, s, j, key, want) ==
    LET n == Min(FreeLengths(L, s, j, key, want))
    IN  Slot(s.ups[j], n, key, Min(FreeSlots(L, s, s.ups[j], n, key)))

Picked(pf, valid) == [ok |-> TRUE, pf |-> pf, valid |-> valid]
Refused == [ok |-> FALSE]

\* pick: the current delegation while usable, else the prefix asked for, else a free block.  valid
\* is when the upstream delegation it lies in ends.
Pick(L, s, key, want) ==
    LET held == {l \in L : Key(l) = key /\ Usable(L, s, l.pf, key)}
        from(pf) == s.ups[Min(Home(s, pf, key))].valid
        j    == Min(Blocks(L, s, key, want))
    IN  IF held # {} THEN LET l == CHOOSE m \in held : TRUE IN Picked(l.pf, from(l.pf))
        ELSE IF want.lo >= 0 /\ Usable(L, s, want, key) THEN Picked(want, from(want))
        ELSE IF Blocks(L, s, key, want) # {}
        THEN Picked(FirstBlock(L, s, j, key, want), s.ups[j].valid)
        ELSE Refused

(***************************************************************************)
(* Routes, which the kernel keeps: one per destination (NLM_F_REPLACE).     *)
(***************************************************************************)
Never == -1

\* A route set with no time left has no expiry (routeOp sends RTA_EXPIRES only for expires > 0).
RouteSet(R, l) ==
    {r \in R : r.dst # l.pf} \cup
    {[dst |-> l.pf, iface |-> l.iface, peer |-> l.peer,
      until |-> IF Live(l) THEN l.expires ELSE Never]}

\* Faulty variant: the next hop is left out of the deletion.
RouteDelAnyPeer(R, l) == {r \in R : r.dst # l.pf}

RouteDel(R, l) == {r \in R : r.dst # l.pf \/ r.iface # l.iface \/ r.peer # l.peer}
RouteDelAll(R, ls) == {r \in R : \A l \in ls : r \in RouteDel(R, l)}

(***************************************************************************)
(* Requests.                                                                *)
(***************************************************************************)
\* save: publish, which hands the firewall the live delegations, and the file.  A handler saves after
\* every change: mid is the pool after the change before the last, which a write that fails leaves.
Save(mid, L) ==
    /\ fw' = {l.pf : l \in {m \in L : Live(m)}}
    /\ file' \in {L} \cup (IF SaveFails THEN {file, mid} ELSE {})

\* leases[key] = l
Enter(L, l) == {m \in L : Key(m) # Key(l)} \cup {l}

\* lifetimes: what a lease out of a delegation valid until end gets.
ValidLeft(end) == Lesser(ServerValid, IF end > now THEN end - now ELSE 0)

LeaseOf(p, i, r, peer) ==
    [r |-> r, pf |-> p.pf, iface |-> i, peer |-> peer, expires |-> now + ValidLeft(p.valid)]

\* The route of the delegation l replaces goes, unless it is the same.
Replaced(L, l) == {m \in L : Key(m) = Key(l) /\ <<m.pf, m.peer, m.iface>> # <<l.pf, l.peer, l.iface>>}

\* cut are the routes between the save and the new route.
Given(st, l) ==
    LET cut == RouteDelAll(st.route, Replaced(st.leases, l))
    IN  [leases |-> Enter(st.leases, l), cut |-> cut, route |-> RouteSet(cut, l),
         told |-> Enter(st.told, l), saved |-> TRUE]

\* delegate, for one of the two keys of an IA_PD, with p picked: st is the pool so far.
Answered(st, p, i, key, peer) ==
    IF p.ok THEN Given(st, LeaseOf(p, i, key[1], peer))
            ELSE [leases |-> st.leases, cut |-> st.cut, route |-> st.route,
                  told |-> {m \in st.told : Key(m) # key}, saved |-> st.saved]

Commit(st, i, key, peer, want) ==
    Answered(st, Pick(st.leases, snap[i], key, HintFor(want, key)), i, key, peer)

\* The pool as delegate finds it, after the prefix of the upstream delegation, and after the ULA's.
Before == [leases |-> leases, cut |-> route, route |-> route, told |-> told, saved |-> FALSE]
Once(i, r, peer, want)  == Commit(Before, i, <<r, FALSE>>, peer, want)
Twice(i, r, peer, want) == Commit(Once(i, r, peer, want), i, <<r, TRUE>>, peer, want)

\* The end of delegate: what both keys came to.
Finish(mid, st) ==
    /\ leases' = st.leases /\ route' = st.route /\ told' = st.told
    /\ IF st.saved THEN Save(mid.leases, st.leases) ELSE UNCHANGED <<file, fw>>

\* The IA_PD of a Request, Renew or Rebind, or of a Solicit with Rapid Commit; an Advertise commits
\* nothing.  The mutex is held from the first pick to the last route.
Delegate(i, r, peer, want) ==
    /\ up /\ serving[i]
    /\ Finish(Once(i, r, peer, want), Twice(i, r, peer, want))
    /\ UNCHANGED <<now, up, feed, crashes>>

\* Delegations that end: out of the map, the file, the firewall's set and the routes.
End(mid, ls) ==
    /\ leases' = leases \ ls
    /\ route' = RouteDelAll(route, ls)
    /\ told' = {t \in told : \A l \in ls : Key(l) # Key(t)}
    /\ IF ls # {} THEN Save(mid, leases \ ls) ELSE UNCHANGED <<file, fw>>

\* undelegate: a Release or a Decline.
Undelegate(i, r) ==
    /\ up /\ serving[i]
    /\ \E l \in leases : l.r = r
    /\ End({l \in leases : l.r # r \/ l.pf.ula}, {l \in leases : l.r = r})
    /\ UNCHANGED <<now, up, feed, crashes>>

\* expireLeases, once a minute: dropDelegations on this interface.
ExpireLeases(i) ==
    /\ up /\ serving[i]
    /\ \E l \in leases : l.iface = i /\ now > l.expires
    /\ End(leases, {l \in leases : l.iface = i /\ now > l.expires})
    /\ UNCHANGED <<now, up, feed, crashes>>

(***************************************************************************)
(* Snapshots, links and restarts.                                           *)
(***************************************************************************)
EmptySnap == [ups |-> <<>>, lan |-> {}, kept |-> {}]

\* The snapshot with its lifetimes as deadlines, and with none.
Dated(o) ==
    [ups |-> [j \in DOMAIN o.ups |-> [o.ups[j] EXCEPT !.valid = now + @]],
     lan |-> o.lan, kept |-> o.kept]
Undated(s) ==
    [ups |-> [j \in DOMAIN s.ups |-> [s.ups[j] EXCEPT !.valid = 0]],
     lan |-> s.lan, kept |-> s.kept]

\* The store publishes a snapshot; it moved when more than lifetimes changed ("add" or "revoke").
Publish(o) ==
    /\ up /\ now <= LastPublish
    /\ cur' = Dated(o)
    /\ ch' = [i \in Ifaces |-> <<[snap |-> Dated(o), moved |-> Undated(o) # Undated(cur)]>>]
    /\ UNCHANGED <<now, up, snap, serving, pool, crashes>>

\* pick with no hint gives l again.
Repicked(s, l) ==
    LET p == Pick(leases, s, Key(l), NoHint) IN p.ok /\ p.pf = l.pf

\* case snap := <-ch, and onPrefixChange when it moved: a delegation pick would not give again goes.
Take(i) ==
    /\ up /\ serving[i] /\ ch[i] # <<>>
    /\ snap' = [snap EXCEPT ![i] = ch[i][1].snap]
    /\ ch' = [ch EXCEPT ![i] = <<>>]
    /\ IF ch[i][1].moved
       THEN End(leases, {l \in leases : l.iface = i /\ ~Repicked(ch[i][1].snap, l)})
       ELSE UNCHANGED pool
    /\ UNCHANGED <<now, up, cur, serving, crashes>>

\* serve: the interface is up; its server takes Current() and restoreRoutes puts the routes back.
Serve(i) ==
    /\ up /\ ~serving[i]
    /\ serving' = [serving EXCEPT ![i] = TRUE]
    /\ snap' = [snap EXCEPT ![i] = cur]
    /\ LET live == {l \in leases : l.iface = i /\ Live(l)}
       IN  route' = {r \in route : \A l \in live : r.dst # l.pf} \cup UNION {RouteSet({}, l) : l \in live}
    /\ UNCHANGED <<now, up, cur, ch, leases, file, fw, told, crashes>>

\* The link goes down: supervise ends the server, and the kernel flushes the interface's routes.
LinkDown(i) ==
    /\ up /\ serving[i]
    /\ serving' = [serving EXCEPT ![i] = FALSE]
    /\ route' = {r \in route : r.iface # i}
    /\ UNCHANGED <<now, up, cur, ch, snap, leases, file, fw, told, crashes>>

\* The process ends; the file and the kernel's routes stay.
Stop ==
    /\ up /\ crashes < MaxCrashes
    /\ up' = FALSE /\ crashes' = crashes + 1
    /\ serving' = [i \in Ifaces |-> FALSE]
    /\ cur' = EmptySnap /\ snap' = [i \in Ifaces |-> EmptySnap] /\ ch' = [i \in Ifaces |-> <<>>]
    /\ leases' = {} /\ fw' = {}

Crash ==
    /\ Stop
    /\ UNCHANGED <<now, file, route, told>>

\* The process ends in delegate, after the save for either prefix, before its route or after it;
\* nothing is answered, and what the IA_PD was answered before no longer binds.
CrashDelegating(i, r, peer, want) ==
    /\ serving[i] /\ Stop
    /\ \E st \in {Once(i, r, peer, want), Twice(i, r, peer, want)} :
          /\ st.saved
          /\ file' \in {st.leases} \cup (IF SaveFails THEN {file} ELSE {})
          /\ route' \in {st.cut, st.route}
          /\ told' = {t \in st.told : t.r # r}
    /\ UNCHANGED now

\* Faulty variant: the file is not read.
StartForgets ==
    /\ ~up
    /\ up' = TRUE
    /\ leases' = {} /\ fw' = {}
    /\ UNCHANGED <<now, feed, file, route, told, crashes>>

\* Faulty variant: the firewall is not told what was read.
StartUntold ==
    /\ ~up
    /\ up' = TRUE
    /\ leases' = {l \in file : Live(l)}
    /\ UNCHANGED <<now, feed, file, route, fw, told, crashes>>

\* newPDPool: load skips what expired, and publish tells the firewall.
Start ==
    /\ ~up
    /\ up' = TRUE
    /\ leases' = {l \in file : Live(l)}
    /\ fw' = {l.pf : l \in {m \in file : Live(m)}}
    /\ UNCHANGED <<now, feed, file, route, told, crashes>>

\* The clock; the kernel drops the routes whose lifetime ends.
Tick ==
    /\ now < MaxTime
    /\ now' = now + 1
    /\ route' = {r \in route : r.until = Never \/ r.until > now + 1}
    /\ UNCHANGED <<up, feed, leases, file, fw, told, crashes>>

Init ==
    /\ now = 0 /\ up = FALSE /\ crashes = 0
    /\ cur = EmptySnap
    /\ snap = [i \in Ifaces |-> EmptySnap]
    /\ ch = [i \in Ifaces |-> <<>>]
    /\ serving = [i \in Ifaces |-> FALSE]
    /\ leases = {} /\ file = {} /\ route = {} /\ fw = {} /\ told = {}

Next ==
    \/ \E i \in Ifaces : \E r \in Routers : \E peer \in Peers[r] : \E want \in Hints :
          Delegate(i, r, peer, want) \/ CrashDelegating(i, r, peer, want)
    \/ \E i \in Ifaces : \E r \in Routers : Undelegate(i, r)
    \/ \E i \in Ifaces : ExpireLeases(i) \/ Take(i) \/ Serve(i) \/ LinkDown(i)
    \/ \E o \in Offers : Publish(o)
    \/ Start
    \/ Crash
    \/ Tick

Spec == Init /\ [][Next]_vars

-----------------------------------------------------------------------------
(***************************************************************************)
(* Properties.                                                              *)
(***************************************************************************)
Disjoint(L) ==
    \A l, m \in L : Key(l) # Key(m) /\ Live(l) /\ Live(m) => ~Overlaps(l.pf, m.pf)

\* The inductive form of DelegationsDisjoint, which also has the file in it, and of PromisesDisjoint:
\* while no write fails, what was answered and is still valid is in the pool and in the file.
SnapOK(s) == DOMAIN s.ups \subseteq Nat /\ \A j \in DOMAIN s.ups : s.ups[j].valid \in Nat

FeedOK ==
    /\ SnapOK(cur)
    /\ DOMAIN snap = Ifaces /\ \A i \in Ifaces : SnapOK(snap[i])
    /\ DOMAIN ch = Ifaces /\ \A i \in Ifaces : ch[i] # <<>> => SnapOK(ch[i][1].snap)

Kept ==
    /\ up => leases \subseteq file
    /\ \A t \in told : Live(t) => t \in IF up THEN leases ELSE file

PoolInv ==
    /\ now \in Nat /\ FeedOK
    /\ \A l \in leases \cup file \cup told : l.expires \in Nat
    /\ Disjoint(leases) /\ Disjoint(file)
    /\ ~SaveFails => Kept

\* pdPool: "One pool serves every LAN interface, so delegations never overlap each other", however
\* the servers' snapshots differ and whatever the file held at the last restart.
DelegationsDisjoint == Disjoint(leases)

\* What the server answered binds it over restarts too: of two delegations answered, not taken back
\* and still valid, none overlaps the other.
PromisesDisjoint == Disjoint(told)

\* The pool implements Promises, over restarts too, while the file can be written: a prefix is
\* delegated to a router only where no other router's lasting delegation overlaps it.
RouterOf(t) == t.r
OverlapOf(s, t) == Overlaps(s.pf, t.pf)
Lasting == {t \in told : Live(t)}
Abstract == INSTANCE Promises WITH held <- Lasting, Holder <- RouterOf, Clash <- OverlapOf

PromisesKept == Abstract!Spec

\* A live delegation is routed to the router it was given to, while its interface is up ("pdRoute
\* points the delegated prefix at the router it went to, for as long as the lease lasts"), though
\* routes are replaced, deleted late, and lost with the link.
RouteTo(l) == [dst |-> l.pf, iface |-> l.iface, peer |-> l.peer, until |-> l.expires]

LiveRouted ==
    \A l \in leases : Live(l) /\ serving[l.iface] => RouteTo(l) \in route

\* The inductive form of LiveRouted: a delegation is the only one of its key, in the file too, and its
\* next hop an address of its router, so that a route is deleted for its own delegation only.
OwnPeers == \A r, s \in Routers : r # s => Peers[r] \cap Peers[s] = {}

Kempt(L) ==
    /\ \A l \in L : l.r \in Routers /\ l.peer \in Peers[l.r] /\ l.iface \in Ifaces
    /\ \A l, m \in L : Key(l) = Key(m) => l = m

RouteInv ==
    /\ Kempt(leases) /\ Kempt(file)
    /\ DOMAIN serving = Ifaces /\ (~up => \A i \in Ifaces : ~serving[i])
    /\ LiveRouted

\* The firewall leaves the delegations to the downstream routers: it knows every live one, and
\* nothing that is not, or was not until it expired, a delegation.
FirewallInStep ==
    up => /\ \A l \in leases : Live(l) => l.pf \in fw
          /\ \A b \in fw : \E l \in leases : l.pf = b

\* pick: "grows towards /64 until one is free, so a hint for more space is cut down, never refused".
NeverRefusedWhileFree ==
    \A i \in Ifaces : \A r \in Routers, ula \in BOOLEAN, want \in Hints :
        LET key == <<r, ula>>
            ups == snap[i].ups
        IN  (\E j \in Delegable(snap[i], ula) : \E k \in 0..(Span(ups[j]) - 1) :
                Free(leases, snap[i], [lo |-> ups[j].lo + k, bits |-> 64, ula |-> ula], key))
            => Pick(leases, snap[i], key, HintFor(want, key)).ok

\* pick looks at maxProbes places of a length only: the delegations that have no more /64s than that,
\* and what the servers' snapshots then have in them.
Probed ==
    \A o \in Offers : \A j \in DOMAIN o.ups : Span(o.ups[j]) \in 1..MaxProbes

Fits(s) ==
    \A j \in DOMAIN s.ups :
        s.ups[j].lo \in Nat /\ s.ups[j].bits \in 0..64 /\ Span(s.ups[j]) \in 1..MaxProbes

FeedFits ==
    /\ Fits(cur)
    /\ DOMAIN snap = Ifaces /\ \A i \in Ifaces : Fits(snap[i])
    /\ DOMAIN ch = Ifaces /\ \A i \in Ifaces : ch[i] # <<>> => Fits(ch[i][1].snap)

(***************************************************************************)
(* What comments say, and the code does not do.                             *)
(***************************************************************************)
\* onPrefixChange: "A delegation no longer inside the upstream one goes".  The server of an
\* interface that has read all there is to read holds none outside.
InsideUpstream ==
    \A l \in leases : up /\ serving[l.iface] /\ ch[l.iface] = <<>> /\ Live(l) =>
        \E j \in DOMAIN snap[l.iface].ups : Contains(snap[l.iface].ups[j], l.pf)

\* publish, of an expired delegation: "its route expires with it, so nothing is forwarded there".
RoutesExpire == \A r \in route : r.until # Never
=============================================================================
