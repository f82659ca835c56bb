------------------------------ MODULE PortMaps ------------------------------
(***************************************************************************)
(* Port mappings of sixup: the PCP and NAT-PMP server (pcp.go, natpmp.go),  *)
(* which keeps the mappings under one mutex, the NAT manager (nftables.go,  *)
(* nat_plan.go), which has them and a snapshot of the tunnel of its own,    *)
(* both over channels of capacity 1, and rewrites the kernel's NAT table,   *)
(* and the IPv6 filter's set of pinholes (firewall.go).  The store gives    *)
(* the server and the NAT manager the same snapshots, which each reads in   *)
(* its own time.                                                            *)
(*                                                                          *)
(* A request that is refused, or asks for nothing new, changes no state and *)
(* has no action.  Addresses are model values and ports small numbers.      *)
(***************************************************************************)
EXTENDS Integers, Sequences, FiniteSets

CONSTANTS
    Hosts4, Hosts6,  \* addresses of LAN hosts
    Protos,          \* the protocols
    Keys,            \* pcpKey: what hosts ask for, [proto, host, port]
    Nonces,          \* mapping nonces; NAT-PMP's is all zeros
    Lives,           \* lifetimes, clamped, in units of the clock and rounded down
    Wishes,          \* what a request may suggest: [port, prefer, addr]
    MinExternal,     \* pcpMinExternal
    MaxPort,         \* the highest port
    Own,             \* Own[proto]: PCP's own ports
    MaxPerHost,      \* pcpMaxPerHost
    Filtered,        \* the IPv6 filter is on, and MAP opens pinholes
    Lines,           \* tunnels the store may publish
    NoAddr,          \* the zero netip.Addr
    Listens,         \* sets of <<protocol, port>> this router may come to listen on
    FlushFails,      \* whether nftables may refuse a transaction
    MaxTime,         \* bound on the clock
    LastPublish      \* bound: no publication after this time

ASSUME PortAssumption ==
    /\ Hosts4 \cap Hosts6 = {}
    /\ Keys \subseteq [proto : Protos, host : Hosts4 \cup Hosts6, port : Nat \ {0}]
    /\ MinExternal \in Nat /\ MaxPort \in Nat
    /\ Lives \subseteq Nat
    /\ MaxPerHost \in Nat /\ MaxTime \in Nat /\ LastPublish \in Nat
    /\ Filtered \in BOOLEAN /\ FlushFails \in BOOLEAN
    /\ Own \in [Protos -> SUBSET Nat]
    /\ \A t \in Lines : t.ports \subseteq Nat
    /\ \A w \in Wishes : w.port \in Nat /\ w.prefer \in BOOLEAN /\ w.addr \in BOOLEAN

VARIABLES
    now,       \* the clock
    cur,       \* the store's tunnel
    toPcp,     \* the server's channel of snapshots: <<>> or <<tunnel>>
    toNat,     \* the NAT manager's
    ipv4,      \* p.ipv4: the address mappings are made on
    ports,     \* p.ports: the line's port set, {} when every port is the line's
    start,     \* p.start: Epoch Time counts from here
    maps,      \* p.maps: [key, ext, nonce, expires]
    local,     \* the protocols and ports this router listens on
    mapIn,     \* m.mapIn: <<>> or <<set of [key, ext]>>
    mappings,  \* m.mappings
    last,      \* m.last
    applied,   \* m.applied: the plan last installed, or NoTable
    table,     \* the kernel's table inet sixup, or NoTable
    holeIn,    \* f.holeIn
    holes,     \* the kernel's set pinholes
    told       \* history: the mappings clients were granted and did not give back

server   == <<ipv4, ports, start, maps>>
nat      == <<mappings, last, applied, table>>
pushed   == <<mapIn, holeIn>>
vars     == <<now, cur, toPcp, toNat, server, local, nat, pushed, holes, told>>

(***************************************************************************)
(* The tunnel.                                                              *)
(***************************************************************************)
NoTunnel == [kind |-> "none", ipv4 |-> NoAddr, ports |-> {}]
NoTable  == [ipv4 |-> NoAddr, ports |-> {}, maps |-> {}, installed |-> FALSE]

\* natPlanFor: on DS-Lite the AFTR translates; only MAP-E has a port set.
HasPlan(t)    == t.kind # "none"
PlanIPv4(t)   == IF t.kind \in {"none", "ds-lite"} THEN NoAddr ELSE t.ipv4
PlanPorts(t)  == IF t.kind = "map-e" THEN t.ports ELSE {}

\* The plan the NAT table should contain, with the mappings ms; it is its own fingerprint.
NatPlanFor(t, ms) ==
    [ipv4 |-> PlanIPv4(t), ports |-> PlanPorts(t),
     maps |-> IF PlanIPv4(t) # NoAddr THEN ms ELSE {}, installed |-> TRUE]

(***************************************************************************)
(* The mappings.                                                            *)
(***************************************************************************)
Is4(m)     == m.key.host \in Hosts4
Mapped(M)  == {[key |-> m.key, ext |-> m.ext] : m \in M}
V4(M)      == Mapped({m \in M : Is4(m)})
V6(M)      == Mapped({m \in M : ~Is4(m)})
Held(k)    == {m \in maps : m.key = k}
Without(k) == {m \in maps : m.key # k}

\* push: the complete sets, replacing those not taken yet.
Push(M) ==
    /\ mapIn' = <<V4(M)>>
    /\ IF Filtered THEN holeIn' = <<V6(M)>> ELSE UNCHANGED holeIn

HostMappings(M, host) == {m \in M : m.key.host = host}

\* Faulty variant: a port is taken only while its mapping has not expired.
UsableOnceExpired(M, proto, e) ==
    /\ e >= MinExternal /\ e \notin Own[proto]
    /\ <<proto, e>> \notin local
    /\ ports # {} => e \in ports
    /\ \A m \in M : m.key.proto = proto => m.ext # e \/ now > m.expires

\* pickPort's usable.
Usable(M, proto, e) ==
    /\ e >= MinExternal /\ e \notin Own[proto]
    /\ <<proto, e>> \notin local
    /\ ports # {} => e \in ports
    /\ \A m \in M : m.key.proto = proto => m.ext # e

\* pickPort: the port suggested, then the internal one, then any other, from a random place.
PickPort(M, k, wish) ==
    IF wish.port # 0 /\ Usable(M, k.proto, wish.port) THEN {wish.port}
    ELSE IF wish.prefer THEN {}
    ELSE IF Usable(M, k.proto, k.port) THEN {k.port}
    ELSE {e \in (IF ports = {} THEN MinExternal..MaxPort ELSE ports) : Usable(M, k.proto, e)}

\* pinhole's pick: the host's own port, unless another is insisted on.
PickOwn(k, wish) == IF wish.prefer /\ wish.port # k.port THEN {} ELSE {k.port}

\* The external ports a request for k may get.
Picks(M, k, wish) == IF k.host \in Hosts4 THEN PickPort(M, k, wish) ELSE PickOwn(k, wish)

\* PREFER_FAILURE turns a suggestion into a condition; addr tells that the address suggested, if any,
\* is the one mappings are made on.
Unmet(wish, e) == wish.prefer /\ (wish.port # e \/ ~wish.addr)

\* A service of the router's own has started on the port since.
Stale(m) == Is4(m) /\ <<m.key.proto, m.ext>> \in local

\* What mapping4 and pinhole ask for before they come to mapStateful.
Served(k) ==
    IF k.host \in Hosts4 THEN ipv4 # NoAddr ELSE Filtered /\ k.port \notin Own[k.proto]

(***************************************************************************)
(* Requests.                                                                *)
(***************************************************************************)
Granted(k, life) == [key |-> k, until |-> now + life, at |-> now]
Forget(K) == {g \in told : g.key \notin K}

\* mapStateful grants a new mapping, also in place of one that has to move off its port.  The set
\* pushed without the old one is replaced before the handler ends; a NAT manager that takes it in
\* between has a table without the mapping for that moment, which is left out here.
Grant(k, nonce, wish, life) ==
    /\ Served(k)
    /\ \A m \in Held(k) : m.nonce = nonce /\ Stale(m)
    /\ Cardinality(HostMappings(Without(k), k.host)) < MaxPerHost
    /\ \E e \in Picks(Without(k), k, wish) :
          /\ ~Unmet(wish, e)
          /\ maps' = Without(k) \cup {[key |-> k, ext |-> e, nonce |-> nonce, expires |-> now + life]}
    /\ Push(maps')
    /\ told' = Forget({k}) \cup {Granted(k, life)}
    /\ UNCHANGED <<now, cur, toPcp, toNat, ipv4, ports, start, local, nat, holes>>

\* The mapping is moved off its port, and the request gets none.
MoveFails(k, nonce, wish) ==
    /\ Served(k) /\ Held(k) # {}
    /\ \A m \in Held(k) : m.nonce = nonce /\ Stale(m)
    /\ \/ Cardinality(HostMappings(Without(k), k.host)) >= MaxPerHost
       \/ \A e \in Picks(Without(k), k, wish) : Unmet(wish, e)
    /\ maps' = Without(k)
    /\ Push(maps')
    /\ told' = Forget({k})
    /\ UNCHANGED <<now, cur, toPcp, toNat, ipv4, ports, start, local, nat, holes>>

\* A renewal changes the lifetime alone, and pushes nothing.
Renew(k, nonce, wish, life) ==
    /\ Served(k)
    /\ \E m \in Held(k) :
          /\ m.nonce = nonce /\ ~Stale(m) /\ ~Unmet(wish, m.ext)
          /\ maps' = Without(k) \cup {[key |-> k, ext |-> m.ext, nonce |-> nonce, expires |-> now + life]}
    /\ told' = Forget({k}) \cup {Granted(k, life)}
    /\ UNCHANGED <<now, cur, toPcp, toNat, ipv4, ports, start, local, nat, pushed, holes>>

\* A lifetime of 0.
Release(k, nonce) ==
    /\ Served(k) /\ Held(k) # {}
    /\ \A m \in Held(k) : m.nonce = nonce
    /\ maps' = Without(k)
    /\ Push(maps')
    /\ told' = Forget({k})
    /\ UNCHANGED <<now, cur, toPcp, toNat, ipv4, ports, start, local, nat, holes>>

\* natpmp answers a mapping request as the MAP it stands for, with a nonce of zeros and no wish insisted
\* on; with internal port and lifetime 0 every mapping of the host for the protocol goes, whatever
\* its nonce.
ReleaseAll(host, proto) ==
    /\ ipv4 # NoAddr
    /\ \E m \in maps : m.key.host = host /\ m.key.proto = proto
    /\ maps' = {m \in maps : m.key.host # host \/ m.key.proto # proto}
    /\ Push(maps')
    /\ told' = Forget({k \in Keys : k.host = host /\ k.proto = proto})
    /\ UNCHANGED <<now, cur, toPcp, toNat, ipv4, ports, start, local, nat, holes>>

\* Faulty variant: a port stays open until another mapping changes.
ExpireUnpushed ==
    /\ \E m \in maps : now > m.expires
    /\ maps' = {m \in maps : now <= m.expires}
    /\ UNCHANGED <<now, cur, toPcp, toNat, ipv4, ports, start, local, nat, pushed, holes, told>>

\* expire, every 30 s.
Expire ==
    /\ \E m \in maps : now > m.expires
    /\ maps' = {m \in maps : now <= m.expires}
    /\ Push(maps')
    /\ UNCHANGED <<now, cur, toPcp, toNat, ipv4, ports, start, local, nat, holes, told>>

\* Faulty variant: the epoch restarts when there is a new address, not when there was an old one.
SetTunnelGained ==
    /\ toPcp # <<>>
    /\ toPcp' = <<>>
    /\ LET t == toPcp[1] IN
       IF PlanIPv4(t) = ipv4 /\ PlanPorts(t) = ports THEN UNCHANGED <<server, pushed>>
       ELSE /\ ipv4' = PlanIPv4(t) /\ ports' = PlanPorts(t)
            /\ maps' = {m \in maps : ~Is4(m)}
            /\ IF maps' # maps THEN Push(maps') ELSE UNCHANGED pushed
            /\ start' = IF PlanIPv4(t) # NoAddr /\ PlanIPv4(t) # ipv4 THEN now ELSE start
    /\ UNCHANGED <<now, cur, toNat, local, nat, holes, told>>

\* Faulty variant: another port set on the same address keeps the mappings.
SetTunnelAddrOnly ==
    /\ toPcp # <<>>
    /\ toPcp' = <<>>
    /\ LET t == toPcp[1] IN
       IF PlanIPv4(t) = ipv4 THEN ports' = PlanPorts(t) /\ UNCHANGED <<ipv4, start, maps, pushed>>
       ELSE /\ ipv4' = PlanIPv4(t) /\ ports' = PlanPorts(t)
            /\ maps' = {m \in maps : ~Is4(m)}
            /\ IF maps' # maps THEN Push(maps') ELSE UNCHANGED pushed
            /\ start' = IF ipv4 # NoAddr THEN now ELSE start
    /\ UNCHANGED <<now, cur, toNat, local, nat, holes, told>>

\* setTunnel: mappings made on another address or port set are gone.
SetTunnel ==
    /\ toPcp # <<>>
    /\ toPcp' = <<>>
    /\ LET t == toPcp[1] IN
       IF PlanIPv4(t) = ipv4 /\ PlanPorts(t) = ports THEN UNCHANGED <<server, pushed>>
       ELSE /\ ipv4' = PlanIPv4(t) /\ ports' = PlanPorts(t)
            /\ maps' = {m \in maps : ~Is4(m)}
            /\ IF maps' # maps THEN Push(maps') ELSE UNCHANGED pushed
            /\ start' = IF ipv4 # NoAddr THEN now ELSE start
    /\ UNCHANGED <<now, cur, toNat, local, nat, holes, told>>

(***************************************************************************)
(* The NAT manager and the filter.                                          *)
(***************************************************************************)
\* remove, which trusts applied; a transaction refused leaves the table.
Remove ==
    IF applied = NoTable THEN UNCHANGED <<applied, table>>
    ELSE /\ applied' = NoTable
         /\ table' \in {NoTable} \cup (IF FlushFails THEN {table} ELSE {})

\* apply: the whole table, in one transaction, unless nothing changed.
Apply(t, ms) ==
    LET plan == NatPlanFor(t, ms) IN
    IF ~HasPlan(t) THEN Remove
    ELSE IF applied = plan THEN UNCHANGED <<applied, table>>
    ELSE \/ applied' = plan /\ table' = plan
         \/ FlushFails /\ applied' = NoTable /\ UNCHANGED table

TakeTunnel ==
    /\ toNat # <<>>
    /\ toNat' = <<>> /\ last' = toNat[1]
    /\ Apply(toNat[1], mappings)
    /\ UNCHANGED <<now, cur, toPcp, server, local, mappings, pushed, holes, told>>

TakeMappings ==
    /\ mapIn # <<>>
    /\ mapIn' = <<>> /\ mappings' = mapIn[1]
    /\ Apply(last, mapIn[1])
    /\ UNCHANGED <<now, cur, toPcp, toNat, server, local, last, holeIn, holes, told>>

\* case holes := <-f.holeIn, and replace
TakeHoles ==
    /\ holeIn # <<>>
    /\ holeIn' = <<>>
    /\ holes' \in {holeIn[1]} \cup (IF FlushFails THEN {holes} ELSE {})
    /\ UNCHANGED <<now, cur, toPcp, toNat, server, local, nat, mapIn, told>>

(***************************************************************************)
(* The surroundings.                                                        *)
(***************************************************************************)
\* The store publishes: both channels hold the newest snapshot.
Publish(t) ==
    /\ t # cur /\ now <= LastPublish
    /\ cur' = t /\ toPcp' = <<t>> /\ toNat' = <<t>>
    /\ UNCHANGED <<now, server, local, nat, pushed, holes, told>>

\* Services of the router's own start and end.
Listen(L) ==
    /\ L # local /\ local' = L
    /\ UNCHANGED <<now, cur, toPcp, toNat, server, nat, pushed, holes, told>>

Tick ==
    /\ now < MaxTime /\ now' = now + 1
    /\ UNCHANGED <<cur, toPcp, toNat, server, local, nat, pushed, holes, told>>

Init ==
    /\ now = 0
    /\ cur = NoTunnel /\ toPcp = <<>> /\ toNat = <<>>
    /\ ipv4 = NoAddr /\ ports = {} /\ start = 0 /\ maps = {}
    /\ local = {}
    /\ mapIn = <<>> /\ mappings = {} /\ last = NoTunnel /\ applied = NoTable /\ table = NoTable
    /\ holeIn = <<>> /\ holes = {} /\ told = {}

Request(k) ==
    \E nonce \in Nonces :
        \/ \E wish \in Wishes :
              \/ \E life \in Lives : Grant(k, nonce, wish, life) \/ Renew(k, nonce, wish, life)
              \/ MoveFails(k, nonce, wish)
        \/ Release(k, nonce)

Next ==
    \/ \E k \in Keys : Request(k)
    \/ \E host \in Hosts4, proto \in Protos : ReleaseAll(host, proto)
    \/ Expire
    \/ SetTunnel
    \/ TakeTunnel
    \/ TakeMappings
    \/ TakeHoles
    \/ \E t \in Lines : Publish(t)
    \/ \E L \in Listens : Listen(L)
    \/ Tick

Spec == Init /\ [][Next]_vars

-----------------------------------------------------------------------------
(***************************************************************************)
(* Properties.                                                              *)
(***************************************************************************)
Distinct(M) == \A m, n \in M :
    Is4(m) /\ Is4(n) /\ m.key.proto = n.key.proto /\ m.ext = n.ext => m.key = n.key

\* An external port of the tunnel's IPv4 leads to one host only, in the server's books, on the way to
\* the NAT and in the kernel, however mappings expire, move off a port and are lost with the line.
OneHostPerPort ==
    /\ Distinct(maps)
    /\ \A i \in DOMAIN mapIn : Distinct(mapIn[i])
    /\ Distinct(mappings) /\ Distinct(table.maps)

\* "an external port of the tunnel's IPv4, inside the line's port set on MAP-E": every mapping kept
\* was made on the address and the port set the server has now.
InsidePortSet ==
    \A m \in maps : Is4(m) => ipv4 # NoAddr /\ (ports # {} => m.ext \in ports)

\* "mappings one host address may hold, IPv6 pinholes included".
WithinQuota ==
    \A host \in Hosts4 \cup Hosts6 : Cardinality({m \in maps : m.key.host = host}) <= MaxPerHost

\* Once everything is read, the kernel has exactly the server's mappings: what was pushed is what is
\* kept, though renewals push nothing and each side learns of a new line in its own time.
KernelInStep ==
    toPcp = <<>> /\ toNat = <<>> /\ mapIn = <<>> /\ holeIn = <<>> /\ ~FlushFails =>
        /\ IF HasPlan(cur) THEN table = NatPlanFor(cur, V4(maps)) ELSE table = NoTable
        /\ Filtered => holes = V6(maps)

\* "Epoch Time counts from here, and restarts whenever state is lost": a client whose mapping is gone
\* before its time, and who did not ask for that, was granted it before the epoch began.
LossAnnounced ==
    \A g \in told : now <= g.until =>
        g.at <= start \/ \E m \in maps : m.key = g.key /\ m.expires = g.until

\* The inductive form of the three properties that need one: the epoch begins in the past, what was
\* granted was granted in the past, to a key hosts ask for.
Dated ==
    /\ now \in Nat /\ start \in Nat
    /\ \A g \in told : g.key \in Keys /\ g.at \in Nat /\ g.at <= now /\ g.until \in Nat

PortInv == Dated /\ OneHostPerPort /\ InsidePortSet /\ LossAnnounced

\* The inductive form of KernelInStep, channel by channel: what is on its way, or else what the other
\* side has, is what the server or the store has now; and the table is the plan of what the NAT
\* manager has. A mapping is the only one of its key, so that a renewal changes nothing pushed.
OnePerKey == \A m, n \in maps : m.key = n.key => m = n

Underway ==
    /\ IF mapIn = <<>> THEN mappings = V4(maps) ELSE mapIn = <<V4(maps)>>
    /\ Filtered => IF holeIn = <<>> THEN holes = V6(maps) ELSE holeIn = <<V6(maps)>>
    /\ IF toNat = <<>> THEN last = cur ELSE toNat = <<cur>>

Installed ==
    /\ applied = table
    /\ table = IF HasPlan(last) THEN NatPlanFor(last, mappings) ELSE NoTable

StepInv == OnePerKey /\ Underway /\ Installed

(***************************************************************************)
(* What comments say, and the code does not do.                             *)
(***************************************************************************)
\* apply: "the port set moves as a unit when the prefix changes, and a half-updated set would
\* translate to ports the border relay no longer routes here".
TableMovesAsUnit == \A m \in table.maps : table.ports # {} => m.ext \in table.ports

\* applied: "fingerprint of what is installed".
AppliedIsInstalled == applied = table
=============================================================================
