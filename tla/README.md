# sixup: TLA+ models, checks and proofs

sixup is an IPv6 router in one process. It gets prefixes from the line (DHCPv6-PD, Router
Advertisements, configuration), splits them over the LAN segments, and everything that serves the LAN
follows: Router Advertisements, DHCPv6 addresses, delegations to downstream routers, firewall sets,
tunnels and port mappings. Each component is one or more goroutines; they share little memory and talk
through channels of capacity 1, mutexes, files and the kernel. This directory models the components
that carry the program's state, checks them with TLC on small instances, and proves what matters most
with TLAPS for every instance.

## Inventory

| Component (source) | State | Operations | Hard part |
|---|---|---|---|
| Prefix store (`prefix.go`) | sources, current snapshot, withdrawn prefixes and their hold, record on disk, two timers | `Set`, `recompute`, `publish`, `nextExpiry`, restart | batching, labels of batched changes, timers, crash between publications |
| Subnet arithmetic (`prefix.go`, `flags.go`) | none | `splitLAN`, `spareSubnet`, `wanSubnet`, `parseLans` | lengths 63 and 64, exclusions (RFC 6603) |
| DHCPv6 client (`dhcp6c.go`) | place in the cycle, binding, WAN addresses, link and reconfirm channels | one cycle with a dozen waits | link, server, RA client and exit at every wait |
| DHCPv6 server (`dhcp6s.go`) | leases, declined addresses, snapshot, lease file | `handle`, `expireLeases`, `onPrefixChange` | mutex let go between two steps, restart, expired and unswept leases |
| Downstream delegation (`pd.go`, `dhcp6s.go`) | pool shared by all LAN servers, file, routes, firewall set | `delegate`, `undelegate`, `dropDelegations`, `restoreRoutes` | servers with different snapshots, crash in the middle of a grant |
| PCP and NAT-PMP (`pcp.go`, `natpmp.go`) | mappings, epoch, address and port set | MAP, release, `expire`, `setTunnel` | three channels to the NAT manager, ports that become local |
| NAT manager (`nftables.go`, `nat_plan.go`) | plan applied, mappings | `apply`, `remove` | a transaction may fail, inputs out of order |
| Firewall (`firewall.go`) | kernel sets for LAN prefixes, delegations, pinholes | `run`, `applyOurs`, `replace` | one set replaced and another not |
| RA server (`raserver.go`) | snapshot, time of the last RA | `serve`, `update`, `burst` | delay before a solicited RA |
| Link hub (`link.go`, `netlink.go`) | subscribers | `newLinkHub`, `supervise` | events dropped when a channel is full |
| RA client (`raclient.go`) | routers with prefixes, lifetimes and metrics, default routes, two timers, last prefix set | `handle`, `publish`, `linkLost`, solicit, expire | several routers with one prefix or preference, lifetimes that end in any order, lost and recreated links |
| Address manager (`addr.go`) | static and temporary addresses, DAD counters and verdicts awaited, announcements, tunnel endpoints | snapshot, rotate, drain, `checkDAD` | kernel verdicts and other owners' addresses that change underneath |
| ND proxy (`ndproxy.go`) | sessions with a lifetime and a limit, hosts waiting, /128 routes | NS, NA, probe, collect, new round | floods, hosts that move between two interfaces |
| Tunnels (`tunnel.go`, `tundev.go`, `capture.go`, `mape.go`, `mape_rules.go`) | tunnel in use, AFTR name | snapshot, resolve, capture | result of a lookup that is stale when it arrives |
| NAT64 and CLAT (`jool.go`, `nat64*.go`, `clat*.go`, `bpf/`) | kernel objects, fragments on the slow path | translate, reassemble | table limits |
| LAN routes, SYN reject, packet hub (`lanroute.go`, `synreject.go`, `pkthub.go`) | routes, delayed rejects, shared sockets | follow snapshot, link | reopening after link changes |
| Start-up, flags, logs, statistics, dry run | none that changes later | | |

The store is the centre: sources call `Set`, the loop recomputes one immutable snapshot, waits for
things to settle, and puts the snapshot in each subscriber's channel, replacing one not read. Every
consumer therefore sees some of the snapshots, each with a label (`none`, `renew`, `add`, `revoke`) of
the strongest change since the last publication. `PROJECT.json` lists what can go wrong, at its line.

## Modules

* `PrefixStore` - the store and one RA server per consumer. State: the store as one record (sources,
  current LAN and WAN entries, withdrawn ones, timers, what was recorded), the file, consumers'
  channels and snapshots. One action per case of `loop` (`Set`, `SetOther`, `Expire`, `PubTimer`,
  `Subscribe`), the RA server's `Serve`, `Take` and `Periodic`, and `Crash`, `Start`. `Recompute`
  is the whole of `recompute`. Prefixes are model values of which `Size` gives the number of /64s.
* `Subnets` - the arithmetic the store abstracts: which /64 a segment gets for every delegation,
  exclusion and numbering, as operators on a line of /64s. `Kept` and `Spares` are the code's tests.
* `DHCPClient` - the client's goroutine with `pc` for the wait it is in, and the link, RA client,
  server, kernel and exit around it. An exchange is one wait; its retransmissions do not appear.
* `LeaseServer` - address assignment on one interface. A handler is atomic, as it holds the mutex.
  `Take` and `OnPrefixChange` are two actions, because `serve` lets the mutex go in between.
* `PDPool` - the pool with one server per interface. A grant is `Delegate`, and `CrashDelegating`
  a grant that stops anywhere between its saves and route changes.
* `PortMaps` - PCP and NAT-PMP server, NAT manager and the filter's pinholes, with the channels between.
* `RAClient` - the routers heard, their prefixes, the kernel's default routes and what is published to
  the store. Actions: `handle` (one RA, all of it up to the publication and the timer), `Expire`,
  `RSTimer`, `Serve` and `Stop` for the rounds of `supervise`, and the link around them. Go's random
  order of a map is the choice of an order in `publish`. Lifetimes are what is left of them, so that
  the module needs no last instant.
* `NDProxy` - the session table, the askers and the /128 routes of a /64 shared by WAN and LAN. All of
  it is under one mutex, so a handler is one action: `SolicitKnown`, `SolicitUnknown`,
  `SolicitPrefix` (the cases of `onSolicit`), `onAdvert`, `Collect`, `setPrefixes`, and the rounds.
* `AddrManager` - the WAN side of the address manager, with the kernel's table and its DAD verdicts,
  the DHCPv6 client's address and the store's snapshot changing between the cases of `serve`
  (`Snapshot`, `Rotate`, `Drain`, `Poll`). The helpers take the manager and give it back, in the order
  the code calls them; the replacements a poll makes come in any order of the kernel's table. The end of a
  DS-Lite tunnel, which `tunnel.go` chooses from the snapshot, is `resolve`. `adopted` is a history
  variable: the addresses taken for leftovers, and the endpoints taken over with a failed verdict.
* `Promises` - an abstract server of leases: it makes a promise to one client at a time, only where it
  clashes with no other's, and ends it only when it is taken back or its time is up. `LeaseServer` and
  `PDPool` are shown to implement it (`PromisesKept`), files, restarts and snapshots hidden.

`<Module>MC` holds the instances, `<Module>Proofs` the theorems. Definitions named `Faulty variant` in
a comment are used by no specification: they are plausible mistakes which the properties detect.

Abstractions common to all: time is a counter that advances by `Tick`; real lifetimes become 1 to 9
units that keep their order; formats, checksums, option parsing and log texts are left out; the
kernel is what netlink and nftables requests leave in it (external, modelled from their use).

## Runs

| Run | Checks | Instance |
|---|---|---|
| `StoreCore` | one entry per /64, expiry timer armed, nothing recorded is just dropped, withdrawn prefixes are held, PD within the grace revokes nothing | 2 segments, PD with delegated ULA, RA, static /64, with and without `-ula`, 1 crash, record that may fail |
| `StoreFeed` | newest snapshot covers what the store knows, labels tell the change; withdrawn prefixes leave, a deferred RA prefix reaches the LAN (liveness) | 1 segment, 1 RA server |
| `ClientCore` | store and addresses follow the binding, flushed addresses are restored | 4 grants, 1 address in use elsewhere, link channel of 2 |
| `ClientLive` | exit and recovery (liveness) | 2 grants, link channel of 1 |
| `LeaseServer` | addresses distinct, declined addresses kept out, address kept, implements `Promises` | 2 clients that collide, 3 addresses, static host, 1 crash |
| `PoolCore` | delegations disjoint, live ones routed, none refused while there is space, firewall knows them, implements `Promises` | 2 interfaces, 2 routers that collide, renumbering, 1 crash |
| `PortMaps` | inside the port set, one host per port, kernel in step, losses announced | 3 hosts, quota 1, 3 lines, local service |
| `Subnets` | none left out, separate subnets, WAN subnet routed | /61 to /65, every exclusion, up to 3 segments |
| `RAClient` | every live router has its route, the loss of the WAN is told in time, no known prefix goes faster than RFC 4862 allows | 2 routers that share a prefix, 2 prefixes, 4 RAs, point-to-point link, no end of time |
| `NDProxy` | table, askers and routes bounded, learned hosts routed, confirmed ones kept, askers answered | 3 hosts, table for 2, 1 asker each, forward and prefix mode, a /128 for every host, no end of time |
| `AddrManager` | no DAD verdict missed, at most one preferred temporary address, endpoints as recorded | 1 /64 preferred, deprecated and gone, 2 policies, 4 temporary addresses, 2 endpoints and, with an AFTR, the leased address as a third, an earlier run's address, 3 events, 1 failure |
| `AddrLeased` | expected violation, see below | the same, the leased address in the /64 |

Bounds. `MaxTime`, `LastUpdate`, `LastPublish`, `MaxCrashes` and `LinkCap` stop the clock, inputs,
restarts and the channel. They are chosen so that each hazard happens: a hold period begins, is renewed
and ends within `MaxTime`; a lease expires before and after a sweep; a channel overflows (its capacity
is 8 in the code); a pool is exhausted; the quota is met; a restart comes before, between and after
everything else. In `RAClient` two hours are 2 ticks and the longest lifetime 3, so that an RA asks for
less than the floor of a prefix above it and of one below; in `NDProxy` one NS of an unknown host for
an unknown target already fills the table. Neither has a last instant. `AddrManager` has three events
(`MaxEvents`) besides the kernel's verdicts and the polls, enough for a bounce, a bind and a rotation in
any order, and one failed address (`MaxFails`). Two segments, two routers or two clients suffice for the properties about pairs, and
the theorems have no bounds. `StoreCore` and `StoreFeed` stop at the end of the clock
(`CHECK_DEADLOCK FALSE`): updates end at `LastUpdate`. `AddrManager` stops when its events are used up.
Symmetry is used where nothing tells the values apart: the pool's interfaces and routers (all keys
hash alike), the two upstream routers and the hosts of the /64. `RAClient` and `NDProxy` have a VIEW
without the variable that nothing reads but the properties of a single step: TLC evaluates those on
every step, also on one to a state it knows.

Fairness. `StoreFeed`: time passes, a due timer fires and a consumer reads its channel, as Go's runtime
guarantees for a goroutine that waits in a `select` with an eventually ready case. `ClientLive`:
timers fire (weak); a `select` with several ready cases chooses at random, so one that is ready again
and again is taken (strong, for link events and the end of the context); and a server that answers at
all answers an exchange repeated for ever (strong, only on the answers that grant). `Recovers` is about a
link that stays up after which no link event was lost: the hub drops events, and the client then waits
for one that does not come.

### Where code and texts disagree

One run shows a statement of a comment that the code does not meet (`findings`): `AddrLeased`. The
address manager takes an address in its /64 that it did not compute for a leftover of an earlier run,
deprecates it and later deletes it; the address IA_NA gave is one of these when it lies in the /64 the
WAN's own addresses come from, though the manager elsewhere leaves it to its owner (`LeasedKept`).

The following are stated in the modules as well, and TLC refutes each when it is added to the cfg named:

* `MovedSubnetWithdrawn` (`StoreCore`, `Configs <- Swapped`, `RestartOffers`): a /64 that changes segments over a restart is not withdrawn from
  the segment that had it. `WithdrawalSentAtOnce` (`StoreFeed`, `PDOffers`): a withdrawal overwritten by a renewal in
  the channel is not advertised at once.
* `KeptWhileDown` (`ClientCore`): a link that goes down during a REBIND clears the binding.
* `PublishedIsRecorded` (`StoreCore`, `Configs <- UlaComesAndGoes`): a ULA published before the line
  answers is not recorded.
* `NeverTakenFromHosts`, `DeprecatedWithdrawn` (`RAOffers`, `FadingOffers`): a recorded delegation is
  withdrawn when an RA prefix comes first; a deprecated prefix that goes is not withdrawn.
* `IgnoredWhenNotBound`, `GivenBackOnExit`, `ConfirmedOnceBack`, `DeclinesOnlyInUse`, `UntilLinkIsBack`,
  `FallsBack` (`ClientCore`, `ClientLive`): a reconfirmation is kept rather than ignored; no RELEASE on
  exit from a RENEW; a link-down during DECLINE is lost; flushed addresses are declined; a dropped up
  event; an unanswered Solicit never falls back.
* `InsideUpstream`, `RoutesExpire`, and `LiveRouted` with `Peers <- SamePeer` (`PoolCore`): delegations
  outside the new upstream prefix stay after a lost label; a route without time left never expires; a
  sweep deletes the route of the prefix's next holder when both are one router.
* `SeparateWhateverIsKept`, `SeparateByDefault`, `HostTakesFirstFree` (`Subnets`): two segments share a
  /64 when the exclusion covers both, or when a number left out equals one given; a host looks at two
  subnets only.
* `TableMovesAsUnit`, and `AppliedIsInstalled` with `FlushFails = TRUE` (`PortMaps`): old mappings on a
  new port set until the second channel is read; a table that stays after a failed removal.
* `StaticsReserved` (`LeaseServer`, a static binding with the low 64 bits only): not reserved.

Met while modelling and stated nowhere: a Route Information Option for ::/0 is set at the metric of its
preference without the offset that keeps routers apart, and may replace another router's default
route (`raclient.go:439`); the copy of a prefix that is published may be the deprecated one of a router
that is gone, as the map is walked in any order (`raclient.go:485`); after a bounce of the WAN the ND
proxy no longer knows the LAN's /128 routes, which then stay (`ndproxy.go:132`); an endpoint left on the
interface by an earlier run is adopted as a stray, and drained when it is idle though a tunnel has it by
then (`addr.go:499`); an address that replaces a failed one during a poll is never announced
(`addr.go:300`).

## Proofs

All theorems hold for every value of the constants allowed by the named assumptions of the modules
(lifetimes are naturals, segments have distinct subnet numbers, and the like).

* `PrefixStoreProofs`: `TypeCorrect`, and every invariant and action property of the two runs of the
  store. `SubnetsStayUnique` (`OneEntryPerSubnet`) is
  not inductive: `recompute` builds the snapshot from sources and from the withdrawn prefixes, so
  the invariant says also that withdrawn entries are keyed by /64, that none is live and withdrawn at
  once, and that segments' /64s of one prefix differ; each part of the new snapshot has its lemma.
  `ExpiryStaysArmed` rests on `ArmedInv`: whatever is in the snapshot is withdrawn or still given for the
  same time (`Settled`), so the cases of the loop that recompute without setting the timer withdraw
  nothing new, but for the record from before a restart, which the end of the wait for PD may, and
  the timer is set for that (`Armed`). `StaleStaysHeld` follows from the same invariant, and
  `EarlyPDIsHarmless` from it with `GraceInv` (there is a grace with `-wan-prefer pd` only, and a
  delegated ULA once PD has concluded). `NothingIsDropped` needs a hold period (`Hold # 0`: with none,
  nothing is ever withdrawn) and `RecordInv`: the file has what the last publication that was recorded told
  the LAN, with its end but for this router's own ULA. `NobodyIsLeftBehind` (`NewestCoversCur`) and
  `LabelsTellChange` rest on `FeedInv`: what a subscriber has not heard of is in the pending change, and
  this router's own ULA, whose new lifetimes are no change, is never withdrawn while it is given and never
  changes between preferred and deprecated (`OwnEntries`). The argument is that a recompute whose change
  is `none` or `renew` brought no prefix into use and withdrew none, and one whose change is `none` kept
  the lifetimes too (`QuietShown`).
* `PDPoolProofs`: `DelegationsStayDisjoint`, `PromisesStayDisjoint`, `FirewallStaysInStep`,
  `LiveStayRouted`, `RefusedOnlyWhenFull`, and `PromisesAreKept`, the refinement of `Promises` while the file can be written. `PoolInv`
  adds that the file too is disjoint (a restart makes it the pool) and, while the file can be written,
  that every promise is in pool and file. A grant replaces a lease only by a free prefix, which `pick`
  establishes whatever snapshot the server has. For the refinement each action maps to an answer,
  promises taken back, time or a stutter; a grant to one router leaves the others' promises alone and
  overlaps none, because all of them are in the pool. `LiveStayRouted` adds `RouteInv` (a delegation is
  the only one of its key, in the file too, and its next hop an address of its router) and assumes
  `OwnPeers`, that no address asks for two routers: without it a sweep deletes the route of the prefix's
  next holder, which the variant with `SamePeer` below `Runs` shows. `RefusedOnlyWhenFull`
  (`NeverRefusedWhileFree`) assumes that delegations have no more /64s than `pick` probes (`Probed`;
  4096 in the code), and shows that the probes then go round all of them.
* `DHCPClientProofs`: `StoreStaysInStep`, `AddrsStayInStep`, `AddrsStayRestored`. `ClientInv` adds that
  the client holds addresses only with a binding, and at which waits there is none; `RestoreInv` that
  while no link event is lost, valid addresses are missing only with a link-down still to be
  read, in `rejoin`, or after `decline` read one (`MissingAccounted`).
* `PortMapsProofs`: `PortsStayDistinct`, `PortsStayInside`, `LossesAreAnnounced`, with failing
  transactions allowed, and `KernelStaysInStep` while none fails. `PortInv` adds that times of grants do not lie after now; what is on its
  way to the NAT is one complete set of the server, so distinctness holds in every stage. `StepInv` says
  for `KernelInStep` that the last thing on its way, or the last that arrived, is the server's set
  (`Underway`), and that table and pinholes are those of what arrived (`Installed`).
* `LeaseServerProofs`: `AddressesStayDistinct`, `PromisesStayDistinct`, `DeclinedStayOut`,
  `AddressesAreKept`, and the refinement `PromisesAreKept`, again while the file can be written.
  `LeaseInv` adds one lease per client, static leases where their binding says, the same of the file,
  and that every promise is on record and made to no static client; a restart is then a stutter of
  the abstract server.
* `NDProxyProofs`: `StaysBounded`, `LearnedStayRouted`, `ConfirmedStay`, `AskersAreServed`, for any hosts, limits, lifetimes
  and layout. `ProxyInv` adds what each handler relies on when it hands the tables to the next
  helper: a target without a session has no askers, no route and no flags (`Tidy`), a host learned in
  this round has its route on record where it needs one (`Noted`), and what is on record is in the
  kernel while round and LAN last (`Installed`). `Keeps` says of two tables that the second is as
  well kept and took no confirmed session; every helper keeps, so do their compositions, and each
  handler is one. `Spares` says the same of the askers: they stay unless the session's time was up
  or the table was full and the session unconfirmed (`GiveUp`).
* `RAClientProofs`: `HeardStayRouted`, `LossesAreTold`, `KnownStay`, for any routers, prefixes and RAs.
  `RouterInv` adds that a router has a metric exactly while it is a default router and no two have
  the same (else a replace in the kernel takes another's route), that the expiry timer fires no later
  than the first lifetime ends, and that a default router is published exactly while the client has one that it
  has not yet found timed out. `metricFor` always finds a free metric because its range has one more
  than there are routers; `LossesAreTold` assumes fewer than 2048 of them (`FewRouters`), so that no
  metric reaches the one of the device route.
* `AddrManagerProofs`: `VerdictAwaitedAlways`, `OnePreferredAlways`, `EndpointsSettledAlways`, for any
  prefixes, policies, snapshots and number of events. Assumed are policies and addresses as the code makes
  them: an address lies in its prefix, random identifiers hit no other address, IA_NA gives no address
  that a policy or a tunnel has, and an endpoint is the first address of one policy at most
  (`PolicyAssumption`, `SnapshotAssumption`, `AddressAssumption`, `EndpointAssumption`). No property is inductive: `VerdictAwaited`
  needs to know where a verdict can show, which is what `Watched` (static addresses), `Marked` (the only
  ones the kernel keeps after a failure) and `Settled` (endpoints) say; `Told` says that an endpoint
  that became a static address is still to be announced, and `Still` that without a poll to come all verdicts are in.
  Of the temporary addresses `OwnTemps` says that preferred ones are random ones, and `Active` that their prefix
  is. A step is a chain of helpers, each with a lemma on the parts it keeps: those of the temporary
  addresses touch no other (`TempStep`); `applyPrefixAddrs` may take over an endpoint, so that
  `Apart` (no address is static and endpoint at once) holds again only after `applyEndpoints`; and
  a poll breaks `Still` until its end. Its replacements are a recursive function over the order of the table,
  for which `CourseExists` takes the place of an induction: a least length without a course of the function would have one.

Only model-checked: liveness (`StaleLeaves`, `RAReachesLAN`, `Exits`, `Recovers`), which needs fairness,
and `Subnets`, whose claims are arithmetic on powers of two over bounded lengths.

The proofs found behaviours that the properties first had wrong.

* A prefix the line deprecates, or shortens, within the settle period, and then takes away, leaves the
  snapshot without a withdrawal, though hosts were told to prefer it: `recompute` compares with the last
  snapshot it made, not with the last one published; what it looks at is `dep`, so `NothingDropped` is
  about what is in use or withdrawn in the store (`Owed`).
* A delegated ULA withdrawn while the record from before a restart still lists it is withdrawn anew, with
  another end, when the line answers: `StaleHeld` says so.
* An endpoint of its own that the kernel has marked as a duplicate, and that a snapshot then makes a static
  address before a poll saw the mark, is external for `checkDAD`: the failure is not seen while it is an
  endpoint, and once it no longer is, only if another address keeps the poll going. Taken over in this
  state it counts as adopted (`applyEndpoints`), which `VerdictAwaited` leaves out.
* When two static addresses are lost within one poll, replacing the first configures the second again;
  the replacement of the second then leaves that one on the interface, and it is adopted as a stray.
* A snapshot that drops an endpoint of its own and at the same time makes it a static address has
  `applyEndpoints` delete the address just configured. It counts as a failed DAD, and the policy
  moves on to its next counter: `Told` and `Watched` are what shows that this one is noticed.

## Not modelled

Packet formats and authentication; the BPF programs and generated objects; device creation, sysctls,
logs, statistics and the dry run; the MAP-E rule table. Of modelled components: the on-link and more
specific routes of an RA; static mode of the ND proxy; the LAN side of the address manager; the pacing
of the RA server; the sets and rules of the firewall. Tunnels, NAT64 slow path, LAN routes, packet hub
and SYN reject are in the plan or, where they are I/O in a fixed order, left out; `components` in
`PROJECT.json` gives the reason for each.

## Plan

Order of the work, the most important behaviour first. Done: store, subnets, client, pool, port
mappings, address server, RA client, ND proxy, address manager, the abstract lease server. Next:

1. `Firewall`: kernel sets that follow snapshot, delegations and pinholes, replaced one by one and
   possibly failing; verdict of the rules in order against the policy of RFC 6092.
2. `Tunnel`: the AFTR resolver whose answer arrives after the snapshot it was asked for.
3. RA server pacing; packet hub; LAN routes and `holdDelegations`; NAT64 slow path.
4. An abstract store (a consumer eventually has the newest state, and is told of each withdrawal)
   implemented by `PrefixStore`; a composition of client and store.
