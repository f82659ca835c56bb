----------------------------- MODULE LeaseServer ----------------------------
(***************************************************************************)
(* The DHCPv6 server of one LAN interface, stateful, for addresses (the     *)
(* IA_NA part of dhcp6s.go): it leases addresses of the segment's active    *)
(* prefix to clients, keeps the leases in memory and in a file, follows the *)
(* store's snapshots over a channel of capacity 1, and takes every message  *)
(* under one mutex.  A Solicit without Rapid Commit, a Confirm and an       *)
(* Information-Request change nothing and have no action; delegations are   *)
(* PDPool's.                                                                *)
(*                                                                          *)
(* An address is [net, iid].  A static binding with the low 64 bits alone   *)
(* has net = NoNet.                                                         *)
(***************************************************************************)
EXTENDS Integers, Sequences, FiniteSets, FiniteSetsExt

CONSTANTS
    Clients,      \* IA_NAs: DUID and IAID
    Reconf,       \* those of clients that accept Reconfigure
    Hosts,        \* the clients, and those that hold a static binding and never ask
    Statics,      \* Statics[h]: the static binding that matches h, or NoStatic
    NoStatic, NoNet,
    Nets,         \* the /64s of the segment, over time
    PoolStart, PoolEnd,  \* the interface identifiers of the pool
    Hash,         \* Hash[c]: the FNV hash of the key
    ServerValid,  \* -dhcp6s-lease-valid
    DeclineHold,  \* declineHold
    Offers,       \* what the segment may have, lifetimes as deadlines
    SaveFails,    \* whether writing the file may fail
    MaxTime,      \* bound on the clock
    MaxCrashes    \* bound on the number of crashes

Addr == [net : Nets, iid : Nat]
LANPrefix == [net : Nets, ula : BOOLEAN, dep : BOOLEAN, valid : Nat]

ASSUME LeaseAssumption ==
    /\ Reconf \subseteq Clients /\ Clients \subseteq Hosts /\ NoNet \notin Nets /\ NoStatic \notin [net : Nets \cup {NoNet}, iid : Nat]
    /\ Statics \in [Hosts -> [net : Nets \cup {NoNet}, iid : Nat] \cup {NoStatic}]
    /\ PoolStart \in Nat /\ PoolEnd \in Nat /\ PoolStart <= PoolEnd
    /\ Hash \in [Clients -> Nat]
    /\ ServerValid \in Nat /\ DeclineHold \in Nat /\ SaveFails \in BOOLEAN
    /\ Offers \subseteq Seq(LANPrefix)
    /\ MaxTime \in Nat /\ MaxCrashes \in Nat

VARIABLES
    now,       \* the clock
    up,        \* whether the process runs
    serving,   \* the interface is up and the server runs
    cur,       \* the store's prefixes of the segment
    ch,        \* the server's channel: <<>> or <<[lan, moved]>>
    snap,      \* s.snap.LAN of the interface
    due,       \* serve took a snapshot that moved and is about to call onPrefixChange
    leases,    \* s.leases: [c, addr, expires, keyed]
    declined,  \* s.declined: [addr, until]
    file,      \* the lease file
    told,      \* history: the leases last answered and not taken back, statics aside
    crashes    \* crashes so far (bound)

books == <<leases, declined, file, told>>
vars  == <<now, up, serving, cur, ch, snap, due, books, crashes>>

(***************************************************************************)
(* Addresses.                                                               *)
(***************************************************************************)
Lesser(a, b) == IF a < b THEN a ELSE b

\* activePrefix: the first prefix that is not deprecated, one of the upstream before a ULA.
Fresh(lan, ula) == {j \in DOMAIN lan : ~lan[j].dep /\ lan[j].ula = ula}
HasActive(lan)  == Fresh(lan, FALSE) \cup Fresh(lan, TRUE) # {}
Active(lan) ==
    lan[IF Fresh(lan, FALSE) # {} THEN Min(Fresh(lan, FALSE)) ELSE Min(Fresh(lan, TRUE))]

OnPrefix(lan, a) == HasActive(lan) /\ a.net = Active(lan).net

IsStatic(c) == Statics[c] # NoStatic

\* A static binding's address, put together with the prefix when it is an identifier alone.
StaticAddr(c, net) ==
    IF Statics[c].net = NoNet THEN [net |-> net, iid |-> Statics[c].iid] ELSE Statics[c]

\* The declines that have not run out; allocate forgets the others.
Holding == {d \in declined : now < d.until}

\* Faulty variant: the address of a lease that has expired is free before it is swept.
UsedLive ==
    {l.addr : l \in {m \in leases : now <= m.expires}} \cup {d.addr : d \in Holding}
    \cup {Statics[h] : h \in {x \in Hosts : IsStatic(x)}}

\* Faulty variant: declined addresses are free.
UsedLeased ==
    {l.addr : l \in leases} \cup {Statics[h] : h \in {x \in Hosts : IsStatic(x)}}

\* allocate's used: leased, static, or declined and held.  An identifier alone is not an address.
Used ==
    {l.addr : l \in leases} \cup {d.addr : d \in Holding}
    \cup {Statics[h] : h \in {x \in Hosts : IsStatic(x)}}

Size == PoolEnd - PoolStart + 1
Slot(c, net, i) == [net |-> net, iid |-> PoolStart + ((Hash[c] + i) % Size)]

\* The pool's addresses that are free, by the distance from where the key hashes to.
FreeSlots(c, net) == {i \in 0..(Size - 1) : Slot(c, net, i) \notin Used}

CanAllocate(c, net) == IsStatic(c) \/ FreeSlots(c, net) # {}
Allocate(c, net) ==
    IF IsStatic(c) THEN StaticAddr(c, net) ELSE Slot(c, net, Min(FreeSlots(c, net)))

(***************************************************************************)
(* Messages.                                                                *)
(***************************************************************************)
\* saveLeases: the old file stays when the new one cannot be written.
Save(L) == file' \in {L} \cup (IF SaveFails THEN {file} ELSE {})

OfClient(L, c) == {l \in L : l.c = c}
Others(L, c)   == {l \in L : l.c # c}
Dynamic(L)     == {l \in L : ~IsStatic(l.c)}

\* assign's l: the binding while it is on the active prefix.
Bound(c) == {l \in OfClient(leases, c) : OnPrefix(snap, l.addr)}

\* lifetimes: what is left of the prefix at most.
ValidLeft == Lesser(ServerValid, IF Active(snap).valid > now THEN Active(snap).valid - now ELSE 0)

\* A client that accepts Reconfigure has a key from then on.
Keyed(c, keyed) == (c \in Reconf) \/ keyed

\* assign commits: the address, its new end, and the Reconfigure key.
Commit(c, a, keyed) ==
    LET l == [c |-> c, addr |-> a, expires |-> now + ValidLeft,
              keyed |-> Keyed(c, keyed)]
    IN  /\ leases' = Others(leases, c) \cup {l}
        /\ told' = Others(told, c) \cup Dynamic({l})
        /\ Save(leases')

\* A Renew, or any other message that commits, for a binding on the active prefix.
Renew(c) ==
    /\ up /\ serving
    /\ \E l \in Bound(c) : Commit(c, l.addr, l.keyed)
    /\ UNCHANGED <<now, up, serving, cur, ch, snap, due, declined, crashes>>

\* Faulty variant: the binding is not looked up.
AssignAnew(c) ==
    /\ up /\ serving /\ HasActive(snap)
    /\ CanAllocate(c, Active(snap).net)
    /\ declined' = IF IsStatic(c) THEN declined ELSE Holding
    /\ Commit(c, Allocate(c, Active(snap).net), FALSE)
    /\ UNCHANGED <<now, up, serving, cur, ch, snap, due, crashes>>

\* A Request, a Rebind or a Solicit with Rapid Commit without one.
Assign(c) ==
    /\ up /\ serving /\ HasActive(snap)
    /\ Bound(c) = {}
    /\ CanAllocate(c, Active(snap).net)
    /\ declined' = IF IsStatic(c) THEN declined ELSE Holding
    /\ Commit(c, Allocate(c, Active(snap).net), FALSE)
    /\ UNCHANGED <<now, up, serving, cur, ch, snap, due, crashes>>

\* A message that gets no address: NoAddrsAvail or NoBinding, and the leases are saved all the same.
Refuse(c) ==
    /\ up /\ serving
    /\ Bound(c) = {}
    /\ \/ UNCHANGED declined    \* no prefix, or a Renew
       \/ HasActive(snap) /\ ~CanAllocate(c, Active(snap).net) /\ declined' = Holding
    /\ Save(leases)
    /\ UNCHANGED <<now, up, serving, cur, ch, snap, due, leases, told, crashes>>

\* A Decline that names the client's address, which is then kept out of the pool.
Decline(c) ==
    /\ up /\ serving /\ OfClient(leases, c) # {}
    /\ leases' = Others(leases, c) /\ told' = Others(told, c)
    /\ Save(leases')
    /\ LET gone == {l.addr : l \in OfClient(leases, c)}
       IN  declined' = {d \in declined : d.addr \notin gone}
                       \cup {[addr |-> a, until |-> now + DeclineHold] : a \in gone}
    /\ UNCHANGED <<now, up, serving, cur, ch, snap, due, crashes>>

\* A Release, or a Decline that names another address.
Release(c) ==
    /\ up /\ serving /\ OfClient(leases, c) # {}
    /\ leases' = Others(leases, c) /\ told' = Others(told, c)
    /\ Save(leases')
    /\ UNCHANGED <<now, up, serving, cur, ch, snap, due, declined, crashes>>

(***************************************************************************)
(* Time, snapshots, links and restarts.                                     *)
(***************************************************************************)
\* Faulty variant: a lease goes in its last moment.
ExpireLeasesEarly ==
    /\ up /\ serving /\ ~due /\ \E l \in leases : now >= l.expires
    /\ leases' = {l \in leases : now < l.expires}
    /\ Save(leases')
    /\ UNCHANGED <<now, up, serving, cur, ch, snap, due, declined, told, crashes>>

\* expireLeases, once a minute.
ExpireLeases ==
    /\ up /\ serving /\ ~due /\ \E l \in leases : now > l.expires
    /\ leases' = {l \in leases : now <= l.expires}
    /\ Save(leases')
    /\ UNCHANGED <<now, up, serving, cur, ch, snap, due, declined, told, crashes>>

ActiveNet(lan) == IF HasActive(lan) THEN Active(lan).net ELSE NoNet

\* The store publishes, as "add" or "revoke" when the prefix in use is another one, and whenever
\* something moved elsewhere.  A snapshot not taken yet is replaced, its label with it.
Publish(o, moved) ==
    /\ up
    /\ ActiveNet(o) # ActiveNet(cur) => moved
    /\ cur' = o
    /\ ch' = <<[lan |-> o, moved |-> moved]>>
    /\ UNCHANGED <<now, up, serving, snap, due, books, crashes>>

\* case snap := <-ch.  The mutex is let go before onPrefixChange takes it again, and messages come
\* in between.
Take ==
    /\ up /\ serving /\ ~due /\ ch # <<>>
    /\ ch' = <<>> /\ snap' = ch[1].lan /\ due' = ch[1].moved
    /\ UNCHANGED <<now, up, serving, cur, books, crashes>>

\* A lease off the prefix goes, unless its client can be sent a Reconfigure, and comes back for
\* another address.
OnPrefixChange ==
    /\ up /\ due /\ due' = FALSE
    /\ LET stays == {l \in leases : OnPrefix(snap, l.addr) \/ l.keyed}
       IN  /\ leases' = stays
           /\ told' = {t \in told : \A l \in leases \ stays : t.c # l.c}
           /\ Save(stays)
    /\ UNCHANGED <<now, up, serving, cur, ch, snap, declined, crashes>>

\* The interface is up: the server takes Current().  It goes down: the leases are saved.
Serve ==
    /\ up /\ ~serving /\ serving' = TRUE
    /\ snap' = cur
    /\ UNCHANGED <<now, up, cur, ch, due, books, crashes>>
LinkDown ==
    /\ up /\ serving /\ ~due /\ serving' = FALSE
    /\ Save(leases)
    /\ UNCHANGED <<now, up, cur, ch, snap, due, leases, declined, told, crashes>>

\* Declines are not written down.
Crash ==
    /\ up /\ crashes < MaxCrashes
    /\ up' = FALSE /\ serving' = FALSE /\ crashes' = crashes + 1
    /\ cur' = <<>> /\ ch' = <<>> /\ snap' = <<>> /\ due' = FALSE
    /\ leases' = {} /\ declined' = {}
    /\ UNCHANGED <<now, file, told>>

\* loadLeases takes what expired too.
Start ==
    /\ ~up /\ up' = TRUE
    /\ leases' = file
    /\ UNCHANGED <<now, serving, cur, ch, snap, due, declined, file, told, crashes>>

\* Time passes; what was answered and ran out is no promise any more.
Tick ==
    /\ now < MaxTime /\ now' = now + 1
    /\ told' = {t \in told : now' <= t.expires}
    /\ UNCHANGED <<up, serving, cur, ch, snap, due, leases, declined, file, crashes>>

Init ==
    /\ now = 0 /\ up = FALSE /\ serving = FALSE /\ crashes = 0
    /\ cur = <<>> /\ ch = <<>> /\ snap = <<>> /\ due = FALSE
    /\ leases = {} /\ declined = {} /\ file = {} /\ told = {}

Next ==
    \/ \E c \in Clients : Renew(c) \/ Assign(c) \/ Refuse(c) \/ Decline(c) \/ Release(c)
    \/ ExpireLeases
    \/ \E o \in Offers, moved \in BOOLEAN : Publish(o, moved)
    \/ Take
    \/ OnPrefixChange
    \/ Serve
    \/ LinkDown
    \/ Crash
    \/ Start
    \/ Tick

Spec == Init /\ [][Next]_vars

-----------------------------------------------------------------------------
(***************************************************************************)
(* Properties.                                                              *)
(***************************************************************************)
Distinct(L) == \A l, m \in Dynamic(L) : l.addr = m.addr => l.c = m.c

\* No two clients without a static binding lease the same address, though leases expire unswept,
\* prefixes come and go and come back, and the file may be older than what was answered.
AddressesDistinct == Distinct(leases) /\ Distinct(file)

\* What was answered binds the server over a restart too, while the file can be written: two clients
\* never hold the same address at a time.
PromisesDistinct == ~SaveFails => Distinct(told)

\* The server implements Promises, restarts, prefix changes and all, while the file can be written: an
\* address goes to one client at a time, and to nobody while another was promised it.
ClientOf(t) == t.c
SameAddr(s, t) == s.addr = t.addr
Abstract == INSTANCE Promises WITH held <- told, Holder <- ClientOf, Clash <- SameAddr

PromisesKept == Abstract!Spec

\* The addresses that static bindings give, on whatever prefix: allocate gives them out regardless.
Reserved == {a \in {l.addr : l \in leases} :
                 \E h \in Hosts : IsStatic(h) /\ a = StaticAddr(h, a.net)}

\* declineHold: an address a client found in use is leased to nobody before the hold is over, as long
\* as the process runs; static bindings stand outside this.
DeclinedKeptOut ==
    \A d \in Holding : \A l \in Dynamic(leases) : l.addr = d.addr => l.addr \in Reserved

\* Every path that changes the leases writes them: a restart finds what the server had.
Recorded == up /\ ~SaveFails => file = leases

\* A client's address is never exchanged under it: it changes only once its lease is gone or off the
\* active prefix.
AddressKept ==
    [][\A c \in Clients : \A l \in Bound(c) : \A m \in OfClient(leases', c) : m.addr = l.addr]_vars

\* The parts of the inductive invariant: one lease per client and the static ones where their binding
\* says; times are numbers; and what was answered, which static bindings do not need, is on record while it
\* lasts, as a restart needs.
OnePerClient(L) == \A l, m \in L : l.c = m.c => l = m
AsBound(L)      == \A l \in L : IsStatic(l.c) => l.c \in Clients /\ l.addr = StaticAddr(l.c, l.addr.net)
WellKept(L)     == Distinct(L) /\ OnePerClient(L) /\ AsBound(L)
Timed ==
    /\ now \in Nat
    /\ \A d \in declined : d.until \in Nat
    /\ \A t \in told : t.expires \in Nat /\ now <= t.expires
    /\ cur \in Seq(LANPrefix) /\ snap \in Seq(LANPrefix)
    /\ ch \in Seq([lan : Seq(LANPrefix), moved : BOOLEAN])
OnRecord ==
    /\ ~SaveFails => told \subseteq file
    /\ \A t \in told : ~IsStatic(t.c)

LeaseInv ==
    /\ WellKept(leases) /\ WellKept(file)
    /\ Timed /\ DeclinedKeptOut /\ Recorded /\ OnRecord
    /\ ~up => leases = {} /\ declined = {}

(***************************************************************************)
(* What a test says, and the code does not do.                              *)
(***************************************************************************)
\* TestDHCP6sAllocateSkipsStaticsAndOldDeclines: "another host's static address is not handed out",
\* also when the binding has the low 64 bits only.
StaticsReserved ==
    \A l \in Dynamic(leases) : \A h \in Hosts :
        IsStatic(h) => l.addr # StaticAddr(h, l.addr.net)
=============================================================================
