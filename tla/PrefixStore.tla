----------------------------- MODULE PrefixStore -----------------------------
(***************************************************************************)
(* The prefix store of sixup (prefix.go): the one goroutine that owns the   *)
(* router's prefix state.  Sources (the DHCPv6-PD client, the upstream RA   *)
(* listener, the static configuration) hand it complete updates; it picks   *)
(* the source in effect, carves a /64 per LAN segment, diffs the result     *)
(* against the last snapshot, keeps withdrawn prefixes for a hold period,   *)
(* batches changes over a settle period, records what it advertises in a    *)
(* file that survives a restart, and hands snapshots to its consumers over  *)
(* channels of capacity 1.                                                  *)
(*                                                                          *)
(* The Go struct Store is the record-valued variable "store"; Recompute is  *)
(* the method recompute applied to such a record.  Prefixes are named by    *)
(* disjoint model values, of Size[p] /64s each; a /64 is <<p, index>>.      *)
(* RFC 6603 exclusions are the subject of module Subnets.                   *)
(***************************************************************************)
EXTENDS Integers, Sequences, FiniteSets, FiniteSetsExt

CONSTANTS
    LanOrder,     \* the LAN segments of -lan, in order
    Prefixes,     \* the prefixes any source may give, pairwise disjoint
    Size,         \* Size[p]: the number of /64s in p
    Private,      \* the prefixes that are ULAs (netip.Addr.IsPrivate)
    Configs,      \* configurations a start may use: -ula, -lan and subnet numbers
    Offers,       \* Offers[src]: updates source src may submit, lifetimes relative
    Extras,       \* values of the other inputs (capture, NAT64, AFTR, DAD results)
    Infos,        \* what a source may say besides prefixes (DNS, NTP, MTU, ...)
    NoInfo,       \* "the source gave no DNS, NTP, ..."
    Prefer,       \* -wan-prefer: "pd" or "ra"
    Hold,         \* -lan-deprecate-hold
    WanHold,      \* wanRevokeHold
    Grace,        \* pdGrace, 0 when PD is off
    Settle,       \* the settle period
    UlaPref, UlaValid,  \* lifetimes of this router's own ULA (7d / 30d)
    Consumers,    \* the RA servers, one per LAN, each with its channel
    SaveFails,    \* whether writing the file may fail
    MaxTime,      \* bound on the clock
    LastUpdate,   \* bound: no source update after this time
    MaxCrashes    \* bound on the number of crashes

Sources == {"static", "pd", "ra"}
Lans    == {LanOrder[i] : i \in DOMAIN LanOrder}
Subnets == Prefixes \X Nat

ASSUME LanAssumption == DOMAIN LanOrder \subseteq Nat

ASSUME StoreAssumption ==
    /\ Prefixes # {}
    /\ Size \in [Prefixes -> Nat \ {0}]
    /\ Private \subseteq Prefixes
    /\ Hold \in Nat /\ WanHold \in Nat /\ Grace \in Nat /\ Settle \in Nat
    /\ UlaPref \in Nat /\ UlaValid \in Nat \ {0}
    /\ MaxTime \in Nat /\ LastUpdate \in Nat /\ MaxCrashes \in Nat
    /\ SaveFails \in BOOLEAN
    /\ Prefer \in {"pd", "ra"}

\* Distinct segments have distinct subnet numbers.  That is left to the user: parseLans does not
\* check it (module Subnets).
ASSUME ConfigAssumption ==
    /\ Configs \subseteq [ula : SUBSET Private, lans : SUBSET Lans, index : [Lans -> Nat]]
    /\ \A c \in Configs : \A l, m \in c.lans : c.index[l] = c.index[m] => l = m

\* A prefix as a source gives it, and an update; in an offer the lifetimes are relative.
Given  == [p : Prefixes, src : {"pd", "ra"}, pref : Nat, valid : Nat]
Update == [set : BOOLEAN, ps : SUBSET Given, info : Infos, noRouter : BOOLEAN, dhcp6 : BOOLEAN]

\* An update says that its source has concluded, gives a prefix once, and carries a ULA in a
\* delegation only.
ASSUME OfferAssumption ==
    /\ NoInfo \in Infos
    /\ \A x \in Sources :
          /\ Offers[x] \subseteq Update
          /\ \A u \in Offers[x] : u.set /\ \A q, r \in u.ps : q.p = r.p => q = r
          /\ x # "pd" => \A u \in Offers[x] : \A q \in u.ps : q.p \notin Private

VARIABLES
    now,       \* the clock
    up,        \* whether the process runs
    store,     \* struct Store
    file,      \* lan-prefixes.json: the recorded LAN prefixes
    ch,        \* ch[c]: the channel of consumer c, capacity 1
    view,      \* view[c]: the snapshot consumer c works with, <<>> before its first
    announced, \* announced[c]: the LAN prefixes of the last RA consumer c sent
    crashes,   \* crashes so far (bound)
    told,      \* history: what the last publication told the LAN to use
    taken      \* history: prefixes withdrawn because of the restart

vars == <<now, up, store, file, ch, view, announced, crashes, told, taken>>

(***************************************************************************)
(* Times, changes and the initial store.                                    *)
(***************************************************************************)
NoTimer == -1
None    == 0        \* changeKind in the order of changeRank
Renew   == 1
Add     == 2
Revoke  == 3

Absent  == [set |-> FALSE, ps |-> {}, info |-> NoInfo, noRouter |-> FALSE, dhcp6 |-> FALSE]

NoSnapshot == [source |-> "", lan |-> {}, wan |-> {}, subnet |-> <<>>, info |-> NoInfo,
               extra |-> NoInfo, noRouter |-> FALSE, pdPending |-> FALSE, change |-> None]

\* newStore's literal, before the file is read.
EmptyStore(c) ==
    [conf |-> c, graceEnd |-> IF Prefer = "pd" /\ Grace > 0 THEN now + Grace ELSE 0,
     sources |-> [x \in Sources |-> Absent], ulaPD |-> {}, extra |-> NoInfo,
     cur |-> NoSnapshot, revoked |-> {}, revokedW |-> {}, previous |-> {},
     pending |-> None, pubAt |-> NoTimer, expireAt |-> NoTimer]

Earlier(a, b) == IF a < b THEN a ELSE b

(***************************************************************************)
(* pickSource.                                                              *)
(***************************************************************************)
Order == IF Prefer = "ra" THEN <<"static", "ra", "pd">> ELSE <<"static", "pd", "ra">>

\* Faulty variant: no startup grace.
DeferredNever(s) == FALSE

\* PD has not concluded yet: RA prefixes are WAN information only.
Deferred(s) == ~s.sources["pd"].set /\ now < s.graceEnd

PickSource(s) ==
    LET present == {i \in 1..3 : s.sources[Order[i]].set}
        giving  == {i \in present : s.sources[Order[i]].ps # {}}
    IN  IF giving # {} THEN Order[Min(giving)]
        ELSE IF present # {} THEN Order[Min(present)]
        ELSE ""

\* The update in effect, as pickSource returns it.
Picked(s) ==
    LET x == PickSource(s)
    IN  IF x = "" THEN Absent
        ELSE IF x = "ra" /\ Deferred(s) THEN [s.sources[x] EXCEPT !.ps = {}]
        ELSE s.sources[x]

(***************************************************************************)
(* recompute, first part: what the snapshot says of the prefixes in effect. *)
(***************************************************************************)
\* validLeft(now) > 0 and preferredLeft(now) = 0.
Alive(q)   == q.valid > now
Faded(q)   == q.pref <= now

\* The /64 of prefix q that segment l names.
Carve(s, q, l, deleg) ==
    [iface |-> l, sub |-> <<q.p, s.conf.index[l]>>, pref |-> q.pref, valid |-> q.valid,
     src |-> q.src, dep |-> Faded(q), stale |-> FALSE, deleg |-> deleg]

\* splitLAN of every prefix given, for every segment it is large enough for.
Split(s, qs, deleg) ==
    {e \in {Carve(s, q, l, deleg) : q \in {r \in qs : Alive(r)}, l \in s.conf.lans}
       : e.sub[2] < Size[e.sub[1]]}

\* This router's own ULA is given afresh by every recompute; one the upstream delegated is used
\* only without -ula and lasts as long as the delegation.
OwnUla(s) == {[p |-> p, src |-> "ula", pref |-> now + UlaPref, valid |-> now + UlaValid]
                : p \in s.conf.ula}

LiveLAN(s) ==
    Split(s, Picked(s).ps, FALSE)
    \cup (IF s.conf.ula # {} THEN Split(s, OwnUla(s), FALSE)
                             ELSE Split(s, {[q EXCEPT !.src = "ula"] : q \in s.ulaPD}, TRUE))

WanEntry(q) == [p |-> q.p, src |-> q.src, pref |-> q.pref, valid |-> q.valid,
                dep |-> Faded(q), stale |-> FALSE]

\* The upstream RA's prefixes describe the WAN link whichever source feeds the LAN.
LiveWAN(s) ==
    LET u    == Picked(s)
        ours == {WanEntry(q) : q \in {r \in u.ps : Alive(r)}}
        also == IF PickSource(s) # "ra" \/ u.ps = {} THEN s.sources["ra"].ps ELSE {}
    IN  ours \cup {WanEntry(q) : q \in {r \in also : /\ Alive(r)
                                                     /\ \A w \in ours : <<w.p, w.src>> # <<r.p, r.src>>}}

\* DNS, NTP, options, PREF64, MTU and WAN address each fall back to the PD's and then the RA's.
Info(s) ==
    IF Picked(s).info # NoInfo THEN Picked(s).info
    ELSE IF s.sources["pd"].info # NoInfo THEN s.sources["pd"].info
    ELSE s.sources["ra"].info

\* wanSubnet: the first segment's delegated /64, a preferred one before a deprecated one, unless
\* the WAN link has it on-link.
WanSubnet(s, lan, wan) ==
    LET fits(e)  == e.src = "pd" /\ ~e.stale /\ \A w \in wan : w.src = "ra" => w.p # e.sub[1]
        of(i, d) == {e \in lan : e.iface = LanOrder[i] /\ e.dep = d /\ fits(e)}
        at(d)    == {i \in DOMAIN LanOrder : LanOrder[i] \in s.conf.lans /\ of(i, d) # {}}
        first(d) == (CHOOSE e \in of(Min(at(d)), d) : TRUE).sub
    IN  IF at(FALSE) # {} THEN first(FALSE)
        ELSE IF at(TRUE) # {} THEN first(TRUE)
        ELSE <<>>

(***************************************************************************)
(* recompute, second part: what is withdrawn, and until when.               *)
(***************************************************************************)
Withdrawn(iface, sub, src, until) ==
    [iface |-> iface, sub |-> sub, pref |-> now, valid |-> until, src |-> src,
     dep |-> TRUE, stale |-> TRUE, deleg |-> FALSE]

\* Recorded before a restart and not handed out again, once the line hands out anything.
GoneSinceRestart(s, active) ==
    LET until(a) == Earlier(now + Hold, a.valid)
    IN  IF Picked(s).ps = {} THEN {}
        ELSE {Withdrawn(a.iface, a.sub, IF a.sub[1] \in Private THEN "ula" ELSE "pd", until(a))
                : a \in {b \in s.previous : /\ b.sub \notin active
                                            /\ b.iface \in s.conf.lans
                                            /\ until(b) > now}}

\* In the last snapshot, preferred, and no longer given.
GoneFromLAN(s, active) ==
    {Withdrawn(e.iface, e.sub, e.src, Earlier(now + Hold, e.valid))
       : e \in {d \in s.cur.lan : d.sub \notin active /\ ~d.dep}}

\* revokedW has one entry per prefix; of two gone at once the RA's, appended last, stays.
GoneFromWAN(s, activeW) ==
    LET gone    == {w \in s.cur.wan : w.p \notin activeW /\ ~w.dep}
        last(w) == w.src = "ra" \/ \A v \in gone : v.p = w.p => v = w
    IN  {[w EXCEPT !.pref = now, !.valid = Earlier(now + WanHold, w.valid), !.dep = TRUE, !.stale = TRUE]
           : w \in {v \in gone : last(v)}}

\* The assignments new, made over the entries old of a map with the given key field.
Over(old, new, key) == new \cup {r \in old : \A n \in new : n[key] # r[key]}

\* Faulty variants: a prefix given again is not deleted from revoked; revoked starts afresh.
HeldKeepsActive(s, active) ==
    Over(Over(s.revoked, GoneSinceRestart(s, active), "sub"), GoneFromLAN(s, active), "sub")
HeldForgets(s, active) == Over(GoneSinceRestart(s, active), GoneFromLAN(s, active), "sub")

\* The LAN prefixes in their hold period after this recompute, ended ones included.
Held(s, active) ==
    LET kept == {r \in s.revoked : r.sub \notin active}
    IN  Over(Over(kept, GoneSinceRestart(s, active), "sub"), GoneFromLAN(s, active), "sub")

HeldW(s, activeW) ==
    Over({r \in s.revokedW : r.p \notin activeW}, GoneFromWAN(s, activeW), "p")

(***************************************************************************)
(* recompute, third part: the change, by comparison with the last snapshot. *)
(***************************************************************************)
SameLifetimes(a, b) == a.pref = b.pref /\ a.valid = b.valid
IsOwnUla(e) == e.src = "ula" /\ ~e.deleg

Appears(e, olds)  == olds = {} \/ \E o \in olds : o.dep /\ ~e.dep
Relifed(e, olds)  == \E o \in olds : ~SameLifetimes(e, o)

\* Faulty variant: new lifetimes are not a change.
ClassifyIgnoresLifetimes(old, next) ==
    IF \/ \E e \in next.lan : Appears(e, {o \in old.lan : o.sub = e.sub})
       \/ \E w \in next.wan : Appears(w, {o \in old.wan : o.p = w.p /\ o.src = w.src})
    THEN Add ELSE None

Classify(old, next) ==
    LET oldLAN(e) == {o \in old.lan : o.sub = e.sub}
        oldWAN(w) == {o \in old.wan : o.p = w.p /\ o.src = w.src}
    IN  IF \/ \E e \in next.lan : IF IsOwnUla(e) THEN oldLAN(e) = {} ELSE Appears(e, oldLAN(e))
           \/ \E w \in next.wan : Appears(w, oldWAN(w))
        THEN Add
        ELSE IF \/ \E e \in next.lan : ~IsOwnUla(e) /\ Relifed(e, oldLAN(e))
                \/ \E w \in next.wan : Relifed(w, oldWAN(w))
                \/ <<old.subnet, old.info, old.extra, old.noRouter, old.pdPending>>
                     # <<next.subnet, next.info, next.extra, next.noRouter, next.pdPending>>
        THEN Renew
        ELSE None

\* Faulty variant: the last change wins.
LastOf(change, pending) == change

\* The strongest change accumulated during the settle period.
Stronger(change, pending) == IF change > pending THEN change ELSE pending

\* recompute up to the assignment of s.cur and s.pending.
Recompute(s) ==
    LET lan     == LiveLAN(s)
        wan     == LiveWAN(s)
        active  == {e.sub : e \in lan}
        held    == Held(s, active)
        heldW   == HeldW(s, {w.p : w \in wan})
        revoked  == {r \in held : Alive(r)}
        revokedW == {r \in heldW : Alive(r)}
        draft   == [source |-> PickSource(s), lan |-> lan \cup revoked, wan |-> wan \cup revokedW,
                    subnet |-> WanSubnet(s, lan \cup revoked, wan \cup revokedW),
                    info |-> Info(s), extra |-> s.extra, noRouter |-> s.sources["ra"].noRouter,
                    pdPending |-> /\ ~s.sources["pd"].set
                                  /\ s.sources["ra"].dhcp6 /\ now < s.graceEnd,
                    change |-> None]
        withdraws == \/ GoneSinceRestart(s, active) # {}
                     \/ GoneFromLAN(s, active) # {}
                     \/ held # revoked \/ heldW # revokedW
        change  == IF withdraws THEN Revoke ELSE Classify(s.cur, draft)
    IN  [s EXCEPT !.cur = [draft EXCEPT !.change = change],
                  !.revoked = revoked, !.revokedW = revokedW,
                  !.previous = IF Picked(s).ps # {} THEN {} ELSE @,
                  !.pending = Stronger(change, @)]

(***************************************************************************)
(* publish, saveAdvertised and the expiry timer.                            *)
(***************************************************************************)
\* What saveAdvertised records; a live ULA of this router's has no expiry there (zero).
Recorded(lan) ==
    {[iface |-> e.iface, sub |-> e.sub, deleg |-> e.deleg,
      valid |-> IF IsOwnUla(e) /\ ~e.stale THEN 0 ELSE e.valid] : e \in lan}

\* History: the prefixes the LAN is told to prefer, and whether the record of them was written.
Told(lan, recorded) ==
    {[iface |-> e.iface, sub |-> e.sub, pref |-> e.pref, valid |-> e.valid, rec |-> recorded]
       : e \in {d \in lan : ~d.dep}}

Subscribed(c) == ch[c] # <<>> \/ view[c] # <<>>

Published(s) == [s EXCEPT !.cur.change = IF s.pending # None THEN s.pending ELSE @,
                          !.pending = None, !.pubAt = NoTimer]

\* publish: every subscriber's channel is drained and refilled; the record from before a restart
\* is kept until it has been compared with what the line hands out.
Publish(s) ==
    /\ ch' = [c \in Consumers |-> IF Subscribed(c) THEN <<Published(s).cur>> ELSE ch[c]]
    /\ \E ok \in {TRUE} \cup (IF SaveFails THEN {FALSE} ELSE {}) :
          IF s.previous = {}
          THEN /\ file' = IF ok THEN Recorded(s.cur.lan) ELSE file
               /\ told' = Told(s.cur.lan, ok)
          ELSE /\ file' = file
               /\ told' = {a \in told : \A e \in s.cur.lan : e.sub # a.sub} \cup Told(s.cur.lan, FALSE)

Soonest(ends) == IF ends = {} THEN NoTimer ELSE Min(ends)

\* Faulty variants: the WAN's hold periods, every hold period, or the wait for PD are forgotten.
NextExpiryLANOnly(s) ==
    Soonest({r.valid : r \in s.revoked} \cup (IF Deferred(s) THEN {s.graceEnd} ELSE {}))
NextExpiryGraceOnly(s) == Soonest(IF Deferred(s) THEN {s.graceEnd} ELSE {})
NextExpiryNoGrace(s) ==
    Soonest({r.valid : r \in s.revoked} \cup {r.valid : r \in s.revokedW})

\* nextExpiry: the earliest end of a hold period, or of the wait for PD.
NextExpiry(s) ==
    Soonest({r.valid : r \in s.revoked} \cup {r.valid : r \in s.revokedW}
            \cup (IF Deferred(s) THEN {s.graceEnd} ELSE {}))

\* Only some of the loop's cases assign the expiry timer again.
Timed(s, rearm) == IF rearm THEN [s EXCEPT !.expireAt = NextExpiry(s)] ELSE s

\* recompute from the assignment of s.cur, r, on: nothing material changed, or the change goes out
\* at once, or it waits for the settle period.
Concluded(s, r, rearm) ==
    LET urgent == Settle = 0 \/ r.cur.change = Revoke \/ s.cur.noRouter # r.cur.noRouter
    IN  \/ /\ r.cur.change = None
           /\ store' = Timed(r, rearm)
           /\ UNCHANGED <<file, ch, told>>
        \/ /\ r.cur.change # None /\ urgent
           /\ store' = Timed(Published(r), rearm)
           /\ Publish(r)
        \/ /\ r.cur.change # None /\ ~urgent
           /\ store' = Timed([r EXCEPT !.pubAt = IF @ = NoTimer THEN now + Settle ELSE @], rearm)
           /\ UNCHANGED <<file, ch, told>>

Recomputed(s, rearm) ==
    /\ Concluded(s, Recompute(s), rearm)
    /\ taken' = taken \cup {<<e.iface, e.sub>> :
                               e \in GoneSinceRestart(s, {d.sub : d \in LiveLAN(s)})}

(***************************************************************************)
(* The store's loop.                                                        *)
(***************************************************************************)
\* An update with its lifetimes made absolute, as its source submits it.
AtNow(qs) == {[q EXCEPT !.pref = now + @, !.valid = now + @] : q \in qs}

\* case m := <-s.in: a ULA delegated with the prefixes is kept apart from the line's.
Set(x, u) ==
    /\ up /\ now <= LastUpdate
    /\ LET ula == IF x = "pd" THEN {q \in u.ps : q.p \in Private} ELSE {}
           upd == [u EXCEPT !.ps = AtNow(@ \ ula)]
       IN  Recomputed([store EXCEPT !.sources[x] = upd,
                                    !.ulaPD = IF x = "pd" THEN AtNow(ula) ELSE @], TRUE)
    /\ UNCHANGED <<now, up, view, announced, crashes>>

\* The cases capIn, nat64In, aftrIn, confIn and selfIn: recompute without a new expiry timer.
SetOther(x) ==
    /\ up /\ now <= LastUpdate
    /\ Recomputed([store EXCEPT !.extra = x], FALSE)
    /\ UNCHANGED <<now, up, view, announced, crashes>>

\* case <-expire
Expire ==
    /\ up
    /\ store.expireAt # NoTimer /\ now >= store.expireAt
    /\ Recomputed(store, TRUE)
    /\ UNCHANGED <<now, up, view, announced, crashes>>

\* case <-s.pubTimer
PubTimer ==
    /\ up
    /\ store.pubAt # NoTimer /\ now >= store.pubAt
    /\ store' = Published(store)
    /\ Publish(store)
    /\ UNCHANGED <<now, up, view, announced, crashes, taken>>

\* case ch := <-s.subReq: the subscriber gets the current snapshot, published or not.
Subscribe(c) ==
    /\ up /\ ~Subscribed(c)
    /\ ch' = [ch EXCEPT ![c] = <<store.cur>>]
    /\ UNCHANGED <<now, up, store, file, view, announced, crashes, told, taken>>

(***************************************************************************)
(* The consumers: the loop of the RA server of LAN segment c.               *)
(***************************************************************************)
OnLink(c, snap) == {e \in snap.lan : e.iface = c}

\* serve: the interface came up; the server takes Current() and sends its first RAs.
Serve(c) ==
    /\ up /\ Subscribed(c)
    /\ view' = [view EXCEPT ![c] = <<store.cur>>]
    /\ announced' = [announced EXCEPT ![c] = OnLink(c, store.cur)]
    /\ UNCHANGED <<now, up, store, file, ch, crashes, told, taken>>

\* update: a prefix appeared or went, or the WAN default router changed.
CallsForRA(old, snap) == snap.noRouter # old.noRouter \/ snap.change \in {Add, Revoke}

\* case s := <-ch, in the loop and in the pauses of a burst.
Take(c) ==
    /\ up /\ ch[c] # <<>> /\ view[c] # <<>>
    /\ view' = [view EXCEPT ![c] = ch[c]]
    /\ ch' = [ch EXCEPT ![c] = <<>>]
    /\ announced' = [announced EXCEPT ![c] = IF CallsForRA(view[c][1], ch[c][1])
                                             THEN OnLink(c, ch[c][1]) ELSE @]
    /\ UNCHANGED <<now, up, store, file, crashes, told, taken>>

\* case <-next.C, and the reply to a Router Solicitation.
Periodic(c) ==
    /\ up /\ view[c] # <<>>
    /\ announced' = [announced EXCEPT ![c] = OnLink(c, view[c][1])]
    /\ UNCHANGED <<now, up, store, file, ch, view, crashes, told, taken>>

(***************************************************************************)
(* Start, crash and the clock.                                              *)
(***************************************************************************)
\* Faulty variant: the zero expiry of a live ULA is taken for a time.
WithdrawULAZeroIsATime(s) ==
    LET own      == {a \in s.previous : a.sub[1] \in Private /\ ~a.deleg}
        until(a) == Earlier(now + Hold, a.valid)
    IN  [s EXCEPT !.previous = @ \ own,
                  !.revoked = {Withdrawn(a.iface, a.sub, "ula", until(a)) :
                                 a \in {b \in own : /\ b.iface \in s.conf.lans
                                                    /\ b.sub[1] \notin s.conf.ula
                                                    /\ until(b) > now}}]

\* withdrawULA: recorded ULAs that -ula no longer gives are withdrawn at once.
WithdrawULA(s) ==
    LET own      == {a \in s.previous : a.sub[1] \in Private /\ ~a.deleg}
        given(a) == /\ a.sub[1] \in s.conf.ula
                    /\ s.conf.index[a.iface] < Size[a.sub[1]]
                    /\ a.sub[2] = s.conf.index[a.iface]
        until(a) == IF a.valid = 0 THEN now + Hold ELSE Earlier(now + Hold, a.valid)
    IN  [s EXCEPT !.previous = @ \ own,
                  !.revoked = {Withdrawn(a.iface, a.sub, "ula", until(a)) :
                                 a \in {b \in own : /\ b.iface \in s.conf.lans
                                                    /\ ~given(b) /\ until(b) > now}}]

\* newStore: loadAdvertised, withdrawULA, and a first recompute where there is something to say.
Start(c) ==
    /\ ~up
    /\ up' = TRUE
    /\ LET s == WithdrawULA([EmptyStore(c) EXCEPT !.previous = file])
       IN  IF c.ula # {} \/ s.revoked # {}
           THEN Recomputed(s, TRUE)
           ELSE store' = Timed(s, TRUE) /\ UNCHANGED <<file, ch, told, taken>>
    /\ UNCHANGED <<now, view, announced, crashes>>

\* The process ends, by a crash or a restart: everything but the file is gone.
Crash ==
    /\ up /\ crashes < MaxCrashes
    /\ up' = FALSE
    /\ crashes' = crashes + 1
    /\ store' = [EmptyStore(store.conf) EXCEPT !.graceEnd = 0]
    /\ ch' = [c \in Consumers |-> <<>>]
    /\ view' = [c \in Consumers |-> <<>>]
    /\ announced' = [c \in Consumers |-> {}]
    /\ taken' = {}
    /\ UNCHANGED <<now, file, told>>

\* A timer of the store that is due.
Due(t) == up /\ t # NoTimer /\ now >= t

\* Time is counted in units long enough for a due timer to fire within one.
Tick ==
    /\ now < MaxTime
    /\ ~Due(store.expireAt) /\ ~Due(store.pubAt)
    /\ now' = now + 1
    /\ UNCHANGED <<up, store, file, ch, view, announced, crashes, told, taken>>

Init ==
    /\ now = 0 /\ up = FALSE /\ crashes = 0
    /\ \E c \in Configs : store = [EmptyStore(c) EXCEPT !.graceEnd = 0]
    /\ file = {} /\ told = {} /\ taken = {}
    /\ ch = [c \in Consumers |-> <<>>]
    /\ view = [c \in Consumers |-> <<>>]
    /\ announced = [c \in Consumers |-> {}]

Next ==
    \/ \E x \in Sources : \E u \in Offers[x] : Set(x, u)
    \/ \E x \in Extras : SetOther(x)
    \/ Expire
    \/ PubTimer
    \/ \E c \in Consumers : Subscribe(c) \/ Serve(c) \/ Take(c) \/ Periodic(c)
    \/ \E c \in Configs : Start(c)
    \/ Crash
    \/ Tick

Spec == Init /\ [][Next]_vars

\* Time passes, the goroutine of a consumer runs, and so does the store's: a due timer does not
\* stay due.  (As each timer case of the loop leaves its timer no longer due, the last two conjuncts
\* are weak fairness of Expire and of PubTimer, in a form TLC evaluates faster.)
FairSpec ==
    /\ Spec
    /\ WF_vars(Tick)
    /\ []<>~Due(store.expireAt) /\ []<>~Due(store.pubAt)
    /\ \A c \in Consumers : WF_vars(Take(c))

-----------------------------------------------------------------------------
(***************************************************************************)
(* Properties.                                                              *)
(***************************************************************************)
LanEntry == [iface : Lans, sub : Subnets, pref : Nat, valid : Nat, src : {"pd", "ra", "ula"},
             dep : BOOLEAN, stale : BOOLEAN, deleg : BOOLEAN]
WanItem  == [p : Prefixes, src : {"pd", "ra"}, pref : Nat, valid : Nat,
             dep : BOOLEAN, stale : BOOLEAN]
Record   == [iface : Lans, sub : Subnets, deleg : BOOLEAN, valid : Nat]
Snapshot == [source : Sources \cup {""}, lan : SUBSET LanEntry, wan : SUBSET WanItem,
             subnet : Subnets \cup {<<>>}, info : Infos, extra : Extras \cup {NoInfo},
             noRouter : BOOLEAN, pdPending : BOOLEAN, change : None..Revoke]
Store    == [conf : Configs, graceEnd : Nat, sources : [Sources -> Update], ulaPD : SUBSET Given,
             extra : Extras \cup {NoInfo}, cur : Snapshot, revoked : SUBSET LanEntry,
             revokedW : SUBSET WanItem, previous : SUBSET Record, pending : None..Revoke,
             pubAt : Nat \cup {NoTimer}, expireAt : Nat \cup {NoTimer}]

\* The type of the state: the store is a Store of the code's fields, whose prefixes name the source
\* they stand for, and the file holds records of LAN prefixes.
TypeOK ==
    /\ now \in Nat /\ up \in BOOLEAN
    /\ store \in Store
    /\ file \subseteq Record

\* A /64 is in the snapshot once: never live on two segments, never both in use and withdrawn
\* (the maps active and revoked of recompute, which the RA server sends side by side).
OneEntryPerSubnet ==
    \A e, f \in store.cur.lan : e.sub = f.sub => e = f

\* The inductive form of OneEntryPerSubnet: what a recompute reads names each prefix or /64 once,
\* and the line's prefixes and the ULAs do not mix.
OnePerSub(es) == \A e, f \in es : e.sub = f.sub => e = f
OnePerPrefix(qs) == \A q, r \in qs : q.p = r.p => q = r

Consistent(s) ==
    /\ \A x \in Sources : /\ OnePerPrefix(s.sources[x].ps)
                          /\ \A q \in s.sources[x].ps : q.p \notin Private
    /\ OnePerPrefix(s.ulaPD) /\ \A q \in s.ulaPD : q.p \in Private
    /\ OnePerSub(s.cur.lan) /\ OnePerSub(s.revoked) /\ OnePerSub(s.previous)

StoreInv == TypeOK /\ Consistent(store) /\ OnePerSub(file)

\* The expiry timer never oversleeps: it is set no later than the end of every hold period, though
\* five of the loop's cases recompute without setting it.
ExpiryArmed ==
    \A r \in store.revoked \cup store.revokedW :
        store.expireAt # NoTimer /\ store.expireAt <= r.valid

\* The inductive form of ExpiryArmed, of store s at time t.  What the source in effect gives for
\* the LAN, and whether it waits for PD.
LinePs(s)     == IF PickSource(s) = "" THEN {} ELSE s.sources[PickSource(s)].ps
Waiting(s, t) == PickSource(s) = "ra" /\ ~s.sources["pd"].set /\ t < s.graceEnd
UsedPs(s, t)  == IF Waiting(s, t) THEN {} ELSE LinePs(s)

Gives(qs, p, valid) == \E q \in qs : q.p = p /\ q.valid = valid

\* A prefix of the snapshot that its source still gives, for the same time.
Carved(sub, l, s) == l \in s.conf.lans /\ sub[2] = s.conf.index[l] /\ sub[2] < Size[sub[1]]
Backed(e, s, t) ==
    /\ Carved(e.sub, e.iface, s)
    /\ \/ Gives(UsedPs(s, t), e.sub[1], e.valid)
       \/ e.sub[1] \in s.conf.ula
       \/ s.conf.ula = {} /\ Gives(s.ulaPD, e.sub[1], e.valid)
BackedW(w, s) == Gives(LinePs(s) \cup s.sources["ra"].ps, w.p, w.valid)

\* Whatever is in the snapshot is withdrawn, or still given; so only an update withdraws anything,
\* but for the record from before a restart, which the end of the wait for PD may.
Settled(s, t) ==
    /\ s.revoked \subseteq s.cur.lan /\ \A r \in s.revoked : r.stale /\ r.dep
    /\ \A e \in s.cur.lan : e \in s.revoked \/ (~e.stale /\ Backed(e, s, t))
    /\ \A w \in s.cur.wan : w.dep \/ BackedW(w, s)
    /\ \A r \in s.revokedW : r.dep

By(s, t) == s.expireAt # NoTimer /\ s.expireAt <= t
Armed(s, t) ==
    /\ ~s.sources["pd"].set /\ t < s.graceEnd => By(s, s.graceEnd)
    /\ s.previous # {} /\ UsedPs(s, t) # {} => By(s, t)
    /\ \A r \in s.revoked \cup s.revokedW : By(s, r.valid)

ArmedInv == StoreInv /\ Settled(store, now) /\ Armed(store, now)

\* What EarlyPDRevokesNothing needs besides: there is a grace with -wan-prefer pd only, and a
\* delegated ULA once PD has concluded.
GraceInv ==
    /\ ArmedInv
    /\ store.graceEnd # 0 => Prefer = "pd"
    /\ store.ulaPD # {} => store.sources["pd"].set

\* What NothingDropped needs besides: the file has what the last publication that was recorded told
\* the LAN, with its end but for this router's own ULA.
Recalls(b, a) ==
    /\ b.sub = a.sub /\ b.iface = a.iface
    /\ b.valid = a.valid \/ (b.valid = 0 /\ b.sub[1] \in Private /\ ~b.deleg)

RecordInv ==
    /\ ArmedInv
    /\ \A e \in store.cur.lan : IsOwnUla(e) /\ ~e.stale => e.sub[1] \in Private
    /\ \A a \in told : a.rec => \E b \in file : Recalls(b, a)

\* What consumer c will have once it has emptied its channel.
Newest(c) == IF ch[c] # <<>> THEN ch[c][1] ELSE view[c][1]

\* No consumer is left behind: unless a publication is due, each one has, or will take from its
\* channel, every prefix in use or withdrawn, with its lifetimes (recompute's "nothing material
\* changed" and the settle period lose nothing).
NewestCoversCur ==
    \A c \in Consumers : store.pubAt = NoTimer /\ Subscribed(c) =>
        \A e \in store.cur.lan : ~e.dep \/ e.stale =>
            \E f \in Newest(c).lan :
                /\ f.iface = e.iface /\ f.sub = e.sub /\ f.stale = e.stale
                /\ SameLifetimes(e, f) \/ IsOwnUla(e)

\* What hosts may still have, and must not be left with: the prefixes in use and withdrawn, and the
\* record from before a restart as far as nothing has taken its place; while the program is down,
\* what the last publication that was recorded told the LAN.
Owed ==
    IF up THEN {e \in store.cur.lan : ~e.dep \/ e.stale}
               \cup {a \in store.previous : \A e \in store.cur.lan : e.sub # a.sub}
    ELSE {a \in told : a.rec}

Accounted(a, s) ==
    \/ \E e \in s.cur.lan : e.sub = a.sub
    \/ \E r \in s.previous : r.sub = a.sub

\* A prefix hosts may still have is never just dropped, by a source change, the end of a wait or a
\* restart: it stays in use, is withdrawn explicitly, or waits in the record for the line's answer.
\* Left out are one the line deprecated first (DeprecatedWithdrawn), and the segment a /64 moved
\* away from (MovedSubnetWithdrawn).
NothingDropped ==
    [][up' => \A a \in Owed : a.valid > now' /\ a.iface \in store'.conf.lans => Accounted(a, store')]_vars

\* A withdrawn prefix is advertised until the end of its hold period, unless it is given again, or
\* withdrawn again because the record from before a restart has it too.
StaleHeld ==
    [][up /\ up' => \A e \in store.cur.lan : e.stale /\ e.valid > now' =>
            \/ e \in store'.cur.lan
            \/ \E f \in store'.cur.lan :
                  f.sub = e.sub /\ (~f.stale \/ \E a \in store.previous : a.sub = e.sub)]_vars

\* The startup grace does its work: PD concluding within it takes no prefix from the LAN but those
\* recorded before the restart (Store.pdGrace: "an RA arriving a second early does not get
\* advertised and then revoked").
EarlyPDRevokesNothing ==
    [][up /\ up' /\ ~store.sources["pd"].set /\ now < store.graceEnd /\ store'.sources["pd"].set =>
         \A e \in store'.cur.lan : e.stale =>
            e \in store.cur.lan \/ \E a \in store.previous : a.sub = e.sub]_vars

\* A snapshot put in a channel is labelled with the strongest change since the one before it: the
\* consumers that act on "add" and "revoke" alone hear of every prefix that came into use or was
\* withdrawn, whatever followed in the settle period.
LabelTellsChange ==
    [][\A c \in Consumers : Subscribed(c) /\ ch'[c] # <<>> /\ ch'[c] # ch[c] =>
         LET old == Newest(c).lan
             new == ch'[c][1].lan
         IN  /\ (\E e \in new : e.stale /\ \A o \in old : ~(o.sub = e.sub /\ o.stale))
                   => ch'[c][1].change \in {Add, Revoke}
             /\ (\E e \in new : ~e.dep /\ \A o \in old : ~(o.sub = e.sub /\ ~o.dep))
                   => ch'[c][1].change \in {Add, Revoke}]_vars

\* The inductive form of NewestCoversCur and LabelTellsChange.  In the snapshot this router's own
\* ULA is never withdrawn, and is deprecated only if it never was preferred; what a consumer has
\* not heard of yet is announced in the pending change.
OwnEntries(s) ==
    \A e \in s.cur.lan :
        IF e.stale
        THEN ~(e.sub[1] \in s.conf.ula /\ \E l \in s.conf.lans : Carved(e.sub, l, s))
        ELSE /\ e.sub[1] \in s.conf.ula <=> IsOwnUla(e)
             /\ IsOwnUla(e) => e.dep = (UlaPref = 0)

Unheard(old, new) ==
    \/ \E e \in new : e.stale /\ \A o \in old : ~(o.sub = e.sub /\ o.stale)
    \/ \E e \in new : ~e.dep /\ \A o \in old : ~(o.sub = e.sub /\ ~o.dep)

Channel == {<<>>} \cup {<<x>> : x \in Snapshot}

FeedInv ==
    /\ ArmedInv
    /\ OwnEntries(store)
    /\ ch \in [Consumers -> Channel] /\ view \in [Consumers -> Channel]
    /\ ~up => \A c \in Consumers : ~Subscribed(c)
    /\ NewestCoversCur
    /\ \A c \in Consumers : Subscribed(c) /\ Unheard(Newest(c).lan, store.cur.lan)
                              => store.pending \in {Add, Revoke}

\* A withdrawn prefix leaves the snapshot every RA server works with.
StaleLeaves ==
    \A c \in Consumers : <>[](view[c] # <<>> => \A e \in view[c][1].lan : ~e.stale)

\* Without PD, an RA prefix reaches the LAN once the grace is over (the expiry timer also wakes
\* for it), unless it runs out or something else takes its place.
RAReachesLAN ==
    \A c \in Consumers : \A q \in Prefixes :
        (view[c] # <<>> /\ PickSource(store) = "ra" /\ \E g \in store.sources["ra"].ps : g.p = q)
        ~> \/ view[c] # <<>> /\ \E e \in view[c][1].lan : e.sub[1] = q
           \/ PickSource(store) # "ra"
           \/ \A g \in store.sources["ra"].ps : g.p = q => g.valid <= now

(***************************************************************************)
(* What the documentation says, and the code does not do.                   *)
(***************************************************************************)
\* standards.md, RFC 9096 L-13: the recorded prefixes are withdrawn after a restart.  The /64 a
\* segment had must be withdrawn there even where another segment has it now.
MovedSubnetWithdrawn ==
    [][up' /\ store'.previous = {} => \A a \in told : (a.rec /\ a.pref > now' /\ a.valid > now' /\ a.iface \in store'.conf.lans)
           => \E e \in store'.cur.lan : e.iface = a.iface /\ e.sub = a.sub]_vars

\* prefix.go, Store.file: "The LAN prefixes are recorded here, so that those gone after a restart
\* are still withdrawn": what was published is accounted for, recorded or not.
PublishedIsRecorded ==
    [][up' => \A a \in told : (a.pref > now' /\ a.valid > now' /\ a.iface \in store'.conf.lans)
                              => Accounted(a, store')]_vars

\* standards.md, RFC 9096: "a prefix that comes back is never taken from the hosts".
NeverTakenFromHosts ==
    \A e \in store.cur.lan : <<e.iface, e.sub>> \in taken => e.stale

\* standards.md, RFC 9096: "Advertise a stale prefix with preferred and valid lifetime 0, for as
\* long as hosts may hold it": a deprecated prefix that leaves the snapshot early is withdrawn too.
DeprecatedWithdrawn ==
    [][up /\ up' => \A e \in store.cur.lan : e.valid > now' =>
            \E f \in store'.cur.lan : f.sub = e.sub]_vars

\* standards.md, RFC 7084 L-13: "A replaced prefix is advertised at once with preferred lifetime
\* 0": an RA server that has the snapshot of a withdrawal has sent it.
WithdrawalSentAtOnce ==
    \A c \in Consumers : view[c] # <<>> =>
        \A e \in OnLink(c, view[c][1]) : e.stale => e \in announced[c]
=============================================================================
