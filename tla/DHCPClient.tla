----------------------------- MODULE DHCPClient -----------------------------
(***************************************************************************)
(* The DHCPv6 client on the WAN (dhcp6c.go): one goroutine that solicits,   *)
(* requests, renews and rebinds a binding of delegated prefixes and WAN     *)
(* addresses, keeps the kernel's addresses and the prefix store in step     *)
(* with it, and keeps it over a link that goes away.                        *)
(*                                                                          *)
(* pc is where the goroutine waits; a step reads one thing it waits for,    *)
(* and everything the code does until it waits again.  Retransmission is    *)
(* left out: an exchange ends with an answer, with its time or attempts     *)
(* used up, with a link event, or with the program.  A message with another *)
(* transaction ID is dropped by exchange, so an answer is to the exchange   *)
(* under way.  The age of the binding stands for the clock.                 *)
(***************************************************************************)
EXTENDS Integers, Sequences, FiniteSets

CONSTANTS
    Grants,       \* what a Reply may bind: records [pd, na], sets of prefixes and addresses
    InUse,        \* WAN addresses another node on the link has
    T1, T2, Valid,\* when a binding is to be renewed and rebound, and ends
    LinkCap,      \* 8: the capacity of the channel of link events
    Hinted,       \* -dhcp6c-pd-len > 0
    RaOther,      \* the upstream RA has the O bit only
    ReleaseOn,    \* -dhcp6c-release
    Answers,      \* whether servers answer a Solicit at all
    MayCancel,    \* whether the program may be told to end
    Notices       \* link events that are no change: "same", the state again; "reader", a read failed

ASSUME ClientAssumption ==
    /\ \A g \in Grants : g.pd # {} \/ g.na # {}
    /\ T1 \in Nat /\ T2 \in Nat /\ Valid \in Nat /\ T1 <= T2 /\ T2 <= Valid
    /\ LinkCap \in Nat \ {0}
    /\ {Hinted, RaOther, ReleaseOn, Answers, MayCancel} \subseteq BOOLEAN
    /\ Notices \subseteq {"same", "reader"}

VARIABLES
    pc,        \* where the client waits
    back,      \* the exchange whose Reply is being bound: "request" or "bound"
    lease,     \* cycle's lease: [on, pd, na, age]
    na,        \* c.naAddrs
    fresh,     \* c.fresh
    pub,       \* the prefixes of the last update of the store's source "pd"
    kaddr,     \* the client's addresses on the WAN interface
    iface,     \* whether the interface is up
    link,      \* c.link, the channel of link events: TRUE for up
    linkUp,    \* c.linkUp
    lost,      \* history: a link event was dropped
    reconfirm, \* c.reconfirm: "none", or where the client was when it was posted
    reconfig,  \* c.reconfig: a Reconfigure was verified
    infoOnly,  \* c.infoOnly
    unhinted,  \* c.unhinted
    ctx,       \* the context is cancelled
    due,       \* history: the link went down under the binding, which nothing confirmed since
    released   \* history: a Release was sent

binding == <<lease, na, fresh, pub, kaddr>>
line    == <<iface, link, linkUp, lost>>
posts   == <<reconfirm, reconfig>>
mode    == <<infoOnly, unhinted>>
exit    == <<ctx, released>>
vars    == <<pc, back, binding, line, posts, mode, exit, due>>

NoLease == [on |-> FALSE, pd |-> {}, na |-> {}, age |-> 0]
Nothing == [pd |-> {}, na |-> {}]

Exchanges == {"solicit", "request", "renew", "rebind", "reconfirm", "rejoinx", "confirm", "decline",
              "info", "release"}
Waits     == {"waitup", "refused", "nobind", "dad", "bound", "rejoin", "infowait", "done"}

(***************************************************************************)
(* The binding.                                                             *)
(***************************************************************************)
\* Faulty variant: the store is not told.
ClearLeaseUntold ==
    /\ lease' = NoLease /\ na' = {} /\ kaddr' = kaddr \ na
    /\ UNCHANGED <<fresh, pub>>

\* clearLease
ClearLease ==
    /\ lease' = NoLease /\ na' = {} /\ kaddr' = kaddr \ na /\ pub' = {}
    /\ UNCHANGED fresh

\* Faulty variant: addresses no longer assigned stay.
ApplyKeepsOld(g) ==
    /\ lease' = IF g = Nothing THEN NoLease ELSE [on |-> TRUE, pd |-> g.pd, na |-> g.na, age |-> 0]
    /\ kaddr' = kaddr \cup g.na
    /\ fresh' = g.na \ na
    /\ na' = g.na
    /\ pub' = g.pd

\* apply: the addresses of the Reply are set, those no longer assigned removed, the store is told.
Apply(g) ==
    /\ lease' = IF g = Nothing THEN NoLease ELSE [on |-> TRUE, pd |-> g.pd, na |-> g.na, age |-> 0]
    /\ kaddr' = (kaddr \ (na \ g.na)) \cup g.na
    /\ fresh' = g.na \ na
    /\ na' = g.na
    /\ pub' = g.pd

\* A refusal of everything: once more without the length hint, then Information-Request on a line
\* whose RA has the O bit only, else a wait that grows up to an hour.
Refused ==
    IF Hinted /\ ~unhinted
    THEN pc' = "waitup" /\ unhinted' = TRUE /\ UNCHANGED infoOnly
    ELSE IF RaOther /\ ~infoOnly
    THEN pc' = "waitup" /\ infoOnly' = TRUE /\ UNCHANGED unhinted
    ELSE pc' = "refused" /\ unhinted' = FALSE /\ UNCHANGED infoOnly

\* fallbackInfo
FallbackInfo == infoOnly' = (infoOnly \/ RaOther) /\ UNCHANGED unhinted

\* bind of a Reply with something in it, asked for in state from: bound, or first DAD.
Bind(g, from) ==
    /\ Apply(g) /\ due' = FALSE
    /\ IF g.na \ na = {} THEN pc' = "bound" /\ UNCHANGED back
                         ELSE pc' = "dad" /\ back' = from
    /\ UNCHANGED mode

\* A binding given up.
Unbind == ClearLease /\ due' = FALSE /\ pc' = "waitup" /\ UNCHANGED <<back, mode>>

(***************************************************************************)
(* Link events.                                                             *)
(***************************************************************************)
\* linkHub: an event for a full channel is dropped.
Post(u) ==
    IF Len(link) < LinkCap THEN link' = Append(link, u) /\ UNCHANGED lost
                           ELSE lost' = TRUE /\ UNCHANGED link

\* The interface goes down, and the kernel flushes its addresses, or comes up.
LinkFlip ==
    /\ iface' = ~iface
    /\ Post(~iface)
    /\ kaddr' = IF iface THEN {} ELSE kaddr
    /\ UNCHANGED <<pc, back, lease, na, fresh, pub, linkUp, posts, mode, exit, due>>

\* netlink reports any change of the interface, its state the same as before; the reader of a
\* socket that fails reports the link down.
LinkNotice ==
    /\ \/ "same" \in Notices /\ Post(iface)
       \/ "reader" \in Notices /\ pc # "done" /\ Post(FALSE)
    /\ UNCHANGED <<pc, back, binding, iface, linkUp, posts, mode, exit, due>>

ReadLink(u) ==
    /\ link # <<>> /\ Head(link) = u
    /\ link' = Tail(link) /\ linkUp' = u
    /\ UNCHANGED <<iface, lost>>

\* waitBound and exchange go on waiting when the link is up.
ReadUp ==
    /\ pc \in Exchanges \cup {"bound", "infowait"}
    /\ ReadLink(TRUE)
    /\ UNCHANGED <<pc, back, binding, posts, mode, exit, due>>

\* Faulty variant: the event is read and forgotten.
ReadWaitingForgets ==
    /\ pc \in {"waitup", "rejoin"} /\ ~linkUp /\ link # <<>>
    /\ link' = Tail(link)
    /\ UNCHANGED <<pc, back, binding, iface, linkUp, lost, posts, mode, exit, due>>

\* waitLinkUp's first loop.
ReadWaiting ==
    /\ pc \in {"waitup", "rejoin"} /\ ~linkUp
    /\ \E u \in BOOLEAN : ReadLink(u)
    /\ UNCHANGED <<pc, back, binding, posts, mode, exit, due>>

(***************************************************************************)
(* cycle, up to the binding.                                                *)
(***************************************************************************)
\* waitLinkUp has found the interface up and opened the socket.
Begin ==
    /\ pc = "waitup" /\ linkUp /\ iface /\ ~ctx
    /\ pc' = IF infoOnly THEN "info" ELSE "solicit"
    /\ UNCHANGED <<back, binding, line, posts, mode, exit, due>>

\* The best of the Advertises of a round.
Advertised ==
    /\ pc = "solicit" /\ Answers /\ iface
    /\ pc' = "request"
    /\ UNCHANGED <<back, binding, line, posts, mode, exit, due>>

\* Only refusals; the store is told that PD has nothing.
AdvertisedNone ==
    /\ pc = "solicit" /\ Answers /\ iface
    /\ Refused
    /\ pub' = IF Hinted /\ ~unhinted THEN pub ELSE {}
    /\ UNCHANGED <<back, lease, na, fresh, kaddr, line, posts, exit, due>>

\* The link goes down before the round of Advertises is over: what came counts.
SolicitDown ==
    /\ pc = "solicit" /\ ReadLink(FALSE)
    /\ \/ Answers /\ pc' = "request" /\ UNCHANGED <<pub, mode>>
       \/ Answers /\ Refused /\ pub' = IF Hinted /\ ~unhinted THEN pub ELSE {}
       \/ pc' = "waitup" /\ FallbackInfo /\ UNCHANGED pub
    /\ UNCHANGED <<back, lease, na, fresh, kaddr, posts, exit, due>>

\* The Reply to a Request binds, refuses everything, or neither.
Requested ==
    /\ pc = "request" /\ iface
    /\ \/ \E g \in Grants : Bind(g, "request")
       \/ /\ Apply(Nothing)
          /\ Refused \/ (FallbackInfo /\ pc' = "nobind")
          /\ UNCHANGED <<back, due>>
    /\ UNCHANGED <<line, posts, exit>>

\* Request's retransmissions are used up, or the link goes down.
RequestFails ==
    /\ pc = "request"
    /\ UNCHANGED line \/ ReadLink(FALSE)
    /\ pc' = "waitup"
    /\ UNCHANGED <<back, binding, posts, mode, exit, due>>

\* refusedWait, or the wait after a Reply with nothing, is over.
WaitOver ==
    /\ pc \in {"refused", "nobind"}
    /\ pc' = "waitup"
    /\ UNCHANGED <<back, binding, line, posts, mode, exit, due>>

\* awaitDAD: an address that failed, or is gone from an interface that is up, is another node's; it
\* gives up on an interface that is down, after 10 s, or with the context.
Failed == {a \in fresh : a \notin kaddr \/ a \in InUse}

AwaitDAD ==
    /\ pc = "dad" /\ iface /\ ~ctx
    /\ IF Failed = {} THEN pc' = "bound" /\ UNCHANGED <<lease, na, kaddr>>
       ELSE /\ lease' = [lease EXCEPT !.na = @ \ Failed]
            /\ na' = na \ Failed
            /\ kaddr' = kaddr \ Failed
            /\ pc' = "decline"
    /\ UNCHANGED <<back, fresh, pub, line, posts, mode, exit, due>>

DADGivesUp ==
    /\ pc = "dad"
    /\ pc' = "bound"
    /\ UNCHANGED <<back, binding, line, posts, mode, exit, due>>

\* decline ends with a Reply, its attempts, the link or the context, and bind with what is left.
Declined ==
    /\ pc = "decline"
    /\ \/ UNCHANGED line /\ UNCHANGED due
       \/ ReadLink(FALSE) /\ due' = TRUE
    /\ \/ lease.pd \cup lease.na # {} /\ pc' = "bound" /\ UNCHANGED <<back, binding, mode>>
       \/ /\ lease.pd \cup lease.na = {} /\ back = "request"
          /\ lease' = NoLease /\ FallbackInfo /\ pc' = "nobind"
          /\ UNCHANGED <<back, na, fresh, pub, kaddr>>
       \/ /\ lease.pd \cup lease.na = {} /\ back = "bound"
          /\ ClearLease /\ pc' = "waitup" /\ UNCHANGED <<back, mode>>
    /\ UNCHANGED <<posts, exit>>

(***************************************************************************)
(* cycle, bound.                                                            *)
(***************************************************************************)
\* waitBound: T1, or a Reconfigure.
Renew ==
    /\ pc = "bound"
    /\ \/ lease.age >= T1 /\ UNCHANGED reconfig
       \/ reconfig /\ reconfig' = FALSE
    /\ pc' = "renew"
    /\ UNCHANGED <<back, binding, line, reconfirm, mode, exit, due>>

Reconfirmed ==
    /\ pc = "bound" /\ reconfirm # "none"
    /\ reconfirm' = "none"
    /\ pc' = "reconfirm"
    /\ UNCHANGED <<back, binding, line, reconfig, mode, exit, due>>

\* The Reply to a Renew or Rebind.
Renewed ==
    /\ pc \in {"renew", "rebind", "reconfirm", "rejoinx"} /\ iface
    /\ \/ \E g \in Grants : Bind(g, "bound")
       \/ /\ Apply(Nothing) /\ due' = FALSE
          /\ pc' = "waitup" /\ UNCHANGED <<back, mode>>
    /\ UNCHANGED <<line, posts, exit>>

\* A Renew that nobody answers by T2 becomes a Rebind.
RenewTimeout ==
    /\ pc = "renew" /\ lease.age >= T2 /\ ~ctx
    /\ pc' = "rebind"
    /\ UNCHANGED <<back, binding, line, posts, mode, exit, due>>

\* A Rebind fails at the end of the lease, or 30 s after a reconfirmation.
RebindTimeout ==
    /\ (pc = "rebind" /\ lease.age >= Valid) \/ pc = "reconfirm"
    /\ Unbind
    /\ UNCHANGED <<line, posts, exit>>

\* The link goes down under a Rebind.
RebindDown ==
    /\ pc \in {"rebind", "reconfirm"}
    /\ ReadLink(FALSE) /\ Unbind
    /\ UNCHANGED <<posts, exit>>

(***************************************************************************)
(* rejoin.                                                                  *)
(***************************************************************************)
\* The link goes down under the binding.
BoundDown ==
    /\ pc \in {"bound", "renew", "rejoinx", "confirm"} /\ ReadLink(FALSE)
    /\ pc' = "rejoin" /\ due' = TRUE
    /\ UNCHANGED <<back, binding, posts, mode, exit>>

\* Faulty variant: the addresses are not set again.
RejoinUnrestored ==
    /\ pc = "rejoin" /\ linkUp /\ (iface \/ lease.age >= Valid) /\ ~ctx
    /\ pc' = IF lease.pd = {} THEN "confirm" ELSE "rejoinx"
    /\ UNCHANGED <<back, binding, line, posts, mode, exit, due>>

\* The link is back: the addresses still valid are set again, and the binding is put to the server.
\* waitLinkUp also ends with the lease, the interface up or not.
Rejoin ==
    /\ pc = "rejoin" /\ linkUp /\ (iface \/ lease.age >= Valid) /\ ~ctx
    /\ kaddr' = IF lease.age < Valid THEN kaddr \cup lease.na ELSE kaddr
    /\ pc' = IF lease.pd = {} THEN "confirm" ELSE "rejoinx"
    /\ UNCHANGED <<back, lease, na, fresh, pub, line, posts, mode, exit, due>>

\* rejoin returns nothing: cycle clears the binding, unless the program ends.
RejoinEnds ==
    \/ ~ctx /\ Unbind
    \/ ctx /\ pc' = "done" /\ UNCHANGED <<back, binding, mode, due>>

\* The lease ends before the link is back.
RejoinExpired ==
    /\ pc = "rejoin" /\ ~linkUp /\ lease.age >= Valid
    /\ RejoinEnds
    /\ UNCHANGED <<line, posts, exit>>

\* No answer within 10 s: the binding is kept as it was.  A Confirm may be answered, too.
RejoinKeeps ==
    /\ pc \in {"rejoinx", "confirm"}
    /\ pc' = "bound" /\ due' = FALSE
    /\ UNCHANGED <<back, binding, line, posts, mode, exit>>

\* The server says the addresses are not on this link.
NotOnLink ==
    /\ pc = "confirm" /\ iface
    /\ RejoinEnds
    /\ UNCHANGED <<line, posts, exit>>

(***************************************************************************)
(* infoCycle.                                                               *)
(***************************************************************************)
Informed ==
    /\ pc = "info" /\ iface
    /\ pc' = "infowait" /\ pub' = {}
    /\ UNCHANGED <<back, lease, na, fresh, kaddr, line, posts, mode, exit, due>>

\* Whatever waitBound returns, and a link that goes down in the exchange, begins a new cycle.
InfoOver ==
    /\ \/ pc = "infowait" /\ UNCHANGED <<line, posts>>
       \/ pc = "infowait" /\ reconfirm # "none" /\ reconfirm' = "none" /\ UNCHANGED <<line, reconfig>>
       \/ pc = "infowait" /\ reconfig /\ reconfig' = FALSE /\ UNCHANGED <<line, reconfirm>>
       \/ pc \in {"info", "infowait"} /\ ReadLink(FALSE) /\ UNCHANGED posts
    /\ pc' = "waitup"
    /\ UNCHANGED <<back, binding, mode, exit, due>>

(***************************************************************************)
(* The end of the program.                                                  *)
(***************************************************************************)
Cancel ==
    /\ MayCancel /\ ~ctx
    /\ ctx' = TRUE
    /\ UNCHANGED <<pc, back, binding, line, posts, mode, released, due>>

\* Faulty variant: waitLinkUp waits for the link alone.
CancelWaitingRejoinOnly ==
    /\ ctx /\ pc = "rejoin"
    /\ pc' = "done"
    /\ UNCHANGED <<back, binding, line, posts, mode, exit, due>>

\* waitLinkUp, in cycle and in rejoin.
CancelWaiting ==
    /\ ctx /\ pc \in {"waitup", "rejoin"}
    /\ pc' = "done"
    /\ UNCHANGED <<back, binding, line, posts, mode, exit, due>>

\* waitBound: release, with a timeout of its own, or nothing.
CancelBound ==
    /\ ctx /\ pc = "bound"
    /\ IF ReleaseOn THEN pc' = "release" /\ released' = TRUE
                    ELSE pc' = "done" /\ UNCHANGED released
    /\ UNCHANGED <<back, binding, line, posts, mode, ctx, due>>

\* The other waits: cycle returns, from a Rebind through clearLease.
CancelExchange ==
    /\ ctx
    /\ \/ /\ pc \in {"solicit", "request", "refused", "nobind", "info", "infowait"}
          /\ pc' = "waitup" /\ UNCHANGED <<back, binding, mode, due>>
       \/ /\ pc \in {"renew", "rejoinx", "confirm"}
          /\ pc' = "done" /\ UNCHANGED <<back, binding, mode, due>>
       \/ pc \in {"rebind", "reconfirm"} /\ Unbind
    /\ UNCHANGED <<line, posts, exit>>

\* release ends: a Reply clears the binding.
Released ==
    /\ pc = "release" /\ pc' = "done"
    /\ \/ ClearLease /\ UNCHANGED line
       \/ UNCHANGED <<binding, line>>
       \/ ReadLink(FALSE) /\ UNCHANGED binding
    /\ UNCHANGED <<back, posts, mode, exit, due>>

(***************************************************************************)
(* The world around.                                                        *)
(***************************************************************************)
\* Reconfirm: the RA client saw other prefixes; a channel of capacity 1 holds the request.
Reconfirm ==
    /\ reconfirm = "none" /\ pc # "done"
    /\ reconfirm' = IF pc = "bound" THEN "bound" ELSE "unbound"
    /\ UNCHANGED <<pc, back, binding, line, reconfig, mode, exit, due>>

\* handleUnsolicited: a verified Reconfigure, in waitBound and in exchange.
Reconfigure ==
    /\ pc \in Exchanges \cup {"bound", "infowait"} /\ iface /\ ~reconfig
    /\ reconfig' = TRUE
    /\ UNCHANGED <<pc, back, binding, line, reconfirm, mode, exit, due>>

\* The binding ages; the kernel removes addresses that are no longer valid.
Tick ==
    /\ lease.on /\ lease.age < Valid
    /\ lease' = [lease EXCEPT !.age = @ + 1]
    /\ kaddr' = IF lease.age + 1 >= Valid THEN kaddr \ lease.na ELSE kaddr
    /\ UNCHANGED <<pc, back, na, fresh, pub, line, posts, mode, exit, due>>

Init ==
    /\ pc = "waitup" /\ back = "request"
    /\ lease = NoLease /\ na = {} /\ fresh = {} /\ pub = {} /\ kaddr = {}
    /\ iface = TRUE /\ link = <<>> /\ linkUp = TRUE /\ lost = FALSE
    /\ reconfirm = "none" /\ reconfig = FALSE
    /\ infoOnly \in BOOLEAN /\ unhinted = FALSE    \* TRUE with a prefix configured by hand
    /\ ctx = FALSE /\ released = FALSE /\ due = FALSE

Read     == ReadUp \/ ReadWaiting \/ BoundDown \/ RebindDown \/ SolicitDown
Timeouts == RequestFails \/ WaitOver \/ DADGivesUp \/ RenewTimeout \/ RebindTimeout \/ RejoinExpired
            \/ RejoinKeeps \/ Renew \/ Reconfirmed \/ InfoOver \/ Declined \/ Released
Proceed  == Begin \/ AwaitDAD \/ Rejoin
Servers  == Advertised \/ AdvertisedNone \/ Requested \/ Renewed \/ NotOnLink \/ Informed
Cancels  == CancelWaiting \/ CancelBound \/ CancelExchange
World    == LinkFlip \/ LinkNotice \/ Reconfirm \/ Reconfigure \/ Cancel \/ Tick

Next == Read \/ Timeouts \/ Proceed \/ Servers \/ Cancels \/ World

Spec == Init /\ [][Next]_vars

\* Time passes and timers fire.  Go's select chooses at random among what is ready, so the context's
\* end, ready again and again, is taken; so is a link event.  A server that answers at all answers an
\* exchange that is repeated for ever.
Granted == Requested /\ lease'.on
Fairness ==
    /\ WF_vars(Tick) /\ WF_vars(Timeouts) /\ WF_vars(Proceed)
    /\ SF_vars(Read) /\ SF_vars(Cancels)
    /\ SF_vars(Advertised) /\ SF_vars(Granted) /\ SF_vars(Informed)

FairSpec == Spec /\ Fairness

-----------------------------------------------------------------------------
(***************************************************************************)
(* Properties.                                                              *)
(***************************************************************************)
Prefixes  == UNION {g.pd : g \in Grants}
Addresses == UNION {g.na : g \in Grants}

\* The type of the state; the channel of link events is never over its capacity.
TypeOK ==
    /\ pc \in Exchanges \cup Waits /\ back \in {"request", "bound"}
    /\ lease \in [on : BOOLEAN, pd : SUBSET Prefixes, na : SUBSET Addresses, age : 0..Valid]
    /\ na \subseteq Addresses /\ fresh \subseteq Addresses /\ kaddr \subseteq Addresses
    /\ pub \subseteq Prefixes
    /\ {iface, linkUp, lost, reconfig, infoOnly, unhinted, ctx, due, released} \subseteq BOOLEAN
    /\ link \in Seq(BOOLEAN) /\ Len(link) <= LinkCap
    /\ reconfirm \in {"none", "bound", "unbound"}

\* The store has the prefixes of the binding, and none without one, whichever of its many ways cycle
\* took: a delegation the client gave up must not stay on the LAN.
StoreInStep == pub = lease.pd /\ (~lease.on => lease = NoLease)

\* The WAN interface has no address the client does not hold.
AddrsInStep == na = lease.na /\ kaddr \subseteq na

\* The addresses a link flushed are back once the client has noticed ("they are still ours until a
\* Reply says otherwise").
AddrsRestored ==
    pc = "bound" /\ iface /\ link = <<>> /\ ~lost /\ ~due /\ lease.age < Valid => lease.na \subseteq kaddr

\* The inductive form of AddrsRestored: while the client runs and no event is lost, valid addresses
\* are missing only with a link-down still to be read, in rejoin, or after decline read one.
Missing   == lease.age < Valid /\ ~(lease.na \subseteq kaddr)
DownAhead == \E i \in 1..Len(link) : ~link[i]
Accounted == DownAhead \/ pc = "rejoin" \/ (due /\ pc \notin {"rejoinx", "confirm"})

MissingAccounted == pc # "done" /\ ~lost /\ Missing => Accounted

\* The client ends when the program does, wherever it waits: for a link that is down, a server that
\* is silent, or an hour after a refusal.
Exits == ctx ~> pc = "done"

\* While no link event is lost, a link that stays up has the client bound, or informed, again and
\* again, whatever the link did before.
Recovers ==
    <>[](iface /\ ~lost /\ ~ctx) => []<>(pc \in {"bound", "infowait"})

(***************************************************************************)
(* What comments and docs say, and the code does not do.                    *)
(***************************************************************************)
\* Reconfirm: "Ignored when not bound."
IgnoredWhenNotBound ==
    [][pc = "bound" /\ pc' = "reconfirm" => reconfirm = "bound"]_vars

\* "-dhcp6c-release gives it back on exit instead."
GivenBackOnExit == ReleaseOn /\ pc = "done" /\ lease.on => released

\* rejoin: "keeps the binding while the link is down".  A link-down the client reads ends no
\* binding that is still valid.
KeptWhileDown ==
    [][lease.on /\ lease.age < Valid /\ link # <<>> /\ ~Head(link) /\ link' = Tail(link) => lease'.on]_vars

\* rejoin: "and confirms it once the link is back".
ConfirmedOnceBack == pc = "bound" => ~due

\* bind: "declines those another node already uses".
DeclinesOnlyInUse == pc = "decline" => fresh \ na \subseteq InUse

\* waitLinkUp: "blocks until the link is back".
UntilLinkIsBack == <>[](iface /\ ~ctx) => []<>(pc \notin {"waitup", "rejoin"})

\* fallbackInfo: "falls back to Information-Request ... when the upstream RA has only the O bit and
\* PD probing got nothing".
FallsBack == RaOther /\ ~Answers /\ <>[](iface /\ ~ctx) => <>(pc = "infowait" \/ lost)
=============================================================================
