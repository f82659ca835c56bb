--------------------------- MODULE DHCPClientProofs ---------------------------
(***************************************************************************)
(* Proofs about DHCPClient, for every set of grants and every timing: the   *)
(* store and the WAN interface stay in step with the binding.               *)
(***************************************************************************)
EXTENDS DHCPClient, TLAPS

\* The states of cycle that come before a binding.
Unbound == {"waitup", "solicit", "request", "refused", "nobind", "info", "infowait"}

\* What the client has of the binding, without the channels and the history.
Held ==
    /\ lease.on \in BOOLEAN
    /\ lease = [on |-> lease.on, pd |-> lease.pd, na |-> lease.na, age |-> lease.age]

\* The inductive invariant: before a binding there is none, so what cycle tells the store when
\* servers refuse, or in infoCycle, takes nothing away.
ClientInv ==
    /\ Held
    /\ StoreInStep
    /\ AddrsInStep
    /\ pc \in Unbound => ~lease.on

\* The invariant holds at first.
LEMMA ClientInit == Init => ClientInv
  BY DEF Init, ClientInv, Held, StoreInStep, AddrsInStep, NoLease, Unbound

\* clearLease leaves no binding, no address and no prefix.
LEMMA ClearedInStep ==
  ASSUME ClientInv, ClearLease
  PROVE  ClientInv'
  BY DEF ClientInv, ClearLease, Held, StoreInStep, AddrsInStep, NoLease, Unbound

\* apply leaves the binding, the addresses and the store's prefixes of the Reply.
LEMMA AppliedInStep ==
  ASSUME ClientInv, NEW g, Apply(g), pc' \in Unbound => g = Nothing
  PROVE  ClientInv'
<1>1. CASE g = Nothing
  BY <1>1 DEF ClientInv, Apply, Held, StoreInStep, AddrsInStep, NoLease, Nothing, Unbound
<1>2. CASE g # Nothing
  BY <1>2 DEF ClientInv, Apply, Held, StoreInStep, AddrsInStep, NoLease, Nothing, Unbound
<1> QED BY <1>1, <1>2

\* A step that leaves the binding alone, and does not return to Unbound with one.
LEMMA UntouchedInStep ==
  ASSUME ClientInv, UNCHANGED binding, pc' \in Unbound => ~lease.on
  PROVE  ClientInv'
  BY DEF ClientInv, binding, Held, StoreInStep, AddrsInStep, NoLease, Unbound

\* bind of a Reply with something in it ends in "bound" or "dad".
LEMMA BoundInStep ==
  ASSUME ClientInv, NEW g \in Grants, NEW from, Bind(g, from)
  PROVE  ClientInv'
<1>1. Apply(g)
  BY DEF Bind
<1>2. pc' \notin Unbound
  BY DEF Bind, Unbound
<1> QED BY <1>1, <1>2, AppliedInStep

\* A binding given up.
LEMMA UnboundInStep ==
  ASSUME ClientInv, Unbind
  PROVE  ClientInv'
  BY ClearedInStep DEF Unbind

\* Every step keeps the store and the addresses in step with the binding.
LEMMA ClientStep == ClientInv /\ [Next]_vars => ClientInv'
<1> SUFFICES ASSUME ClientInv, [Next]_vars PROVE ClientInv'
  OBVIOUS
<1>1. CASE Read
  <2>1. CASE ReadUp
    BY <2>1, UntouchedInStep DEF ReadUp, ClientInv
  <2>2. CASE ReadWaiting
    BY <2>2, UntouchedInStep DEF ReadWaiting, ClientInv
  <2>3. CASE BoundDown
    BY <2>3, UntouchedInStep DEF BoundDown, Unbound
  <2>4. CASE RebindDown
    BY <2>4, UnboundInStep DEF RebindDown
  <2>5. CASE SolicitDown
    <3>1. UNCHANGED <<lease, na, kaddr>> /\ ~lease.on
      BY <2>5 DEF SolicitDown, ClientInv, Unbound
    <3>2. pub' = {} \/ pub' = pub
      BY <2>5 DEF SolicitDown
    <3> QED BY <3>1, <3>2 DEF ClientInv, Held, StoreInStep, AddrsInStep, NoLease
  <2> QED BY <1>1, <2>1, <2>2, <2>3, <2>4, <2>5 DEF Read
<1>2. CASE Timeouts
  <2>1. CASE RequestFails
    BY <2>1, UntouchedInStep DEF RequestFails, ClientInv, Unbound
  <2>2. CASE WaitOver
    BY <2>2, UntouchedInStep DEF WaitOver, ClientInv, Unbound
  <2>3. CASE DADGivesUp
    BY <2>3, UntouchedInStep DEF DADGivesUp, Unbound
  <2>4. CASE RenewTimeout
    BY <2>4, UntouchedInStep DEF RenewTimeout, Unbound
  <2>5. CASE RebindTimeout
    BY <2>5, UnboundInStep DEF RebindTimeout
  <2>6. CASE RejoinExpired
    BY <2>6, UnboundInStep, UntouchedInStep DEF RejoinExpired, RejoinEnds, Unbound
  <2>7. CASE RejoinKeeps
    BY <2>7, UntouchedInStep DEF RejoinKeeps, Unbound
  <2>8. CASE Renew
    BY <2>8, UntouchedInStep DEF Renew, Unbound
  <2>9. CASE Reconfirmed
    BY <2>9, UntouchedInStep DEF Reconfirmed, Unbound
  <2>10. CASE InfoOver
    BY <2>10, UntouchedInStep DEF InfoOver, ClientInv, Unbound
  <2>11. CASE Declined
    <3>1. CASE pc' = "bound" /\ UNCHANGED binding
      BY <3>1, UntouchedInStep DEF Unbound
    <3>2. CASE /\ lease.pd \cup lease.na = {}
               /\ lease' = NoLease /\ UNCHANGED <<na, pub, kaddr>>
      BY <3>2 DEF ClientInv, Held, StoreInStep, AddrsInStep, NoLease
    <3>3. CASE ClearLease
      BY <3>3, ClearedInStep
    <3> QED BY <2>11, <3>1, <3>2, <3>3 DEF Declined
  <2>12. CASE Released
    <3>1. CASE ClearLease
      BY <3>1, ClearedInStep
    <3>2. CASE UNCHANGED binding
      BY <2>12, <3>2, UntouchedInStep DEF Released, Unbound
    <3> QED BY <2>12, <3>1, <3>2 DEF Released
  <2> QED BY <1>2, <2>1, <2>2, <2>3, <2>4, <2>5, <2>6, <2>7, <2>8, <2>9, <2>10, <2>11, <2>12
          DEF Timeouts
<1>3. CASE Proceed
  <2>1. CASE Begin
    BY <2>1, UntouchedInStep DEF Begin, ClientInv, Unbound
  <2>2. CASE AwaitDAD
    <3>1. CASE Failed = {}
      <4>1. pc' \notin Unbound /\ UNCHANGED binding
        BY <2>2, <3>1 DEF AwaitDAD, Unbound, binding
      <4> QED BY <4>1, UntouchedInStep
    <3>2. CASE Failed # {}
      <4>1. /\ lease' = [lease EXCEPT !.na = @ \ Failed]
            /\ na' = na \ Failed /\ kaddr' = kaddr \ Failed
            /\ UNCHANGED pub /\ pc' = "decline"
        BY <2>2, <3>2 DEF AwaitDAD
      <4>2. lease' = [on |-> lease.on, pd |-> lease.pd, na |-> lease.na \ Failed, age |-> lease.age]
        BY <4>1 DEF ClientInv, Held
      <4>3. ASSUME ~lease.on PROVE lease' = NoLease
        <5>1. lease = NoLease
          BY <4>3 DEF ClientInv, StoreInStep
        <5>2. lease.pd = {} /\ lease.na = {} /\ lease.age = 0 /\ lease.on = FALSE
          BY <5>1 DEF NoLease
        <5>3. lease.na \ Failed = {}
          BY <5>2
        <5> QED BY <4>2, <5>2, <5>3 DEF NoLease
      <4>4. lease'.on = lease.on /\ lease'.pd = lease.pd /\ lease'.na = lease.na \ Failed
        BY <4>2
      <4>5. Held'
        BY <4>2, <4>4 DEF ClientInv, Held
      <4>6. StoreInStep'
        BY <4>1, <4>3, <4>4 DEF ClientInv, StoreInStep
      <4>7. AddrsInStep'
        BY <4>1, <4>4 DEF ClientInv, AddrsInStep
      <4> QED BY <4>1, <4>5, <4>6, <4>7 DEF ClientInv, Unbound
    <3> QED BY <3>1, <3>2
  <2>3. CASE Rejoin
    <3>1. /\ UNCHANGED <<lease, na, pub>> /\ pc' \notin Unbound
          /\ kaddr' = kaddr \cup lease.na \/ kaddr' = kaddr
      BY <2>3 DEF Rejoin, Unbound
    <3> QED BY <3>1 DEF ClientInv, Held, StoreInStep, AddrsInStep, NoLease
  <2> QED BY <1>3, <2>1, <2>2, <2>3 DEF Proceed
<1>4. CASE Servers
  <2>1. CASE Advertised
    BY <2>1, UntouchedInStep DEF Advertised, ClientInv, Unbound
  <2>2. CASE AdvertisedNone
    <3>1. UNCHANGED <<lease, na, kaddr>> /\ ~lease.on
      BY <2>2 DEF AdvertisedNone, ClientInv, Unbound
    <3>2. pub' = {} \/ pub' = pub
      BY <2>2 DEF AdvertisedNone
    <3> QED BY <3>1, <3>2 DEF ClientInv, Held, StoreInStep, AddrsInStep, NoLease
  <2>3. CASE Requested
    BY <2>3, BoundInStep, AppliedInStep DEF Requested
  <2>4. CASE Renewed
    BY <2>4, BoundInStep, AppliedInStep DEF Renewed
  <2>5. CASE NotOnLink
    BY <2>5, UnboundInStep, UntouchedInStep DEF NotOnLink, RejoinEnds, Unbound
  <2>6. CASE Informed
    <3>1. UNCHANGED <<lease, na, kaddr>> /\ ~lease.on /\ pub' = {}
      BY <2>6 DEF Informed, ClientInv, Unbound
    <3> QED BY <3>1 DEF ClientInv, Held, StoreInStep, AddrsInStep, NoLease
  <2> QED BY <1>4, <2>1, <2>2, <2>3, <2>4, <2>5, <2>6 DEF Servers
<1>5. CASE Cancels
  <2>1. CASE CancelWaiting
    BY <2>1, UntouchedInStep DEF CancelWaiting, Unbound
  <2>2. CASE CancelBound
    BY <2>2, UntouchedInStep DEF CancelBound, Unbound
  <2>3. CASE CancelExchange
    BY <2>3, UntouchedInStep, UnboundInStep DEF CancelExchange, ClientInv, Unbound
  <2> QED BY <1>5, <2>1, <2>2, <2>3 DEF Cancels
<1>6. CASE World
  <2>1. CASE LinkFlip
    <3>1. UNCHANGED <<pc, lease, na, pub>> /\ (kaddr' = {} \/ kaddr' = kaddr)
      BY <2>1 DEF LinkFlip
    <3> QED BY <3>1 DEF ClientInv, Held, StoreInStep, AddrsInStep, NoLease
  <2>2. CASE LinkNotice
    BY <2>2, UntouchedInStep DEF LinkNotice, ClientInv
  <2>3. CASE Reconfirm
    BY <2>3, UntouchedInStep DEF Reconfirm, ClientInv
  <2>4. CASE Reconfigure
    BY <2>4, UntouchedInStep DEF Reconfigure, ClientInv
  <2>5. CASE Cancel
    BY <2>5, UntouchedInStep DEF Cancel, ClientInv
  <2>6. CASE Tick
    <3>1. lease' = [on |-> lease.on, pd |-> lease.pd, na |-> lease.na, age |-> lease.age + 1]
      BY <2>6 DEF Tick, ClientInv, Held
    <3>2. UNCHANGED <<pc, na, pub>> /\ kaddr' \subseteq kaddr /\ lease.on
      BY <2>6 DEF Tick
    <3> QED BY <3>1, <3>2 DEF ClientInv, Held, StoreInStep, AddrsInStep, NoLease
  <2> QED BY <1>6, <2>1, <2>2, <2>3, <2>4, <2>5, <2>6 DEF World
<1>7. CASE UNCHANGED vars
  BY <1>7, UntouchedInStep DEF vars, ClientInv
<1> QED BY <1>1, <1>2, <1>3, <1>4, <1>5, <1>6, <1>7 DEF Next

\* Whatever path cycle takes, the store has the prefixes of the binding and none without one
\* (clearLease, apply and the refusals of dhcp6c.go).
THEOREM StoreStaysInStep == Spec => []StoreInStep
<1>1. ClientInv => StoreInStep
  BY DEF ClientInv
<1> QED BY <1>1, ClientInit, ClientStep, PTL DEF Spec

\* The WAN interface never has an address of the client's that the binding does not have.
THEOREM AddrsStayInStep == Spec => []AddrsInStep
<1>1. ClientInv => AddrsInStep
  BY DEF ClientInv
<1> QED BY <1>1, ClientInit, ClientStep, PTL DEF Spec

-----------------------------------------------------------------------------
(***************************************************************************)
(* The addresses a link flushed are back once the client has noticed.       *)
(***************************************************************************)
\* What of the types the argument needs.
LineOK == iface \in BOOLEAN /\ link \in Seq(BOOLEAN) /\ lease.age \in Int

\* The inductive invariant.
RestoreInv == ClientInv /\ LineOK /\ MissingAccounted

\* An event posted is behind those already there: a link-down ahead stays ahead.
LEMMA PostKeepsDown ==
  ASSUME LineOK, NEW u \in BOOLEAN, Post(u)
  PROVE  /\ link' \in Seq(BOOLEAN)
         /\ DownAhead => DownAhead'
         /\ lost => lost'
         /\ ~u /\ ~lost' => DownAhead'
<1>1. CASE Len(link) < LinkCap
  <2>1. link' = Append(link, u) /\ lost' = lost
    BY <1>1 DEF Post
  <2>2. /\ link' \in Seq(BOOLEAN) /\ Len(link') = Len(link) + 1 /\ link'[Len(link) + 1] = u
        /\ \A i \in 1..Len(link) : link'[i] = link[i]
    BY <2>1 DEF LineOK
  <2>3. Len(link) \in Nat
    BY DEF LineOK
  <2>4. DownAhead => DownAhead'
    BY <2>2, <2>3 DEF DownAhead
  <2>5. ~u => DownAhead'
    <3>1. Len(link) + 1 \in 1..Len(link')
      BY <2>2, <2>3
    <3> QED BY <2>2, <3>1 DEF DownAhead
  <2> QED BY <2>1, <2>2, <2>4, <2>5
<1>2. CASE ~(Len(link) < LinkCap)
  <2>1. lost' = TRUE /\ link' = link
    BY <1>2 DEF Post
  <2> QED BY <2>1 DEF LineOK, DownAhead
<1> QED BY <1>1, <1>2

\* An event read was the first; reading a link-up leaves every link-down ahead.
LEMMA ReadKeepsDown ==
  ASSUME LineOK, NEW u \in BOOLEAN, ReadLink(u)
  PROVE  /\ link' \in Seq(BOOLEAN) /\ iface' = iface /\ lost' = lost
         /\ u /\ DownAhead => DownAhead'
<1>1. /\ link # <<>> /\ Head(link) = u /\ link' = Tail(link)
      /\ iface' = iface /\ lost' = lost
  BY DEF ReadLink
<1>2. /\ link' \in Seq(BOOLEAN) /\ Len(link') = Len(link) - 1 /\ link[1] = u
      /\ \A i \in 1..Len(link') : link'[i] = link[i + 1]
  BY <1>1 DEF LineOK
<1>3. Len(link) \in Nat /\ Len(link') \in Nat
  BY <1>2 DEF LineOK
<1>4. ASSUME u, DownAhead PROVE DownAhead'
  <2>1. PICK i \in 1..Len(link) : ~link[i]
    BY <1>4 DEF DownAhead
  <2>2. i # 1
    BY <1>2, <1>4, <2>1
  <2>3. i - 1 \in 1..Len(link') /\ (i - 1) + 1 = i
    BY <1>2, <1>3, <2>2
  <2>4. link'[i - 1] = link[i]
    BY <1>2, <2>3
  <2> QED BY <2>1, <2>3, <2>4 DEF DownAhead
<1> QED BY <1>1, <1>2, <1>4

\* Without a binding no address is missing.
LEMMA UnboundMissesNone ==
  ASSUME ClientInv, ~lease.on
  PROVE  ~Missing /\ lease.age = 0
  BY DEF ClientInv, StoreInStep, NoLease, Missing

\* clearLease leaves nothing to miss.
LEMMA ClearedMissesNone ==
  ASSUME ClearLease
  PROVE  ~Missing' /\ lease'.age \in Int
  BY DEF ClearLease, NoLease, Missing

\* apply sets every address of the Reply.
LEMMA AppliedMissesNone ==
  ASSUME NEW g, Apply(g)
  PROVE  ~Missing' /\ lease'.age \in Int
<1>1. CASE g = Nothing
  BY <1>1 DEF Apply, NoLease, Missing
<1>2. CASE g # Nothing
  <2>1. lease' = [on |-> TRUE, pd |-> g.pd, na |-> g.na, age |-> 0]
    BY <1>2 DEF Apply
  <2>2. lease'.na = g.na /\ lease'.age = 0
    BY <2>1
  <2>3. g.na \subseteq kaddr'
    BY DEF Apply
  <2> QED BY <2>2, <2>3 DEF Missing
<1> QED BY <1>1, <1>2

\* A step that leaves the binding and the line alone, and what accounts for a missing address.
LEMMA StillAccounted ==
  ASSUME RestoreInv, UNCHANGED <<binding, line>>,
         pc' # "done" => pc # "done" /\ (Accounted => Accounted')
  PROVE  LineOK' /\ MissingAccounted'
<1>1. LineOK'
  BY DEF RestoreInv, LineOK, binding, line
<1>2. Missing' => Missing
  BY DEF Missing, binding
<1>3. lost' = lost
  BY DEF line
<1> QED BY <1>1, <1>2, <1>3 DEF RestoreInv, MissingAccounted

\* Outside rejoin, and its exchanges, what accounts for a missing address does so in any other state
\* the client waits in but these.
LEMMA AccountedElsewhere ==
  ASSUME UNCHANGED <<line, due>>, pc # "rejoin", pc' \notin {"rejoinx", "confirm"}
  PROVE  Accounted => Accounted'
  BY DEF Accounted, DownAhead, line

\* Every step leaves a missing address accounted for.
LEMMA RestoreStep == RestoreInv /\ [Next]_vars => LineOK' /\ MissingAccounted'
<1> SUFFICES ASSUME RestoreInv, [Next]_vars PROVE LineOK' /\ MissingAccounted'
  OBVIOUS
<1>0. ClientInv /\ LineOK /\ MissingAccounted
  BY DEF RestoreInv
<1>c. ASSUME ClearLease, UNCHANGED <<iface, link>> PROVE LineOK' /\ MissingAccounted'
  BY <1>0, <1>c, ClearedMissesNone DEF LineOK, MissingAccounted
<1>a. ASSUME NEW g, Apply(g), UNCHANGED line PROVE LineOK' /\ MissingAccounted'
  BY <1>0, <1>a, AppliedMissesNone DEF LineOK, MissingAccounted, line
<1>u. ASSUME ~lease.on, UNCHANGED <<lease, kaddr, iface>>, link' \in Seq(BOOLEAN)
      PROVE  LineOK' /\ MissingAccounted'
  <2>1. ~Missing'
    BY <1>0, <1>u, UnboundMissesNone DEF Missing
  <2> QED BY <1>0, <1>u, <2>1 DEF LineOK, MissingAccounted
<1>l. ASSUME UNCHANGED line PROVE link' \in Seq(BOOLEAN) /\ iface' = iface
  BY <1>0, <1>l DEF LineOK, line
<1>1. CASE Read
  <2>1. CASE ReadUp
    <3>1. ReadLink(TRUE) /\ UNCHANGED <<pc, due, lease, kaddr>>
      BY <2>1 DEF ReadUp, binding
    <3>2. link' \in Seq(BOOLEAN) /\ iface' = iface /\ lost' = lost /\ (DownAhead => DownAhead')
      BY <1>0, <3>1, ReadKeepsDown
    <3>3. (Missing' => Missing) /\ (Accounted => Accounted')
      BY <3>1, <3>2 DEF Missing, Accounted
    <3> QED BY <1>0, <3>1, <3>2, <3>3 DEF LineOK, MissingAccounted
  <2>2. CASE ReadWaiting
    <3>1. PICK u \in BOOLEAN : ReadLink(u)
      BY <2>2 DEF ReadWaiting
    <3>2. link' \in Seq(BOOLEAN) /\ iface' = iface /\ lost' = lost
      BY <1>0, <3>1, ReadKeepsDown
    <3>3. UNCHANGED <<pc, lease, kaddr>> /\ pc \in {"waitup", "rejoin"}
      BY <2>2 DEF ReadWaiting, binding
    <3>4. CASE pc = "rejoin"
      BY <1>0, <3>2, <3>3, <3>4 DEF LineOK, MissingAccounted, Accounted
    <3>5. CASE pc = "waitup"
      BY <1>0, <1>u, <3>2, <3>3, <3>5 DEF ClientInv, Unbound
    <3> QED BY <3>3, <3>4, <3>5
  <2>3. CASE BoundDown
    <3>1. ReadLink(FALSE) /\ pc' = "rejoin" /\ UNCHANGED lease
      BY <2>3 DEF BoundDown, binding
    <3>2. link' \in Seq(BOOLEAN) /\ iface' = iface
      BY <1>0, <3>1, ReadKeepsDown
    <3> QED BY <1>0, <3>1, <3>2 DEF LineOK, MissingAccounted, Accounted
  <2>4. CASE RebindDown
    <3>1. ReadLink(FALSE) /\ ClearLease
      BY <2>4 DEF RebindDown, Unbind
    <3>2. link' \in Seq(BOOLEAN) /\ iface' = iface
      BY <1>0, <3>1, ReadKeepsDown
    <3> QED BY <1>0, <3>1, <3>2, ClearedMissesNone DEF LineOK, MissingAccounted
  <2>5. CASE SolicitDown
    <3>1. ReadLink(FALSE) /\ UNCHANGED <<lease, kaddr>> /\ ~lease.on
      BY <1>0, <2>5 DEF SolicitDown, ClientInv, Unbound
    <3> QED BY <1>0, <1>u, <3>1, ReadKeepsDown
  <2> QED BY <1>1, <2>1, <2>2, <2>3, <2>4, <2>5 DEF Read
<1>2. CASE Timeouts
  <2>1. CASE RequestFails
    <3>1. ~lease.on /\ UNCHANGED <<lease, kaddr>> /\ (UNCHANGED line \/ ReadLink(FALSE))
      BY <1>0, <2>1 DEF RequestFails, ClientInv, Unbound, binding
    <3> QED BY <1>0, <1>u, <1>l, <3>1, ReadKeepsDown
  <2>2. CASE WaitOver
    BY <1>0, <1>u, <1>l, <2>2 DEF WaitOver, ClientInv, Unbound, binding
  <2>3. CASE DADGivesUp
    BY <2>3, StillAccounted, AccountedElsewhere DEF DADGivesUp
  <2>4. CASE RenewTimeout
    BY <2>4, StillAccounted, AccountedElsewhere DEF RenewTimeout
  <2>5. CASE RebindTimeout
    BY <1>c, <2>5 DEF RebindTimeout, Unbind, line
  <2>6. CASE RejoinExpired
    BY <1>c, <2>6, StillAccounted DEF RejoinExpired, RejoinEnds, Unbind, line
  <2>7. CASE RejoinKeeps
    <3>1. /\ pc \in {"rejoinx", "confirm"} /\ pc' = "bound"
          /\ UNCHANGED <<binding, line>>
      BY <2>7 DEF RejoinKeeps
    <3>2. Accounted => Accounted'
      BY <3>1 DEF Accounted, DownAhead, line
    <3> QED BY <3>1, <3>2, StillAccounted
  <2>8. CASE Renew
    BY <2>8, StillAccounted, AccountedElsewhere DEF Renew
  <2>9. CASE Reconfirmed
    BY <2>9, StillAccounted, AccountedElsewhere DEF Reconfirmed
  <2>10. CASE InfoOver
    <3>1. ~lease.on /\ UNCHANGED <<lease, kaddr>> /\ (UNCHANGED line \/ ReadLink(FALSE))
      BY <1>0, <2>10 DEF InfoOver, ClientInv, Unbound, binding
    <3> QED BY <1>0, <1>u, <1>l, <3>1, ReadKeepsDown
  <2>11. CASE Declined
    <3>1. link' \in Seq(BOOLEAN) /\ iface' = iface /\ lost' = lost
      BY <1>0, <1>l, <2>11, ReadKeepsDown DEF Declined, line
    <3>2. CASE pc' = "bound" /\ UNCHANGED binding
      <4>1. Accounted => Accounted'
        BY <2>11, <3>2 DEF Declined, Accounted, DownAhead, line
      <4>2. Missing' => Missing
        BY <3>2 DEF Missing, binding
      <4> QED BY <1>0, <2>11, <3>1, <3>2, <4>1, <4>2
              DEF Declined, LineOK, MissingAccounted, binding
    <3>3. CASE lease' = NoLease
      <4>1. ~Missing' /\ lease'.age = 0
        BY <3>3 DEF NoLease, Missing
      <4> QED BY <3>1, <1>0, <4>1 DEF LineOK, MissingAccounted
    <3> QED BY <2>11, <3>2, <3>3 DEF Declined, ClearLease
  <2>12. CASE Released
    <3>1. link' \in Seq(BOOLEAN) /\ iface' = iface /\ pc' = "done"
      BY <1>0, <1>l, <2>12, ReadKeepsDown DEF Released
    <3>2. lease'.age \in Int
      BY <1>0, <2>12, ClearedMissesNone DEF Released, LineOK, binding
    <3> QED BY <1>0, <3>1, <3>2 DEF LineOK, MissingAccounted
  <2> QED BY <1>2, <2>1, <2>2, <2>3, <2>4, <2>5, <2>6, <2>7, <2>8, <2>9, <2>10, <2>11, <2>12
          DEF Timeouts
<1>3. CASE Proceed
  <2>1. CASE Begin
    BY <1>0, <1>u, <1>l, <2>1 DEF Begin, ClientInv, Unbound, binding
  <2>2. CASE AwaitDAD
    <3>1. /\ pc = "dad" /\ pc' \in {"bound", "decline"} /\ UNCHANGED <<line, due>>
      BY <2>2 DEF AwaitDAD
    <3>2. CASE Failed = {}
      BY <2>2, <3>1, <3>2, StillAccounted, AccountedElsewhere DEF AwaitDAD, binding
    <3>3. CASE Failed # {}
      <4>1. lease' = [lease EXCEPT !.na = @ \ Failed] /\ kaddr' = kaddr \ Failed
        BY <2>2, <3>3 DEF AwaitDAD
      <4>2. lease' = [on |-> lease.on, pd |-> lease.pd, na |-> lease.na \ Failed, age |-> lease.age]
        BY <1>0, <4>1 DEF ClientInv, Held
      <4>3. lease'.na = lease.na \ Failed /\ lease'.age = lease.age
        BY <4>2
      <4>4. Missing' => Missing
        BY <4>1, <4>3 DEF Missing
      <4>5. Accounted => Accounted'
        BY <3>1, AccountedElsewhere
      <4> QED BY <1>0, <3>1, <4>3, <4>4, <4>5 DEF LineOK, MissingAccounted, line
    <3> QED BY <3>2, <3>3
  <2>3. CASE Rejoin
    <3>1. ~Missing' /\ UNCHANGED <<line, lease>>
      BY <2>3 DEF Rejoin, Missing
    <3> QED BY <1>0, <3>1 DEF LineOK, MissingAccounted, line
  <2> QED BY <1>3, <2>1, <2>2, <2>3 DEF Proceed
<1>4. CASE Servers
  <2>1. CASE Advertised
    BY <1>0, <1>u, <1>l, <2>1 DEF Advertised, ClientInv, Unbound, binding
  <2>2. CASE AdvertisedNone
    BY <1>0, <1>u, <1>l, <2>2 DEF AdvertisedNone, ClientInv, Unbound
  <2>3. CASE Requested
    BY <1>a, <2>3 DEF Requested, Bind
  <2>4. CASE Renewed
    BY <1>a, <2>4 DEF Renewed, Bind
  <2>5. CASE NotOnLink
    BY <1>c, <2>5, StillAccounted DEF NotOnLink, RejoinEnds, Unbind, line
  <2>6. CASE Informed
    BY <1>0, <1>u, <1>l, <2>6 DEF Informed, ClientInv, Unbound
  <2> QED BY <1>4, <2>1, <2>2, <2>3, <2>4, <2>5, <2>6 DEF Servers
<1>5. CASE Cancels
  <2>1. CASE CancelWaiting
    BY <2>1, StillAccounted DEF CancelWaiting
  <2>2. CASE CancelBound
    BY <2>2, StillAccounted, AccountedElsewhere DEF CancelBound
  <2>3. CASE CancelExchange
    <3>1. CASE pc \in {"solicit", "request", "refused", "nobind", "info", "infowait"}
      BY <1>0, <1>u, <1>l, <2>3, <3>1 DEF CancelExchange, ClientInv, Unbound, binding
    <3>2. CASE pc \in {"renew", "rejoinx", "confirm"}
      BY <2>3, <3>2, StillAccounted DEF CancelExchange
    <3>3. CASE pc \in {"rebind", "reconfirm"}
      BY <1>c, <2>3, <3>3 DEF CancelExchange, Unbind, line
    <3> QED BY <2>3, <3>1, <3>2, <3>3 DEF CancelExchange
  <2> QED BY <1>5, <2>1, <2>2, <2>3 DEF Cancels
<1>6. CASE World
  <2>1. CASE LinkFlip
    <3>1. /\ iface' = ~iface /\ Post(~iface) /\ UNCHANGED <<pc, lease, due>>
          /\ (~iface => kaddr' = kaddr)
      BY <2>1 DEF LinkFlip
    <3>2. (~iface) \in BOOLEAN
      BY <1>0 DEF LineOK
    <3>3. /\ link' \in Seq(BOOLEAN) /\ (DownAhead => DownAhead') /\ (lost => lost')
          /\ (iface /\ ~lost' => DownAhead')
      BY <1>0, <3>1, <3>2, PostKeepsDown
    <3>4. LineOK'
      BY <1>0, <3>1, <3>2, <3>3 DEF LineOK
    <3>5. CASE iface
      BY <3>3, <3>4, <3>5 DEF MissingAccounted, Accounted
    <3>6. CASE ~iface
      BY <1>0, <3>1, <3>3, <3>4, <3>6 DEF MissingAccounted, Accounted, Missing
    <3> QED BY <3>5, <3>6
  <2>2. CASE LinkNotice
    <3>1. PICK u \in BOOLEAN : Post(u)
      BY <1>0, <2>2 DEF LinkNotice, LineOK
    <3>2. UNCHANGED <<pc, lease, kaddr, iface, due>>
      BY <2>2 DEF LinkNotice, binding
    <3>3. link' \in Seq(BOOLEAN) /\ (DownAhead => DownAhead') /\ (lost => lost')
      BY <1>0, <3>1, PostKeepsDown
    <3> QED BY <1>0, <3>2, <3>3 DEF LineOK, MissingAccounted, Accounted, Missing
  <2>3. CASE Reconfirm
    BY <2>3, StillAccounted DEF Reconfirm, Accounted, DownAhead, line
  <2>4. CASE Reconfigure
    BY <2>4, StillAccounted DEF Reconfigure, Accounted, DownAhead, line
  <2>5. CASE Cancel
    BY <2>5, StillAccounted DEF Cancel, Accounted, DownAhead, line
  <2>6. CASE Tick
    <3>1. lease' = [on |-> lease.on, pd |-> lease.pd, na |-> lease.na, age |-> lease.age + 1]
      BY <1>0, <2>6 DEF Tick, ClientInv, Held
    <3>2. lease'.na = lease.na /\ lease'.age = lease.age + 1
      BY <3>1
    <3>3. /\ lease.age < Valid /\ UNCHANGED <<pc, line, due>>
          /\ ~(lease.age + 1 >= Valid) => kaddr' = kaddr
      BY <2>6 DEF Tick
    <3>4. Missing' => Missing
      BY <1>0, <3>2, <3>3, ClientAssumption DEF Missing, LineOK
    <3>5. Accounted => Accounted'
      BY <3>3 DEF Accounted, DownAhead, line
    <3> QED BY <1>0, <3>2, <3>3, <3>4, <3>5 DEF LineOK, MissingAccounted, line
  <2> QED BY <1>6, <2>1, <2>2, <2>3, <2>4, <2>5, <2>6 DEF World
<1>7. CASE UNCHANGED vars
  BY <1>7, StillAccounted DEF vars, Accounted, DownAhead, line
<1> QED BY <1>1, <1>2, <1>3, <1>4, <1>5, <1>6, <1>7 DEF Next

\* While no link event is lost, a client that waits in waitBound with no link-down unread or
\* unconfirmed has every valid address of the binding on the interface (rejoin and apply of
\* dhcp6c.go), however often the link went, and wherever the client was.
THEOREM AddrsStayRestored == Spec => []AddrsRestored
<1>1. Init => RestoreInv
  <2>1. Init => LineOK /\ MissingAccounted
    BY DEF Init, LineOK, MissingAccounted, Missing, NoLease
  <2> QED BY <2>1, ClientInit DEF RestoreInv
<1>2. RestoreInv /\ [Next]_vars => RestoreInv'
  BY RestoreStep, ClientStep DEF RestoreInv
<1>3. RestoreInv => AddrsRestored
  <2> SUFFICES ASSUME RestoreInv, pc = "bound", link = <<>>, ~lost, ~due, lease.age < Valid
               PROVE  lease.na \subseteq kaddr
    BY DEF AddrsRestored
  <2>1. ~DownAhead
    BY DEF DownAhead
  <2> QED BY <2>1 DEF RestoreInv, MissingAccounted, Missing, Accounted
<1> QED BY <1>1, <1>2, <1>3, PTL DEF Spec
=============================================================================
