------------------------------- MODULE Subnets ------------------------------
(***************************************************************************)
(* How sixup divides a delegation over the LAN segments: the -lan options   *)
(* (parseLans), the Prefix Exclude option of RFC 6603 (parsePDExclude), the *)
(* /64 of each segment (splitLAN, spareSubnet and the loop of recompute     *)
(* around them) and the /64 the WAN addresses are taken from (wanSubnet).   *)
(*                                                                          *)
(* The program's state is its configuration, read once, and the snapshot    *)
(* computed anew from what the line hands out.  A prefix is [lo, bits]: lo  *)
(* counts /66s, so that an exclusion longer than a /64 has its place.       *)
(***************************************************************************)
EXTENDS Integers, Sequences, FiniteSets, FiniteSetsExt, SequencesExt

CONSTANTS
    Configs,    \* -lan options the operator may give: sequences of [iface, id]
    Lines,      \* what PD may hand out: sequences of [lo, bits, dep, option]
    OnLinks,    \* on-link prefixes the upstream RA may carry: sets of [lo, bits]
    SpareBits   \* 16: spareSubnet looks at the first 2^16 subnets

Default  == -1000                       \* -lan eth1, without an id
NoOption == [plen |-> 0, tail |-> <<>>] \* no OPTION_PD_EXCLUDE
NoPrefix == [lo |-> -1, bits |-> 0]     \* the zero netip.Prefix

ASSUME SpareAssumption == SpareBits \in Nat

VARIABLES
    lans,   \* Store.lans: a sequence of [iface, index]
    wan,    \* Snapshot.WAN from PD: a sequence of [lo, bits, dep, excl]
    onlink, \* Snapshot.WAN from the RA
    lan     \* Snapshot.LAN: lan[iface] is a sequence of [lo, bits, dep]

vars == <<lans, wan, onlink, lan>>

(***************************************************************************)
(* Prefixes.                                                                *)
(***************************************************************************)
Size(b) == 2 ^ (66 - b.bits)

\* netip.Prefix.Overlaps; the zero Prefix overlaps nothing
Overlaps(a, b) == NoPrefix \notin {a, b} /\ a.lo < b.lo + Size(b) /\ b.lo < a.lo + Size(a)
Within(a, b)   == b.lo <= a.lo /\ a.lo + Size(a) <= b.lo + Size(b)

\* parsePDExclude: the length of the excluded prefix, and its bits past the delegated prefix.
ParsePDExclude(pd, option) ==
    LET n     == option.plen - pd.bits
        value == FoldLeft(LAMBDA v, bit : 2 * v + bit, 0, SubSeq(option.tail, 1, n))
    IN  IF n <= 0 \/ option.plen > 128 \/ Len(option.tail) < n THEN NoPrefix
        ELSE [lo |-> pd.lo + value * Size([bits |-> option.plen]), bits |-> option.plen]

\* splitLAN: the index-th /64 of p; a /64 only allows index 0.
HasSubnet(p, index) == p.bits <= 64 /\ index >= 0 /\ index < 2 ^ (64 - p.bits)
Subnet(p, index)    == [lo |-> p.lo + index * Size([bits |-> 64]), bits |-> 64]

\* Faulty variant: the subnets other segments name are not left to them.
SparesUnnamed(segments, p) ==
    {i \in 0..(2 ^ Min({64 - p.bits, SpareBits}) - 1) : ~Overlaps(p.excl, Subnet(p, i))}

\* spareSubnet: the subnets no segment names and the ISP does not exclude, the highest of which it is.
Spares(segments, p) ==
    {i \in 0..(2 ^ Min({64 - p.bits, SpareBits}) - 1) :
        /\ \A k \in DOMAIN segments : segments[k].index # i
        /\ ~Overlaps(p.excl, Subnet(p, i))}

\* The ISP keeps this subnet for the WAN link.
Kept(p, sub) == Overlaps(p.excl, sub)

\* Faulty variant: a segment whose subnet is excluded goes without.
CarveNoSpare(segments, k, p) ==
    IF ~HasSubnet(p, segments[k].index) \/ Kept(p, Subnet(p, segments[k].index)) THEN <<>>
    ELSE <<[lo |-> Subnet(p, segments[k].index).lo, bits |-> 64, dep |-> p.dep]>>

\* The body of recompute's loop: what segment k gets out of p, nothing or one /64.
Carve(segments, k, p) ==
    LET own == Subnet(p, segments[k].index)
        lp(sub) == [lo |-> sub.lo, bits |-> 64, dep |-> p.dep]
    IN  IF ~HasSubnet(p, segments[k].index) THEN <<>>
        ELSE IF ~Kept(p, own) THEN <<lp(own)>>
        ELSE IF Spares(segments, p) = {} THEN <<>>
        ELSE <<lp(Subnet(p, Max(Spares(segments, p))))>>

\* next.LAN: prefix by prefix, segment by segment.
Split(segments, ps) ==
    LET gets(iface, p) ==
            FlattenSeq([k \in DOMAIN segments |->
                IF segments[k].iface = iface THEN Carve(segments, k, p) ELSE <<>>])
    IN  [iface \in {segments[k].iface : k \in DOMAIN segments} |->
            FlattenSeq([j \in DOMAIN ps |-> gets(iface, ps[j])])]

\* wanSubnet's candidates: the segments' /64s in order, or, on a host with no LAN, the first or
\* second /64 of each delegation, whichever is not kept.
HostSubnets(p) == {i \in {0, 1} : HasSubnet(p, i) /\ ~Kept(p, Subnet(p, i))}
Candidates ==
    IF lans # <<>> THEN FlattenSeq([k \in DOMAIN lans |-> lan[lans[k].iface]])
    ELSE FlattenSeq([j \in DOMAIN wan |->
            IF HostSubnets(wan[j]) = {} THEN <<>>
            ELSE LET sub == Subnet(wan[j], Min(HostSubnets(wan[j])))
                 IN  <<[lo |-> sub.lo, bits |-> 64, dep |-> wan[j].dep]>>])

\* Faulty variant: a /64 that is also on-link on the WAN is taken.
WanSubnetOnLink ==
    IF Candidates = <<>> THEN NoPrefix ELSE Head(Candidates)

\* wanSubnet: the first candidate not deprecated, or else the first, that is not on-link on the WAN.
WanSubnet ==
    LET fits(p) == \A w \in onlink : ~Overlaps(w, p)
        fresh   == SelectSeq(Candidates, LAMBDA p : fits(p) /\ ~p.dep)
        faded   == SelectSeq(Candidates, LAMBDA p : fits(p) /\ p.dep)
    IN  IF fresh # <<>> THEN Head(fresh) ELSE IF faded # <<>> THEN Head(faded) ELSE NoPrefix

(***************************************************************************)
(* The program starts, and the line hands out one thing after another.      *)
(***************************************************************************)
\* parseLans: an option without an id takes its position.
ParseLans(options) ==
    [k \in DOMAIN options |->
        [iface |-> options[k].iface,
         index |-> IF options[k].id = Default THEN k - 1 ELSE options[k].id]]

Init ==
    /\ \E options \in Configs : lans = ParseLans(options)
    /\ wan = <<>> /\ onlink = {}
    /\ lan = Split(lans, <<>>)

\* A source update: apply reads the delegations, and recompute divides them.
HandOut(line, w) ==
    /\ wan' = [j \in DOMAIN line |->
                 [lo |-> line[j].lo, bits |-> line[j].bits, dep |-> line[j].dep,
                  excl |-> ParsePDExclude(line[j], line[j].option)]]
    /\ onlink' = w
    /\ lan' = Split(lans, wan')
    /\ UNCHANGED lans

Next == \E line \in Lines, w \in OnLinks : HandOut(line, w)

Spec == Init /\ [][Next]_vars

-----------------------------------------------------------------------------
(***************************************************************************)
(* Properties.                                                              *)
(***************************************************************************)
\* The /64 segment k gets out of the j-th delegation: <<>> or <<sub>>.
Gets(k, j) == Carve(lans, k, wan[j])

\* RFC 6603: what a segment gets lies in the delegation, and no part of it in what the ISP keeps,
\* whether the exclusion is shorter or longer than a /64.
NothingExcluded ==
    \A iface \in DOMAIN lan : \A n \in DOMAIN lan[iface] :
        /\ \E j \in DOMAIN wan : Within(lan[iface][n], wan[j])
        /\ \A j \in DOMAIN wan : ~Overlaps(lan[iface][n], wan[j].excl)

\* "rather than leave the segment without a prefix, it takes the highest one no other segment names":
\* a segment goes without only when its number is outside the delegation, or every /64 of it that
\* the ISP does not keep is another segment's own.
NoneLeftOut ==
    \A j \in DOMAIN wan : \A k \in DOMAIN lans :
        HasSubnet(wan[j], lans[k].index) /\ Gets(k, j) = <<>> =>
            \A i \in 0..(2 ^ (64 - wan[j].bits) - 1) :
                Overlaps(Subnet(wan[j], i), wan[j].excl) \/ \E s \in DOMAIN lans : lans[s].index = i

DistinctIds == \A k, s \in DOMAIN lans : lans[k].index = lans[s].index => k = s
Narrow      == \A j \in DOMAIN wan : wan[j].excl = NoPrefix \/ wan[j].excl.bits >= 64

Separate ==
    \A j \in DOMAIN wan : \A k, s \in DOMAIN lans :
        k # s /\ Gets(k, j) # <<>> => Gets(k, j) # Gets(s, j)

\* No two segments have the same /64, when their numbers differ and the ISP keeps one /64 at most;
\* the one moved aside takes no other's.
SeparateSubnets == DistinctIds /\ Narrow => Separate

\* The /64 of the WAN addresses is routed to this router: inside a delegation, on-link nowhere on
\* the WAN, kept by nobody, and, when there are segments, one of theirs, so that no downstream
\* delegation can have it.
WanSubnetRouted ==
    WanSubnet # NoPrefix =>
        /\ \A w \in onlink : ~Overlaps(w, WanSubnet)
        /\ \E j \in DOMAIN wan : Within(WanSubnet, wan[j]) /\ ~Overlaps(WanSubnet, wan[j].excl)
        /\ lans # <<>> => \E iface \in DOMAIN lan : \E n \in DOMAIN lan[iface] : lan[iface][n] = WanSubnet

(***************************************************************************)
(* What comments and docs say, and the code does not do.                    *)
(***************************************************************************)
\* docs/standards.md, L-2: "A separate /64 per LAN, from the delegation and the ULA", whatever the ISP
\* keeps.
SeparateWhateverIsKept == DistinctIds => Separate

\* The same, whatever the operator leaves to the default.
SeparateByDefault == Narrow => Separate

\* wanSubnet: "A host with no LAN takes the first /64 of the delegation the ISP does not keep".
HostTakesFirstFree ==
    lans = <<>> /\ Len(wan) = 1 /\ onlink = {} =>
        LET free == {i \in 0..(2 ^ (64 - wan[1].bits) - 1) : ~Kept(wan[1], Subnet(wan[1], i))}
        IN  free # {} => WanSubnet.lo = Subnet(wan[1], Min(free)).lo
=============================================================================
