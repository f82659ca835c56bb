------------------------------ MODULE SubnetsMC -----------------------------
(***************************************************************************)
(* Small instances of Subnets for TLC: delegations from /61 to /65, with    *)
(* every exclusion from /62 to /65 that lies in them, and up to three       *)
(* segments with numbers below, inside and above what a /63 has.            *)
(***************************************************************************)
EXTENDS Subnets

Lan(iface, id) == [iface |-> iface, id |-> id]
Ids == {-1, 0, 1, 3}

\* No segment, one, two, or three, of which one on the interface of another.
Numbered ==
    {<<>>} \cup {<<Lan("a", x)>> : x \in Ids}
    \cup {<<Lan("a", x), Lan("b", y)>> : x, y \in Ids}
    \cup {<<Lan("a", x), Lan("b", y), Lan("a", z)>> : x, y, z \in {0, 1, 3}}

\* One of the numbers, or both, left to the default.
Mixed == {<<Lan("a", Default), Lan("b", 1)>>, <<Lan("a", 1), Lan("b", Default)>>,
          <<Lan("a", Default), Lan("b", Default)>>}

MCConfigs == Numbered \cup Mixed

\* Every option of length plen for a delegation of length bits; an octet is padded with zeros, and
\* one that is cut off is ignored.
Tails(n) == {s \o [i \in 1..(8 - n) |-> 0] : s \in [1..n -> {0, 1}]}
OptionsOf(bits) ==
    {NoOption, [plen |-> bits, tail |-> <<0, 0, 0, 0, 0, 0, 0, 0>>], [plen |-> bits + 1, tail |-> <<>>]}
    \cup UNION {{[plen |-> bits + n, tail |-> t] : t \in Tails(n)} : n \in 1..(65 - bits)}

Pd(lo, bits, dep, option) == [lo |-> lo, bits |-> bits, dep |-> dep, option |-> option]
Single(bits, deps) == {<<Pd(0, bits, dep, o)>> : dep \in deps, o \in OptionsOf(bits)}

\* One delegation of /61 to /65, or a deprecated /63 and the one that replaces it.
AllLines ==
    UNION {Single(bits, {FALSE}) : bits \in 61..64} \cup {<<Pd(0, 65, FALSE, NoOption)>>}
    \cup {<<Pd(0, 63, TRUE, NoOption), Pd(16, 63, FALSE, o)>> : o \in OptionsOf(63)}

SomeRA == {{}, {[lo |-> 0, bits |-> 64]}, {[lo |-> 16, bits |-> 64]}}
=============================================================================
