---------------------------- MODULE PrefixStoreMC ----------------------------
(***************************************************************************)
(* Small instances of PrefixStore for TLC.  A is a delegation of two /64s,  *)
(* B an on-link /64, U a ULA of two /64s.                                   *)
(***************************************************************************)
EXTENDS PrefixStore

MCOrder    == <<"lan1", "lan2">>
MCOneLan   == <<"lan1">>
MCPrefixes == {"A", "B", "U"}
MCSize     == [A |-> 2, B |-> 1, U |-> 2]
MCPrivate  == {"U"}

Conf(u, ls, i1, i2) == [ula |-> u, lans |-> ls, index |-> [lan1 |-> i1, lan2 |-> i2]]
Conf1(u) == [ula |-> u, lans |-> {"lan1"}, index |-> [lan1 |-> 0]]

WithUlaOrNot == {Conf({}, {"lan1", "lan2"}, 0, 1), Conf({"U"}, {"lan1", "lan2"}, 0, 1)}
UlaComesAndGoes == {Conf1({}), Conf1({"U"})}
OneLan == {Conf1({})}
Swapped == {Conf({}, {"lan1", "lan2"}, 0, 1), Conf({}, {"lan1", "lan2"}, 1, 0)}

G(p, src, pref, valid) == [p |-> p, src |-> src, pref |-> pref, valid |-> valid]
Upd(ps, info) == [set |-> TRUE, ps |-> ps, info |-> info, noRouter |-> FALSE, dhcp6 |-> FALSE]

Nothing  == Upd({}, "none")
GivesA   == Upd({G("A", "pd", 2, 3)}, "none")
GivesU   == Upd({G("U", "pd", 1, 3)}, "dns")
GivesB   == Upd({G("B", "ra", 2, 3)}, "none")
NoRouter == [Upd({}, "none") EXCEPT !.noRouter = TRUE, !.dhcp6 = TRUE]

RouterGone == [Upd({}, "none") EXCEPT !.noRouter = TRUE]
FadesA   == Upd({G("A", "pd", 1, 3)}, "none")
RenewsA  == Upd({G("A", "pd", 3, 4)}, "none")

\* For the restarts.
RestartOffers == [static |-> {}, pd |-> {Nothing, GivesA}, ra |-> {GivesB}]
\* For the consumers: lifetimes that change, the WAN router lost, a prefix configured by hand.
FeedOffers    == [static |-> {}, pd |-> {Nothing, FadesA, GivesA}, ra |-> {RouterGone, Nothing}]
PDOffers      == [static |-> {}, pd |-> {Nothing, GivesA, RenewsA}, ra |-> {}]
FadingOffers  == [static |-> {}, pd |-> {Nothing, FadesA}, ra |-> {}]
RAOffers      == [static |-> {}, pd |-> {Nothing, GivesA}, ra |-> {GivesB, NoRouter}]
LineOffers    == [static |-> {}, pd |-> {Nothing, FadesA}, ra |-> {RouterGone, GivesB}]
\* An on-link /64 configured by hand too, the one the RA gives; a delegation, and a ULA in its place
\* that the line soon deprecates.
CoreOffers    == [static |-> {Upd({G("B", "ra", 3, 3)}, "none")},
                  pd |-> {GivesA, GivesU}, ra |-> {GivesB}]
=============================================================================
