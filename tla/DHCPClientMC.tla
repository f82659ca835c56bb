---------------------------- MODULE DHCPClientMC ----------------------------
(***************************************************************************)
(* Small instances of DHCPClient for TLC.  The capacity of the link         *)
(* channel, 8 in the code, is 1 or 2: the bound that makes it overflow.     *)
(***************************************************************************)
EXTENDS DHCPClient

Full    == [pd |-> {"A"}, na |-> {"x", "y"}]
Other   == [pd |-> {"B"}, na |-> {"y"}]
OnlyPD  == [pd |-> {"A"}, na |-> {}]
OnlyNA  == [pd |-> {}, na |-> {"x"}]

AllGrants == {Full, Other, OnlyPD, OnlyNA}
PDGrants  == {OnlyPD, Full}
NAGrants  == {OnlyNA, [pd |-> {}, na |-> {"x", "y"}]}

NoneInUse == {}
XInUse    == {"x"}
Same      == {"same"}
Quiet     == {}
Anything  == {"same", "reader"}
=============================================================================
