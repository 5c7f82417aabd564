---------------------------- MODULE MCSPSockTcp ----------------------------
(***************************************************************************)
(* SPSockTcp with one to four descriptors.  What differs between the       *)
(* configurations is how much room the pool has, which callbacks are       *)
(* registered and which calls may fail.  The workers are interchangeable;  *)
(* so are descriptors that are model values, where no call fails and the   *)
(* order of failed ones in the close list therefore does not matter.       *)
(***************************************************************************)
EXTENDS SPSockTcp, TLC

MCDefaultIn == {"IN"}
MCDefaultInOut == {"IN", "OUT"}
MCBoth == {"rdp", "wtp"}
MCReadOnly == {"rdp"}
MCInterests == {{"IN"}, {"OUT"}}
MCIn == {{"IN"}}
NoMarks == {}
Workers == Permutations(Worker)
Descriptors == Permutations(Fd)
=============================================================================
