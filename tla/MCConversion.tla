---------------------------- MODULE MCConversion ----------------------------
(* TLC instance of Conversion: one in-place job, one with an output of its own. *)
EXTENDS Conversion
CONSTANTS j1, j2, c1, c2
MCJobs == {j1, j2}
MCInPlace == {j2}
InPlaceLast == {<<j1, j2>>}
InPlaceFirst == {<<j2, j1>>}
MCOneCaller == {c1}
MCTwoCallers == {c1, c2}
MCNoCallers == {}
AnyMode == {"trash", "delete", "keep"}
OnlyDelete == {"delete"}
AllCalls == {"pause", "resume", "cancel", "quit", "setting"}
NoSetting == {"pause", "resume", "cancel", "quit"}
NoCalls == {}
=============================================================================
