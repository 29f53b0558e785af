------------------------------- MODULE MCIntake -------------------------------
(* TLC instance of Intake: a.mkv and a.mp4 beside each other, as an empty suffix and ".h" see them. *)
EXTENDS Intake, TLC
CONSTANTS a1, a2
MCAdders == {a1, a2}
Symmetry == Permutations(MCAdders)
mkv == "a.mkv"
mp4 == "a.mp4"
h   == "a.h.mp4"
Spare == <<"a (1).mp4", "a (2).mp4", "a (3).mp4", "a (4).mp4">>
MCPaths == {mkv, mp4, h} \cup Range(Spare)
MCNames == ("" :> [p \in MCPaths |-> IF p = mkv THEN <<mp4>> \o Spare ELSE <<p>>])
        @@ (".h" :> [p \in MCPaths |-> <<h>> \o Spare])
MCSuffixed == ("" :> {}) @@ (".h" :> {h})
MCBatches == {<<mkv>>, <<mp4, mkv>>}
=============================================================================
