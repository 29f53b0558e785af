-------------------------------- MODULE MCPurge --------------------------------
(* TLC instance of Purge: one file known under two spellings. *)
EXTENDS Purge, TLC
CONSTANTS r1, r2, c1, c2
MCRows == {r1, r2}
MCCalls == {c1, c2}
Symmetry == Permutations(MCRows) \cup Permutations(MCCalls)
MCFileOf == [s \in Spellings |-> "film"]
=============================================================================
