----------------------------- MODULE MCDrainHook -----------------------------
(* TLC instance of DrainHook: batches of two, three old rows or fewer that may share a time. *)
EXTENDS DrainHook, TLC
CONSTANTS j1, j2, j3, j4
MCJobs == {j1, j2, j3, j4}
Symmetry == Permutations(MCJobs)
MCOrder == <<"webhook", "command">>
=============================================================================
