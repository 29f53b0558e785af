--------------------------- MODULE MCUpdaterDrain ---------------------------
(* TLC instance of UpdaterDrain. *)
EXTENDS UpdaterDrain
CONSTANTS v1, v2
MCVersions == {v1, v2}
=============================================================================
