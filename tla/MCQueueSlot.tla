---------------------------- MODULE MCQueueSlot ----------------------------
(* TLC instance of QueueSlot. *)
EXTENDS QueueSlot
CONSTANTS j1, j2, s1, s2, t1, t2
MCJobs == {j1, j2}
MCRemote == {j2}
MCStarters == {s1, s2}
MCThreads == {t1, t2}
=============================================================================
