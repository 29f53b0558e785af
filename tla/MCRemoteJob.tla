----------------------------- MODULE MCRemoteJob -----------------------------
(* TLC instances of RemoteJob: one job of either kind with two faults, two rows of one file with one. *)
EXTENDS RemoteJob
CONSTANTS j1, j2, f1
MCJobs == {j1, j2}
MCFiles == {f1}
Layout(jobs, in, f) == [jobs |-> jobs, file |-> [j \in MCJobs |-> f1], inPlace |-> in, faults |-> f]
OneAndTwins == {Layout({j1}, {}, 2), Layout({j1}, {f1}, 2), Layout(MCJobs, {}, 1)}
Alone == {Layout({j1}, {}, 1), Layout({j1}, {f1}, 1)}
=============================================================================
