------------------------------- MODULE DrainHook -------------------------------
(***************************************************************************)
(* The queue-drained hook: when a pass of the queue has found no work      *)
(* left, each configured mechanism, the webhook and then the command, is   *)
(* sent the jobs completed since its own watermark, in batches, and its    *)
(* watermark moves after each batch it took.  Receivers refuse or answer   *)
(* too late, the user changes the settings, clears the history and cancels *)
(* jobs, an outage puts its job back, and the process ends anywhere.       *)
(*                                                                         *)
(* Every booking has a completed_at of its own, later than all before; old *)
(* rows of the table may share one.                                        *)
(***************************************************************************)
EXTENDS Integers, Sequences, FiniteSets, FiniteSetsExt, Functions

CONSTANTS
  Jobs, NoJob, Mechanisms,
  AllMechanisms,   \* the order of dispatch
  Batch,
  OldTimes,        \* completed_at of what is in the history at first; Never is a job not there yet
  MaxTime, MaxEdits, MaxFaults

ASSUME DrainHookAssumption ==
  /\ NoJob \notin Jobs /\ IsFiniteSet(Jobs)
  /\ AllMechanisms \in Seq(Mechanisms) /\ Range(AllMechanisms) = Mechanisms
  /\ Batch \in Nat \ {0} /\ {MaxTime, MaxEdits, MaxFaults} \subseteq Nat
  /\ OldTimes \subseteq 0..MaxTime

Never == 0   \* completed_at IS NULL; a watermark that was never written

VARIABLES
  jobs,        \* the rows: status and completed_at
  clock,
  unreachable, \* the job an outage stopped the queue on
  pc, job,     \* the queue thread and its row
  cfg, turn,   \* the mechanisms this drain found configured, and where in their order it is
  batch,       \* what is being sent: rows, the watermark they were read with, more may remain
  watermark,
  configured,
  shutdown,
  took,        \* took[m]: the completions m was sent and took
  clean,       \* the mechanisms of this drain that have taken all they were sent
  edits, faults

thread == <<pc, job, cfg, turn, batch, clean>>
vars   == <<jobs, clock, unreachable, thread, watermark, configured, shutdown, took, edits, faults>>

Row  == [status : {"none", "queued", "encoding", "ended", "cleared"}, at : 0..MaxTime]
NoBatch == [rows |-> {}, from |-> Never, more |-> FALSE]

TypeOK ==
  /\ jobs \in [Jobs -> Row] /\ clock \in 0..MaxTime
  /\ unreachable \in SUBSET Jobs /\ Cardinality(unreachable) <= 1
  /\ pc \in {"off", "pass", "encode", "config", "load", "send", "store", "recheck"}
  /\ job \in Jobs \cup {NoJob}
  /\ cfg \in SUBSET Mechanisms /\ turn \in 0..Len(AllMechanisms)
  /\ batch \in [rows : SUBSET Jobs, from : 0..MaxTime, more : BOOLEAN]
  /\ watermark \in [Mechanisms -> 0..MaxTime] /\ configured \in SUBSET Mechanisms
  /\ shutdown \in BOOLEAN /\ took \in [Mechanisms -> SUBSET (Jobs \X (1..MaxTime))]
  /\ clean \in SUBSET Mechanisms /\ edits \in 0..MaxEdits /\ faults \in 0..MaxFaults

Init ==
  /\ \E t \in [Jobs -> OldTimes] :
       jobs = [j \in Jobs |-> [status |-> IF t[j] = Never THEN "none" ELSE "ended", at |-> t[j]]]
  /\ clock = Max(OldTimes \cup {0}) /\ unreachable = {}
  /\ pc = "off" /\ job = NoJob /\ cfg = {} /\ turn = 0 /\ batch = NoBatch /\ clean = {}
  /\ watermark = [m \in Mechanisms |-> Never] /\ configured = Mechanisms
  /\ shutdown = FALSE /\ took = [m \in Mechanisms |-> {}]
  /\ edits = 0 /\ faults = 0

With(s) == {j \in Jobs : jobs[j].status = s}
Completed == {j \in Jobs : jobs[j].status = "ended"}

-----------------------------------------------------------------------------
(* The queue, as far as it completes jobs.                                 *)

AddJob(j) ==
  /\ jobs[j].status = "none" /\ jobs' = [jobs EXCEPT ![j].status = "queued"]
  /\ UNCHANGED <<clock, unreachable, thread, watermark, configured, shutdown, took, edits, faults>>

\* A start puts the job of an outage back, with its completed_at cleared.
StartQueue ==
  /\ pc = "off" /\ ~shutdown /\ pc' = "pass"
  /\ jobs' = [j \in Jobs |-> IF j \in unreachable /\ jobs[j].status = "ended"
                             THEN [status |-> "queued", at |-> Never] ELSE jobs[j]]
  /\ unreachable' = {}
  /\ UNCHANGED <<clock, job, cfg, turn, batch, clean, watermark, configured, shutdown, took, edits, faults>>

\* Only a pass that finds no job left has drained the queue; a shutdown ends it before.
NextJob ==
  /\ pc = "pass"
  /\ IF shutdown THEN pc' = "off" /\ UNCHANGED <<jobs, job>>
     ELSE IF With("queued") = {} THEN pc' = "config" /\ UNCHANGED <<jobs, job>>
     ELSE \E j \in With("queued") :
            /\ job' = j /\ jobs' = [jobs EXCEPT ![j].status = "encoding"] /\ pc' = "encode"
  /\ UNCHANGED <<clock, unreachable, cfg, turn, batch, clean, watermark, configured, shutdown, took, edits, faults>>

Book(j) ==
  /\ clock < MaxTime /\ clock' = clock + 1
  /\ jobs' = [jobs EXCEPT ![j] = [status |-> "ended", at |-> clock']]

\* Done, skipped or failed; a row that a Cancel has booked is let be.
JobEnds ==
  /\ pc = "encode" /\ job' = NoJob
  /\ IF jobs[job].status = "encoding" THEN Book(job) ELSE UNCHANGED <<jobs, clock>>
  /\ pc' \in {"pass", "off"}   \* off: the user paused it
  /\ UNCHANGED <<unreachable, cfg, turn, batch, clean, watermark, configured, shutdown, took, edits, faults>>

\* The host of a remote job is out of reach: its row is booked, and the queue stops.
JobUnreachable ==
  /\ pc = "encode" /\ jobs[job].status = "encoding" /\ faults < MaxFaults /\ faults' = faults + 1
  /\ Book(job) /\ unreachable' = {job} /\ job' = NoJob /\ pc' = "off"
  /\ UNCHANGED <<cfg, turn, batch, clean, watermark, configured, shutdown, took, edits>>

Cancel ==
  /\ pc = "encode" /\ jobs[job].status = "encoding" /\ edits < MaxEdits /\ edits' = edits + 1
  /\ Book(job)
  /\ UNCHANGED <<unreachable, thread, watermark, configured, shutdown, took, faults>>

-----------------------------------------------------------------------------
(* fire_queue_drained and, per mechanism, drain_mechanism.                 *)

\* The loop over the mechanisms, from the i-th on: the next one found configured, or the end.
ServeFrom(i, found) ==
  LET left == {k \in i..Len(AllMechanisms) : AllMechanisms[k] \in found} IN
    \/ left = {} /\ pc' = "recheck" /\ cfg' = {} /\ turn' = 0
    \/ \E k \in left : (\A l \in left : k <= l) /\ pc' = "load" /\ cfg' = found /\ turn' = k

FireQueueDrained ==
  /\ pc = "config" /\ clean' = configured /\ ServeFrom(1, configured)
  /\ UNCHANGED <<jobs, clock, unreachable, job, batch, watermark, configured, shutdown, took, edits, faults>>

m0 == AllMechanisms[turn]

\* This mechanism is through, the next one has its turn.
NextMechanism == batch' = NoBatch /\ ServeFrom(turn + 1, cfg)

Newest(rows) == Max({jobs[j].at : j \in rows})

Since(t) == {j \in Completed : jobs[j].at > t}
OldestOf(S) ==
  {B \in kSubset(IF Cardinality(S) < Batch THEN Cardinality(S) ELSE Batch, S) :
     \A j \in B, k \in S \ B : jobs[j].at <= jobs[k].at}

\* As changed: what the limit cut off is what was cut.
AsCut(rows) == rows
\* A full batch may cut rows of one completed_at apart: those wait for the next one, unless the
\* batch is nothing else.
WithoutTies(rows) ==
  LET earlier == {j \in rows : jobs[j].at < Newest(rows)} IN
  IF Cardinality(rows) >= Batch /\ earlier # {} THEN earlier ELSE rows

LoadJobsSince ==
  /\ pc = "load"
  /\ LET t == watermark[m0] IN
     IF Since(t) = {} THEN NextMechanism
     ELSE \E B \in OldestOf(Since(t)) :
            /\ batch' = [rows |-> WithoutTies(B), from |-> t, more |-> Cardinality(B) >= Batch]
            /\ pc' = "send" /\ UNCHANGED <<cfg, turn>>
  /\ UNCHANGED <<jobs, clock, unreachable, job, clean, watermark, configured, shutdown, took, edits, faults>>

Sent == {<<j, jobs[j].at>> : j \in batch.rows}

\* As changed: one that does not get through ends the drain.
GiveUpAll ==
  /\ clean' = clean \ {m0} /\ batch' = NoBatch /\ ServeFrom(turn + 1, {})
GiveUp == clean' = clean \ {m0} /\ NextMechanism

\* dispatch_mechanism; a receiver that took it may still be heard as a failure.
Dispatched ==
  /\ pc = "send" /\ ~shutdown
  /\ took' = [took EXCEPT ![m0] = @ \cup Sent]
  /\ \/ pc' = "store" /\ UNCHANGED <<cfg, turn, batch, clean>>
     \/ GiveUp
  /\ UNCHANGED <<jobs, clock, unreachable, job, watermark, configured, shutdown, edits, faults>>

Undelivered ==
  /\ pc = "send" /\ GiveUp
  /\ UNCHANGED <<jobs, clock, unreachable, job, watermark, configured, shutdown, took, edits, faults>>

\* The watermark names the last row sent and is written for this mechanism alone.
StoreWatermark ==
  /\ pc = "store"
  /\ LET newest == Newest(batch.rows) IN
     IF newest = batch.from THEN NextMechanism /\ UNCHANGED watermark
     ELSE /\ watermark' = [watermark EXCEPT ![m0] = newest]
          /\ IF batch.more THEN pc' = "load" /\ batch' = NoBatch /\ UNCHANGED <<cfg, turn>>
             ELSE NextMechanism
  /\ UNCHANGED <<jobs, clock, unreachable, job, clean, configured, shutdown, took, edits, faults>>

StoreFails ==
  /\ pc = "store" /\ faults < MaxFaults /\ faults' = faults + 1 /\ GiveUp
  /\ UNCHANGED <<jobs, clock, unreachable, job, watermark, configured, shutdown, took, edits>>

\* Work that came meanwhile gets a pass of its own.
Recheck ==
  /\ pc = "recheck"
  /\ pc' = IF With("queued") # {} THEN "pass" ELSE "off"
  /\ UNCHANGED <<jobs, clock, unreachable, job, cfg, turn, batch, clean, watermark, configured,
                 shutdown, took, edits, faults>>

-----------------------------------------------------------------------------
(* The user and the end of the process.                                    *)

Configure(S) ==
  /\ edits < MaxEdits /\ edits' = edits + 1 /\ S # configured /\ configured' = S
  /\ UNCHANGED <<jobs, clock, unreachable, thread, watermark, shutdown, took, faults>>

ClearHistory ==
  /\ edits < MaxEdits /\ edits' = edits + 1 /\ Completed # {}
  /\ jobs' = [j \in Jobs |-> IF j \in Completed THEN [jobs[j] EXCEPT !.status = "cleared"]
                             ELSE jobs[j]]
  /\ UNCHANGED <<clock, unreachable, thread, watermark, configured, shutdown, took, faults>>

Quit ==
  /\ ~shutdown /\ faults < MaxFaults /\ faults' = faults + 1 /\ shutdown' = TRUE
  /\ UNCHANGED <<jobs, clock, unreachable, thread, watermark, configured, took, edits>>

\* The process ends, killed or after a Quit, and the next launch puts the row that was running back.
Relaunch ==
  /\ shutdown \/ faults < MaxFaults
  /\ faults' = IF shutdown THEN faults ELSE faults + 1
  /\ shutdown' = FALSE
  /\ jobs' = [j \in Jobs |-> IF jobs[j].status = "encoding" THEN [jobs[j] EXCEPT !.status = "queued"]
                             ELSE jobs[j]]
  /\ pc' = "off" /\ job' = NoJob /\ cfg' = {} /\ turn' = 0 /\ batch' = NoBatch /\ clean' = {}
  /\ UNCHANGED <<clock, unreachable, watermark, configured, took, edits>>

Thread ==
  \/ NextJob \/ JobEnds \/ JobUnreachable
  \/ FireQueueDrained \/ LoadJobsSince \/ Dispatched \/ Undelivered
  \/ StoreWatermark \/ StoreFails \/ Recheck

Next ==
  \/ Thread
  \/ (\E j \in Jobs : AddJob(j)) \/ StartQueue \/ Cancel
  \/ (\E S \in SUBSET Mechanisms : Configure(S)) \/ ClearHistory
  \/ Quit \/ Relaunch

Spec == Init /\ [][Next]_vars

-----------------------------------------------------------------------------
(* Properties.                                                             *)

\* Rows of one completed_at that no batch can hold: what is left of them is skipped, and logged.
TieTooLarge(t) == Cardinality({j \in Jobs : jobs[j].at = t}) > Batch

\* A failed hook does not advance past the jobs it tried to report: every completion a watermark
\* has passed was taken by that mechanism, whatever failed, ended or was configured in between.
NothingPassedOver ==
  \A m \in Mechanisms : \A j \in Completed :
    jobs[j].at <= watermark[m] => <<j, jobs[j].at>> \in took[m] \/ TieTooLarge(jobs[j].at)

\* A drain leaves a configured mechanism that took all it was sent without a backlog, however large
\* it was and whatever became of the other mechanism.
DrainServesEach ==
  [][(pc \notin {"recheck", "off"} /\ pc' = "recheck") =>
       \A m \in clean', j \in Completed :
         <<j, jobs[j].at>> \in took[m] \/ TieTooLarge(jobs[j].at)]_vars
=============================================================================
