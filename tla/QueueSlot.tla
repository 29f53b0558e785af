----------------------------- MODULE QueueSlot -----------------------------
(***************************************************************************)
(* The right to run the queue.                                             *)
(*                                                                         *)
(* At most one background thread drains the queue.  The right to be that   *)
(* thread is the flag `is_running', claimed and released under its mutex.  *)
(* Many actors want it at once: the UI, the HTTP API and the folder        *)
(* watcher add files and then start the queue; the desktop updater wants   *)
(* the opposite, an idle queue to install under.  A start refused because  *)
(* the queue is running leaves a mark, `work_arrived_while_busy', that the *)
(* running thread settles before it gives the slot back.                   *)
(*                                                                         *)
(* An encode is one step here (module Conversion opens it up).  Stopping   *)
(* is modelled at the level of the queue: "Pause after this", which is     *)
(* also every Pause of a non-unix build, the low-disk gate, an unreachable *)
(* host, the quit path and a panic of the thread.                          *)
(***************************************************************************)
EXTENDS Naturals

CONSTANTS
  Jobs,             \* rows the callers may insert
  RemoteJobs,       \* those whose file lives on a remote host
  NoJob,            \* the absent job
  Starters,         \* callers that add files and start the queue
  Threads,          \* identities of queue threads
  MaxAttempts,      \* bound: Start presses with nothing to add, plus install attempts
  InstallMayFail,   \* may an update install fail and leave the app running?
  HookStartsQueue   \* does the queue-drained hook itself start the queue?

ASSUME SlotAssumption ==
  /\ NoJob \notin Jobs
  /\ RemoteJobs \subseteq Jobs
  /\ MaxAttempts \in Nat
  /\ InstallMayFail \in BOOLEAN /\ HookStartsQueue \in BOOLEAN

VARIABLES
  row,          \* jobs.status, per row; "absent" before the insert, "deleted" after a delete
  queuePaused,  \* settings row queue_paused (persisted)
  outageJob,    \* settings row unreachable_job_id (persisted)
  isRunning,    \* ConverterState.is_running
  installing,   \* ConverterState.installing
  workArrived,  \* ConverterState.work_arrived_while_busy
  pauseAfter,   \* ConverterState.pause_after_current
  lowDisk,      \* ConverterState.low_disk_pause is Some
  shutdown,     \* ConverterState.shutdown
  tpc,          \* where each queue thread is; "none" when there is no such thread
  cur,          \* the job a thread has picked
  afterRemote,  \* the thread's local after_remote_job
  spc,          \* where each starter is inside add / start_queue
  sjob,         \* the job a starter is about to start the queue for
  alive,        \* the process runs
  restarting,   \* an update was installed and the restart is on its way
  told,         \* history: rows whose start request has been answered
  lastStop,     \* history: why the queue last came to rest, if not by draining
  armedOn,      \* history: the job of this run that pauseAfter was armed on, while that may take it
  attempts       \* Start attempts so far (bounded by MaxAttempts)

persisted == <<row, queuePaused, outageJob>>
flags     == <<isRunning, installing, workArrived, pauseAfter, lowDisk, shutdown>>
thread    == <<tpc, cur, afterRemote>>
starter   == <<spc, sjob>>
process   == <<alive, restarting>>
history   == <<told, lastStop, armedOn, attempts>>
vars      == <<persisted, flags, thread, starter, process, history>>

Rows == {"absent", "queued", "encoding", "finished", "unreachable", "deleted"}
ThreadPcs == {"none", "pass", "head", "pick", "gate", "claim", "encode", "outage",
              "booked", "pausing", "hook", "arrived", "lookup", "release", "unwind"}
StarterPcs == {"idle", "starting", "claimed", "unpaused"}
Stops == {"none", "pause", "lowdisk", "outage", "shutdown", "panic", "install"}

Queued == {j \in Jobs : row[j] = "queued"}
Live(t) == tpc[t] # "none"
Claimed(s) == spc[s] \in {"claimed", "unpaused"}

\* A stop somebody or something asked for, which the user can see and lift.
Held == queuePaused \/ lowDisk \/ shutdown \/ lastStop = "panic"

TypeOK ==
  /\ row \in [Jobs -> Rows]
  /\ queuePaused \in BOOLEAN
  /\ outageJob \in Jobs \cup {NoJob}
  /\ isRunning \in BOOLEAN /\ installing \in BOOLEAN /\ workArrived \in BOOLEAN
  /\ pauseAfter \in BOOLEAN /\ lowDisk \in BOOLEAN /\ shutdown \in BOOLEAN
  /\ tpc \in [Threads -> ThreadPcs]
  /\ cur \in [Threads -> Jobs \cup {NoJob}]
  /\ \A t \in Threads : tpc[t] \in {"gate", "claim", "encode", "outage", "booked"} => cur[t] \in Jobs
  /\ afterRemote \in [Threads -> BOOLEAN]
  /\ spc \in [Starters -> StarterPcs]
  /\ sjob \in [Starters -> Jobs \cup {NoJob}]
  /\ alive \in BOOLEAN /\ restarting \in BOOLEAN
  /\ told \subseteq Jobs
  /\ lastStop \in Stops
  /\ armedOn \in Jobs \cup {NoJob}
  /\ attempts \in 0..MaxAttempts

Init ==
  /\ row = [j \in Jobs |-> "absent"]
  /\ queuePaused = FALSE
  /\ outageJob = NoJob
  /\ isRunning = FALSE /\ installing = FALSE /\ workArrived = FALSE
  /\ pauseAfter = FALSE /\ lowDisk = FALSE /\ shutdown = FALSE
  /\ tpc = [t \in Threads |-> "none"]
  /\ cur = [t \in Threads |-> NoJob]
  /\ afterRemote = [t \in Threads |-> FALSE]
  /\ spc = [s \in Starters |-> "idle"]
  /\ sjob = [s \in Starters |-> NoJob]
  /\ alive = TRUE /\ restarting = FALSE
  /\ told = {} /\ lastStop = "none" /\ armedOn = NoJob /\ attempts = 0

-----------------------------------------------------------------------------
(* Starters: add_files, a watched file or a Start button, then start_queue. *)

\* add_files / enqueue_and_start insert the row under the db lock, and start the queue later.
Add(s, j) ==
  /\ alive /\ spc[s] = "idle" /\ row[j] = "absent"
  /\ row' = [row EXCEPT ![j] = "queued"]
  /\ spc' = [spc EXCEPT ![s] = "starting"]
  /\ sjob' = [sjob EXCEPT ![s] = j]
  /\ UNCHANGED <<queuePaused, outageJob, flags, thread, process, history>>

\* The Start / Resume / Retry buttons call start_queue with nothing to add.
PressStart(s) ==
  /\ alive /\ spc[s] = "idle" /\ attempts < MaxAttempts
  /\ attempts' = attempts + 1
  /\ spc' = [spc EXCEPT ![s] = "starting"]
  /\ sjob' = [sjob EXCEPT ![s] = NoJob]
  /\ UNCHANGED <<persisted, flags, thread, process, told, lastStop, armedOn>>

\* Seeded fault: the claim forgets the update interlock.
ClaimGranted_NoInterlock(s) ==
  /\ ~isRunning
  /\ isRunning' = TRUE
  /\ spc' = [spc EXCEPT ![s] = "claimed"]
  /\ UNCHANGED workArrived

\* Seeded fault: a refused start returns silently, as start_queue once did.
ClaimRefusedBusy_Silent(s) ==
  /\ isRunning
  /\ spc' = [spc EXCEPT ![s] = "idle"]
  /\ UNCHANGED <<isRunning, workArrived>>

\* claim_queue_slot, one critical section of the is_running mutex.  A refusal by a running
\* queue leaves the mark; a refusal by an install does not.
ClaimGranted(s) ==
  /\ ~isRunning /\ ~installing
  /\ isRunning' = TRUE
  /\ spc' = [spc EXCEPT ![s] = "claimed"]
  /\ UNCHANGED workArrived

ClaimRefusedBusy(s) ==
  /\ isRunning
  /\ workArrived' = TRUE
  /\ spc' = [spc EXCEPT ![s] = "idle"]
  /\ UNCHANGED isRunning

ClaimRefusedInstalling(s) ==
  /\ ~isRunning /\ installing
  /\ spc' = [spc EXCEPT ![s] = "idle"]
  /\ UNCHANGED <<isRunning, workArrived>>

ClaimQueueSlot(s) ==
  /\ alive /\ spc[s] = "starting"
  /\ ClaimGranted(s) \/ ClaimRefusedBusy(s) \/ ClaimRefusedInstalling(s)
  /\ told' = told \cup ({sjob[s]} \ {NoJob})
  /\ sjob' = [sjob EXCEPT ![s] = NoJob]
  /\ UNCHANGED <<persisted, installing, pauseAfter, lowDisk, shutdown, thread, process,
                 lastStop, armedOn, attempts>>

\* start_queue, holding the slot: requeue_after_outage and set_queue_paused(false), one db lock.
RequeuedAfterOutage ==
  IF outageJob \in Jobs /\ row[outageJob] = "unreachable" THEN {outageJob} ELSE {}

StartUnpauses(s) ==
  /\ alive /\ spc[s] = "claimed"
  /\ row' = [j \in Jobs |-> IF j \in RequeuedAfterOutage THEN "queued" ELSE row[j]]
  /\ told' = told \cup RequeuedAfterOutage
  /\ outageJob' = NoJob
  /\ queuePaused' = FALSE
  /\ spc' = [spc EXCEPT ![s] = "unpaused"]
  /\ UNCHANGED <<flags, thread, sjob, process, lastStop, armedOn, attempts>>

\* spawn_queue_thread, for a slot the caller already holds.
StartSpawns(s) ==
  /\ alive /\ spc[s] = "unpaused"
  /\ \E t \in Threads :
       /\ tpc[t] = "none"
       /\ tpc' = [tpc EXCEPT ![t] = "pass"]
  /\ spc' = [spc EXCEPT ![s] = "idle"]
  /\ UNCHANGED <<persisted, flags, cur, afterRemote, sjob, process, history>>

-----------------------------------------------------------------------------
(* The queue thread: process_queue around process_queue_pass.              *)

At(t, pc) == alive /\ tpc[t] = pc
Goto(t, pc) == tpc' = [tpc EXCEPT ![t] = pc]

\* The top of process_queue_pass forgets the previous run's reasons for stopping.
PassBegins(t) ==
  /\ At(t, "pass")
  /\ lowDisk' = FALSE
  /\ lastStop' = "none"
  /\ afterRemote' = [afterRemote EXCEPT ![t] = FALSE]
  /\ Goto(t, "head")
  /\ UNCHANGED <<persisted, isRunning, installing, workArrived, pauseAfter, shutdown, cur,
                 starter, process, told, armedOn, attempts>>

\* take_pause_after_current: read and clear in one step.
TakePauseAfterCurrent(t, otherwise) ==
  /\ pauseAfter' = FALSE
  /\ armedOn' = NoJob
  /\ Goto(t, IF pauseAfter THEN "pausing" ELSE otherwise)

\* The loop head: a remote job's error paths are caught up with here, then the quit latch.
LoopHead(t) ==
  /\ At(t, "head")
  /\ IF afterRemote[t] /\ pauseAfter
       THEN TakePauseAfterCurrent(t, "head") /\ UNCHANGED lastStop
       ELSE /\ Goto(t, IF shutdown THEN "unwind" ELSE "pick")
            /\ lastStop' = IF shutdown THEN "shutdown" ELSE lastStop
            /\ UNCHANGED <<pauseAfter, armedOn>>
  /\ UNCHANGED <<persisted, isRunning, installing, workArrived, lowDisk, shutdown, cur,
                 afterRemote, starter, process, told, attempts>>

\* get_next_job, under the db lock.  It never consults queue_paused.
PickJob(t) ==
  /\ At(t, "pick")
  /\ \/ /\ Queued = {}
        /\ Goto(t, "hook") /\ UNCHANGED cur
     \/ \E j \in Queued :
          /\ cur' = [cur EXCEPT ![t] = j]
          /\ Goto(t, "gate")
  /\ UNCHANGED <<persisted, flags, afterRemote, starter, process, history>>

\* The gates between the pick and the claim, all outside the db lock: a job that cannot run is
\* booked as an error by id, whatever its row has become; low disk stops the run.
BookById(j, status) == row' = [row EXCEPT ![j] = IF @ = "deleted" THEN @ ELSE status]

GateBooksError(t) ==
  /\ At(t, "gate")
  /\ BookById(cur[t], "finished")
  /\ Goto(t, "head")
  /\ UNCHANGED <<queuePaused, outageJob, flags, cur, afterRemote, starter, process, history>>

GateLowDisk(t) ==
  /\ At(t, "gate")
  /\ lowDisk' = TRUE
  /\ lastStop' = "lowdisk"
  /\ Goto(t, "unwind")
  /\ UNCHANGED <<persisted, isRunning, installing, workArrived, pauseAfter, shutdown, cur,
                 afterRemote, starter, process, told, armedOn, attempts>>

GatePasses(t) ==
  /\ At(t, "gate")
  /\ Goto(t, "claim")
  /\ UNCHANGED <<persisted, flags, cur, afterRemote, starter, process, history>>

\* claim_job flips the row only while it is still queued; otherwise the job is gone.
ClaimJob(t) ==
  /\ At(t, "claim")
  /\ \/ /\ row[cur[t]] = "queued"
        /\ row' = [row EXCEPT ![cur[t]] = "encoding"]
        /\ afterRemote' = [afterRemote EXCEPT ![t] = cur[t] \in RemoteJobs]
        /\ Goto(t, "encode")
     \/ /\ row[cur[t]] # "queued"
        /\ Goto(t, "head")
        /\ UNCHANGED <<row, afterRemote>>
  /\ UNCHANGED <<queuePaused, outageJob, flags, cur, starter, process, history>>

\* The conversion ends: booked done or skipped, booked as an error, or cut off from its host.
JobCompletes(t) ==
  /\ At(t, "encode")
  /\ BookById(cur[t], "finished")
  /\ Goto(t, "booked")
  /\ UNCHANGED <<queuePaused, outageJob, flags, cur, afterRemote, starter, process, history>>

\* A failed local job goes on to the next without looking at "pause after this".
JobFails(t) ==
  /\ At(t, "encode")
  /\ BookById(cur[t], "finished")
  /\ armedOn' = IF afterRemote[t] THEN armedOn ELSE NoJob
  /\ Goto(t, "head")
  /\ UNCHANGED <<queuePaused, outageJob, flags, cur, afterRemote, starter, process, told, lastStop,
                 attempts>>

\* stop_for_unreachable persists the pause and the job first, then books the job.
OutageStops(t) ==
  /\ At(t, "encode") /\ cur[t] \in RemoteJobs
  /\ queuePaused' = TRUE
  /\ outageJob' = cur[t]
  /\ Goto(t, "outage")
  /\ UNCHANGED <<row, flags, cur, afterRemote, starter, process, history>>

OutageBooks(t) ==
  /\ At(t, "outage")
  /\ BookById(cur[t], "unreachable")
  /\ lastStop' = "outage"
  /\ Goto(t, "unwind")
  /\ UNCHANGED <<queuePaused, outageJob, flags, cur, afterRemote, starter, process, told,
                 armedOn, attempts>>

\* Seeded fault: a finished job goes on to the next without looking at the flag.
PauseIfArmed_Skipped(t) ==
  /\ At(t, "booked")
  /\ Goto(t, "head")
  /\ UNCHANGED <<persisted, flags, cur, afterRemote, starter, process, history>>

\* pause_if_armed, after the booking, its hook and its notification.
PauseIfArmed(t) ==
  /\ At(t, "booked")
  /\ TakePauseAfterCurrent(t, "head")
  /\ UNCHANGED <<persisted, isRunning, installing, workArrived, lowDisk, shutdown, cur,
                 afterRemote, starter, process, told, lastStop, attempts>>

PersistPause(t) ==
  /\ At(t, "pausing")
  /\ queuePaused' = TRUE
  /\ lastStop' = "pause"
  /\ Goto(t, "unwind")
  /\ UNCHANGED <<row, outageJob, flags, cur, afterRemote, starter, process, told, armedOn,
                 attempts>>

\* fire_queue_drained may block for minutes; its own side effect may be a refused start.
DrainHook(t) ==
  /\ At(t, "hook")
  /\ workArrived' = (workArrived \/ HookStartsQueue)
  /\ Goto(t, "arrived")
  /\ UNCHANGED <<persisted, isRunning, installing, pauseAfter, lowDisk, shutdown, cur,
                 afterRemote, starter, process, history>>

\* work_arrived_while_busy takes the mark without any lock, then asks the database.
TakeWorkArrived(t) ==
  /\ At(t, "arrived")
  /\ workArrived' = FALSE
  /\ Goto(t, IF workArrived THEN "lookup" ELSE "release")
  /\ UNCHANGED <<persisted, isRunning, installing, pauseAfter, lowDisk, shutdown, cur,
                 afterRemote, starter, process, history>>

\* Seeded faults: the mark is consumed and the database not asked; the mark is answered with
\* another pass, work or no work.
LookForWork_Never(t) ==
  /\ At(t, "lookup")
  /\ Goto(t, "release")
  /\ UNCHANGED <<persisted, flags, cur, afterRemote, starter, process, history>>

LookForWork_FlagAlone(t) ==
  /\ At(t, "lookup")
  /\ Goto(t, "pass")
  /\ UNCHANGED <<persisted, flags, cur, afterRemote, starter, process, history>>

LookForWork(t) ==
  /\ At(t, "lookup")
  /\ Goto(t, IF Queued # {} THEN "pass" ELSE "release")
  /\ UNCHANGED <<persisted, flags, cur, afterRemote, starter, process, history>>

\* A thread that is gone leaves no local state behind.
ThreadEnds(t) ==
  /\ Goto(t, "none")
  /\ cur' = [cur EXCEPT ![t] = NoJob]
  /\ afterRemote' = [afterRemote EXCEPT ![t] = FALSE]
  /\ armedOn' = NoJob

\* Seeded faults: the released slot is cleared once more by a guard nobody disarmed; the mark is
\* not looked at.
ReleaseSlot_StillArmed(t) ==
  /\ At(t, "release")
  /\ isRunning' = workArrived
  /\ Goto(t, IF workArrived THEN "arrived" ELSE "unwind")
  /\ UNCHANGED <<persisted, installing, workArrived, pauseAfter, lowDisk, shutdown, cur,
                 afterRemote, starter, process, history>>

ReleaseSlot_Blind(t) ==
  /\ At(t, "release")
  /\ isRunning' = FALSE
  /\ ThreadEnds(t)
  /\ UNCHANGED <<persisted, installing, workArrived, pauseAfter, lowDisk, shutdown, starter,
                 process, told, lastStop, attempts>>

\* release_queue_slot_unless_work_arrived: the mark is read, not consumed, under the mutex.
ReleaseSlot(t) ==
  /\ At(t, "release")
  /\ \/ /\ workArrived
        /\ Goto(t, "arrived")
        /\ UNCHANGED <<isRunning, cur, afterRemote, armedOn>>
     \/ /\ ~workArrived
        /\ isRunning' = FALSE
        /\ ThreadEnds(t)
  /\ UNCHANGED <<persisted, installing, workArrived, pauseAfter, lowDisk, shutdown, starter,
                 process, told, lastStop, attempts>>

\* Seeded fault: a stopped run answers the mark as a drained one does.
GuardDrops_RunsAgain(t) ==
  /\ At(t, "unwind")
  /\ IF workArrived
       THEN Goto(t, "head") /\ UNCHANGED <<isRunning, cur, afterRemote, armedOn>>
       ELSE isRunning' = FALSE /\ ThreadEnds(t)
  /\ UNCHANGED <<persisted, installing, workArrived, pauseAfter, lowDisk, shutdown, starter,
                 process, told, lastStop, attempts>>

\* A Stopped pass, or an unwinding panic: RunningGuard's drop clears the flag, mark or no mark.
GuardDrops(t) ==
  /\ At(t, "unwind")
  /\ isRunning' = FALSE
  /\ ThreadEnds(t)
  /\ UNCHANGED <<persisted, installing, workArrived, pauseAfter, lowDisk, shutdown, starter,
                 process, told, lastStop, attempts>>

\* The thread panics, wherever it is: the guard drops as after a stop, and a job it was converting
\* is left as it stands, its row `encoding' and its encoder running.
Panic(t) ==
  /\ alive /\ Live(t) /\ tpc[t] # "unwind"
  /\ lastStop' = "panic"
  /\ Goto(t, "unwind")
  /\ UNCHANGED <<persisted, flags, cur, afterRemote, starter, process, told, armedOn, attempts>>

QueueThread(t) ==
  \/ PassBegins(t) \/ LoopHead(t) \/ PickJob(t)
  \/ GateBooksError(t) \/ GateLowDisk(t) \/ GatePasses(t) \/ ClaimJob(t)
  \/ JobCompletes(t) \/ JobFails(t) \/ OutageStops(t) \/ OutageBooks(t)
  \/ PauseIfArmed(t) \/ PersistPause(t)
  \/ DrainHook(t) \/ TakeWorkArrived(t) \/ LookForWork(t)
  \/ ReleaseSlot(t) \/ GuardDrops(t)

-----------------------------------------------------------------------------
(* The user's other commands.                                              *)

\* "Pause after this", and every Pause of a non-unix build.
PauseAfterCurrent ==
  /\ alive /\ ~pauseAfter
  /\ pauseAfter' = TRUE
  /\ armedOn' = IF \E t \in Threads : tpc[t] \in {"encode", "booked"}
                  THEN cur[CHOOSE t \in Threads : tpc[t] \in {"encode", "booked"}]
                  ELSE NoJob
  /\ UNCHANGED <<persisted, isRunning, installing, workArrived, lowDisk, shutdown, thread,
                 starter, process, told, lastStop, attempts>>

CancelPauseAfterCurrent ==
  /\ alive /\ pauseAfter
  /\ pauseAfter' = FALSE
  /\ armedOn' = NoJob
  /\ UNCHANGED <<persisted, isRunning, installing, workArrived, lowDisk, shutdown, thread,
                 starter, process, told, lastStop, attempts>>

RemoveJob(j) ==
  /\ alive /\ row[j] = "queued"
  /\ row' = [row EXCEPT ![j] = "deleted"]
  /\ UNCHANGED <<queuePaused, outageJob, flags, thread, starter, process, history>>

\* clear_queue deletes the queued rows and drops every reason for not running.
ClearQueue ==
  /\ alive
  /\ row' = [j \in Jobs |-> IF row[j] = "queued" THEN "deleted" ELSE row[j]]
  /\ lowDisk' = FALSE
  /\ outageJob' = NoJob
  /\ queuePaused' = FALSE
  /\ UNCHANGED <<isRunning, installing, workArrived, pauseAfter, shutdown, thread, starter,
                 process, history>>

-----------------------------------------------------------------------------
(* The updater's interlock, and the life of the process.                   *)

\* try_install_now claims `installing' under the is_running mutex, only when idle.
TryInstall ==
  /\ alive /\ ~restarting /\ ~installing /\ attempts < MaxAttempts
  /\ ~isRunning
  /\ installing' = TRUE
  /\ attempts' = attempts + 1
  /\ UNCHANGED <<persisted, isRunning, workArrived, pauseAfter, lowDisk, shutdown, thread,
                 starter, process, told, lastStop, armedOn>>

\* InstallingGuard's drop, then restart_after_install.
InstallSucceeds ==
  /\ alive /\ installing
  /\ installing' = FALSE
  /\ restarting' = TRUE
  /\ UNCHANGED <<persisted, isRunning, workArrived, pauseAfter, lowDisk, shutdown, thread,
                 starter, alive, history>>

\* A failed install gives the queue back without starting it; lastStop keeps that in mind.
InstallFails ==
  /\ alive /\ installing /\ InstallMayFail
  /\ installing' = FALSE
  /\ lastStop' = "install"
  /\ UNCHANGED <<persisted, isRunning, workArrived, pauseAfter, lowDisk, shutdown, thread,
                 starter, process, told, armedOn, attempts>>

\* The exit handler arms the latch (kill_active_child) before the process goes.
BeginQuit ==
  /\ alive /\ ~shutdown
  /\ shutdown' = TRUE
  /\ UNCHANGED <<persisted, isRunning, installing, workArrived, pauseAfter, lowDisk, thread,
                 starter, process, history>>

\* The process ends, by a quit, an update's restart or a crash: only the database survives.
ProcessEnds ==
  /\ alive
  /\ alive' = FALSE
  /\ isRunning' = FALSE /\ installing' = FALSE /\ workArrived' = FALSE
  /\ pauseAfter' = FALSE /\ lowDisk' = FALSE /\ shutdown' = FALSE
  /\ tpc' = [t \in Threads |-> "none"]
  /\ cur' = [t \in Threads |-> NoJob]
  /\ afterRemote' = [t \in Threads |-> FALSE]
  /\ spc' = [s \in Starters |-> "idle"]
  /\ sjob' = [s \in Starters |-> NoJob]
  /\ restarting' = FALSE
  /\ told' = {} /\ lastStop' = "none" /\ armedOn' = NoJob
  /\ UNCHANGED <<persisted, attempts>>

\* boot: recover_interrupted_jobs, then run_queue if there is work and no remembered pause.
\* Nothing else runs yet, so its claim is always granted.
Boot ==
  /\ ~alive
  /\ alive' = TRUE
  /\ row' = [j \in Jobs |-> IF row[j] = "encoding" THEN "queued" ELSE row[j]]
  /\ told' = {j \in Jobs : row'[j] = "queued"}
  /\ \/ /\ told' # {} /\ ~queuePaused
        /\ isRunning' = TRUE
        /\ \E t \in Threads : Goto(t, "pass")
     \/ /\ told' = {} \/ queuePaused
        /\ UNCHANGED <<isRunning, tpc>>
  /\ UNCHANGED <<queuePaused, outageJob, installing, workArrived, pauseAfter, lowDisk, shutdown,
                 cur, afterRemote, starter, restarting, lastStop, armedOn, attempts>>

-----------------------------------------------------------------------------
Next ==
  \/ \E s \in Starters : \/ \E j \in Jobs : Add(s, j)
                         \/ PressStart(s)
                         \/ ClaimQueueSlot(s)
                         \/ StartUnpauses(s)
                         \/ StartSpawns(s)
  \/ \E t \in Threads : QueueThread(t) \/ Panic(t)
  \/ PauseAfterCurrent \/ CancelPauseAfterCurrent
  \/ \E j \in Jobs : RemoveJob(j)
  \/ ClearQueue
  \/ TryInstall \/ InstallSucceeds \/ InstallFails
  \/ BeginQuit \/ ProcessEnds \/ Boot

Spec == Init /\ [][Next]_vars

\* Threads and calls already under way are scheduled, an encode and a hook end (both are bounded
\* by their process or their timeout), an installer returns, and an installed update restarts
\* the process.  Nothing obliges a user, a watched folder or a crash to act.
Fairness ==
  /\ \A t \in Threads : WF_vars(QueueThread(t))
  /\ \A s \in Starters : WF_vars(ClaimQueueSlot(s) \/ StartUnpauses(s) \/ StartSpawns(s))
  /\ WF_vars(InstallSucceeds \/ InstallFails)
  /\ WF_vars(restarting /\ ProcessEnds)

FairSpec == Spec /\ Fairness

-----------------------------------------------------------------------------
(* The queue as its users see it.                                          *)

\* A job is worked on by the thread that converts it; a row that says so without one was cut off.
Converting(j) == \E t \in Threads : tpc[t] \in {"encode", "outage"} /\ cur[t] = j

Service == INSTANCE QueueService WITH
  waiting  <- Queued,
  active   <- {j \in Jobs : Converting(j)},
  cutOff   <- {j \in Jobs : row[j] = "encoding" /\ ~Converting(j)},
  promised <- told,
  open     <- isRunning,
  stopped  <- Held \/ lastStop # "none",
  excused  <- installing \/ restarting \/ ~alive

\* The slot protocol implements the service: in particular a start that is answered opens the
\* queue, or is seen by the run that refused it before that run gives the slot back.
ImplementsService == Service!Spec

-----------------------------------------------------------------------------
(* Safety.                                                                 *)

\* Whoever runs the queue runs it alone: one thread or one caller about to spawn it, never two,
\* and is_running says exactly whether there is one.  A flag left set wedges every later start;
\* one cleared under a live thread lets a second thread run the queue.
OneQueueRunner ==
  /\ \A t, u \in Threads : Live(t) /\ Live(u) => t = u
  /\ \A s, r \in Starters : Claimed(s) /\ Claimed(r) => s = r
  /\ \A t \in Threads, s \in Starters : ~(Live(t) /\ Claimed(s))
  /\ isRunning <=> (\E t \in Threads : Live(t)) \/ (\E s \in Starters : Claimed(s))

\* No job is converted while an update replaces the program underneath it.
InstallExcludesQueue ==
  installing => ~isRunning /\ \A t \in Threads : ~Live(t)

\* One user of the program at a time: one runner of the queue, or an update that replaces it.
SlotIsExclusive == OneQueueRunner /\ InstallExcludesQueue

\* A start that was answered is never forgotten by a run that drained: an idle queue whose last
\* run was not stopped has nothing queued that anyone was told would run.
DrainedRunLeavesNoWork ==
  alive /\ ~isRunning /\ ~installing /\ ~restarting /\ lastStop = "none" /\ ~Held
    => told \cap Queued = {}

\* A run that was stopped stays stopped: the thread that persisted a pause, met the low-disk
\* gate or lost its host takes no further job, although picking a job never looks at the pause.
StoppedRunTakesNoJob ==
  [][\A t \in Threads : lastStop # "none" /\ tpc[t] \notin {"none", "pass"}
                          => tpc'[t] \in {tpc[t], "none"}]_vars

\* "Pause after this" is kept: a pause armed while a job was running holds before another job
\* is claimed, unless that job failed on this machine or its run was stopped some other way.
PauseHoldsBeforeNextJob ==
  [][\A j \in Jobs : row[j] = "queued" /\ row'[j] = "encoding"
                       => ~(pauseAfter /\ armedOn \notin {NoJob, j})]_vars

-----------------------------------------------------------------------------
(* Liveness.                                                               *)

\* Work someone was told about is taken up, unless the queue is stopped or the process goes.
ToldWorkIsServed ==
  \A j \in Jobs : (j \in told /\ row[j] = "queued")
                   ~> (row[j] # "queued" \/ Held \/ lastStop # "none" \/ ~alive)

\* The queue comes to rest, even when its own queue-drained hook starts it again every time.
QueueComesToRest == isRunning ~> ~isRunning
=============================================================================
