----------------------------- MODULE Conversion -----------------------------
(***************************************************************************)
(* One conversion, opened up: the queue thread around a HandBrake process, *)
(* the Pause, Resume, Cancel and Quit calls that race it, the three places *)
(* the user's video can be (the source path, the Trash, the encode         *)
(* target), and the process's death and relaunch.                          *)
(*                                                                         *)
(* Local jobs on a platform that can freeze a process.  The slot, the      *)
(* gates and "Pause after this" are module QueueSlot's; picking and        *)
(* claiming a job is one step here.                                        *)
(***************************************************************************)
EXTENDS Naturals

CONSTANTS
  Jobs,
  InPlace,         \* jobs whose output path is their source path
  Ahead,           \* pairs <<k, j>>: k stands before j in the queue
  NoJob,
  Callers,         \* threads that serve the UI or the HTTP API
  CleanupModes,    \* the values of cleanup_mode the user moves between
  Calls,           \* which calls are made
  MaxCalls,        \* bound: how many calls are made
  MaxEnds          \* bound: how often the process ends

ASSUME ConversionAssumption ==
  /\ InPlace \subseteq Jobs /\ NoJob \notin Jobs
  /\ Ahead \subseteq Jobs \X Jobs
  /\ CleanupModes \subseteq {"trash", "delete", "keep"}
  /\ Calls \subseteq {"pause", "resume", "cancel", "quit", "setting"}
  /\ MaxCalls \in Nat /\ MaxEnds \in Nat

VARIABLES
  row,          \* jobs.status; "deleted" when the row is gone
  message,      \* jobs.error_message, as far as it tells a Cancel from a failure
  queuePaused,  \* settings row queue_paused
  cleanupMode,  \* settings row cleanup_mode
  src,          \* the file at source_path
  trash,        \* the original is in the Trash
  target,       \* the file HandBrake writes: the output, or an in-place job's temp
  proc,         \* the job's HandBrake process
  frozen,       \* it is stopped by SIGSTOP
  currentJob,   \* ConverterState.current_job_id
  currentPid,   \* ConverterState.current_pid, named by its job
  currentChild, \* ConverterState.current_child, named by its job
  shutdown,     \* ConverterState.shutdown
  qpc,          \* where the queue thread is; "none" when there is none
  job,          \* its job
  exit,         \* how the child it waited for ended
  kept,         \* decide_cleanup's verdict
  mode,         \* cleanup_mode as re-read after the encode
  cpc,          \* where each call is
  cpid, cjob,   \* what it read from current_pid and current_job_id
  cdone,        \* a Cancel's update hit its row
  alive, ends,  \* the process runs; how often it has ended
  made,         \* how many calls have begun
  \* History, which no action reads:
  killed,       \* jobs whose live encoder the quit path killed
  purged,       \* jobs whose original was destroyed by a cleanup that had read `delete'
  missed,       \* jobs a Cancel booked whose kill found no live encoder of theirs: too early, or late
  adrift,       \* jobs whose pid a Cancel forgot while their encoder lived
  misread       \* jobs past their cleanup or booking whose row has come to say that they still run

persisted == <<row, message, queuePaused, cleanupMode>>
disk      == <<src, trash, target>>
encoder   == <<proc, frozen>>
handles   == <<currentJob, currentPid, currentChild>>
locals    == <<job, exit, kept, mode>>
thread    == <<qpc, locals>>
call      == <<cpc, cpid, cjob, cdone>>
process   == <<alive, ends, made>>
lapses    == <<purged, missed, adrift, misread>>
history   == <<killed, lapses>>
vars      == <<persisted, disk, encoder, handles, shutdown, thread, call, process, history>>

Rows == {"queued", "encoding", "paused", "done", "skipped", "error", "deleted"}
ThreadPcs == {"none", "next", "setjob", "prepare", "spawn", "setpid", "setchild", "recheck",
              "wait", "clear", "clearchild", "clearjob", "unspawned", "judge", "condemn", "reread",
              "apply", "rename", "book", "botched", "partial", "verdict"}
CallPcs == {"idle", "pauseJob", "pauseStop", "pauseRow", "resumePid", "resumeJob", "resumeCont",
            "resumeRow", "cancelRow", "cancelKill", "cancelPid", "cancelFile", "quitKill",
            "dropInPlace"}
Procs == {"none", "started", "writing", "ok", "bad", "killed"}

Running == {"encoding", "paused"}
LiveProc(j) == proc[j] \in {"started", "writing"}
Quiet == \A c \in Callers : cpc[c] = "idle"

TypeOK ==
  /\ row \in [Jobs -> Rows]
  /\ message \in [Jobs -> {"none", "cancelled", "failed"}]
  /\ queuePaused \in BOOLEAN
  /\ cleanupMode \in CleanupModes
  /\ src \in [Jobs -> {"original", "encoded", "gone"}]
  /\ trash \in [Jobs -> BOOLEAN]
  /\ target \in [Jobs -> {"none", "partial", "whole"}]
  /\ proc \in [Jobs -> Procs]
  /\ frozen \in [Jobs -> BOOLEAN]
  /\ currentJob \in Jobs \cup {NoJob}
  /\ currentPid \in Jobs \cup {NoJob}
  /\ currentChild \in Jobs \cup {NoJob}
  /\ shutdown \in BOOLEAN
  /\ qpc \in ThreadPcs
  /\ job \in Jobs \cup {NoJob}
  /\ qpc \in {"none", "next"} <=> job = NoJob
  /\ exit \in {"ok", "bad"}
  /\ kept \in {"converted", "original"}
  /\ mode \in CleanupModes \cup {"unread"}
  /\ qpc \in {"apply", "rename", "book", "botched"} => mode \in CleanupModes
  /\ cpc \in [Callers -> CallPcs]
  /\ cpid \in [Callers -> Jobs \cup {NoJob}]
  /\ cjob \in [Callers -> Jobs \cup {NoJob}]
  /\ cdone \in [Callers -> BOOLEAN]
  /\ \A c \in Callers : /\ cpc[c] = "pauseStop" \/ cpc[c] = "resumeCont" => cpid[c] \in Jobs
                        /\ cpc[c] \in {"pauseRow", "resumeRow", "cancelFile"} => cjob[c] \in Jobs
                        /\ cdone[c] => cjob[c] \in Jobs
  /\ alive \in BOOLEAN /\ (~alive => job = NoJob)
  /\ ends \in 0..MaxEnds
  /\ made \in 0..MaxCalls
  /\ killed \subseteq Jobs
  /\ purged \subseteq Jobs /\ missed \subseteq Jobs
  /\ adrift \subseteq Jobs /\ misread \subseteq Jobs

Init ==
  /\ message = [j \in Jobs |-> "none"]
  /\ queuePaused = FALSE
  /\ cleanupMode \in CleanupModes
  /\ row = [j \in Jobs |-> IF j \in InPlace /\ cleanupMode = "keep" THEN "deleted" ELSE "queued"]
  /\ src = [j \in Jobs |-> "original"]
  /\ trash = [j \in Jobs |-> FALSE]
  /\ target = [j \in Jobs |-> "none"]
  /\ proc = [j \in Jobs |-> "none"]
  /\ frozen = [j \in Jobs |-> FALSE]
  /\ currentJob = NoJob /\ currentPid = NoJob /\ currentChild = NoJob
  /\ shutdown = FALSE
  /\ qpc = "none" /\ job = NoJob /\ exit = "bad" /\ kept = "original" /\ mode = "unread"
  /\ cpc = [c \in Callers |-> "idle"]
  /\ cpid = [c \in Callers |-> NoJob]
  /\ cjob = [c \in Callers |-> NoJob]
  /\ cdone = [c \in Callers |-> FALSE]
  /\ alive = TRUE /\ ends = 0 /\ made = 0
  /\ killed = {} /\ purged = {} /\ missed = {} /\ adrift = {} /\ misread = {}

-----------------------------------------------------------------------------
(* The queue thread.                                                       *)

At(pc) == alive /\ qpc = pc

\* The next turn of the loop: the locals of the last one are gone.
NextTurn == /\ qpc' = "next" /\ job' = NoJob
            /\ exit' = "bad" /\ kept' = "original" /\ mode' = "unread"

Book(j, status) == row' = [row EXCEPT ![j] = IF @ = "deleted" THEN @ ELSE status]

\* record_job_error: an UPDATE by id, whatever the row says.
BookFailure(j) == Book(j, "error") /\ message' = [message EXCEPT ![j] = "failed"]

StartQueue ==
  /\ alive /\ qpc = "none"
  /\ queuePaused' = FALSE
  /\ qpc' = "next"
  /\ UNCHANGED <<row, message, cleanupMode, disk, encoder, handles, shutdown, locals, call,
                 process, history>>

\* The loop head, get_next_job, the missing-source gate and claim_job.
RunEnds ==
  /\ At("next")
  /\ shutdown \/ \A j \in Jobs : row[j] # "queued"
  /\ qpc' = "none"
  /\ UNCHANGED <<persisted, disk, encoder, handles, shutdown, locals, call, process, history>>

IsNext(j) == row[j] = "queued" /\ \A k \in Jobs : row[k] = "queued" => <<k, j>> \notin Ahead

SourceMissing(j) ==
  /\ At("next") /\ ~shutdown /\ IsNext(j) /\ src[j] = "gone"
  /\ BookFailure(j)
  /\ UNCHANGED <<queuePaused, cleanupMode, disk, encoder, handles, shutdown, thread, call,
                 process, history>>

ClaimJob(j) ==
  /\ At("next") /\ ~shutdown /\ IsNext(j) /\ src[j] # "gone"
  /\ row' = [row EXCEPT ![j] = "encoding"]
  /\ job' = j
  /\ qpc' = "setjob"
  /\ missed' = missed \ {j} /\ misread' = misread \ {j}
  /\ UNCHANGED <<message, queuePaused, cleanupMode, disk, encoder, handles, shutdown, exit, kept,
                 mode, call, process, killed, purged, adrift>>

SetCurrentJob ==
  /\ At("setjob")
  /\ currentJob' = job
  /\ qpc' = "prepare"
  /\ UNCHANGED <<persisted, disk, encoder, currentPid, currentChild, shutdown, locals, call,
                 process, history>>

\* An in-place job clears the stale temp of an earlier crash.
PrepareTarget ==
  /\ At("prepare")
  /\ target' = [target EXCEPT ![job] = IF job \in InPlace THEN "none" ELSE @]
  /\ qpc' = "spawn"
  /\ UNCHANGED <<persisted, src, trash, encoder, handles, shutdown, locals, call, process, history>>

SpawnFails ==
  /\ At("spawn")
  /\ BookFailure(job)
  /\ qpc' = "unspawned"
  /\ UNCHANGED <<queuePaused, cleanupMode, disk, encoder, handles, shutdown, locals, call,
                 process, history>>

ClearUnspawned ==
  /\ At("unspawned")
  /\ currentJob' = NoJob
  /\ NextTurn
  /\ UNCHANGED <<persisted, disk, encoder, currentPid, currentChild, shutdown, call, process,
                 history>>

Spawn ==
  /\ At("spawn")
  /\ proc' = [proc EXCEPT ![job] = "started"]
  /\ qpc' = "setpid"
  /\ UNCHANGED <<frozen, persisted, disk, handles, shutdown, locals, call, process, history>>

SetPid ==
  /\ At("setpid")
  /\ currentPid' = job
  /\ qpc' = "setchild"
  /\ UNCHANGED <<persisted, disk, encoder, currentJob, currentChild, shutdown, locals, call,
                 process, history>>

StoreChild ==
  /\ At("setchild")
  /\ currentChild' = job
  /\ qpc' = "recheck"
  /\ UNCHANGED <<persisted, disk, encoder, currentJob, currentPid, shutdown, locals, call,
                 process, history>>

\* kill_active_child, once the latch is set: resume it, kill it, reap it, keep the handle.
KillActiveChild ==
  LET k == currentChild IN
  IF k \in Jobs /\ LiveProc(k)
    THEN /\ proc' = [proc EXCEPT ![k] = "killed"]
         /\ frozen' = [frozen EXCEPT ![k] = FALSE]
         /\ killed' = killed \cup {k}
    ELSE UNCHANGED <<encoder, killed>>

\* Closes the window between the spawn and the stored handle.
RecheckShutdown ==
  /\ At("recheck")
  /\ IF shutdown THEN KillActiveChild ELSE UNCHANGED <<encoder, killed>>
  /\ qpc' = "wait"
  /\ UNCHANGED <<persisted, disk, handles, shutdown, locals, call, process, lapses>>

\* Seeded fault: the wait does not notice that a Cancel took the handle.
Wait_NeedsChild ==
  /\ At("wait")
  /\ currentChild = job /\ proc[job] \in {"ok", "bad", "killed"}
  /\ exit' = IF proc[job] = "ok" THEN "ok" ELSE "bad"
  /\ proc' = [proc EXCEPT ![job] = "none"]
  /\ adrift' = adrift \ {job}
  /\ qpc' = "clear"
  /\ UNCHANGED <<frozen, persisted, disk, handles, shutdown, job, kept, mode, call, process,
                 killed, purged, missed, misread>>

\* wait_for_active_child: the child exited, or a Cancel took the handle away.
Wait ==
  /\ At("wait")
  /\ \/ currentChild = NoJob /\ exit' = "bad" /\ UNCHANGED proc
     \/ /\ currentChild = job /\ proc[job] \in {"ok", "bad", "killed"}
        /\ exit' = IF proc[job] = "ok" THEN "ok" ELSE "bad"
        /\ proc' = [proc EXCEPT ![job] = "none"]
  /\ adrift' = adrift \ {job}
  /\ qpc' = "clear"
  /\ UNCHANGED <<frozen, persisted, disk, handles, shutdown, job, kept, mode, call, process,
                 killed, purged, missed, misread>>

ClearPid ==
  /\ At("clear")
  /\ currentPid' = NoJob
  /\ qpc' = "clearchild"
  /\ UNCHANGED <<persisted, disk, encoder, currentJob, currentChild, shutdown, locals, call,
                 process, history>>

ClearChild ==
  /\ At("clearchild")
  /\ currentChild' = NoJob
  /\ qpc' = "clearjob"
  /\ UNCHANGED <<persisted, disk, encoder, currentJob, currentPid, shutdown, locals, call,
                 process, history>>

ClearCurrentJob ==
  /\ At("clearjob")
  /\ currentJob' = NoJob
  /\ qpc' = IF exit = "ok" THEN "judge" ELSE "partial"
  /\ UNCHANGED <<persisted, disk, encoder, currentPid, currentChild, shutdown, locals, call,
                 process, history>>

-----------------------------------------------------------------------------
(* After a successful exit: the output is judged, the loser removed, the   *)
(* row booked.                                                             *)

\* An empty or missing output, or a truncated source: the encode target goes, the source stays.
Condemn ==
  /\ At("judge")
  /\ target' = [target EXCEPT ![job] = "none"]
  /\ qpc' = "condemn"
  /\ UNCHANGED <<persisted, src, trash, encoder, handles, shutdown, locals, call, process, history>>

BookCondemned ==
  /\ At("condemn")
  /\ BookFailure(job)
  /\ NextTurn
  /\ UNCHANGED <<queuePaused, cleanupMode, disk, encoder, handles, shutdown, call, process, history>>

\* decide_cleanup, for a usable output: the smaller file is kept.
DecideCleanup ==
  /\ At("judge") /\ target[job] # "none"
  /\ kept' \in {"converted", "original"}
  /\ qpc' = "reread"
  /\ UNCHANGED <<persisted, disk, encoder, handles, shutdown, job, exit, mode, call, process,
                 history>>

RereadCleanupMode ==
  /\ At("reread")
  /\ mode' = cleanupMode
  /\ qpc' = "apply"
  /\ UNCHANGED <<persisted, disk, encoder, handles, shutdown, job, exit, kept, call, process,
                 history>>

\* Seeded fault: in trash mode the rename goes ahead over an original that is still there.
ApplyInPlace_TrashUnchecked ==
  /\ At("apply") /\ job \in InPlace
  /\ \/ /\ kept = "original" \/ mode = "keep"
        /\ target' = [target EXCEPT ![job] = "none"]
        /\ qpc' = "book"
        /\ UNCHANGED <<src, trash>>
     \/ /\ kept = "converted" /\ mode # "keep"
        /\ qpc' = "rename"
        /\ UNCHANGED disk
  /\ UNCHANGED <<persisted, encoder, handles, shutdown, locals, call, process, history>>

\* in_place_action and the first half of apply_in_place_action.  A failed removal of the temp is
\* benign; an original that does not leave for the Trash refuses the rename.
ApplyInPlace ==
  /\ At("apply") /\ job \in InPlace
  /\ \/ /\ kept = "original" \/ mode = "keep"
        /\ target' = [target EXCEPT ![job] = "none"] \/ UNCHANGED target
        /\ qpc' = "book"
        /\ UNCHANGED <<src, trash>>
     \/ /\ kept = "converted" /\ mode = "delete"
        /\ qpc' = "rename"
        /\ UNCHANGED disk
     \/ /\ kept = "converted" /\ mode = "trash"
        /\ \/ /\ src' = [src EXCEPT ![job] = "gone"]
              /\ trash' = [trash EXCEPT ![job] = TRUE]
              /\ qpc' = "rename"
           \/ qpc' = "botched" /\ UNCHANGED <<src, trash>>
        /\ UNCHANGED target
  /\ UNCHANGED <<persisted, encoder, handles, shutdown, locals, call, process, history>>

RenameTemp ==
  /\ At("rename")
  /\ \/ /\ target[job] # "none"
        /\ src' = [src EXCEPT ![job] = "encoded"]
        /\ target' = [target EXCEPT ![job] = "none"]
        /\ purged' = IF mode = "delete" THEN purged \cup {job} ELSE purged
        /\ qpc' = "book"
     \/ qpc' = "botched" /\ UNCHANGED <<src, target, purged>>
  /\ UNCHANGED <<persisted, trash, encoder, handles, shutdown, locals, call, process, killed,
                 missed, adrift, misread>>

\* Seeded fault: the disposer's word is taken, not the filesystem's.
ApplyDistinct_RefusalIgnored ==
  /\ At("apply") /\ job \notin InPlace
  /\ \/ mode = "keep" /\ qpc' = "book" /\ UNCHANGED <<disk, purged>>
     \/ /\ mode # "keep" /\ kept = "converted"
        /\ \/ /\ src' = [src EXCEPT ![job] = "gone"]
              /\ trash' = [trash EXCEPT ![job] = mode = "trash" \/ @]
              /\ purged' = IF mode = "delete" THEN purged \cup {job} ELSE purged
           \/ UNCHANGED <<src, trash, purged>>
        /\ qpc' = "book"
        /\ UNCHANGED target
     \/ /\ mode # "keep" /\ kept = "original"
        /\ target' = [target EXCEPT ![job] = "none"]
        /\ qpc' = "book"
        /\ UNCHANGED <<src, trash, purged>>
  /\ UNCHANGED <<persisted, encoder, handles, shutdown, locals, call, process, killed, missed,
                 adrift, misread>>

\* The distinct-file cleanup: the loser of the size comparison goes, and the verdict on that is
\* read off the disk.
ApplyDistinct ==
  /\ At("apply") /\ job \notin InPlace
  /\ \/ mode = "keep" /\ qpc' = "book" /\ UNCHANGED <<disk, purged>>
     \/ /\ mode # "keep" /\ kept = "converted"
        /\ src' = [src EXCEPT ![job] = "gone"]
        /\ trash' = [trash EXCEPT ![job] = mode = "trash" \/ @]
        /\ purged' = IF mode = "delete" THEN purged \cup {job} ELSE purged
        /\ qpc' = "book"
        /\ UNCHANGED target
     \/ /\ mode # "keep" /\ kept = "original"
        /\ target' = [target EXCEPT ![job] = "none"]
        /\ qpc' = "book"
        /\ UNCHANGED <<src, trash, purged>>
     \/ mode # "keep" /\ qpc' = "botched" /\ UNCHANGED <<disk, purged>>
  /\ UNCHANGED <<persisted, encoder, handles, shutdown, locals, call, process, killed, missed,
                 adrift, misread>>

BookBotched ==
  /\ At("botched")
  /\ BookFailure(job)
  /\ NextTurn
  /\ UNCHANGED <<queuePaused, cleanupMode, disk, encoder, handles, shutdown, call, process, history>>

\* In place under keep nothing was converted: the row goes.  Otherwise only a row still running
\* is booked; a Cancel that got there first stands.
BookResult ==
  /\ At("book")
  /\ row' = [row EXCEPT ![job] = IF job \in InPlace /\ mode = "keep" THEN "deleted"
                                 ELSE IF @ \notin Running THEN @
                                 ELSE IF kept = "converted" THEN "done" ELSE "skipped"]
  /\ NextTurn
  /\ UNCHANGED <<message, queuePaused, cleanupMode, disk, encoder, handles, shutdown, call,
                 process, history>>

-----------------------------------------------------------------------------
(* After a failed exit.                                                    *)

\* Seeded faults: the quit path is not told from a failure; a failure is taken for a Cancel.
RemovePartial_NoShutdown ==
  /\ At("partial")
  /\ target' = [target EXCEPT ![job] = "none"]
  /\ IF row[job] = "error" THEN NextTurn ELSE qpc' = "verdict" /\ UNCHANGED locals
  /\ UNCHANGED <<persisted, src, trash, encoder, handles, shutdown, call, process, history>>

RemovePartial_NoVerdict ==
  /\ At("partial")
  /\ target' = [target EXCEPT ![job] = IF shutdown THEN @ ELSE "none"]
  /\ NextTurn
  /\ UNCHANGED <<persisted, src, trash, encoder, handles, shutdown, call, process, history>>

\* Killed by the quit path: no bookkeeping at all.  Otherwise the partial goes, and a row already
\* in error was cancelled.
RemovePartial ==
  /\ At("partial")
  /\ IF shutdown
       THEN NextTurn /\ UNCHANGED target
       ELSE /\ target' = [target EXCEPT ![job] = "none"]
            /\ IF row[job] = "error" THEN NextTurn ELSE qpc' = "verdict" /\ UNCHANGED locals
  /\ UNCHANGED <<persisted, src, trash, encoder, handles, shutdown, call, process, history>>

BookFailedEncode ==
  /\ At("verdict")
  /\ BookFailure(job)
  /\ NextTurn
  /\ UNCHANGED <<queuePaused, cleanupMode, disk, encoder, handles, shutdown, call, process, history>>

QueueThread ==
  \/ RunEnds \/ \E j \in Jobs : SourceMissing(j) \/ ClaimJob(j)
  \/ SetCurrentJob \/ PrepareTarget \/ SpawnFails \/ Spawn \/ SetPid \/ StoreChild
  \/ ClearUnspawned \/ RecheckShutdown \/ Wait \/ ClearPid \/ ClearChild \/ ClearCurrentJob
  \/ Condemn \/ BookCondemned \/ DecideCleanup \/ RereadCleanupMode
  \/ ApplyInPlace \/ RenameTemp \/ ApplyDistinct \/ BookBotched \/ BookResult
  \/ RemovePartial \/ BookFailedEncode

-----------------------------------------------------------------------------
(* HandBrake.                                                              *)

EncoderOpensTarget(j) ==
  /\ proc[j] = "started" /\ ~frozen[j]
  /\ proc' = [proc EXCEPT ![j] = "writing"]
  /\ target' = [target EXCEPT ![j] = "partial"]
  /\ UNCHANGED <<frozen, persisted, src, trash, handles, shutdown, thread, call, process, history>>

\* It finishes the file, unless the file was unlinked under it, or fails.
EncoderExits(j) ==
  /\ LiveProc(j) /\ ~frozen[j]
  /\ \/ /\ proc[j] = "writing"
        /\ proc' = [proc EXCEPT ![j] = "ok"]
        /\ target' = [target EXCEPT ![j] = IF @ = "partial" THEN "whole" ELSE @]
     \/ proc' = [proc EXCEPT ![j] = "bad"] /\ UNCHANGED target
  /\ UNCHANGED <<frozen, persisted, src, trash, handles, shutdown, thread, call, process, history>>

Encoder(j) == EncoderOpensTarget(j) \/ EncoderExits(j)

-----------------------------------------------------------------------------
(* The calls.  Each reads, signals and writes in separate critical sections. *)

Begin(c, name) ==
  /\ alive /\ cpc[c] = "idle" /\ name \in Calls
  /\ made < MaxCalls /\ made' = made + 1

In(c, pc) == alive /\ cpc[c] = pc
Enter(c, pc) == cpc' = [cpc EXCEPT ![c] = pc]

\* A call that returns leaves no local state behind.
Return(c) ==
  /\ Enter(c, "idle")
  /\ cpid' = [cpid EXCEPT ![c] = NoJob]
  /\ cjob' = [cjob EXCEPT ![c] = NoJob]
  /\ cdone' = [cdone EXCEPT ![c] = FALSE]

\* pause_conversion: the pid, then the job id, under two locks.  With nothing to freeze a local
\* job is left alone.
PauseReadsPid(c) ==
  /\ Begin(c, "pause")
  /\ cpid' = [cpid EXCEPT ![c] = currentPid]
  /\ Enter(c, "pauseJob")
  /\ UNCHANGED <<persisted, disk, encoder, handles, shutdown, thread, cjob, cdone, alive, ends,
                 history>>

PauseReadsJob(c) ==
  /\ In(c, "pauseJob")
  /\ IF cpid[c] = NoJob
       THEN Return(c)
       ELSE /\ cjob' = [cjob EXCEPT ![c] = currentJob]
            /\ Enter(c, "pauseStop")
            /\ UNCHANGED <<cpid, cdone>>
  /\ UNCHANGED <<persisted, disk, encoder, handles, shutdown, thread, process, history>>

\* SIGSTOP freezes a live process and is lost on any other.
PauseStops(c) ==
  /\ In(c, "pauseStop")
  /\ frozen' = [frozen EXCEPT ![cpid[c]] = LiveProc(cpid[c])]
  /\ IF cjob[c] = NoJob THEN Return(c) ELSE Enter(c, "pauseRow") /\ UNCHANGED <<cpid, cjob, cdone>>
  /\ UNCHANGED <<persisted, disk, proc, handles, shutdown, thread, process, history>>

\* An UPDATE by id, whatever the row says: one that has ended is made to look interrupted.
MakesRun(j) == misread' = IF row[j] \in Running THEN misread ELSE misread \cup {j}

\* Seeded fault: the freeze is not remembered.
PauseBooks_Forgets(c) ==
  /\ In(c, "pauseRow")
  /\ Book(cjob[c], "paused") /\ MakesRun(cjob[c])
  /\ Return(c)
  /\ UNCHANGED <<message, queuePaused, cleanupMode, disk, encoder, handles, shutdown, thread,
                 process, killed, purged, missed, adrift>>

PauseBooks(c) ==
  /\ In(c, "pauseRow")
  /\ Book(cjob[c], "paused") /\ MakesRun(cjob[c])
  /\ queuePaused' = TRUE
  /\ Return(c)
  /\ UNCHANGED <<message, cleanupMode, disk, encoder, handles, shutdown, thread, process, killed,
                 purged, missed, adrift>>

\* resume_conversion un-pauses the queue first, then reads, signals and writes like Pause.
ResumeUnpauses(c) ==
  /\ Begin(c, "resume")
  /\ queuePaused' = FALSE
  /\ Enter(c, "resumePid")
  /\ UNCHANGED <<row, message, cleanupMode, disk, encoder, handles, shutdown, thread, cpid, cjob,
                 cdone, alive, ends,
                 history>>

ResumeReadsPid(c) ==
  /\ In(c, "resumePid")
  /\ cpid' = [cpid EXCEPT ![c] = currentPid]
  /\ Enter(c, "resumeJob")
  /\ UNCHANGED <<persisted, disk, encoder, handles, shutdown, thread, cjob, cdone, process, history>>

ResumeReadsJob(c) ==
  /\ In(c, "resumeJob")
  /\ IF cpid[c] = NoJob
       THEN Return(c)
       ELSE /\ cjob' = [cjob EXCEPT ![c] = currentJob]
            /\ Enter(c, "resumeCont")
            /\ UNCHANGED <<cpid, cdone>>
  /\ UNCHANGED <<persisted, disk, encoder, handles, shutdown, thread, process, history>>

ResumeContinues(c) ==
  /\ In(c, "resumeCont")
  /\ frozen' = [frozen EXCEPT ![cpid[c]] = FALSE]
  /\ IF cjob[c] = NoJob THEN Return(c) ELSE Enter(c, "resumeRow") /\ UNCHANGED <<cpid, cjob, cdone>>
  /\ UNCHANGED <<persisted, disk, proc, handles, shutdown, thread, process, history>>

ResumeBooks(c) ==
  /\ In(c, "resumeRow")
  /\ Book(cjob[c], "encoding") /\ MakesRun(cjob[c])
  /\ Return(c)
  /\ UNCHANGED <<message, queuePaused, cleanupMode, disk, encoder, handles, shutdown, thread,
                 process, killed, purged, missed, adrift>>

\* cancel_conversion: the job id; the row, with the pause it held; the child, whosever it is by
\* now, resumed, killed and reaped; the pid; and last the partial output.
CancelReadsJob(c) ==
  /\ Begin(c, "cancel")
  /\ cjob' = [cjob EXCEPT ![c] = currentJob]
  /\ Enter(c, "cancelRow")
  /\ UNCHANGED <<persisted, disk, encoder, handles, shutdown, thread, cpid, cdone, alive, ends,
                 history>>

\* Seeded fault: a row that has ended is cancelled too.
CancelBooks_AnyRow(c) ==
  /\ In(c, "cancelRow")
  /\ IF cjob[c] \in Jobs
       THEN /\ row' = [row EXCEPT ![cjob[c]] = "error"]
            /\ message' = [message EXCEPT ![cjob[c]] = "cancelled"]
            /\ queuePaused' = FALSE
            /\ cdone' = [cdone EXCEPT ![c] = TRUE]
       ELSE UNCHANGED <<row, message, queuePaused, cdone>>
  /\ Enter(c, "cancelKill")
  /\ UNCHANGED <<cleanupMode, disk, encoder, handles, shutdown, thread, cpid, cjob, process, history>>

CancelBooks(c) ==
  /\ In(c, "cancelRow")
  /\ IF cjob[c] \in Jobs /\ row[cjob[c]] \in Running
       THEN /\ row' = [row EXCEPT ![cjob[c]] = "error"]
            /\ message' = [message EXCEPT ![cjob[c]] = "cancelled"]
            /\ queuePaused' = FALSE
            /\ cdone' = [cdone EXCEPT ![c] = TRUE]
       ELSE UNCHANGED <<row, message, queuePaused, cdone>>
  /\ Enter(c, "cancelKill")
  /\ UNCHANGED <<cleanupMode, disk, encoder, handles, shutdown, thread, cpid, cjob, process, history>>

\* A Cancel that booked its job passes it by if the child it finds is not that job's live encoder.
PassesBy(c) ==
  missed' = IF cdone[c] /\ ~(currentChild = cjob[c] /\ LiveProc(cjob[c]))
              THEN missed \cup {cjob[c]} ELSE missed

\* Seeded fault: the handle is dropped, which does not kill the process behind it.
CancelKills_DropsHandle(c) ==
  /\ In(c, "cancelKill")
  /\ currentChild' = NoJob
  /\ UNCHANGED encoder
  /\ PassesBy(c)
  /\ Enter(c, "cancelPid")
  /\ UNCHANGED <<persisted, disk, currentJob, currentPid, shutdown, thread, cpid, cjob, cdone,
                 process, killed, purged, adrift, misread>>

CancelKills(c) ==
  /\ In(c, "cancelKill")
  /\ currentChild' = NoJob
  /\ IF currentChild \in Jobs
       THEN /\ proc' = [proc EXCEPT ![currentChild] = "none"]
            /\ frozen' = [frozen EXCEPT ![currentChild] = FALSE]
       ELSE UNCHANGED encoder
  /\ PassesBy(c)
  /\ Enter(c, "cancelPid")
  /\ UNCHANGED <<persisted, disk, currentJob, currentPid, shutdown, thread, cpid, cjob, cdone,
                 process, killed, purged, adrift, misread>>

\* Seeded fault: the output goes although nothing was cancelled.
CancelClearsPid_DeletesAnyway(c) ==
  /\ In(c, "cancelPid")
  /\ currentPid' = NoJob
  /\ adrift' = IF currentPid \in Jobs /\ LiveProc(currentPid) THEN adrift \cup {currentPid}
                                                             ELSE adrift
  /\ IF cjob[c] \in Jobs THEN Enter(c, "cancelFile") /\ UNCHANGED <<cpid, cjob, cdone>> ELSE Return(c)
  /\ UNCHANGED <<persisted, disk, encoder, currentJob, currentChild, shutdown, thread, process,
                 killed, purged, missed, misread>>

CancelClearsPid(c) ==
  /\ In(c, "cancelPid")
  /\ currentPid' = NoJob
  /\ adrift' = IF currentPid \in Jobs /\ LiveProc(currentPid) THEN adrift \cup {currentPid}
                                                             ELSE adrift
  /\ IF cdone[c] THEN Enter(c, "cancelFile") /\ UNCHANGED <<cpid, cjob, cdone>> ELSE Return(c)
  /\ UNCHANGED <<persisted, disk, encoder, currentJob, currentChild, shutdown, thread, process,
                 killed, purged, missed, misread>>

CancelDeletes(c) ==
  /\ In(c, "cancelFile")
  /\ target' = [target EXCEPT ![cjob[c]] = "none"]
  /\ Return(c)
  /\ UNCHANGED <<persisted, src, trash, encoder, handles, shutdown, thread, process, history>>

\* The exit handler: the latch first, then the child.  The process ends at some later point.
QuitLatches(c) ==
  /\ Begin(c, "quit") /\ ~shutdown
  /\ shutdown' = TRUE
  /\ Enter(c, "quitKill")
  /\ UNCHANGED <<persisted, disk, encoder, handles, thread, cpid, cjob, cdone, alive, ends,
                 history>>

QuitKills(c) ==
  /\ In(c, "quitKill")
  /\ KillActiveChild
  /\ Return(c)
  /\ UNCHANGED <<persisted, disk, handles, shutdown, thread, process, lapses>>

\* update_setting: the value, then the in-place rows that `keep' makes impossible.
InPlaceDropped(rows) ==
  [j \in Jobs |-> IF j \in InPlace /\ rows[j] = "queued" THEN "deleted" ELSE rows[j]]

SetCleanupMode(c) ==
  /\ Begin(c, "setting")
  /\ cleanupMode' \in CleanupModes \ {cleanupMode}
  /\ Enter(c, IF cleanupMode' = "keep" THEN "dropInPlace" ELSE "idle")
  /\ UNCHANGED <<row, message, queuePaused, disk, encoder, handles, shutdown, thread, cpid, cjob,
                 cdone, alive, ends,
                 history>>

DropQueuedInPlaceJobs(c) ==
  /\ In(c, "dropInPlace")
  /\ row' = InPlaceDropped(row)
  /\ Return(c)
  /\ UNCHANGED <<message, queuePaused, cleanupMode, disk, encoder, handles, shutdown, thread,
                 process, history>>

CallBegins(c) ==
  \/ PauseReadsPid(c) \/ ResumeUnpauses(c) \/ CancelReadsJob(c) \/ QuitLatches(c) \/ SetCleanupMode(c)

CallContinues(c) ==
  \/ PauseReadsJob(c) \/ PauseStops(c) \/ PauseBooks(c)
  \/ ResumeReadsPid(c) \/ ResumeReadsJob(c) \/ ResumeContinues(c) \/ ResumeBooks(c)
  \/ CancelBooks(c) \/ CancelKills(c) \/ CancelClearsPid(c) \/ CancelDeletes(c)
  \/ QuitKills(c) \/ DropQueuedInPlaceJobs(c)

-----------------------------------------------------------------------------
(* The life of the process.                                                *)

\* After a quit, or a crash.  An encoder orphaned by a crash writes on into a file that the next
\* launch unlinks, and so out of this model.
ProcessEnds ==
  /\ alive /\ ends < MaxEnds
  /\ alive' = FALSE /\ ends' = ends + 1
  /\ proc' = [j \in Jobs |-> "none"]
  /\ frozen' = [j \in Jobs |-> FALSE]
  /\ currentJob' = NoJob /\ currentPid' = NoJob /\ currentChild' = NoJob
  /\ shutdown' = FALSE
  /\ qpc' = "none" /\ job' = NoJob /\ exit' = "bad" /\ kept' = "original" /\ mode' = "unread"
  /\ cpc' = [c \in Callers |-> "idle"]
  /\ cpid' = [c \in Callers |-> NoJob]
  /\ cjob' = [c \in Callers |-> NoJob]
  /\ cdone' = [c \in Callers |-> FALSE]
  /\ killed' = {}
  /\ misread' = IF qpc = "book" THEN misread \cup {job} ELSE misread
  /\ adrift' = {}
  /\ UNCHANGED <<persisted, disk, made, purged, missed>>

\* Seeded faults: recovery deletes the output path of an in-place job, which is its source; it
\* requeues every row that is no error.
RecoverInterruptedJobs_OutputPath ==
  /\ target' = [j \in Jobs |-> IF row[j] \in Running /\ j \notin InPlace THEN "none" ELSE target[j]]
  /\ src' = [j \in Jobs |-> IF row[j] \in Running /\ j \in InPlace THEN "gone" ELSE src[j]]
  /\ row' = LET requeued == [j \in Jobs |-> IF row[j] \in Running THEN "queued" ELSE row[j]]
            IN IF cleanupMode = "keep" THEN InPlaceDropped(requeued) ELSE requeued

RecoverInterruptedJobs_Finished ==
  /\ target' = [j \in Jobs |-> IF row[j] \in Running THEN "none" ELSE target[j]]
  /\ row' = [j \in Jobs |-> IF row[j] \in {"deleted", "error"} THEN row[j] ELSE "queued"]
  /\ UNCHANGED src

\* recover_interrupted_jobs, and the drop of what it resurrected under keep.
RecoverInterruptedJobs ==
  /\ target' = [j \in Jobs |-> IF row[j] \in Running THEN "none" ELSE target[j]]
  /\ row' = LET requeued == [j \in Jobs |-> IF row[j] \in Running THEN "queued" ELSE row[j]]
            IN IF cleanupMode = "keep" THEN InPlaceDropped(requeued) ELSE requeued
  /\ UNCHANGED src

\* boot, up to run_queue if there is work and no remembered pause.
Boot ==
  /\ ~alive
  /\ alive' = TRUE
  /\ RecoverInterruptedJobs
  /\ qpc' = IF ~queuePaused /\ \E j \in Jobs : row'[j] = "queued" THEN "next" ELSE "none"
  /\ UNCHANGED <<message, queuePaused, cleanupMode, trash, encoder, handles, shutdown, locals,
                 call, ends, made, history>>

RemoveJob(j) ==
  /\ alive /\ row[j] = "queued"
  /\ row' = [row EXCEPT ![j] = "deleted"]
  /\ UNCHANGED <<message, queuePaused, cleanupMode, disk, encoder, handles, shutdown, thread,
                 call, process, history>>

-----------------------------------------------------------------------------
Next ==
  \/ StartQueue \/ QueueThread
  \/ \E j \in Jobs : Encoder(j) \/ RemoveJob(j)
  \/ \E c \in Callers : CallBegins(c) \/ CallContinues(c)
  \/ ProcessEnds \/ Boot

Spec == Init /\ [][Next]_vars

\* The thread and every call under way are scheduled, and an encoder that is not frozen ends.
\* Nobody is obliged to call, and a frozen encoder stays frozen until somebody resumes it.
Fairness ==
  /\ WF_vars(QueueThread)
  /\ \A j \in Jobs : WF_vars(Encoder(j))
  /\ \A c \in Callers : WF_vars(CallContinues(c))

FairSpec == Spec /\ Fairness

-----------------------------------------------------------------------------
(* Safety.                                                                 *)

\* Only a cleanup that read `delete' destroys an original: any other can be had back, from its
\* path or from the Trash, through any race of calls and settings, any failed step, a crash
\* anywhere and the relaunch after it.
OriginalRecoverable == \A j \in Jobs : src[j] = "original" \/ trash[j] \/ j \in purged

\* A whole copy of the video exists somewhere.
HasCopy(j) == src[j] # "gone" \/ target[j] = "whole" \/ trash[j]
EveryVideoHasACopy == \A j \in Jobs : HasCopy(j)

\* Whatever the setting, a video is lost in no other way than these: its job was cancelled by a
\* Cancel that came too late for its encoder, or recovery took a finished job for interrupted.
VideoSurvives == \A j \in Jobs : HasCopy(j) \/ j \in missed \/ j \in misread

\* What history says when a job is booked is what is on the disk: a `done' job's result is in its
\* place and its original gone (unless both are kept), a `skipped' one's original stands alone.
\* A late Cancel may be about to take the output.
BookingIsTrue ==
  [][\A j \in Jobs : row[j] \in Running /\ j \notin missed =>
       /\ row'[j] = "done" => IF j \in InPlace THEN src[j] = "encoded"
                               ELSE target[j] = "whole" /\ (src[j] = "gone" <=> mode # "keep")
       /\ row'[j] = "skipped" => /\ src[j] # "gone"
                                 /\ j \notin InPlace /\ mode # "keep" => target[j] = "none"]_vars

\* An encode that the quit path killed is not booked as a failure: its row stays one that the next
\* launch requeues, unless the user cancelled it.
QuitLeavesJobResumable ==
  \A j \in Jobs : j \in killed => row[j] \in Running \/ message[j] = "cancelled"

\* A frozen encoder is not lost track of: between calls the queue is remembered as paused and
\* Resume has its pid, unless a Cancel forgot that pid without killing the encoder behind it.
FrozenIsShown ==
  Quiet => \A j \in Jobs : frozen[j] => j \in adrift \/ (queuePaused /\ currentPid = j)

\* Finished is final but for one race: a job booked done or skipped is written again only by a
\* Pause or a Resume that read it while it was still current.
FinishedIsFinal ==
  [][\A j \in Jobs : row[j] \in {"done", "skipped"} /\ row'[j] # row[j] =>
       \E c \in Callers :
         /\ cjob[c] = j /\ cpc'[c] = "idle"
         /\ <<cpc[c], row'[j]>> \in {<<"pauseRow", "paused">>, <<"resumeRow", "encoding">>}]_vars

\* Once a Cancel that booked its job has returned, no encoder runs for that job, unless its kill
\* found none to kill because the thread had not stored the handle yet.
Cancelled(j) == row[j] = "error" /\ message[j] = "cancelled"
CancelStopsEncoder == Quiet => \A j \in Jobs : Cancelled(j) => ~LiveProc(j) \/ j \in missed

-----------------------------------------------------------------------------
(* Promises the code does not keep; the README says how each is broken.    *)

\* What the comment on the kill promises (control.rs 342-343): a cancel always stops the process.
CancelAlwaysStops == Quiet => \A j \in Jobs : Cancelled(j) => ~LiveProc(j)

\* What Cancel means: the encoder it kills is that of the job it read.
CancelKillsItsOwn ==
  [][\A c \in Callers : CancelKills(c) /\ currentChild \in Jobs /\ LiveProc(currentChild) =>
       currentChild = cjob[c]]_vars

\* What the history page relies on: a finished row is left as it is.
FinishedIsNotRewritten ==
  [][\A j \in Jobs : row[j] \in {"done", "skipped"} => row'[j] \in {row[j], "deleted"}]_vars

\* What the row of a job is for: between calls it says that the encoder is frozen.
FrozenRowSaysPaused == Quiet => \A j \in Jobs : frozen[j] => row[j] = "paused"

-----------------------------------------------------------------------------
(* Liveness.                                                               *)

\* A job that holds the queue, running or cancelled under its encoder, comes to leave it: booked,
\* dropped, frozen by the user, or left to the next launch, and the thread moves on to the next.
\* A row that a stale Pause or Resume made look running holds nothing.
HoldsQueue(j) == row[j] = "encoding" \/ (message[j] = "cancelled" /\ currentJob = j)
RunningJobSettles ==
  \A j \in Jobs : HoldsQueue(j) ~> (~HoldsQueue(j) \/ frozen[j] \/ j \in misread \/ shutdown \/ ~alive)
=============================================================================
