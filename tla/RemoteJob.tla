------------------------------ MODULE RemoteJob ------------------------------
(***************************************************************************)
(* A job whose file lives on another machine: the queue thread pulls it    *)
(* over ssh, encodes the copy, pushes the result under a temp name and has *)
(* a script on the host replace or publish it.  The connection is lost at  *)
(* any step, and then the script may have run or not; the owner of the     *)
(* file edits it meanwhile; the process ends and starts again; a Cancel    *)
(* and a Start arrive from other threads.                                  *)
(*                                                                         *)
(* The slot and its gates are module QueueSlot's, freezing and killing a   *)
(* child in detail module Conversion's: "running" here is a row in         *)
(* encoding or paused.                                                     *)
(***************************************************************************)
EXTENDS Naturals

CONSTANTS
  Jobs, Files, NoJob, NoFile, Partial,
  Layouts,     \* which jobs there are, the file each names, which files are encoded in place,
               \* and bound: how many faults happen
  MaxFaults    \* faults are the host lost, its owner acting, the process ending

ASSUME RemoteAssumption ==
  /\ NoJob \notin Jobs
  /\ Layouts \subseteq [jobs : SUBSET Jobs, file : [Jobs -> Files],
                        inPlace : SUBSET Files, faults : 0..MaxFaults]
  /\ MaxFaults \in Nat

\* A file's content: the owner's k-th version, or a job's encode of it.
Owned   == [of : 0..MaxFaults, by : {NoJob}]
Encodes == [of : 0..MaxFaults, by : Jobs]
Whole   == Owned \cup Encodes

ASSUME ContentAssumption == NoFile \notin Whole /\ Partial \notin Whole /\ NoFile # Partial

VARIABLES
  layout,
  row,           \* jobs.status, an error told apart by its failure class and message
  queuePaused, outageJob, requeuedMark, cleanupMode,  \* settings rows
  src, out, tmp, \* on the host: the source, the output name, the marked temp
  script,        \* on the host: where finalize is, and what it was told
  running,       \* a queue thread holds the slot
  pc, job,       \* where its turn is; CurrentJob is current_job_id
  child,         \* ConverterState.current_child
  base,          \* the pull baseline
  staged,        \* staging/source; the result is encoded from it
  err,           \* why a transfer or a finalize failed
  outcome,       \* how the turn will be booked
  finalizingOn,  \* ConverterState.finalizing_on is set
  shutdown,
  cpc, cjob,     \* a Cancel call, and the current job it read
  alive,
  excused,       \* history: the process has ended, the owner has removed the source, the host
                 \* would not show an output, or another job's outage took the marker
  faults

db     == <<row, queuePaused, outageJob, requeuedMark, cleanupMode>>
host   == <<src, out, tmp, script>>
turn   == <<running, pc, job, child, base, staged, err, outcome>>
cancel == <<cpc, cjob>>
vars   == <<layout, db, host, turn, finalizingOn, shutdown, cancel, alive, excused, faults>>

Terminal == {"done", "skipped", "unreachable", "failed", "gone", "cancelled"}
Rows     == {"absent", "queued", "running", "deleted"} \cup Terminal
Pcs      == {"idle", "roots", "stat", "preparePull", "spawnPull", "pull", "restat", "pullFailed", "probe",
             "recheck", "spawnEncode", "encode", "judge", "preparePush", "spawnPush", "push", "begin",
             "finalize", "publishFailed", "gone", "probeOut", "bookGone", "fail", "stop",
             "stopBook", "book", "drop", "end", "stopped"}
NoScript == [at |-> "none", base |-> NoFile, made |-> NoFile, delete |-> FALSE]
Scripts  == [at : {"none", "sent", "same", "verified", "moved", "exit0", "exit"},
             base : Whole \cup {NoFile}, made : Encodes \cup {NoFile}, delete : BOOLEAN]

File(j)    == layout.file[j]
InPlace(j) == File(j) \in layout.inPlace
F          == File(job)
CurrentJob == IF pc = "idle" THEN NoJob ELSE job
Live(j)    == row[j] \in {"queued", "running"}
Result     == [of |-> staged.of, by |-> job]

TypeOK ==
  /\ layout \in Layouts
  /\ row \in [Jobs -> Rows]
  /\ queuePaused \in BOOLEAN
  /\ outageJob \in Jobs \cup {NoJob} /\ requeuedMark \in Jobs \cup {NoJob}
  /\ cleanupMode \in {"delete", "keep"}
  /\ src \in [Files -> Whole \cup {NoFile}]
  /\ out \in [Files -> Whole \cup {NoFile}]
  /\ tmp \in [Files -> Encodes \cup {NoFile, Partial}]
  /\ script \in [Files -> Scripts]
  /\ running \in BOOLEAN /\ pc \in Pcs /\ job \in Jobs \cup {NoJob}
  /\ pc # "idle" => running /\ alive /\ job \in Jobs
  /\ child \in {"none", "live", "killed"}
  /\ base \in Whole \cup {NoFile} /\ staged \in Whole \cup {NoFile}
  /\ pc \in {"probe", "recheck", "spawnEncode", "encode", "judge", "preparePush", "spawnPush",
             "push", "begin"} => staged \in Whole
  /\ err \in {"none", "failed", "unreachable", "gone"}
  /\ outcome \in {"none", "done", "skipped"}
  /\ finalizingOn \in BOOLEAN /\ shutdown \in BOOLEAN
  /\ cpc \in {"idle", "book", "kill"} /\ cjob \in Jobs \cup {NoJob}
  /\ cpc = "book" => cjob \in Jobs
  /\ alive \in BOOLEAN /\ excused \in BOOLEAN
  /\ faults \in 0..MaxFaults

Init ==
  /\ layout \in Layouts
  /\ row = [j \in Jobs |-> "absent"]
  /\ queuePaused = FALSE /\ outageJob = NoJob /\ requeuedMark = NoJob
  /\ cleanupMode \in {"delete", "keep"}
  /\ src = [f \in Files |-> [of |-> 0, by |-> NoJob]]
  /\ out = [f \in Files |-> NoFile] /\ tmp = [f \in Files |-> NoFile]
  /\ script = [f \in Files |-> NoScript]
  /\ running = FALSE /\ pc = "idle" /\ job = NoJob /\ child = "none"
  /\ base = NoFile /\ staged = NoFile /\ err = "none" /\ outcome = "none"
  /\ finalizingOn = FALSE /\ shutdown = FALSE
  /\ cpc = "idle" /\ cjob = NoJob
  /\ alive = TRUE /\ excused = FALSE /\ faults = 0

-----------------------------------------------------------------------------
(* The turn.  A step moves to the next place; what it does not name it     *)
(* leaves alone.                                                           *)

At(p) == alive /\ pc = p
GoTo(p) == pc' = p
Reaching == UNCHANGED faults
Fault == faults < layout.faults /\ faults' = faults + 1
Calm == UNCHANGED <<layout, cancel, alive, excused>>
StillRunning == row[job] = "running"

\* An ssh step of the turn that gets no answer: exit status 255, or any other failure.
SshFails(p) ==
  \/ Fault /\ err' = "unreachable" /\ GoTo(p)
  \/ Reaching /\ err' = "failed" /\ GoTo(p)

\* The queue's order is the user's: any queued job may be at its head.
NextJob(j) ==
  /\ alive /\ running /\ pc = "idle" /\ ~shutdown /\ row[j] = "queued"
  /\ row' = [row EXCEPT ![j] = "running"]
  /\ job' = j /\ GoTo("roots")
  /\ UNCHANGED <<queuePaused, outageJob, requeuedMark, cleanupMode, host, running, child, base,
                 staged, err, outcome, finalizingOn, shutdown, faults>>
  /\ Calm

RunEnds ==
  /\ alive /\ running /\ pc = "idle"
  /\ shutdown \/ \A j \in Jobs : row[j] # "queued"
  /\ running' = FALSE
  /\ UNCHANGED <<db, host, pc, job, child, base, staged, err, outcome, finalizingOn, shutdown,
                 faults>>
  /\ Calm

\* Local checks and ssh look-ups before anything is transferred.
CheckRoots ==
  /\ At("roots")
  /\ \/ Reaching /\ GoTo("stat") /\ UNCHANGED err
     \/ SshFails("pullFailed")
  /\ UNCHANGED <<db, host, running, job, child, base, staged, outcome, finalizingOn, shutdown>>
  /\ Calm

StatSource ==
  /\ At("stat")
  /\ \/ /\ src[F] # NoFile /\ base' = src[F]
        /\ Reaching /\ GoTo("preparePull") /\ UNCHANGED err
     \/ /\ src[F] = NoFile /\ err' = "gone"
        /\ Reaching /\ GoTo("pullFailed") /\ UNCHANGED base
     \/ SshFails("pullFailed") /\ UNCHANGED base
  /\ UNCHANGED <<db, host, running, job, child, staged, outcome, finalizingOn, shutdown>>
  /\ Calm

\* Before a transfer and before the encode: is the job still wanted?  The spawn comes after.
Prepare(here, there) ==
  /\ At(here)
  /\ GoTo(IF StillRunning THEN there ELSE "end")
  /\ UNCHANGED <<db, host, running, job, child, base, staged, err, outcome, finalizingOn,
                 shutdown, faults>>
  /\ Calm

\* The child is stored; a quit that found none to kill is made good here.  A push truncates the
\* temp as it starts: a finalize whose answer was lost is taken to have ended by then.
Spawn(here, there) ==
  /\ At(here)
  /\ child' = IF shutdown THEN "killed" ELSE "live"
  /\ IF there = "push"
       THEN script[F].at \in {"none", "exit0", "exit"} /\ tmp' = [tmp EXCEPT ![F] = Partial]
       ELSE UNCHANGED tmp
  /\ script' = IF there = "push" THEN [script EXCEPT ![F] = NoScript] ELSE script
  /\ GoTo(there)
  /\ UNCHANGED <<db, src, out, running, job, base, staged, err, outcome, finalizingOn, shutdown,
                 faults>>
  /\ Calm

\* A killed child is ours when we are quitting or its row has been booked an error.
KilledByUs == shutdown \/ row[job] \in Terminal \ {"done", "skipped"}

PullEnds ==
  /\ At("pull")
  /\ child' = "none"
  /\ \/ /\ child = "live" /\ src[F] # NoFile
        /\ staged' = src[F] /\ GoTo("restat") /\ Reaching /\ UNCHANGED err
     \/ child = "live" /\ SshFails("pullFailed") /\ UNCHANGED staged
     \/ /\ child = "killed" /\ Reaching /\ UNCHANGED staged
        /\ IF KilledByUs THEN GoTo("end") /\ UNCHANGED err
                         ELSE GoTo("pullFailed") /\ err' = "failed"
  /\ UNCHANGED <<db, host, running, job, base, outcome, finalizingOn, shutdown>>
  /\ Calm

\* The pull counts only if its source is what it was before it, size and time.
Restat ==
  /\ At("restat")
  /\ \/ src[F] = base /\ staged = base /\ Reaching /\ GoTo("probe") /\ UNCHANGED err
     \/ ~(src[F] = base /\ staged = base) /\ Reaching /\ GoTo("pullFailed") /\ err' = "failed"
     \/ SshFails("pullFailed")
  /\ UNCHANGED <<db, host, running, job, child, base, staged, outcome, finalizingOn, shutdown>>
  /\ Calm

\* A failed pull of a job a Cancel has booked is the Cancel's.
PullFailed ==
  /\ At("pullFailed")
  /\ GoTo(IF ~StillRunning THEN "end"
          ELSE CASE err = "gone" -> "gone" [] err = "unreachable" -> "stop" [] OTHER -> "fail")
  /\ UNCHANGED <<db, host, running, job, child, base, staged, err, outcome, finalizingOn,
                 shutdown, faults>>
  /\ Calm

\* Skip-by-source-media, asked of the staged copy; its booking hits only a row still running.
Probe ==
  /\ At("probe")
  /\ \/ GoTo("recheck") /\ UNCHANGED outcome
     \/ GoTo("book") /\ outcome' = "skipped"
  /\ UNCHANGED <<db, host, running, job, child, base, staged, err, finalizingOn, shutdown,
                 faults>>
  /\ Calm

\* HandBrake ends.  A failure while quitting is left to the next launch; one whose row a Cancel
\* has booked is already booked.
EncodeEnds ==
  /\ At("encode")
  /\ child' = "none"
  /\ \/ child = "live" /\ GoTo("judge") /\ UNCHANGED err
     \/ /\ IF KilledByUs THEN GoTo("end") /\ UNCHANGED err ELSE GoTo("fail") /\ err' = "failed"
  /\ UNCHANGED <<db, host, running, job, base, staged, outcome, finalizingOn, shutdown, faults>>
  /\ Calm

\* No usable output, the original kept, or the result published; under "keep" an in-place result
\* is discarded and its row dropped.
Judge ==
  /\ At("judge")
  /\ \/ GoTo("fail") /\ err' = "failed" /\ UNCHANGED outcome
     \/ /\ ~(InPlace(job) /\ cleanupMode = "keep")
        /\ GoTo("book") /\ outcome' = "skipped" /\ UNCHANGED err
     \/ /\ GoTo(IF InPlace(job) /\ cleanupMode = "keep" THEN "drop" ELSE "preparePush")
        /\ outcome' = "done" /\ UNCHANGED err
  /\ UNCHANGED <<db, host, running, job, child, base, staged, finalizingOn, shutdown, faults>>
  /\ Calm

\* Best effort: the host may not be reached, and then the temp stays.
RemoveTemp == tmp' = tmp \/ tmp' = [tmp EXCEPT ![F] = NoFile]

PushEnds ==
  /\ At("push")
  /\ child' = "none"
  /\ \/ /\ child = "live" /\ Reaching
        /\ tmp' = [tmp EXCEPT ![F] = Result]
        /\ \/ GoTo("begin") /\ UNCHANGED err
           \/ GoTo("publishFailed") /\ err' = "failed"  \* no checksum of the staged result
     \/ /\ child = "live" /\ Fault /\ UNCHANGED tmp
        /\ GoTo("publishFailed") /\ err' = "unreachable"
     \/ /\ child = "live" /\ Reaching /\ RemoveTemp
        /\ GoTo("publishFailed") /\ err' = "failed"
     \/ /\ child = "killed" /\ Reaching /\ RemoveTemp
        /\ IF KilledByUs THEN GoTo("end") /\ UNCHANGED err
                         ELSE GoTo("publishFailed") /\ err' = "failed"
  /\ UNCHANGED <<db, src, out, script, running, job, base, staged, outcome, finalizingOn,
                 shutdown>>
  /\ Calm

\* As changed: finalize begins without asking for the row again.
BeginUnasked ==
  /\ At("begin") /\ finalizingOn' = TRUE
  /\ script' = [script EXCEPT ![F] =
          [at |-> "sent", base |-> base, made |-> Result, delete |-> cleanupMode = "delete"]]
  /\ GoTo("finalize")
  /\ UNCHANGED <<db, src, out, tmp, running, job, child, base, staged, err, outcome, shutdown,
                 faults>>
  /\ Calm

\* Decided under the lock a Cancel books under: finalize starts only for a job still running, and
\* from here on Cancel is refused.  The cleanup mode is the one of this moment.
BeginFinalize ==
  /\ At("begin")
  /\ \/ /\ ~StillRunning /\ RemoveTemp /\ GoTo("end")
        /\ UNCHANGED <<script, finalizingOn>>
     \/ /\ StillRunning /\ finalizingOn' = TRUE
        /\ IF InPlace(job) /\ cleanupMode = "keep"
             THEN RemoveTemp /\ GoTo("drop") /\ UNCHANGED script
             ELSE /\ script' = [script EXCEPT ![F] =
                       [at |-> "sent", base |-> base, made |-> Result,
                        delete |-> cleanupMode # "keep"]]
                  /\ GoTo("finalize") /\ UNCHANGED tmp
  /\ UNCHANGED <<db, src, out, running, job, child, base, staged, err, outcome, shutdown,
                 faults>>
  /\ Calm

\* The script's exit status arrives.
FinalizeAnswers ==
  /\ At("finalize") /\ script[F].at \in {"exit0", "exit"}
  /\ IF script[F].at = "exit0" THEN GoTo("book") /\ UNCHANGED err
                               ELSE GoTo("publishFailed") /\ err' = "failed"
  /\ script' = [script EXCEPT ![F] = NoScript]
  /\ UNCHANGED <<db, src, out, tmp, running, job, child, base, staged, outcome, finalizingOn,
                 shutdown, faults>>
  /\ Calm

\* It does not: ssh exits 255, and the script goes on without anyone listening.
FinalizeUnanswered ==
  /\ At("finalize") /\ Fault
  /\ GoTo("publishFailed") /\ err' = "unreachable"
  /\ UNCHANGED <<db, host, running, job, child, base, staged, outcome, finalizingOn, shutdown>>
  /\ Calm

PublishFailed ==
  /\ At("publishFailed")
  /\ GoTo(IF ~StillRunning THEN "end" ELSE IF err = "unreachable" THEN "stop" ELSE "fail")
  /\ UNCHANGED <<db, host, running, job, child, base, staged, err, outcome, finalizingOn,
                 shutdown, faults>>
  /\ Calm

-----------------------------------------------------------------------------
(* Bookings.                                                               *)

\* published_before_outage: only the job the marker names is looked for; the marker is used up.
AskMarker ==
  /\ At("gone")
  /\ GoTo(IF requeuedMark = job THEN "probeOut" ELSE "bookGone")
  /\ requeuedMark' = IF requeuedMark = job THEN NoJob ELSE requeuedMark
  /\ UNCHANGED <<row, queuePaused, outageJob, cleanupMode, host, running, job, child, base,
                 staged, err, outcome, finalizingOn, shutdown, faults>>
  /\ Calm

\* Any regular file under the output name counts.  A host that cannot say is as one without it.
ProbeOutput ==
  /\ At("probeOut")
  /\ LET found == (IF InPlace(job) THEN src[F] ELSE out[F]) # NoFile IN
       \/ found /\ Reaching /\ GoTo("book") /\ outcome' = "done" /\ UNCHANGED excused
       \/ ~found /\ Reaching /\ GoTo("bookGone") /\ UNCHANGED <<outcome, excused>>
       \/ Reaching /\ GoTo("bookGone") /\ excused' = TRUE /\ UNCHANGED outcome
       \/ Fault /\ GoTo("stop") /\ UNCHANGED <<outcome, excused>>
  /\ UNCHANGED <<db, host, running, job, child, base, staged, err, finalizingOn, shutdown>>
  /\ UNCHANGED <<layout, cancel, alive>>

\* done or skipped, over a row still running.
Book ==
  /\ At("book")
  /\ row' = IF StillRunning THEN [row EXCEPT ![job] = outcome] ELSE row
  /\ GoTo("end")
  /\ UNCHANGED <<queuePaused, outageJob, requeuedMark, cleanupMode, host, running, job, child,
                 base, staged, err, outcome, finalizingOn, shutdown, faults>>
  /\ Calm

DropInPlace ==
  /\ At("drop")
  /\ row' = [row EXCEPT ![job] = "deleted"]
  /\ GoTo("end")
  /\ UNCHANGED <<queuePaused, outageJob, requeuedMark, cleanupMode, host, running, job, child,
                 base, staged, err, outcome, finalizingOn, shutdown, faults>>
  /\ Calm

\* record_job_error and its quiet form: an UPDATE by id, whatever the row says.
BookError(here, status, there) ==
  /\ At(here)
  /\ row' = [row EXCEPT ![job] = IF @ = "deleted" THEN @ ELSE status]
  /\ GoTo(there)
  /\ UNCHANGED <<queuePaused, outageJob, requeuedMark, cleanupMode, host, running, job, child,
                 base, staged, err, outcome, finalizingOn, shutdown, faults>>
  /\ Calm

\* The pause and the job it is for, in one critical section; the booking comes after.
StopForUnreachable ==
  /\ At("stop")
  /\ queuePaused' = TRUE /\ outageJob' = job
  /\ GoTo("stopBook")
  /\ UNCHANGED <<row, requeuedMark, cleanupMode, host, running, job, child, base, staged, err,
                 outcome, finalizingOn, shutdown, faults>>
  /\ Calm

\* RemoteTurn is dropped: no current job, nothing finalizing, its marker gone, staging empty.
TurnEnds ==
  /\ alive /\ pc \in {"end", "stopped"}
  /\ finalizingOn' = FALSE
  /\ requeuedMark' = IF requeuedMark = job THEN NoJob ELSE requeuedMark
  /\ base' = NoFile /\ staged' = NoFile /\ err' = "none" /\ outcome' = "none"
  /\ GoTo("idle") /\ job' = NoJob
  /\ running' = (pc = "end")
  /\ UNCHANGED <<row, queuePaused, outageJob, cleanupMode, host, child, shutdown, faults>>
  /\ Calm

TurnStep ==
  \/ CheckRoots \/ StatSource
  \/ Prepare("preparePull", "spawnPull") \/ Spawn("spawnPull", "pull") \/ PullEnds \/ Restat
  \/ PullFailed \/ Probe
  \/ Prepare("recheck", "spawnEncode") \/ Spawn("spawnEncode", "encode") \/ EncodeEnds \/ Judge
  \/ Prepare("preparePush", "spawnPush") \/ Spawn("spawnPush", "push") \/ PushEnds
  \/ BeginFinalize \/ FinalizeAnswers \/ FinalizeUnanswered \/ PublishFailed
  \/ AskMarker \/ ProbeOutput \/ Book \/ DropInPlace
  \/ BookError("bookGone", "gone", "end") \/ BookError("fail", "failed", "end")
  \/ StopForUnreachable \/ BookError("stopBook", "unreachable", "stopped")
  \/ TurnEnds

QueueThread == TurnStep \/ RunEnds \/ \E j \in Jobs : NextJob(j)

-----------------------------------------------------------------------------
(* The host: finalize, line by line, and the owner of the files.           *)

ScriptAt(f, s) == script' = [script EXCEPT ![f].at = s]
Untouched == UNCHANGED <<layout, db, turn, finalizingOn, shutdown, cancel, alive>>
OnHost == Untouched /\ UNCHANGED excused

\* The original is what was pulled, or the script refuses (gone, changed).
HostChecksOriginal(f) ==
  /\ script[f].at = "sent"
  /\ ScriptAt(f, IF src[f] = script[f].base THEN "same" ELSE "exit")
  /\ UNCHANGED <<src, out, tmp, faults>> /\ OnHost

\* Size and SHA-256 of the temp are the local result's; then it takes over the original's owner,
\* group and mode, which may fail and leave both.  (The script's closing stat of the target, only
\* for the answer, is taken to succeed.)
HostVerifies(f) ==
  /\ script[f].at = "same"
  /\ \/ tmp[f] = script[f].made /\ src[f] # NoFile /\ ScriptAt(f, "verified") /\ UNCHANGED tmp
     \/ tmp[f] = script[f].made /\ ScriptAt(f, "exit") /\ UNCHANGED tmp
     \/ tmp[f] # script[f].made /\ ScriptAt(f, "exit") /\ tmp' = [tmp EXCEPT ![f] = NoFile]
  /\ UNCHANGED <<src, out, faults>> /\ OnHost

HostReplaces(f) ==
  /\ script[f].at = "verified" /\ f \in layout.inPlace
  /\ \/ /\ src' = [src EXCEPT ![f] = tmp[f]] /\ tmp' = [tmp EXCEPT ![f] = NoFile]
        /\ ScriptAt(f, "exit0")
     \/ ScriptAt(f, "exit") /\ UNCHANGED <<src, tmp>>
  /\ UNCHANGED <<out, faults>> /\ OnHost

\* As changed: a plain mv.
PublishesOver(f) ==
  /\ script[f].at = "verified" /\ f \notin layout.inPlace
  /\ out' = [out EXCEPT ![f] = tmp[f]] /\ tmp' = [tmp EXCEPT ![f] = NoFile]
  /\ ScriptAt(f, IF script[f].delete THEN "moved" ELSE "exit0")
  /\ UNCHANGED <<src, faults>> /\ OnHost

\* mv --update=none-fail: never over a file that is there.
HostPublishes(f) ==
  /\ script[f].at = "verified" /\ f \notin layout.inPlace
  /\ \/ /\ out[f] = NoFile
        /\ out' = [out EXCEPT ![f] = tmp[f]] /\ tmp' = [tmp EXCEPT ![f] = NoFile]
        /\ ScriptAt(f, IF script[f].delete THEN "moved" ELSE "exit0")
     \/ ScriptAt(f, "exit") /\ UNCHANGED <<out, tmp>>
  /\ UNCHANGED <<src, faults>> /\ OnHost

HostDeletesOriginal(f) ==
  /\ script[f].at = "moved"
  /\ \/ src' = [src EXCEPT ![f] = NoFile] /\ ScriptAt(f, "exit0")
     \/ ScriptAt(f, "exit") /\ UNCHANGED src
  /\ UNCHANGED <<out, tmp, faults>> /\ OnHost

\* The host goes down, or the stream was cut before the script was whole: nothing more of it runs.
HostStops(f) ==
  /\ script[f].at \in {"sent", "same", "verified", "moved"} /\ Fault
  /\ script' = [script EXCEPT ![f] = NoScript]
  /\ IF At("finalize") /\ F = f
       THEN GoTo("publishFailed") /\ err' = "unreachable"
       ELSE UNCHANGED <<pc, err>>
  /\ UNCHANGED <<layout, db, src, out, tmp, running, job, child, base, staged, outcome,
                 finalizingOn, shutdown, cancel, alive, excused>>

\* The owner edits or removes the source, or puts a file of theirs under the output name.
OwnerActs(f) ==
  /\ Fault
  /\ \/ /\ src' = [src EXCEPT ![f] = [of |-> faults + 1, by |-> NoJob]]
        /\ UNCHANGED <<out, excused>>
     \/ src' = [src EXCEPT ![f] = NoFile] /\ excused' = TRUE /\ UNCHANGED out
     \/ /\ f \notin layout.inPlace /\ out[f] = NoFile
        /\ out' = [out EXCEPT ![f] = [of |-> faults + 1, by |-> NoJob]]
        /\ UNCHANGED <<src, excused>>
  /\ UNCHANGED <<tmp, script>> /\ Untouched

FinalizeScript(f) ==
  \/ HostChecksOriginal(f) \/ HostVerifies(f) \/ HostReplaces(f) \/ HostPublishes(f)
  \/ HostDeletesOriginal(f)

-----------------------------------------------------------------------------
(* Other threads, and the process.                                         *)

OffTurn == UNCHANGED <<layout, host, pc, job, base, staged, err, outcome, faults>>

\* Adding a file whose row is live is refused; the output name was free when it was chosen.
Add(j) ==
  /\ alive /\ j \in layout.jobs /\ row[j] = "absent"
  /\ \A k \in Jobs : File(k) = File(j) => ~Live(k)
  /\ InPlace(j) => cleanupMode # "keep"
  /\ out[File(j)] = NoFile
  /\ row' = [row EXCEPT ![j] = "queued"]
  /\ UNCHANGED <<queuePaused, outageJob, requeuedMark, cleanupMode, running, child, finalizingOn,
                 shutdown, cancel, alive>> /\ OffTurn /\ UNCHANGED excused

\* As changed: without a look at the other rows.
RequeuesAnyway(j) == outageJob = j /\ row[j] = "unreachable"

\* requeue_after_outage: that one row, still the outage's error, with no live row on its file.
Requeues(j) ==
  /\ outageJob = j /\ row[j] = "unreachable"
  /\ \A k \in Jobs : File(k) = File(j) => ~Live(k)

\* As changed: no marker.
Unmarked == requeuedMark
Marked   == IF \E j \in Jobs : Requeues(j) THEN outageJob ELSE requeuedMark

Start ==
  /\ alive /\ ~running
  /\ row' = [j \in Jobs |-> IF Requeues(j) THEN "queued" ELSE row[j]]
  /\ requeuedMark' = Marked
  /\ excused' = (excused \/ (requeuedMark' # requeuedMark /\ requeuedMark # NoJob))
  /\ outageJob' = NoJob /\ queuePaused' = FALSE
  /\ running' = TRUE
  /\ UNCHANGED <<cleanupMode, child, finalizingOn, shutdown, cancel, alive>> /\ OffTurn

\* Cancel reads the current job, books its row unless finalize has begun, and then kills whatever
\* child there is.
CancelReads ==
  /\ alive /\ cpc = "idle" /\ CurrentJob # NoJob
  /\ cpc' = "book" /\ cjob' = CurrentJob
  /\ UNCHANGED <<db, running, child, finalizingOn, shutdown, alive>> /\ OffTurn /\ UNCHANGED excused

CancelBooks ==
  /\ alive /\ cpc = "book"
  /\ LET hit == ~finalizingOn /\ row[cjob] = "running" IN
       /\ row' = IF hit THEN [row EXCEPT ![cjob] = "cancelled"] ELSE row
       /\ queuePaused' = (queuePaused /\ ~hit)
  /\ cpc' = IF finalizingOn THEN "idle" ELSE "kill"
  /\ UNCHANGED <<outageJob, requeuedMark, cleanupMode, running, child, finalizingOn, shutdown,
                 cjob, alive>> /\ OffTurn /\ UNCHANGED excused

CancelKills ==
  /\ alive /\ cpc = "kill"
  /\ child' = IF child = "live" THEN "killed" ELSE child
  /\ cpc' = "idle" /\ cjob' = NoJob
  /\ UNCHANGED <<db, running, finalizingOn, shutdown, alive>> /\ OffTurn /\ UNCHANGED excused

\* Clear queue: the queued rows go, and with them an outage's stop.
ClearQueue ==
  /\ alive
  /\ row' = [j \in Jobs |-> IF row[j] = "queued" THEN "deleted" ELSE row[j]]
  /\ queuePaused' = FALSE /\ outageJob' = NoJob
  /\ UNCHANGED <<requeuedMark, cleanupMode, running, child, finalizingOn, shutdown, cancel,
                 alive>> /\ OffTurn /\ UNCHANGED excused

\* A row leaves the queue or the history.
RemoveRow(j) ==
  /\ alive /\ row[j] \in Terminal \cup {"queued"}
  /\ row' = [row EXCEPT ![j] = "deleted"]
  /\ UNCHANGED <<queuePaused, outageJob, requeuedMark, cleanupMode, running, child, finalizingOn,
                 shutdown, cancel, alive>> /\ OffTurn /\ UNCHANGED excused

\* Queued in-place jobs are impossible under "keep" and go with the switch to it.
KeepDrops(mode, rows) ==
  [j \in Jobs |-> IF mode = "keep" /\ InPlace(j) /\ rows[j] = "queued" THEN "deleted" ELSE rows[j]]

SetCleanupMode(mode) ==
  /\ alive /\ cleanupMode' = mode /\ mode # cleanupMode
  /\ row' = KeepDrops(mode, row)
  /\ UNCHANGED <<queuePaused, outageJob, requeuedMark, running, child, finalizingOn, shutdown,
                 cancel, alive>> /\ OffTurn /\ UNCHANGED excused

Quit ==
  /\ alive /\ ~shutdown /\ shutdown' = TRUE
  /\ child' = IF child = "live" THEN "killed" ELSE child
  /\ UNCHANGED <<db, running, finalizingOn, cancel, alive>> /\ OffTurn /\ UNCHANGED excused

\* The process ends, between any two steps; a script on the host runs on.
ProcessEnds ==
  /\ alive /\ Fault
  /\ alive' = FALSE /\ excused' = TRUE /\ shutdown' = FALSE /\ finalizingOn' = FALSE
  /\ running' = FALSE /\ pc' = "idle" /\ job' = NoJob /\ child' = "none"
  /\ base' = NoFile /\ staged' = NoFile /\ err' = "none" /\ outcome' = "none"
  /\ cpc' = "idle" /\ cjob' = NoJob
  /\ UNCHANGED <<layout, db, host>>

\* As changed: a relaunch starts from a clean slate.
BootForgets ==
  /\ ~alive /\ alive' = TRUE
  /\ row' = KeepDrops(cleanupMode, [j \in Jobs |-> IF row[j] = "running" THEN "queued" ELSE row[j]])
  /\ running' = (~queuePaused /\ \E j \in Jobs : row'[j] = "queued")
  /\ outageJob' = NoJob
  /\ UNCHANGED <<queuePaused, requeuedMark, cleanupMode, child, finalizingOn, shutdown, cancel>>
  /\ OffTurn /\ UNCHANGED excused

\* Boot: running rows are queued again, the mode's rule applied, staging emptied; the queue starts
\* by itself unless it is paused.
Boot ==
  /\ ~alive /\ alive' = TRUE
  /\ row' = KeepDrops(cleanupMode, [j \in Jobs |-> IF row[j] = "running" THEN "queued" ELSE row[j]])
  /\ running' = (~queuePaused /\ \E j \in Jobs : row'[j] = "queued")
  /\ UNCHANGED <<queuePaused, outageJob, requeuedMark, cleanupMode, child, finalizingOn, shutdown,
                 cancel>> /\ OffTurn /\ UNCHANGED excused

Cancel == CancelReads \/ CancelBooks \/ CancelKills

Next ==
  \/ QueueThread
  \/ \E f \in Files : FinalizeScript(f) \/ HostStops(f) \/ OwnerActs(f)
  \/ \E j \in Jobs : Add(j) \/ RemoveRow(j)
  \/ Start \/ Cancel \/ ClearQueue \/ Quit \/ ProcessEnds \/ Boot
  \/ \E mode \in {"delete", "keep"} : SetCleanupMode(mode)

Spec == Init /\ [][Next]_vars

-----------------------------------------------------------------------------
(* What is claimed.                                                        *)

Safe == INSTANCE SafeReplace WITH inPlace <- layout.inPlace

\* However the connection, the process and the owner behave, the host sees nothing but whole
\* encodes put in place of a source or under a free name, and originals deleted behind a published
\* encode (finalize, remote.rs; begin_finalize and the temp's removals, converter.rs).
ImplementsSafeReplace == Safe!Init /\ [][Safe!Next]_<<layout.inPlace, src, out>>

\* Cancel is refused only in a turn that has begun to finalize, and from the script's start to its
\* booking the row is still running: no file is replaced under a job its user was told is
\* cancelled, although a Cancel takes several steps (begin_finalize, refuse_while_finalizing).
FinalizingIsWanted ==
  finalizingOn =>
    /\ pc \in {"finalize", "book", "drop", "publishFailed", "fail", "stop", "stopBook", "end",
              "stopped"}
    /\ pc \in {"finalize", "book", "drop", "publishFailed"} => row[job] = "running"

\* A file never has two rows that will be encoded, although an outage's row comes back to the
\* queue by itself after the user may have added the file again (requeue_after_outage).
OneLiveRowPerFile ==
  \A j, k \in Jobs : File(j) = File(k) /\ Live(j) /\ Live(k) => j = k

\* A job whose own result is on the host is not booked "Source file no longer exists", unless the
\* process ended in between, the owner removed the source under the script, the host would not
\* say, or another job's outage took the only marker: the marker survives the job's own further
\* outages and the turns of other jobs (published_before_outage, requeue_after_outage, RemoteTurn).
PublishedIsRecognised ==
  \A j \in Jobs : row[j] = "gone" /\ out[File(j)] # NoFile => out[File(j)].by # j \/ excused

\* The job an outage stopped on is remembered, while its stop stands, until it is queued again, the
\* file has another live row, or the user clears the queue: nothing else forgets it
\* (stop_for_unreachable and its three writes, requeue_after_outage, clear_queue, boot).
OutageIsNotForgotten ==
  [][\A j \in Jobs : row[j] = "unreachable" /\ outageJob = j /\ queuePaused =>
       \/ outageJob' = j \/ row'[j] = "queued"
       \/ \E k \in Jobs \ {j} : File(k) = File(j) /\ Live(k)
       \/ ClearQueue]_vars

-----------------------------------------------------------------------------
(* Promises the code does not keep; the README says how they are broken.   *)

\* The stop an outage makes stands until its job is queued again: a restart in the middle does not
\* retry into the outage (converter.rs, stop_for_unreachable).  A Cancel between the stop and the
\* booking lifts it.
OutageStopStands == \A j \in Jobs : row[j] = "unreachable" /\ outageJob = j => queuePaused

\* README.md, "Remote roots over ssh": the original is replaced or deleted only if it has not
\* changed since the pull.  The script looks at it before it checksums the upload.
EditedIsKept ==
  [][\A f \in Files : HostReplaces(f) \/ HostDeletesOriginal(f) =>
       src'[f] = src[f] \/ src[f] = script[f].base]_vars
=============================================================================
