# A formal model of ConvertBar

ConvertBar queues video files and converts them, one at a time, with HandBrakeCLI.  One Rust core
(`crates/convertbar-core`) serves two heads: a Tauri desktop app (`src-tauri`) with a tray and a
self-updater, and an axum server (`crates/convertbar-server`) with a web UI (`src/`).  The core is
ordinary threads over a `Mutex`ed SQLite connection and a struct of small mutexes
(`ConverterState`); nearly everything that can go wrong in it goes wrong *between* two of those
critical sections, or between a row in the database, a file on a disk and a child process that
disagree.

This directory holds TLA+ modules for the parts where that matters, the TLC runs that check them,
and TLAPS proofs.  Paths below are relative to the repository root.

## Inventory

| component | state | operations | hard because |
|---|---|---|---|
| **Queue slot and queue thread** (`converter.rs`: `claim_queue_slot`, `process_queue`, `release_queue_slot_unless_work_arrived`, `RunningGuard`) | `is_running`, `installing`, `work_arrived_while_busy`, `pause_after_current`, `low_disk_pause`, `shutdown`; settings `queue_paused`, `unreachable_job_id`; `jobs.status` | claim, spawn, pick, gates, claim a job, book, drain, release; stops: pause, low disk, outage, quit, panic | many starters race one release; a start refused a moment before the release must not be lost; a stopped run still holds the slot while it unwinds |
| **Conversion of a local job** (`converter.rs`: `process_queue_pass` from the claim on, `decide_cleanup`, `apply_in_place_action`, `wait_for_active_child`, `recover_interrupted_jobs`) | `current_job_id`, `current_pid`, `current_child`; the source, the encode target, the Trash; the HandBrake process | spawn, wait, judge, clean up, book; recover at launch | three handles under three locks, a file deleted before the row says why, a crash between any two steps |
| **User control** (`control.rs`) | none of its own: locals read before and used after a lock | start, pause, resume, cancel, pause-after | every call is read, signal, write in separate critical sections |
| **Remote jobs** (`converter.rs` 1968-2502, `remote.rs`) | staging copy, remote temp and published file, `outage_requeued`, `finalizing` | pull, encode, publish, finalize, outage stop, requeue | lost answers, host crashes, a result already published by an earlier attempt |
| **Updater** (`src-tauri/src/updater.rs`) | `installing`, the pending install, the drain pause | check cycle, install now, install pending, arm/undo drain | an install and a queue exclude each other; a pause the updater set must be undone, one the user set must not |
| **Hooks** (`hooks.rs`) | finished-job batch, drain baseline | post-convert, queue-drained | blocks the queue thread; may call back into the queue; two delivery mechanisms that fail separately |
| **Intake** (`queue_ops.rs` `add_files_inner`, `probe_cache.rs`, `media_skip.rs`) | job rows, queue positions, probe cache | add, skip rules, output names | snapshot, slow probe, then insert, with other adds in between |
| **Queue edits and purge** (`queue_ops.rs`) | job rows | remove, reorder, clear, retry, purge of bad sources | the verdict is computed outside the lock that deletes |
| **Folder watcher** (`watcher.rs`, `watch_ops.rs`) | settling candidates, per-folder configuration | events, settle, reconcile | a file still being written; configuration changed meanwhile |
| **Settings, launch, shutdown** (`settings_ops.rs`, `startup.rs`, `lib.rs`) | settings rows | update a setting, boot, quit | a changed setting meets queued rows; a remembered pause meets a launch |
| **Server head** (`throttle.rs`, `auth.rs`, `routes/`) | per-address failure counters | login, status, event stream | the clock is read before the lock |
| **Web UI** (`useQueue.ts`, `useFileIntake.ts`) | the displayed queue, a serialized intake pipeline | refresh, add then start | answers out of order, a timed-out add that went on in the server |
| **Probing, presets, failure classes, schema** (`probe.rs`, `handbrake.rs`, `failure_class.rs`, `db.rs`) | none that is shared | sequential I/O and text | - |

How they interact: the UI, the API and the watcher insert rows and call `start_queue`; the queue
thread takes rows and drives HandBrake; control calls reach the thread only through
`ConverterState` and the rows; the updater takes the same slot mutex the starters take; hooks run
*on* the queue thread; a relaunch sees nothing but the database and the disk.

What makes each correct: *slot* - one runner, no start lost, no install under a queue, stops that
stop; *conversion* - no video lost, history that tells the truth, a quit that leaves the job
resumable, a cancel that cancels what it was asked to; *remote* - a published result is never
published twice or thrown away; *updater* - the drain pause is undone exactly when the user did
not pause; *intake* - no two live rows for one source or one output; *watcher* - no half-written
file, none forgotten; *UI* - the last displayed queue is the newest one fetched.

## The modules

| module | models |
|---|---|
| `QueueSlot` | who runs the queue: starters, queue threads, stops, the updater's interlock, quit, crash and launch |
| `QueueService` | the abstract promise the slot implements: no threads, flags or locks |
| `Conversion` | one job's life around its process, files and row, with the racing calls |
| `RemoteJob` | a job on another machine: pull, encode, push, the finalize script, outages, requeues |
| `SafeReplace` | the abstract promise a remote job makes to the machine it works on |
| `Intake` | adding files: settings, probes and the insert, beside the queue, its edits and the owner of the files |
| `Purge` | condemning a source and destroying it later, with what may happen to the file in between |
| `DrainHook` | the queue-drained hook: batches, watermarks, two mechanisms |
| `FolderWatch` | the folder watcher: events, pending files, the reaper, scans, markers, reconciles |
| `UpdaterDrain` | the desktop updater's checks, pending install, drain and retries, over the queue it waits for |
| `WebSession` | a tab of the web UI and the server head: queue refreshes, the event stream, the throttle, the login form |
| `FileIntake` | the page's intake: selections sorted, prompts, adds one after the other, the status line |
| `MC...` | the TLC instance of each |
| `QueueSlotProofs`, `ConversionProofs`, `DrainProofs` (of `UpdaterDrain` and `DrainHook`), `RemoteJobProofs`, `IntakeProofs`, `PurgeProofs`, `WebSessionProofs`, `FileSourcesProofs` (of `FileIntake` and `FolderWatch`) | theorems; two modules that are proved about together do not share names |

Each of the detailed modules stands for itself and takes the others' part as an environment: an encode is
one step in `QueueSlot`, a queue thread two or three steps in `Intake` and `Purge`, a row "running" in
`RemoteJob` is one "encoding" or "paused" in `Conversion`.

### QueueSlot

One action per critical section.  A starter (`Starters`) is a UI, API or watcher thread:
`Add` inserts a row, `ClaimQueueSlot` is `claim_queue_slot` under the `is_running` mutex (granted,
refused by a running queue and marked, or refused by an install), `StartUnpauses` is the
`requeue_after_outage` + `set_queue_paused(false)` under one db lock, `StartSpawns` the thread.  A
queue thread (`Threads`) follows `process_queue_pass`: `PassBegins`, `LoopHead`, `PickJob`, the
gates, `ClaimJob`, the end of the job, and from an empty queue `DrainHook`, `TakeWorkArrived`,
`LookForWork`, `ReleaseSlot`.  Every other end is `GuardDrops`, the drop of `RunningGuard`.  More
thread identities than may run are provided, so that a second runner is expressible and its absence
a result.  `Panic` strikes at any step of a pass: the guard gives the slot back, and a row that was
being encoded stays `encoding` with nobody at it until the next launch, while the next start takes another
job (the HandBrake left behind is not followed).  A panic that poisons a lock the next start needs is not
modelled.

An encode is a single step here, and Pause of a unix build (which freezes a process) belongs to
`Conversion`; "Pause after this", and every Pause elsewhere, is the flag modelled here.  A rejected
or failed job is `GateBooksError` / `JobFails`.

`told` is the one history variable the safety argument needs: the rows whose `start_queue` call has
returned.  `lastStop` is why the queue last came to rest if it was not by draining; a failed install
counts, because the code gives the queue back without starting it.

`QueueService` is what a user may rely on: `Submit`, `Promise` (opening the service in the same step
unless it is open or excused), `Take`, `Finish`, `FallOver` (a panic under a job), `Withdraw`, `Close` (only stopped or
with nothing promised, and never under a job), `Excuse`/`UpdateFails` (an update), `Die` and `Revive`.
`ImplementsService` is the refinement: `open` is `is_running`, `waiting` the queued rows, `active` the rows a
live thread encodes (`Converting`), and `cutOff` the rows that say `encoding` with no such thread.  What
it says beyond the invariants is about *steps*: an answered start and the opening of the queue are
one step, and a run closes only when nothing promised is left or it was stopped.

### Conversion

The same thread, opened up from the claim to the booking, one action per critical section or file
operation, with HandBrake as an external actor (`EncoderOpensTarget`, `EncoderExits`).  A video is
in up to three places: `src` (the source path: the original, the in-place result, or nothing),
`trash`, and `target` (the distinct output or the in-place temp: none, partial or whole).  A handle
(`currentPid`, `currentChild`) is named by the job whose process it is.  Each call of `control.rs`
is a small program over its own `cpid`, `cjob`, `cdone`: what it read under one lock and uses under
the next.  `Cancel` in particular books the row, kills *the stored child*, clears the pid and last
removes the output.  `ProcessEnds` is a quit's end or a crash anywhere; `Boot` runs
`recover_interrupted_jobs` and drops the in-place rows that `keep` forbids.

Which of two files is smaller, whether the Trash takes a file, whether a removal or a rename
succeeds, and whether an output is usable are nondeterministic.

Nothing keeps the calls apart: any call may begin and go on at any step of the thread and of the other
calls, and the process may end at any step.  What the code loses in these races is named by history
variables which only the properties read, and each is as narrow as the race: `missed` (a Cancel booked a job and
its kill found no live encoder of that job's: too early, before the handle was stored, or too late),
`misread` (a finished job's row came to say that it still runs: a stale Pause or Resume, or the process ended
between the cleanup and the booking) and `adrift` (a Cancel forgot the pid of an encoder it did not kill).
`purged` are the originals a cleanup removed after reading `delete`.

The Trash is the desktop head's: the server injects a disposer that deletes (`dispose.rs`), and there "trash"
is this model's "delete".

### UpdaterDrain

One operation of the updater at a time holds the `busy` latch: `opc` is where it is, `okind` what it
is (a cycle's policy, read before its check, or an install's trigger), `wants`, `found` and `armed`
its locals and its `DrainGuard`.  A cycle is `CheckReturns` and then `perform_install`
(`DownloadReturns`, `TryInstallNow`, `Deferred`, `InstallSucceeds`, `InstallFails`); an install goes
through `ArmDrain`, `MarkDrain` and `RecheckReturns` first and, when given up, through the guard's drop
(`DropGuard`, `ClearDrainPause` or `UndoDrainPause`, `StartQueueNow`).  Each await is one step whose
answer is free: an error, nothing, or any version.  `Retry` is the queue's last event or the hourly
tick; `Begin` is `try_begin_cycle` and the reads made under it.  Flag and breadcrumb are written under
different locks, hence by different steps, as are the flag taken by the queue (`JobCompletes`) and the
pause it persists (`PauseLands`).

The queue here is what the updater can see: running or not, rows waiting, the job frozen or not.  The
user adds files, starts, pauses, resumes, cancels, toggles "Pause after this", changes the update mode,
skips, checks and installs; the panel's own action buttons wait for each other (`PanelBusy`).

The look at the deferral and the write that follows from it are steps of their own where the code takes two
locks: `RecheckProceeds` decides and `Register` registers (1164-1187, 1207), `Deferred` looks and `AwaitIdle`
writes the status (866, 867).  A mode change or a skip may fall between.

History variables say who asked for a pause (`why`, `armedBy`, `landing`), whether a drain's flag
outlived the call that raised it (`kept`), what the panel showed at the click (`shown`), and where the
operation under way stood when its deferral was cancelled (`dropped`): `heard` if a look was yet to come,
`overwritten` between the decision to register and the registration, `late` between the last look and the
status it writes.  The last two are the code's own races (below), and `CancelledInstallStops` and
`PanelIsNotStuck` admit one of them each.  A cancellation under the installer, after the last look, is not counted.

Some short runs of locks are one step where nothing a property tells apart can fall between: the setting of the
mode and the `pending_of`, `set_pending`, `set_status` of `on_mode_changed`; what a finished check writes
(`CheckFinds`); what a failed recheck gives back (`RecheckFails`, `Reconsent`).

Left out: `last_error`, `last_checked`, the notes and the installed and notified markers (display),
the updater plugin failing to build, and Windows' installer, which ends the process before it returns.

### RemoteJob and SafeReplace

The turn of the queue thread on one remote job, one action per critical section, ssh command or child:
`CheckRoots`, `StatSource`, a pull (`Prepare`, `Spawn`, `PullEnds`), `Restat`, `Probe`, the encode, `Judge`,
the push, `BeginFinalize`, and the ways out (`PullFailed`, `PublishFailed`, `StopForUnreachable`, `AskMarker`,
`ProbeOutput`, the bookings, `TurnEnds`, which is the drop of `RemoteTurn`).  The finalize script is an actor
of its own on the host, a line a step (`HostChecksOriginal`, `HostVerifies`, `HostReplaces`, `HostPublishes`,
`HostDeletesOriginal`): its answer may be lost (`FinalizeUnanswered`) and it then goes on alone, or it stops
anywhere (`HostStops`).  The owner of the file edits and removes it (`OwnerActs`).  Beside them a `Start` (with
`requeue_after_outage`), a Cancel in three steps, Clear, Remove, a switch of the cleanup mode, quit, the end
of the process anywhere and `Boot`.  `excused` is a history variable for `PublishedIsRecognised`.

A file's content is which version of the owner's it is, or whose encode of which version; size, mtime
and SHA-256 are taken to tell contents apart.  A finalize script whose answer was lost is taken to have ended
before the same file's next push, which is an encode later, and the script's closing `stat`, only for its
answer, to succeed.  Pause of a transfer is left out.  With one output name to a row, an add whose output is
taken is not made, where the code would number it (`is_taken`), and a switch of the cleanup mode is one step
with the drop of the queued in-place rows; no property of this module tells either apart.

`SafeReplace` says what the host's owner may rely on: `Replace` puts a whole encode in place of an in-place
source, `Publish` puts one under a free name, `Retire` deletes an original behind its published encode.

### Intake

`AddReads` and `AddProbes` are `add_files_inner` as far as it holds no lock: the rows and settings read, the
sources probed.  `InsertBegins` takes the lock, with the rows the skip rules will ask (`First`) and the first
position; `InsertNext` decides one source after the other: the skip rules (`CheapSkip`), the output name
(`ChooseOutput`), the refusal in place under `keep` (`Refused`), the insert.  Nobody else touches the rows or the
settings meanwhile (`Unlocked`), but the owner's writes, the thread's removals and replacements of files, and
the end of the process fall between two sources of a batch; a call may fail at any step and leave what it has inserted
(`AddFails`).  Local rows only: a remote in-place row that an outage's requeue brings back under `keep`, or to
its old position, is not in `NothingInPlaceUnderKeep` and `FirstAddedFirst`.  The queue thread is there as far as it changes files and rows (`ClaimJob`, `EncodeEnds`,
`CleanUp`, `Book`), so are Cancel, Remove, Reorder with a list the page showed some time ago, the two critical
sections of a switch to `keep`, the relaunch and the owner of the files.  A file is its content; an output suffix and preset are the same throughout.

### Purge

`QuickCheck`, then without the lock `StatSource`, `StatParent`, `Rescan`, `OpenSource`, then `Recheck` and
`Destroy` in one hold of the lock (`lock`); the early answers are `MarkGone`, `MarkRecovered` and the returns to
idle.  A row comes to the review list the way the code brings it there: the queue thread reads a source
(`Claim`, `EncodeEnds`), classifies what HandBrake said (`Classify`), fingerprints the source as it is *then*
(`StatCondemned`, `StampCondemned`) and books (`RecordError`).  The same file may be known under two spellings.
Local rows only: a remote one is refused first.  The owner is taken not to act between the last check and
the removal, which are two calls apart.

### DrainHook

`FireQueueDrained` reads the configuration once (`cfg`), and `ServeFrom` is its loop over the mechanisms, which
`turn` counts; per mechanism `LoadJobsSince` (a batch, ties at its edge kept
together), `Dispatched` or `Undelivered`, `StoreWatermark` or `StoreFails`.  The queue books jobs meanwhile and
the user cancels, reconfigures and clears.  The clock does not go back, and two bookings of the model have two
times; rows that were there at first may share one.  A history query or a database lock that fails, which the
code takes for an empty batch (`hooks.rs` 982-986, 1007-1012), is left out: the batch is then served at a later drain.

### FolderWatch

One watched directory, off, flat or recursive, and one below it; files at either level.  The OS tells changes
(`events`), `EventOfFile` notes a pending file, `Reap` takes the settled ones, and `TakeFiles` is the way of the
reaper or a scan through `filter_watched`, `filter_marked` and the bad-source filter to the queue.  A command
(`SetMode`) and its reconcile are four steps.  Time is in ticks, and the handler and the reaper may lag
`MaxLag` of them behind the clock they read.  `passed` holds what the code leaves to the file's next change or
the next launch: files dropped for their verdict, and files below a directory that was made recursive.
Unwatching and watching again is one step; the marker's name does not change.  A watch the OS refuses, which the
code logs and then takes for armed (`watcher.rs` 610-616), is left out: such a directory is seen by scans only.
The run has no file at the watched directory's own level, where the modes do not differ.

### WebSession

A tab and the server, joined by the tab's connections (`slots`): a request is sent, reads the clock
(`ReadsClock`: the client address, the missing credential), takes the throttle's lock (`Check`) and is compared
and served (`Serve`), three steps between which the others' run.  The client is named by the walk through the
proxies (`ClientId`).  On the other side `Refresh` is `useQueue`'s, `FetchAnswered` its answer, `Unauthorized`
and `ProbeAnswered` the probe of `App.tsx`, `StreamOpens`, `StreamRefused`, `StreamDrops` and `Deliver` the
`EventSource`, `SubmitToken` and `LoginAnswered` the form, `TimesOut` and `FormGivesWay` the deadlines of
`http.ts`.  `Change` and `Emit` are the core: rows under the lock, the event after it.  `unheard` records that
something was lost which no later step of the code replaces; it says what the view does not owe.

The queue is a counter; a client that is not named by an address (no peer, or a chain that does not parse) and
the eviction of buckets above 4096 are left out, as are the pages beside the queue.  A connection is taken in a
fixed order, which is sound because connections are alike.

### FileIntake

The page between a drop and the backend's adds.  `Pick`, `SortAnswers` and `SortFails` are `handlePaths` up to and
from its await; `AddAnswers`, `StartAnswers` and `CallFails` are the turns of `runNext`'s loop, whose end
(`Report`) takes the next task in the same step, as the code does between two awaits; `OnAdd` and `OnSkip` answer
the prompt at the head.  `SetStatusMsg` is the one way to the status line, `TimerFires` its 4 seconds.  A call
fails at any moment, at the latest at `api`'s deadline, and the backend may come to it afterwards
(`BackendAdds`, `BackendStarts`).  A folder is empty, small or big; a page that is reloaded begins anew and is
not modelled, and a remote selection differs only in whom it calls.

## The runs

Two jobs (one on a remote host in `QueueSlot`; one in-place, one with an output of its own in
`Conversion`) are the least with a "next job" that a stale read can hit.  Two starters are the least
that race each other, and a run they both race.  Two thread identities are the least with a second
runner.

| run | bounds | shows |
|---|---|---|
| `QueueSlot` | 2 jobs, 2 starters, 2 threads, 2 attempts (presses and installs), jobs and installs may fail, a panic anywhere, the hook restarts the queue, fair | one runner, and no install under it; a stopped run takes no job; a drained run leaves nothing promised; refinement of `QueueService`; answered starts are served; the queue comes to rest though its hook restarts it; a pause armed during a job holds |
| `Conversion` | every mode and its changes, two callers, two calls of any kind that overlap anything, one end of the process anywhere, then the relaunch | an original is destroyed only by a cleanup that read `delete`; a video is lost in two named races and no others; a quit books no failure; no freeze is lost track of; a Cancel stops its encoder if it finds it; history is true when it is written and finished rows are rewritten by one race only |
| `ConversionSettles` | delete mode, one caller, two calls (pause, resume, cancel, quit) that overlap anything, one end, fair | a job that holds the queue comes to leave it |
| `ConversionCrashLoses` | delete mode, no calls | *violation*: the crash window between cleanup and booking |
| `RemoteJob` | one job, in place or not, and two faults; two rows of one file and one fault | nothing on the host but whole encodes and retired originals (refinement); a file is replaced only for a job still wanted; one live row per file; a published result is recognised; an outage's job is not forgotten |
| `Intake` | 2 adders, 2 rows, batches of one and two files whose outputs collide, both suffixes, one edit of the owner, one relaunch | live jobs write apart; first added first; nothing in place under `keep`; nothing converted twice |
| `Purge` | 2 rows, 2 purges, one file under two spellings, good, bad and truncated contents, one write of the owner, one drop of the volume | a purge removes what was condemned and nothing newer; never a live job's source |
| `DrainHook` | 4 jobs, batches of 2, up to 3 old rows that may share a time, 2 bookings, 2 edits, 2 faults, symmetry in jobs | no completion is passed over; a drain leaves no backlog to a mechanism that takes all |
| `FolderWatch` | one file below the watched directory, delay 2, lag 1, 2 writes, one command, one marker or verdict, one relaunch, fair | what stays comes to the queue as it is; the reaper takes nothing that has just changed |
| `UpdaterDrain` | 2 versions, a job running and one waiting, 3 user actions, 1 quit or crash, checks and downloads free to fail, fair | only what the panel showed is installed for the user; a cancelled install stops and the panel does not stick, but for one race each; a call that gives up undoes its drain; a pending install is decided |
| `WebSession` | 2 fetches and a stream, free allowance 2, spacing capped at 1, 3 wrong tokens of a neighbour behind a known or an unknown proxy, one change, one fault, fair | the right token is never refused as too soon; the tab ends at the queue page with the rows as they are |
| `FileIntake` | 2 selections of up to 2 units and a shortfall, 8 answers to each, calls free to fail, fair | nothing picked is lost, twice or left unstarted; the placeholder and the timer never outlive their occasion; what a selection lacks is told after its own adds |

`UpdaterDrain` needs one job to run and one to wait (a stop must have something to stop), two versions
(an offer may change between click and check), and three actions: to fill the queue, to press Install,
and to interfere.  Its theorems hold for any bounds.

`RemoteJob`: with two faults a job meets a lost answer and an edit, or a crash in the retry of an outage;
two rows of one file are the least for a requeue to collide with an add.  Both together with two faults
(11.6 million states) hold as well, outside the runs.  `Intake`: three or more rows add nothing that two
do not have, as every property is about a pair.  `DrainHook`: batches of two with four rows have a full batch, a
cut between equal times and a tie too large.  `FolderWatch` with two commands (3.8 million states) and with two
files and one command (1.4 million) hold as well.  The types of `QueueSlot`, `Conversion`,
`UpdaterDrain`, `RemoteJob`, `Purge`, `Intake` and `FileIntake` are proved; those of `DrainHook`, `FolderWatch`
and `WebSession` are defined as `TypeOK` and were checked outside the runs.

`FileIntake`: two selections are the least that share the prompts and the drain; each has adds that start by
themselves, adds that wait for an answer, both in one, or nothing.  With all 24 answers of up to two folders the
invariants hold as well (10.5 million states).

`WebSession`: the free allowance equals the fetches, so that with the stream's the tab can exhaust it (the code
allows 8, a browser opens 6 connections to a host); three wrong tokens are the least that gate a source.  The
neighbour sends them in the first of two ticks and the window is zero, so that the second tick finds both an
expired window and an expired spacing.  With three ticks and a window of one the safety part holds as well (1.5
million states).

`MaxAttempts` bounds Start presses and install attempts (adding rows is bounded by the rows);
`MaxEnds`, `MaxFaults`, `MaxRelaunches` bound how often the process ends.  One end is enough for `Conversion`:
the second launch starts from a state in which nothing but rows and files is left, which one end already
reaches from every point.  Two calls (`MaxCalls`) are the least that race each other beside the thread; each of
the disagreements below needs one or two, and the theorems hold for any number.

Deadlock is not checked where the system really may stop: in `Conversion`, where
all jobs may be finished and the process gone for good, in `Purge`, `DrainHook`, `FolderWatch`,
`FileIntake` and `WebSession`, where the bounds run out.

### Fairness

`QueueSlot`: queue threads and calls under way are scheduled (they are OS threads, and every lock is
held for a bounded time); an encode ends (a live HandBrake process exits, or is killed), and the
drained hook ends (it has a timeout); the installer returns; a restart that was ordered comes.
Nobody is obliged to add, press, pause or crash.

`Conversion`: the encoder is weakly fair unless frozen; a frozen one waits for Resume for ever.  The thread and
the calls under way continue, each weakly fair: every lock is held for a bounded time.

`UpdaterDrain`: the queue's thread and the operation under the latch go on (checks and downloads have
total time-outs of 30 s and 30 min, which end as failures); the hourly tick retries a deferral whenever
the latch is free; a dispatched cycle begins or is refused; a requested restart comes.  A frozen job may
stay frozen for ever, which `PendingIsDecided` excepts.  That the endpoint keeps answering is not
assumed, and a retry that begins ends, so the tick cannot starve.

`FolderWatch`: the OS tells what it saw, time passes, the reaper comes round each second, scans and
reconciles are threads that go on.  Nobody has to write, mark or call.

`WebSession`: what is under way goes on (`Progress`: the server's tasks, the tab's callbacks, an event that is
owed, and an owner of the token who tries it again), no request that may be served waits for ever while
others are, and time passes.  Nobody has to change the queue, and nothing has to fail.

`FileIntake`: each call is answered or given up at its deadline, which every request of the web UI carries
(`http.ts`, `api`); the desktop's calls have none, and there `TasksAreReported` holds as far as the core
answers.  No timer has to fire, no prompt to be answered, and the backend need not finish what was given up.

`RemoteJob`, `Intake`, `Purge` and `DrainHook` claim safety only and assume no fairness.

## What is proved

`QueueSlotProofs`, for any sets of jobs, starters and threads, from `SlotAssumption` alone (the
absent job is no job, remote jobs are jobs, the switches are Booleans):

* `TypeCorrect`: `TypeOK`.
* `SlotExclusive`: `SlotIsExclusive`, through `SlotInv` = `OneQueueRunner`, `InstallExcludesQueue` and "a
  dead process holds neither flag".  The three need one another: a claim is safe because
  `is_running` is exact, it stays exact because whoever releases is the only runner, and an install
  is excluded because both flags are taken under one mutex.
* `StoppedRunStops`: through `StopInv`, that a thread whose run was stopped is at `unwind` and one at
  `unwind` has been stopped.  The pick never looks at the pause, so this is a fact about control
  flow, not about a guard.
* `DrainedQueueIsEmpty`: through `WakeInv`.  Not inductive as stated: at the release the thread has
  looked (nothing queued), gone through the hook, and looked at the mark, and between any two of those
  a start may be refused.  `WakeInv` says that while promised work waits the queue runs, and that a
  thread past its last look has the mark set.
* `ArmedPauseHolds`: `PauseHoldsBeforeNextJob`, through `ArmedInv`: once a pause is armed on a job, the thread is still at
  that job, about to look at the flag or on its way out, and the slot's exclusion leaves no other thread that
  could take a job.  The head of the loop counts as "about to look" only behind a remote job.

* `ServiceRefined`: `ImplementsService`, from those invariants, with a panic at any step.  `WorkInv` adds that the row a
  thread encodes is `encoding` and the one it is yet to claim is not, so that a gate, a Close and a Take find nothing
  active though rows of panicked runs still say `encoding`; and that a dead process remembers only
  persisted stops, so that a launch opens the queue exactly when nothing is `Stopped`.  `OtherRows` says which changes
  of rows leave `active` and `cutOff` alone, and three lemmas carry
  the steps the service hardly sees: `Unseen`, `StaysOpen` (the thread goes on, whatever stops come and go) and
  `Leaves` (rows leave the queue unserved).

`ConversionProofs`, for any jobs and callers, every call and any number of crashes:

* `ConversionTypeCorrect`: `TypeOK`.
* `OriginalIsRecoverable`: `OriginalRecoverable`, whose only exception is `purged`.  The strengthening ties the
  file system to the thread: one about to rename has its original in the Trash or has read `delete`.
* `QuitIsResumable`: `QuitLeavesJobResumable`.  `QuitInv` says that the handle names the thread's own encode from
  the moment it is stored until it is reaped or cancelled, so that what the quit path kills is running; and
  that a killed encode ends badly, past which the thread looks at the latch before it books.  `LatchInv`: the
  latch is set before the kill and only the end of the process takes it back.

The next five assume nothing about the calls either.  They share `ReadyInv`, whose parts need one another.
`HandleInv`: the handles name the thread's own encode, whose encoder lives only while it can be waited for and whose
pid is known unless a Cancel forgot it.  `ReadInv`: what a call has read, however long ago, is a job that was
claimed and is not queued, so a stale write meets a running or an ended row.  `RowInv`: the thread's row is running or in
error.  `DiskInv` adds the files: `FileInv`, that the target is whole by the time of the cleanup and that what the
thread will book is what the disk says (`DiskFits`), but for a job some Cancel has `missed`; and `KillInv`, that a Cancel
which did kill its encoder, and is about to delete the partial output, has the thread on its way to see that.

* `FinishedStaysFinal`: `FinishedIsFinal`.  `RowSteps` lists who may write a row.
* `BookingTellsTheDisk`: `BookingIsTrue`.  Settings may change and calls may begin at any point between the verdict and
  the booking: the booking goes by the mode that was reread, and `FileInv` is about what was done under it.
* `SomeCopySurvives`: `VideoSurvives`.  `SurviveInv` adds that a row a relaunch would requeue, deleting its target,
  still has its source or a copy in the Trash, or is `misread` or `missed`, or is about to be booked.
* `CancelStops`: `CancelStopsEncoder`.  `CancelInv`: a job in error whose encoder is yet to come, or runs, has a
  Cancel that is about to look for its child, or was missed by one.
* `FreezeIsShown`: `FrozenIsShown`, for any number of callers.  `FrozenInv` says which call still owes the pause of a
  frozen encode, at each of its steps.

`DrainProofs` on `UpdaterDrain`, for any versions and any number of jobs, actions and crashes, from
`UpdaterAssumption` (no version is a version, the bounds are naturals):

* `UpdaterTypeCorrect`: `TypeOK`.
* `UserGetsWhatWasShown`: through `ConsentInv`.  The version travels from the panel to the operation to
  the deferral to a retry's locals; the invariant says where the consent is at each stage, and that
  between the click and its check nothing moves the panel.
* `CancellationHolds`: through `CancelInv`, that an operation whose deferral was dropped before its next look
  finds nothing pending there, because only an operation registers one and it holds the latch.  A cancellation
  between that look and the registration is another value of `dropped`.  `InstallIsWanted` is the two together.
* `PanelNeverSticks`: through `PanelInv`, that "will install when the queue finishes" is written only behind a look
  that found a deferral, so without one it was dropped at `await`.
* `DrainIsUndone`: through `FlagInv`, that a drain's flag which was not kept still has its guard.

All four use `KindInv` (a cycle has no guard and never works for the user), and two lemmas shorten every
case analysis: `Quiet`, what the queue and its user leave alone, and `AsksQueueMoves`, the steps of an
operation that touch neither panel nor consent.

`RemoteJobProofs`, for any jobs, files and layouts and any number of faults, from `RemoteAssumption` and
`ContentAssumption` (the absent file and a partial one are no contents):

* `RemoteTypeCorrect`: `TypeOK`.  Not inductive alone: what the script moves must be a whole encode.  `Vouched`
  says a script was told of one, that what it has verified *is* that one, and that an original it will
  delete has its encode published; `Quiet` that no script of an earlier attempt works on the file while the
  job pushes over its temp; `Staged` and `Decided` carry the pull and the judgement to where they are used.
* `FinalizesOnlyTheWanted`: `FinalizingIsWanted`, which is inductive beside the types: from `begin_finalize`
  on each call that could book the row is refused, and none of the others touches a running row.
* `OneRowPerFile`: `OneLiveRowPerFile`; only `Add` and the requeue of an outage bring a row to life, and both
  look.
* `RemoteRefines`: `ImplementsSafeReplace`.  `ScriptEffects` says what a line of the script can do; with
  `Vouched` each such step is `Replace`, `Publish` or `Retire`, the owner's are `OwnerActs`, and every other
  action of the module stutters.
* `OutageIsRemembered`: `OutageIsNotForgotten`.  `StopInv`: an outage is booked by the last step of its turn, and
  while its stop stands no other turn begins, so no second outage can take its place in the settings.
* `PublishedIsFound`: `PublishedIsRecognised`.  `MarkInv` follows the marker: whoever may come upon an output of
  its own, because it is published or a script may still publish it, has the marker while it is queued, keeps it
  in the turn that follows up to where it is asked for, and from the script's start on cannot be booked "gone"
  without a look.  `GoneInv`: a source is missing only behind a published output.  Both hold until something
  excused happens, and `ExcusedStays`.

`IntakeProofs`, for any paths, batches, suffixes, output names, adders and any number of rows, edits and
relaunches, from `IntakeAssumption` (batches and lists of names are not empty and name paths).  Two lemmas carry
it: a step appends one row or changes the rows there are in one of a few ways (`RowsStep`, `RowStep`), and a path
is written by its owner, by the encode of a job that begins or by the cleanup of one in place (`DiskStep`).

* `IntakeTypeCorrect`: `TypeOK`, with `CallInv` (one call inserts at a time) and `TurnInv` (until it is booked
  the thread's row is running, was cancelled or is gone).
* `JobsWriteApart`: `OutputsApart`, which is inductive: a name is looked for among all rows, ended ones too, so
  that a row that is queued again finds its own name free.
* `QueueIsInOrder`: `FirstAddedFirst`.  Not inductive: recovery queues a running row again.  `OrderInv` orders the
  running rows with the queued ones, and puts a batch that is being inserted behind them all (`TopIs`).
* `KeepMeansKeep`: `NothingInPlaceUnderKeep`, inductive: the switch itself shows that its rows are not dropped yet,
  and no call inserts between the switch and the drop under a mode it read before (`LockHeld`).
* `DealtWithOnce`: `NothingIsConvertedTwice`, if no batch names a path twice (`BatchesAreSets`; with one that does
  it fails, see below).  `FreshInv`: no queued or running row has a source that was dealt with.  A row may come to
  be such through what another writes, books or adds, so it needs `SourceInv` (no two such rows share a source,
  nor does one share any an insert still holds behind the rows it asked) and `ContentInv`: what row r made is under
  the output of r, from an earlier launch if r waits or is about to be replaced, and the result of a done in-place
  job is the one in its fingerprint, which is how the skip rules know it.

`PurgeProofs`, for any rows, purges, files and spellings, from `PurgeAssumption`:

* `PurgeTypeCorrect`: `TypeOK`.
* `SparesLiveSources`, `SparesTheNew`: through `Clear`, that what a purge past its last check is about to
  remove is no live row's source and still the condemned content.  It survives because every step that adds,
  claims or books a row takes the lock the purge holds (`Held`); the cleanup of an encode does not, and is
  harmless because its row runs (then it is live, and the last check has seen it) or was booked by a Cancel,
  which is the exception in `PurgeSparesTheNew`.

`DrainProofs` on `DrainHook`, for any jobs, mechanisms, batch size and history, from `DrainHookAssumption` (finitely many
jobs, a batch of at least one, an order of dispatch that names every mechanism):

* `NothingIsPassedOver`: `NothingPassedOver`.  A watermark moves to the newest row of a batch, so what matters
  is that the batch, once ties at its cut are held back, left out nothing up to there
  (`OldestAreComplete`), and that this stays so until the watermark is stored: `Times` says a booking made
  meanwhile is later than the batch and every watermark, and `Alone` that a start which puts an outage's row
  back does not shrink a tie other rows are excused by.
* `DrainLeavesNoBacklog`: `DrainServesEach`.  `ServedInv`: a mechanism that has refused nothing in this drain is
  served, or its turn is now or yet to come; and a batch that was not cut holds all that is left, which makes
  the last store serve it.  No row is booked while the thread is in the hook, so served stays served.

`WebSessionProofs`, for any policy, proxies, addresses and number of faults, ticks and wrong tokens, from
`WebSessionAssumption`:

* `RightTokenServed`: if the connections a page holds, beside its stream's, are no more than the free allowance
  (`FitsAllowance`), `RightTokenIsServed`.  `ClientIsAddress`: behind known proxies the walk through the chain ends
  at the caller's own address, so the neighbour never counts in the page's bucket.  `BucketInv`: the bucket counts
  no more than the requests that are checked and not yet compared (an answer to the right token clears it), and up
  to the free allowance its next slot is not after the moment it was last used, which no later check goes before.
  `TabInv`: a tab sends the right token or none, and replaces a request that is under way only when that one
  carries none: this is what a login's reload does to the stream.

`FileSourcesProofs` on `FileIntake`, for any selections, answers and number of folders, in whatever order calls are
answered, given up and confirmed, from `FileIntakeAssumption` (no answer has more folders than there are units):

* `FileIntakeTypeCorrect`: `TypeOK`.
* `NothingGoesAstray`: `NothingIsLost`.  `PlaceInv`: the prompts and the drain's work hold exactly the units of the
  sorted selections nothing was said of, each once, so a prompt that is answered moves its unit and an add that
  is reported ends it.  `DrainInv`: tasks wait only for a drain that runs.  What was inserted is the unit the
  drain is at until its start is asked for, which carries `NothingWaitsUnstarted`.
* `LineTellsTheTruth`: `LineIsTrue`.  The hard part is that a selection's shortfall is told with the *last* of its own
  adds and never before: `OrderInv` keeps a selection's own adds in their order although the user's confirmed folders and
  other selections come between, `NoticeInv` says that the notice rides on the last of them or on a selection
  that has none, and `ToldInv` ties what was told to what was said.

`FileSourcesProofs` on `FolderWatch`, for any files, callers, scanners, delay and lag and any
number of writes, commands, markers and relaunches, from `FolderWatchAssumption`:

* `ReapedWasQuiet`: `ReapedIsQuiet`.  `AgeInv`: while a pending file is as it was seen, its entry is older than the file has been
  quiet by the lag at most; a file that changed has a version the entry has not seen, and every look that
  sees it starts the entry's time anew.  `SlotInv` says that what the reaper carries is on its way to the queue and never a
  scan's list, so that the files new in its hands are the ones it took out just now; `ModesInv` that every scan is of
  something a scan can list.

Only model-checked: liveness (`ToldWorkIsServed`, `QueueComesToRest`, `RunningJobSettles`, `PendingIsDecided`,
`SettledIsOffered`, `TasksAreReported`, `TabComesToShowQueue`), because the prover has no rule for fairness here.
Every invariant and every action property of a passing run is stated by a theorem; only `NothingIsConvertedTwice` and
`RightTokenIsServed` under a hypothesis, named above.

## Disagreements seen

One run expects a violation, `ConversionCrashLoses`: the cleanup deletes the source before the row is booked.
A crash between leaves an `encoding` row, and the relaunch deletes its output as a partial one: with `delete`,
the last copy. The others below are each found by TLC when the definition named is put alone into a `.cfg`
with the constants of the run in brackets; they are kept out of the runs for economy.

Conversion and control:

* `PauseHoldsBeforeNextJob` excepts a job that failed: with Pause as a queue-level pause, a local job that
  *fails* goes on to the next without the pause being taken (`converter.rs` 1865; the root README, line 60, says
  other platforms pause between files).  TLC finds it when `JobFails` leaves `armedOn` alone.
* `CancelAlwaysStops` [`Conversion`]: a Cancel after the claim and before the child is stored books
  the row, finds no child, and the encode runs on to its end under a cancelled row (`converter.rs` 1388;
  `control.rs` 343 says "so a cancel always stops the process"). `missed` names it in `CancelStopsEncoder`.
* `CancelKillsItsOwn` [`Conversion`]: the child Cancel kills is the one it finds (`control.rs` 365), not that of the
  job it read.  If that job ended meanwhile, or none was current, the next job's encoder is killed and its job is booked
  as failed.
* A Cancel that read the job id before the encode ended and books the row while it still runs deletes a finished
  output (`control.rs` 392-404), after the cleanup has taken the source: `missed` in `VideoSurvives` and `BookingIsTrue`.
* `FinishedIsNotRewritten` [`Conversion`]: a Pause or Resume that read the job id before the encode ended writes
  `paused` or `encoding` over `done` (`control.rs` 101, 213).  With no encoder behind it the row says running
  until the next launch, which requeues it and deletes its output: `misread` in `VideoSurvives`.
* `FrozenRowSaysPaused` [`Conversion`]: a Pause and a Resume of two tabs race; one signals last, the other writes
  last, and a frozen encoder stands behind a row that says `encoding` (`control.rs` 90, 101, 205, 213).  The queue is
  still remembered as paused, so Resume is on offer: that is what `FrozenIsShown` keeps.
* A Pause in the window between the stored pid and the stored child, followed by a Cancel, leaves the
  encoder frozen with its pid forgotten (`control.rs` 378); no Resume reaches it, only a second Cancel: `adrift`.
* A Pause whose SIGSTOP reaches an exited child leaves `queue_paused` set on a queue that runs on; a start
  refused by an install that then fails is served by nobody (the comment at `converter.rs` 255 names a
  function that no longer exists); a run stopped by low disk or an outage never looks at the mark, so a
  Clear that lifts the stop before the slot is given back can leave later work waiting with no reason on
  display.  `QueueSlot` accounts for the last two with `lastStop`.

Updater (`UpdaterDrain`):

* `RetryUndoesDrain`: a retry finds the flag up and takes it for somebody else's, though it is the
  deferring call's (`updater.rs` 976, against 1022).  If its check fails while the job still runs, no stop is
  visible to undo, and the batch stops after the job for an install nobody will make.
* `OffCancelsScheduled`: an automatic cycle read its mode before its check (`updater.rs` 660, against
  `commands/settings.rs` 49).  Off, chosen during the check, finds no deferral to drop, and the cycle goes on to
  register and install.
* `UsersPauseStands`: with the current job frozen by the user the queue still runs, so Install arms a drain
  and writes its breadcrumb (`updater.rs` 991, against 1037); the persisted pause is then the user's, and the
  next launch lifts it.
* `NoCancellationIsMissed`: a retry reads its deferral and decides (`updater.rs` 1164-1187) before it registers it anew
  (1207), under another lock.  Off or Notify, chosen in between, drops the deferral (1291-1297), and the
  registration overwrites that: the cancelled version is downloaded and installed, against the comment at 1072-1076
  ("that would resurrect the cancellation it just missed").
* `WaitsForADeferral`: the look at the deferral (866) and the status written on it (867) are under two locks.  A mode
  change in between clears the deferral and sets Idle (1297-1305), and the status comes on top: the panel waits for an
  install that is not pending and "Check now" is refused, until the next scheduled check, which Off does not have, a
  change to Automatic or a relaunch; against the comment at 1116-1124.
* Pause then Resume while a drain is armed spends the breadcrumb though the stop is still to come, so it lands
  unclaimed; so does one whose breadcrumb a crash kept from being written; a dispatched scheduler cycle
  checked for a deferral before it was dispatched, so it can overtake one the user just made and replace it;
  an undo's start is refused while the stopped run unwinds, and the queue is then neither running nor paused;
  "Pause after this" switched off and on under an armed drain makes the user's stop the updater's.

Remote jobs (`RemoteJob`):

* `EditedIsKept`: the script looks at the original before it checksums the upload, which takes as long as
  the upload is large; an edit in between is replaced or deleted (the root README, "Remote roots over
  ssh", says an original that changed since the pull is not).
* A published job may be booked "Source file no longer exists" (against the comment at `converter.rs` 2005) when
  the process ended, when the host would not say whether the output is there, or when a second outage took
  the only marker: the excuses in `PublishedIsRecognised`.
* `OutageStopStands`: a Cancel between the stop an outage makes and the booking that follows it finds the row
  still running, books it cancelled and lifts the stop (`control.rs` 335); the booking overwrites it
  (`converter.rs` 811).  The next launch then starts by itself, retrying into the outage, whose second job takes
  the first one's place (against the comment at `converter.rs` 2055), and the cancelled job is put back into
  the queue by the next start.  `OutageIsNotForgotten` therefore speaks of an outage whose stop stands.
* A Cancel during the look for the published output is overwritten by the booking that follows it.

Intake: `NothingIsOverwritten` [`Intake`]: the output name is looked up when the job is added; the encode,
perhaps hours later, hands it to HandBrake without another look and overwrites what has come to be there
(`converter.rs` 1379; `queue_ops.rs` 1106 says "Never clobber an existing output"). One batch with the same
path twice queues two rows; a reorder of a stale list may put rows behind later adds; an edit of the owner's
between an in-place cleanup and its booking is fingerprinted as the result.

Purge (`Purge`):

* `RepairedIsSpared`: the fingerprint is of the file at condemnation, minutes after HandBrake read it; a file
  repaired before is fingerprinted repaired, and destroyed (`converter.rs` 103 says "Stamping at
  condemnation time closes that window").
* A volume that comes back between the stat of a file and the stat of its directory has the row marked as
  already gone.

Hooks: with the clock set back, completions below the watermark are never reported; a history cleared before
its report never is; a cancelled job whose truncated or empty output books it again fires a post-convert hook,
though the root README says a cancelled job fires nothing.

Watcher: a scan (at launch, when a directory is enabled, when a marker goes) does not know the delay, so a
file that is just being written is queued half-written, against "so a file can never be enqueued mid-write"
(`watch_ops.rs` 66); two reconciles at once on a server leave the armed watches to the staler of
their reads, against `watcher.rs` 569 ("exactly the set"); a directory made recursive is not scanned; a file
dropped for its verdict is not looked at again when the verdict goes.

Web UI (`WebSession`, the cases `unheard` excepts): a receiver that lags behind the 256 events of the channel
skips some, and no reconnect follows that would heal it (against the comment at `routes/events.rs` 22); a change
between a page's first fetch and its first subscription is missed; a last refresh that is refused or times out
is not repeated; a stream that was refused once, by the throttle for instance, is closed for good and only a
reload opens another; a remove, a clear or a reorder by another tab sends no event.

File intake (`FileIntake`): `NoticeStays` [`FileIntake`]: a folder confirmed while another selection's adds run
reports last and buries the notice; a selection that is sorted clears whatever the line says, also another
selection's summary or error (`useFileIntake.ts` 177 means the placeholder); a failed add takes its notice along; an add whose deadline passed is reported as failed while the
server inserts its rows, and nothing starts them (which `NothingWaitsUnstarted` excepts).

## Not modelled, and the plan

In order.

1. The web UI's history page, which drops no stale answer, and its settings, whose failed writes put back the
   value of their render.
2. Remote transfers under Pause; the marker's name changing under the watcher; overlapping watched
   directories.

Out of scope: the database schema and its migrations (run once, alone), HandBrake discovery and the
parsing of its output, presets, rendering, routes and commands that only forward a call, the rendering of hook
payloads, and the texts failure classes are read from.
