---------------------------- MODULE UpdaterDrain ----------------------------
(***************************************************************************)
(* The desktop updater and the queue it has to wait for.                   *)
(*                                                                         *)
(* An update is installed only under an idle queue.  "Install and restart" *)
(* pressed while the queue runs raises `pause_after_current', records in   *)
(* the settings that the pause to come is the updater's doing (a           *)
(* breadcrumb), and leaves a pending install that the queue's last event   *)
(* and an hourly tick retry.  A guard undoes the drain on every exit that  *)
(* gives the install up.  Meanwhile the user may pause, resume, cancel,    *)
(* arm or disarm "Pause after this", change the update mode, skip the      *)
(* version, or quit; checks and downloads take their time and may fail.    *)
(*                                                                         *)
(* One operation of the updater is in flight at a time (the `busy' latch). *)
(* The queue is reduced to what the updater can see of it; its own thread  *)
(* and the marks of refused starts are module QueueSlot.                   *)
(***************************************************************************)
EXTENDS Naturals

CONSTANTS
  Versions,    \* versions the endpoint may offer
  NoVersion,   \* none
  MaxQueued,   \* bound: rows waiting in the queue
  MaxActs,     \* bound: things the user does
  MaxDeaths    \* bound: quits and crashes, other than the restart into an update

ASSUME UpdaterAssumption ==
  /\ NoVersion \notin Versions
  /\ MaxQueued \in Nat /\ MaxActs \in Nat /\ MaxDeaths \in Nat

VARIABLES
  mode,         \* settings row update_mode (persisted)
  skipped,      \* settings row update_skipped_version (persisted)
  queuePaused,  \* settings row queue_paused (persisted)
  drainMark,    \* settings row update_drain_pause (persisted)
  available,    \* UpdaterRuntime.available
  status,       \* UpdaterRuntime.status, what the panel renders
  pending,      \* UpdaterRuntime.pending
  opc,          \* where the operation under the latch is; "none" when the latch is free
  okind,        \* what it is: the policy of a cycle, or the trigger of an install
  wants,        \* its local user_requested
  found,        \* the version its check returned
  armed,        \* its DrainGuard.armed
  spawned,      \* a scheduler cycle was dispatched and has not begun
  qpc,          \* where the queue is; is_running is qpc # "idle"
  queued,       \* rows waiting behind the current job
  frozen,       \* the current job is under SIGSTOP
  pauseAfter,   \* ConverterState.pause_after_current
  alive,        \* the process runs
  restarting,   \* installed: the restart has been requested
  why,          \* history: who asked for the persisted pause in force
  armedBy,      \* history: who raised pauseAfter
  landing,      \* history: who raised the flag the queue has just taken
  kept,         \* history: the drain's flag has outlived the call that raised it
  shown,        \* history: the version on the panel at the last "Install and restart"
  dropped,      \* history: where the last operation stood when its deferral was cancelled
  acts, deaths  \* bounds

persisted == <<mode, skipped, queuePaused, drainMark>>
panel     == <<available, status, pending>>
op        == <<opc, okind, wants, found, armed>>
queue     == <<qpc, queued, frozen, pauseAfter>>
process   == <<alive, restarting, deaths>>
blame     == <<why, armedBy, landing, kept>>
consent   == <<shown, dropped>>
updaterVars == <<persisted, panel, op, spawned, queue, process, blame, consent, acts>>

Modes == {"automatic", "notify", "off"}
Statuses == {"Idle", "Checking", "Available", "Downloading", "WaitingForIdle",
             "ReadyToRestart", "Error"}
Cycles == {"automatic", "notify", "manual"}
Triggers == {"UserRequested", "Retry"}
OpPcs == {"none", "check", "drain", "mark", "recheck", "register", "download", "gate",
          "deferred", "await", "install", "drop", "clear", "undo", "start"}
QueuePcs == {"idle", "encode", "taken", "stopped"}
Askers == {"none", "user", "drain"}
Cancellations == {"none", "heard", "overwritten", "late"}

Rows == 0..MaxQueued
UserActs == 0..MaxActs
Deaths == 0..MaxDeaths

PendingInstall == [version : Versions \cup {NoVersion}, user_requested : BOOLEAN]
NoPending == [version |-> NoVersion, user_requested |-> FALSE]

IsPending == pending.version # NoVersion
PendingMatches(v) == IsPending /\ pending.version = v
QueueRuns == qpc # "idle"
Latched == opc # "none"

UpdaterTypeOK ==
  /\ mode \in Modes /\ skipped \in Versions \cup {NoVersion}
  /\ queuePaused \in BOOLEAN /\ drainMark \in BOOLEAN
  /\ available \in Versions \cup {NoVersion} /\ status \in Statuses
  /\ pending \in PendingInstall
  /\ opc \in OpPcs /\ okind \in Cycles \cup Triggers
  /\ wants \in BOOLEAN /\ found \in Versions \cup {NoVersion} /\ armed \in BOOLEAN
  /\ spawned \in BOOLEAN
  /\ qpc \in QueuePcs /\ queued \in Rows
  /\ frozen \in BOOLEAN /\ pauseAfter \in BOOLEAN
  /\ alive \in BOOLEAN /\ restarting \in BOOLEAN
  /\ why \in Askers /\ armedBy \in Askers /\ landing \in Askers /\ kept \in BOOLEAN
  /\ shown \in Versions \cup {NoVersion} /\ dropped \in Cancellations
  /\ acts \in UserActs /\ deaths \in Deaths

UpdaterInit ==
  /\ mode \in Modes /\ skipped = NoVersion
  /\ queuePaused = FALSE /\ drainMark = FALSE /\ why = "none"
  /\ available = NoVersion /\ status = "Idle" /\ pending = NoPending
  /\ opc = "none" /\ okind = "manual" /\ wants = FALSE /\ found = NoVersion /\ armed = FALSE
  /\ frozen = FALSE /\ pauseAfter = FALSE /\ restarting = FALSE
  /\ armedBy = "none" /\ landing = "none" /\ kept = FALSE
  /\ shown = NoVersion /\ dropped = "none"
  /\ spawned = TRUE /\ alive = TRUE
  /\ qpc = "idle" /\ queued = 0
  /\ acts = 0 /\ deaths = 0

-----------------------------------------------------------------------------
(* The persisted pause and the updater's claim on it.                      *)

\* set_queue_paused(false): whoever lifts a stop in force takes the pause state over.
UnpauseQueue ==
  /\ queuePaused' = FALSE
  /\ drainMark' = (drainMark /\ ~queuePaused)
  /\ why' = "none"

\* set_user_queue_pause.
UserPausesQueue ==
  /\ queuePaused' = TRUE
  /\ drainMark' = FALSE
  /\ why' = "user"

\* take_drain_pause: the claim is consumed, and a pause it accounts for lifted.
TakeDrainPause ==
  /\ drainMark' = FALSE
  /\ queuePaused' = (queuePaused /\ ~drainMark)
  /\ why' = IF drainMark THEN "none" ELSE why

LowerFlag ==
  /\ pauseAfter' = FALSE
  /\ armedBy' = "none"
  /\ kept' = FALSE

\* claim_queue_slot: refused while the queue runs or an install does.
MayClaim == ~QueueRuns /\ opc # "install"

-----------------------------------------------------------------------------
(* The queue, as far as the updater can tell.                              *)

\* The loop after a job: the next one, or the end of a drained run.
GoOn ==
  /\ qpc' = IF queued > 0 THEN "encode" ELSE "idle"
  /\ queued' = IF queued > 0 THEN queued - 1 ELSE 0

\* A booked job looks at the flag (pause_if_armed); a failed one goes on without.
JobCompletes ==
  /\ alive /\ qpc = "encode" /\ ~frozen
  /\ IF pauseAfter
       THEN /\ LowerFlag
            /\ landing' = armedBy
            /\ qpc' = "taken"
            /\ UNCHANGED queued
       ELSE /\ GoOn
            /\ UNCHANGED <<pauseAfter, armedBy, landing, kept>>
  /\ UNCHANGED <<persisted, panel, op, spawned, frozen, process, why, consent, acts>>

JobFails ==
  /\ alive /\ qpc = "encode" /\ ~frozen
  /\ GoOn
  /\ UNCHANGED <<persisted, panel, op, spawned, frozen, pauseAfter, process, blame, consent,
                 acts>>

\* The pause is persisted a moment after the flag was taken, and without a claim.
PauseLands ==
  /\ alive /\ qpc = "taken"
  /\ queuePaused' = TRUE
  /\ why' = landing
  /\ landing' = "none"
  /\ qpc' = "stopped"
  /\ UNCHANGED <<mode, skipped, drainMark, panel, op, spawned, queued, frozen, pauseAfter,
                 process, armedBy, kept, consent, acts>>

\* RunningGuard: the slot is given back last, whatever was refused meanwhile.
QueueUnwinds ==
  /\ alive /\ qpc = "stopped"
  /\ qpc' = "idle"
  /\ UNCHANGED <<persisted, panel, op, spawned, queued, frozen, pauseAfter, process, blame,
                 consent, acts>>

Queue == JobCompletes \/ JobFails \/ PauseLands \/ QueueUnwinds

-----------------------------------------------------------------------------
(* What the user does to the queue.                                        *)

Act == alive /\ acts < MaxActs /\ acts' = acts + 1

\* A file is added, or Start pressed: start_queue claims first, then clears the pause.
AddAndStart ==
  /\ Act
  /\ queued < MaxQueued
  /\ IF MayClaim
       THEN UnpauseQueue /\ qpc' = "encode" /\ UNCHANGED queued
       ELSE queued' = queued + 1 /\ UNCHANGED <<qpc, queuePaused, drainMark, why>>
  /\ UNCHANGED <<mode, skipped, panel, op, spawned, frozen, pauseAfter, process, armedBy,
                 landing, kept, consent>>

PressStart ==
  /\ Act
  /\ MayClaim /\ queued > 0
  /\ UnpauseQueue
  /\ GoOn
  /\ UNCHANGED <<mode, skipped, panel, op, spawned, frozen, pauseAfter, process, armedBy,
                 landing, kept, consent>>

\* pause_conversion and resume_conversion on unix, where a local job can be frozen.
Pause ==
  /\ Act
  /\ qpc = "encode" /\ ~frozen
  /\ frozen' = TRUE
  /\ UserPausesQueue
  /\ UNCHANGED <<mode, skipped, panel, op, spawned, qpc, queued, pauseAfter, process, armedBy,
                 landing, kept, consent>>

Resume ==
  /\ Act
  /\ frozen
  /\ frozen' = FALSE
  /\ UnpauseQueue
  /\ UNCHANGED <<mode, skipped, panel, op, spawned, qpc, queued, pauseAfter, process, armedBy,
                 landing, kept, consent>>

\* cancel_conversion: the run goes on with the next job, and is not paused any more.
CancelConversion ==
  /\ Act
  /\ qpc = "encode"
  /\ frozen' = FALSE
  /\ UnpauseQueue
  /\ GoOn
  /\ UNCHANGED <<mode, skipped, panel, op, spawned, pauseAfter, process, armedBy, landing,
                 kept, consent>>

\* The "Pause after this" toggle shows the flag, whoever raised it.
PauseAfterCurrent ==
  /\ Act
  /\ qpc = "encode" /\ ~pauseAfter
  /\ pauseAfter' = TRUE
  /\ armedBy' = "user"
  /\ kept' = FALSE
  /\ UNCHANGED <<persisted, panel, op, spawned, qpc, queued, frozen, process, why, landing,
                 consent>>

CancelPauseAfterCurrent ==
  /\ Act
  /\ qpc = "encode" /\ pauseAfter
  /\ LowerFlag
  /\ UNCHANGED <<persisted, panel, op, spawned, qpc, queued, frozen, process, why, landing,
                 consent>>

UserOnQueue ==
  \/ AddAndStart \/ PressStart \/ Pause \/ Resume \/ CancelConversion
  \/ PauseAfterCurrent \/ CancelPauseAfterCurrent

-----------------------------------------------------------------------------
(* The panel.  Its own action buttons wait for each other, its modes do not. *)

PanelBusy == Latched /\ okind \in {"manual", "UserRequested"}

PendingSurvivesMode(m) == m = "automatic" \/ pending.user_requested

\* The operation in flight works for the deferral just dropped.  It has yet to look at it again;
\* or it has looked and is about to register it anew, or to say that it waits for it.
Drops ==
  dropped' = CASE opc = "download"                                           -> "heard"
               [] okind = "Retry" /\ opc \in {"drain", "mark", "recheck"}    -> "heard"
               [] opc = "register"                                           -> "overwritten"
               [] opc = "await"                                              -> "late"
               [] OTHER                                                      -> dropped

DropBecauseOfMode(m) ==
  /\ IsPending /\ ~PendingSurvivesMode(m)
  /\ pending' = NoPending
  /\ status' = IF m = "off" THEN "Idle" ELSE "Available"
  /\ Drops
  /\ UNCHANGED spawned

KeepThroughMode(m) ==
  /\ ~IsPending \/ PendingSurvivesMode(m)
  /\ spawned' = (spawned \/ (m = "automatic" /\ ~IsPending /\ status # "ReadyToRestart"))
  /\ UNCHANGED <<pending, status, dropped>>

\* update_setting("update_mode"), then on_mode_changed.
SetMode(m) ==
  /\ Act
  /\ m # mode
  /\ mode' = m
  /\ DropBecauseOfMode(m) \/ KeepThroughMode(m)
  /\ UNCHANGED <<skipped, queuePaused, drainMark, available, op, queue, process, blame, shown>>

\* skip_update_version, of the version on display.
Skip ==
  /\ Act
  /\ status = "Available" /\ available # NoVersion /\ ~PanelBusy
  /\ skipped' = available
  /\ available' = NoVersion
  /\ IF PendingMatches(available)
       THEN pending' = NoPending /\ Drops
       ELSE UNCHANGED <<pending, dropped>>
  /\ status' = "Idle"
  /\ UNCHANGED <<mode, queuePaused, drainMark, op, spawned, queue, process, blame, shown>>

\* try_begin_cycle.
Begin(kind, pc, user) ==
  /\ ~Latched
  /\ opc' = pc /\ okind' = kind /\ wants' = user
  /\ found' = NoVersion /\ armed' = FALSE
  /\ dropped' = "none"

\* "Check now": run_cycle(manual), unless manual_check_block refuses.
CheckNow ==
  /\ Act
  /\ status \notin {"Checking", "Downloading", "WaitingForIdle", "ReadyToRestart"}
  /\ ~IsPending
  /\ Begin("manual", "check", FALSE)
  /\ status' = "Checking"
  /\ UNCHANGED <<persisted, available, pending, spawned, queue, process, blame, shown>>

\* retry_action, on the queue as sampled now.
InstallSteps(user) ==
  IF ~QueueRuns THEN "recheck" ELSE IF user THEN "drain" ELSE "undo"

\* "Install and restart": install_pending(UserRequested).
PressInstall ==
  /\ Act
  /\ status = "Available" /\ available # NoVersion
  /\ Begin("UserRequested", InstallSteps(TRUE), TRUE)
  /\ shown' = available
  /\ UNCHANGED <<persisted, panel, spawned, queue, process, blame>>

UserOnPanel == (\E m \in Modes : SetMode(m)) \/ Skip \/ CheckNow \/ PressInstall

-----------------------------------------------------------------------------
(* The scheduler.                                                          *)

\* The hourly tick with nothing pending: a cycle is dispatched.
Tick ==
  /\ alive /\ ~spawned
  /\ status # "ReadyToRestart" /\ ~IsPending
  /\ spawned' = TRUE
  /\ UNCHANGED <<persisted, panel, op, queue, process, blame, consent, acts>>

\* The dispatched cycle begins: refused by the latch, or not wanted, or on its way.
CycleRefused ==
  /\ alive /\ spawned
  /\ Latched \/ mode = "off"
  /\ spawned' = FALSE
  /\ UNCHANGED <<persisted, panel, op, queue, process, blame, consent, acts>>

CycleBegins ==
  /\ alive /\ spawned /\ mode # "off"
  /\ spawned' = FALSE
  /\ Begin(mode, "check", FALSE)
  /\ status' = "Checking"
  /\ UNCHANGED <<persisted, available, pending, queue, process, blame, shown, acts>>

\* A deferral is retried, by the queue's last event or by the hourly tick; the intent is read
\* under the latch.
Retry ==
  /\ alive /\ IsPending
  /\ Begin("Retry", InstallSteps(pending.user_requested), pending.user_requested)
  /\ UNCHANGED <<persisted, panel, spawned, queue, process, blame, shown, acts>>

Scheduler == Tick \/ CycleBegins \/ CycleRefused \/ Retry

-----------------------------------------------------------------------------
(* run_cycle after its latch: the check has come back.                     *)

CycleAt(pc) == alive /\ opc = pc /\ okind \in Cycles

\* decide / decide_manual on a version, for this cycle's policy.
Outcome(v) ==
  CASE okind = "automatic"                 -> "Install"
    [] okind = "notify" /\ skipped = v     -> "Nothing"
    [] OTHER                               -> "Notify"

EndCycle ==
  /\ opc' = "none"
  /\ UNCHANGED <<okind, wants, found, armed>>

CheckFails ==
  /\ CycleAt("check")
  /\ status' = IF available # NoVersion THEN "Available" ELSE "Error"
  /\ EndCycle
  /\ UNCHANGED <<available, pending>>

CheckFindsNothing ==
  /\ CycleAt("check")
  /\ available' = NoVersion /\ status' = "Idle"
  /\ EndCycle
  /\ UNCHANGED pending

CheckFinds(v) ==
  /\ CycleAt("check")
  /\ \/ /\ Outcome(v) = "Nothing"
        /\ available' = NoVersion /\ status' = "Idle"
        /\ EndCycle /\ UNCHANGED pending
     \/ /\ Outcome(v) = "Notify"
        /\ available' = v /\ status' = "Available"
        /\ EndCycle /\ UNCHANGED pending
     \/ /\ Outcome(v) = "Install"
        /\ available' = v /\ status' = "Downloading"
        /\ pending' = [version |-> v, user_requested |-> FALSE]
        /\ opc' = "download" /\ found' = v
        /\ UNCHANGED <<okind, wants, armed>>

CheckReturns ==
  /\ CheckFails \/ CheckFindsNothing \/ \E v \in Versions : CheckFinds(v)
  /\ UNCHANGED <<persisted, spawned, queue, process, blame, consent, acts>>

-----------------------------------------------------------------------------
(* install_pending under its drain guard.                                  *)

At(pc) == alive /\ opc = pc
Goto(pc) == opc' = pc /\ UNCHANGED <<okind, wants>>

\* DrainGuard::arm: a flag already up is not this guard's.
ArmDrain ==
  /\ At("drain")
  /\ IF pauseAfter
       THEN Goto("recheck") /\ UNCHANGED <<armed, pauseAfter, armedBy, kept>>
       ELSE /\ pauseAfter' = TRUE
            /\ armedBy' = "drain" /\ kept' = FALSE
            /\ armed' = TRUE
            /\ Goto("mark")
  /\ UNCHANGED <<persisted, panel, found, spawned, qpc, queued, frozen, process, why, landing,
                 consent, acts>>

\* The breadcrumb is written after the flag, under another lock.
MarkDrain ==
  /\ At("mark")
  /\ drainMark' = TRUE
  /\ Goto("recheck")
  /\ UNCHANGED <<mode, skipped, queuePaused, panel, found, armed, spawned, queue, process,
                 blame, consent, acts>>

GiveUpInstall == Goto("drop") /\ UNCHANGED <<found, armed>>

\* Seeded fault: a check that fails keeps the deferral for another try.
RecheckFails_Keeps ==
  /\ status' = "Error"
  /\ GiveUpInstall
  /\ UNCHANGED <<available, pending>>

RecheckFails ==
  /\ IF IsPending
       THEN pending' = NoPending /\ status' = "Error"
       ELSE UNCHANGED <<pending, status>>
  /\ GiveUpInstall
  /\ UNCHANGED available

RecheckFindsNothing ==
  /\ IF IsPending
       THEN pending' = NoPending /\ status' = "Idle" /\ available' = NoVersion
       ELSE UNCHANGED panel
  /\ GiveUpInstall

RecheckFindsCancelled ==
  /\ okind = "Retry" /\ ~IsPending
  /\ GiveUpInstall
  /\ UNCHANGED panel

\* What was consented to: the deferral, or what the panel shows.
Consented == IF okind = "Retry" THEN pending.version ELSE available
UserConsented == okind = "UserRequested" \/ pending.user_requested

\* Seeded fault: the user's consent to one version is taken for any.
VersionDrift_AdoptsAny(v) == IF Consented \in {NoVersion, v} THEN "Proceed" ELSE "Adopt"

VersionDrift(v) ==
  CASE Consented \in {NoVersion, v} -> "Proceed"
    [] UserConsented                -> "Reconsent"
    [] OTHER                        -> "Adopt"

RecheckNeedsConsent(v) ==
  /\ okind = "UserRequested" \/ IsPending
  /\ VersionDrift(v) = "Reconsent"
  /\ pending' = NoPending /\ available' = v /\ status' = "Available"
  /\ GiveUpInstall

RecheckProceeds(v) ==
  /\ okind = "UserRequested" \/ IsPending
  /\ VersionDrift(v) # "Reconsent"
  /\ available' = IF VersionDrift(v) = "Adopt" THEN v ELSE available
  /\ found' = v
  /\ Goto("register") /\ UNCHANGED <<armed, pending, status>>

RecheckReturns ==
  /\ At("recheck")
  /\ \/ RecheckFails \/ RecheckFindsNothing \/ RecheckFindsCancelled
     \/ \E v \in Versions : RecheckNeedsConsent(v) \/ RecheckProceeds(v)
  /\ UNCHANGED <<persisted, spawned, queue, process, blame, consent, acts>>

\* The pending install is registered under another lock than the one consent was read under: a
\* deferral cancelled in between is pending again.
Register ==
  /\ At("register")
  /\ pending' = [version |-> found, user_requested |-> wants]
  /\ status' = "Downloading"
  /\ Goto("download")
  /\ UNCHANGED <<persisted, available, found, armed, spawned, queue, process, blame, consent,
                 acts>>

-----------------------------------------------------------------------------
(* perform_install, the same for a cycle and for an install.               *)

\* An operation without a drain guard ends where the others drop theirs.
Abandon ==
  /\ opc' = IF okind \in Cycles THEN "none" ELSE "drop"
  /\ UNCHANGED <<okind, wants, found, armed>>

DownloadFails ==
  /\ pending' = NoPending /\ status' = "Error"
  /\ Abandon

DownloadUnwanted ==
  /\ ~PendingMatches(found)
  /\ status' = "Idle"
  /\ Abandon
  /\ UNCHANGED pending

DownloadWanted ==
  /\ PendingMatches(found)
  /\ Goto("gate")
  /\ UNCHANGED <<found, armed, status, pending>>

\* Seeded fault: what is downloaded is installed.
DownloadReturns_Installs ==
  /\ At("download")
  /\ \/ DownloadFails
     \/ Goto("gate") /\ UNCHANGED <<found, armed, status, pending>>
  /\ UNCHANGED <<persisted, available, spawned, queue, process, blame, consent, acts>>

DownloadReturns ==
  /\ At("download")
  /\ DownloadFails \/ DownloadUnwanted \/ DownloadWanted
  /\ UNCHANGED <<persisted, available, spawned, queue, process, blame, consent, acts>>

\* try_install_now: the queue is sampled and `installing' set under one lock.
TryInstallNow ==
  /\ At("gate")
  /\ Goto(IF QueueRuns THEN "deferred" ELSE "install")
  /\ UNCHANGED <<persisted, panel, found, armed, spawned, queue, process, blame, consent, acts>>

\* Seeded fault: the deferral is not looked at again.
Deferred_Blind ==
  /\ At("deferred")
  /\ Goto("await") /\ UNCHANGED <<found, armed, status>>
  /\ UNCHANGED <<persisted, available, pending, spawned, queue, process, blame, consent, acts>>

\* Busy after all: the deferral stands as it was registered, unless it was cancelled.
Deferred ==
  /\ At("deferred")
  /\ IF PendingMatches(found)
       THEN Goto("await") /\ UNCHANGED <<found, armed, status>>
       ELSE status' = "Idle" /\ Abandon
  /\ UNCHANGED <<persisted, available, pending, spawned, queue, process, blame, consent, acts>>

\* The panel is told afterwards, under another lock; the drain, if any, is kept.
AwaitIdle ==
  /\ At("await")
  /\ status' = "WaitingForIdle"
  /\ opc' = "none" /\ UNCHANGED <<okind, wants, found, armed>>
  /\ kept' = (kept \/ armed)
  /\ UNCHANGED <<persisted, available, pending, spawned, queue, process, why, armedBy, landing,
                 consent, acts>>

InstallSucceeds ==
  /\ At("install")
  /\ pending' = NoPending /\ status' = "ReadyToRestart"
  /\ restarting' = TRUE
  /\ opc' = "none" /\ UNCHANGED <<okind, wants, found, armed>>
  /\ UNCHANGED <<persisted, available, spawned, queue, alive, deaths, blame, consent, acts>>

InstallFails ==
  /\ At("install")
  /\ pending' = NoPending /\ status' = "Error"
  /\ Abandon
  /\ UNCHANGED <<persisted, available, spawned, queue, process, blame, consent, acts>>

-----------------------------------------------------------------------------
(* The guard's drop, unless it was kept; the latch is released after it.    *)

\* Seeded fault: the flag is left up.
DropGuard_LeavesFlag ==
  /\ At("drop")
  /\ Goto(IF armed /\ pauseAfter THEN "clear" ELSE "undo")
  /\ UNCHANGED <<persisted, panel, found, armed, spawned, queue, process, blame, consent, acts>>

\* Only the guard that raised the flag lowers it, and then whoever raised it last.
DropGuard ==
  /\ At("drop")
  /\ Goto(IF armed /\ pauseAfter THEN "clear" ELSE "undo")
  /\ IF armed THEN LowerFlag ELSE UNCHANGED <<pauseAfter, armedBy, kept>>
  /\ UNCHANGED <<persisted, panel, found, armed, spawned, qpc, queued, frozen, process, why,
                 landing, consent, acts>>

\* clear_drain_pause: the flag was never taken, so no stop is coming.
ClearDrainPause ==
  /\ At("clear")
  /\ drainMark' = FALSE
  /\ Goto("none")
  /\ UNCHANGED <<mode, skipped, queuePaused, panel, found, armed, spawned, queue, process,
                 blame, consent, acts>>

\* undo_drain_pause: consulted only once a stop is visible.
UndoDrainPause ==
  /\ At("undo")
  /\ IF queuePaused
       THEN TakeDrainPause /\ Goto(IF drainMark THEN "start" ELSE "none")
       ELSE Goto("none") /\ UNCHANGED <<queuePaused, drainMark, why>>
  /\ UNCHANGED <<mode, skipped, panel, found, armed, spawned, queue, process, armedBy, landing,
                 kept, consent, acts>>

\* start_queue_now.
StartQueueNow ==
  /\ At("start")
  /\ Goto("none")
  /\ IF MayClaim THEN GoOn ELSE UNCHANGED <<qpc, queued>>
  /\ UNCHANGED <<persisted, panel, found, armed, spawned, frozen, pauseAfter, process, blame,
                 consent, acts>>

Operation ==
  \/ CheckReturns \/ ArmDrain \/ MarkDrain \/ RecheckReturns \/ Register
  \/ DownloadReturns \/ TryInstallNow \/ Deferred \/ AwaitIdle
  \/ InstallSucceeds \/ InstallFails
  \/ DropGuard \/ ClearDrainPause \/ UndoDrainPause \/ StartQueueNow

-----------------------------------------------------------------------------
(* The process.                                                            *)

\* Everything live is gone; the interrupted job goes back to the queue.
Gone ==
  /\ alive' = FALSE
  /\ available' = NoVersion /\ status' = "Idle" /\ pending' = NoPending
  /\ opc' = "none" /\ okind' = "manual" /\ wants' = FALSE /\ found' = NoVersion /\ armed' = FALSE
  /\ frozen' = FALSE /\ pauseAfter' = FALSE /\ restarting' = FALSE
  /\ armedBy' = "none" /\ landing' = "none" /\ kept' = FALSE
  /\ shown' = NoVersion /\ dropped' = "none"
  /\ spawned' = FALSE
  /\ qpc' = "idle"
  /\ queued' = IF qpc = "encode" /\ queued < MaxQueued THEN queued + 1 ELSE queued
  /\ UNCHANGED <<persisted, why, acts>>

RestartsIntoUpdate == alive /\ restarting /\ Gone /\ UNCHANGED deaths

QuitOrCrash == alive /\ deaths < MaxDeaths /\ deaths' = deaths + 1 /\ Gone

\* should_resume_queue_at_launch, then the updater's first cycle.
Launch ==
  /\ ~alive
  /\ alive' = TRUE
  /\ TakeDrainPause
  /\ IF queuePaused /\ ~drainMark THEN UNCHANGED <<qpc, queued>> ELSE GoOn
  /\ spawned' = TRUE
  /\ UNCHANGED <<mode, skipped, panel, op, frozen, pauseAfter, restarting, deaths, armedBy,
                 landing, kept, consent, acts>>

Process == RestartsIntoUpdate \/ QuitOrCrash \/ Launch

-----------------------------------------------------------------------------
UpdaterNext == Queue \/ UserOnQueue \/ UserOnPanel \/ Scheduler \/ Operation \/ Process

\* The queue's thread, the operation under the latch and the hourly tick go on; every check and
\* download has a total timeout.  A requested restart happens.  Of the user nothing is assumed.
Fairness ==
  /\ WF_updaterVars(Queue) /\ WF_updaterVars(Operation) /\ WF_updaterVars(Retry)
  /\ WF_updaterVars(CycleBegins \/ CycleRefused)
  /\ WF_updaterVars(RestartsIntoUpdate)

UpdaterSpec == UpdaterInit /\ [][UpdaterNext]_updaterVars
UpdaterFairSpec == UpdaterSpec /\ Fairness

-----------------------------------------------------------------------------
(* Properties.                                                             *)

\* A version the user asked for is installed only if it is the one the panel showed when they
\* pressed "Install and restart", however many retries and new releases lie between.
InstallsWhatWasShown == opc = "install" /\ wants => found = shown

\* An operation whose install was cancelled, by a mode change or a skip, before it read what it
\* works for or while it downloaded does not install.
CancelledInstallStops == opc = "install" => dropped # "heard"

\* What is installed is wanted: shown to a user who asked for it, and not cancelled since, unless
\* the cancellation was overwritten by a registration decided before it.
InstallsWhatIsWanted == InstallsWhatWasShown /\ CancelledInstallStops

\* The panel never waits for something that is not coming: "Checking" and "Downloading" are
\* shown only under the latch, "will install when the queue finishes" only with a deferral,
\* unless that was cancelled between the last look at it and the writing of those words.
PanelIsNotStuck ==
  /\ status \in {"Checking", "Downloading"} => Latched
  /\ status = "WaitingForIdle" => IsPending \/ dropped = "late"

\* A drain whose install was given up by the very call that armed it leaves no flag behind.
ArmingCallUndoes ==
  ~Latched /\ ~IsPending /\ ~restarting /\ ~kept => ~(pauseAfter /\ armedBy = "drain")

\* A pending install is installed or dropped, unless the user keeps a job frozen for good.
PendingIsDecided == IsPending ~> (~IsPending \/ []frozen)

-----------------------------------------------------------------------------
(* Promises the code does not keep; the README says how each is broken.    *)

\* What the comment on DrainGuard's drop promises (updater.rs 1020-1023): the retry that gives up
\* is another call than the one that armed the drain, and still leaves the queue unstopped.
RetryUndoesDrain ==
  okind = "Retry" /\ ~Latched /\ ~IsPending /\ ~restarting => ~(pauseAfter /\ armedBy = "drain")

\* What the comment in install_pending promises (updater.rs 1072-1076): a retry does not resurrect
\* the cancellation it just missed.
NoCancellationIsMissed == opc = "install" => dropped # "overwritten"

\* What the comment there promises of the panel (updater.rs 1116-1124): it is not stranded on
\* "will install when the queue finishes".
WaitsForADeferral == status = "WaitingForIdle" => IsPending

\* What commands/settings.rs 48-50 promises: switching to Off cancels an install the scheduler
\* decided, rather than leaving it to land on the next drain.
OffCancelsScheduled == mode = "off" /\ ~Latched /\ IsPending => pending.user_requested

\* What the comment on undo_drain_pause promises (updater.rs 1036-1038): neither an operation of
\* the updater nor the next launch lifts a pause the user asked for.
UsersPauseStands == [][Operation \/ Launch => (queuePaused /\ why = "user" => queuePaused')]_updaterVars

=============================================================================
