-------------------------- MODULE QueueSlotProofs --------------------------
(* Theorems about QueueSlot, for every set of jobs, callers and threads.   *)
EXTENDS QueueSlot, TLAPS

-----------------------------------------------------------------------------
(* Type correctness.                                                       *)

\* No run has happened yet: every flag is clear, and no thread or caller is under way.
LEMMA TypeInit == Init => TypeOK
<1> SUFFICES ASSUME Init PROVE TypeOK
  OBVIOUS
<1> USE SlotAssumption DEF Init
<1>1. row \in [Jobs -> Rows]
  BY DEF Rows
<1>2. tpc \in [Threads -> ThreadPcs] /\ spc \in [Starters -> StarterPcs] /\ lastStop \in Stops
  BY DEF ThreadPcs, StarterPcs, Stops
<1>3. cur \in [Threads -> Jobs \cup {NoJob}] /\ sjob \in [Starters -> Jobs \cup {NoJob}]
      /\ afterRemote \in [Threads -> BOOLEAN]
  OBVIOUS
<1>4. \A t \in Threads : tpc[t] \in {"gate", "claim", "encode", "outage", "booked"} => cur[t] \in Jobs
  OBVIOUS
<1>5. /\ queuePaused \in BOOLEAN /\ isRunning \in BOOLEAN /\ installing \in BOOLEAN
      /\ workArrived \in BOOLEAN /\ pauseAfter \in BOOLEAN /\ lowDisk \in BOOLEAN
      /\ shutdown \in BOOLEAN /\ alive \in BOOLEAN /\ restarting \in BOOLEAN
  BY Zenon
<1>6. outageJob \in Jobs \cup {NoJob} /\ armedOn \in Jobs \cup {NoJob} /\ told \subseteq Jobs
      /\ attempts \in 0..MaxAttempts
  OBVIOUS
<1> QED BY <1>1, <1>2, <1>3, <1>4, <1>5, <1>6, Zenon DEF TypeOK

\* The callers: add, claim or be refused, un-pause, spawn.
LEMMA TypeStarter ==
  ASSUME TypeOK, NEW s \in Starters,
         (\E j \in Jobs : Add(s, j)) \/ PressStart(s) \/ ClaimQueueSlot(s) \/ StartUnpauses(s)
           \/ StartSpawns(s)
  PROVE  TypeOK'
<1> USE SlotAssumption DEF TypeOK, Rows, ThreadPcs, StarterPcs, Stops, persisted, flags,
                           thread, starter, process, history
<1>1. CASE \E j \in Jobs : Add(s, j)
  BY <1>1 DEF Add
<1>2. CASE PressStart(s)
  BY <1>2 DEF PressStart
<1>3. CASE ClaimQueueSlot(s)
  <2>1. told' \subseteq Jobs /\ sjob' \in [Starters -> Jobs \cup {NoJob}]
    BY <1>3 DEF ClaimQueueSlot
  <2>2. spc' \in [Starters -> StarterPcs] /\ isRunning' \in BOOLEAN /\ workArrived' \in BOOLEAN
    <3>1. CASE ClaimGranted(s)
      BY <1>3, <3>1 DEF ClaimGranted
    <3>2. CASE ClaimRefusedBusy(s)
      BY <1>3, <3>2 DEF ClaimRefusedBusy
    <3>3. CASE ClaimRefusedInstalling(s)
      BY <1>3, <3>3 DEF ClaimRefusedInstalling
    <3> QED BY <1>3, <3>1, <3>2, <3>3 DEF ClaimQueueSlot
  <2> QED BY <1>3, <2>1, <2>2 DEF ClaimQueueSlot
<1>4. CASE StartUnpauses(s)
  BY <1>4 DEF StartUnpauses, RequeuedAfterOutage
<1>5. CASE StartSpawns(s)
  BY <1>5 DEF StartSpawns
<1> QED BY <1>1, <1>2, <1>3, <1>4, <1>5

\* The queue thread, from the start of a pass to the release of the slot.
LEMMA TypeThread ==
  ASSUME TypeOK, NEW t \in Threads, QueueThread(t) \/ Panic(t)
  PROVE  TypeOK'
<1> USE SlotAssumption DEF TypeOK, Rows, ThreadPcs, StarterPcs, Stops, persisted, flags,
                           thread, starter, process, history, At, Goto
<1>1. CASE PassBegins(t)
  BY <1>1 DEF PassBegins
<1>2. CASE LoopHead(t)
  <2>1. tpc' \in [Threads -> ThreadPcs]
        /\ (\A u \in Threads : tpc'[u] \in {"gate", "claim", "encode", "outage", "booked"}
                                => cur'[u] \in Jobs)
    BY <1>2 DEF LoopHead, TakePauseAfterCurrent
  <2>2. lastStop' \in Stops /\ armedOn' \in Jobs \cup {NoJob}
    BY <1>2 DEF LoopHead, TakePauseAfterCurrent
  <2>3. pauseAfter' \in BOOLEAN
    BY <1>2 DEF LoopHead, TakePauseAfterCurrent
  <2> QED BY <1>2, <2>1, <2>2, <2>3 DEF LoopHead
<1>3. CASE PickJob(t)
  BY <1>3 DEF PickJob, Queued
<1>4. CASE GateBooksError(t)
  BY <1>4 DEF GateBooksError, BookById
<1>5. CASE GateLowDisk(t)
  BY <1>5 DEF GateLowDisk
<1>6. CASE GatePasses(t)
  BY <1>6 DEF GatePasses
<1>7. CASE ClaimJob(t)
  <2>1. afterRemote' \in [Threads -> BOOLEAN]
    <3>1. (cur[t] \in RemoteJobs) \in BOOLEAN
      OBVIOUS
    <3> QED BY <1>7, <3>1, Zenon DEF ClaimJob
  <2>2. row' \in [Jobs -> Rows] /\ tpc' \in [Threads -> ThreadPcs]
        /\ (\A u \in Threads : tpc'[u] \in {"gate", "claim", "encode", "outage", "booked"}
                                => cur'[u] \in Jobs)
    BY <1>7 DEF ClaimJob
  <2> QED BY <1>7, <2>1, <2>2 DEF ClaimJob
<1>8. CASE JobCompletes(t)
  BY <1>8 DEF JobCompletes, BookById
<1>9. CASE JobFails(t)
  BY <1>9 DEF JobFails, BookById
<1>10. CASE OutageStops(t)
  BY <1>10 DEF OutageStops
<1>11. CASE OutageBooks(t)
  BY <1>11 DEF OutageBooks, BookById
<1>12. CASE PauseIfArmed(t)
  BY <1>12 DEF PauseIfArmed, TakePauseAfterCurrent
<1>13. CASE PersistPause(t)
  BY <1>13 DEF PersistPause
<1>14. CASE DrainHook(t)
  BY <1>14 DEF DrainHook
<1>15. CASE TakeWorkArrived(t)
  <2>1. tpc' \in [Threads -> ThreadPcs]
        /\ (\A u \in Threads : tpc'[u] \in {"gate", "claim", "encode", "outage", "booked"}
                                => cur'[u] \in Jobs)
    <3>1. CASE workArrived
      BY <1>15, <3>1 DEF TakeWorkArrived
    <3>2. CASE ~workArrived
      BY <1>15, <3>2 DEF TakeWorkArrived
    <3> QED BY <3>1, <3>2
  <2> QED BY <1>15, <2>1 DEF TakeWorkArrived
<1>16. CASE LookForWork(t)
  BY <1>16 DEF LookForWork
<1>17. CASE ReleaseSlot(t)
  <2>1. tpc' \in [Threads -> ThreadPcs]
        /\ (\A u \in Threads : tpc'[u] \in {"gate", "claim", "encode", "outage", "booked"}
                                => cur'[u] \in Jobs)
    BY <1>17 DEF ReleaseSlot, ThreadEnds
  <2> QED BY <1>17, <2>1 DEF ReleaseSlot, ThreadEnds
<1>18. CASE GuardDrops(t)
  BY <1>18 DEF GuardDrops, ThreadEnds
<1>19. CASE Panic(t)
  BY <1>19 DEF Panic
<1> QED BY <1>1, <1>2, <1>3, <1>4, <1>5, <1>6, <1>7, <1>8, <1>9, <1>10, <1>11, <1>12, <1>13,
           <1>14, <1>15, <1>16, <1>17, <1>18, <1>19 DEF QueueThread

\* The user's commands, the updater and the life of the process.
LEMMA TypeProcess ==
  ASSUME TypeOK,
         PauseAfterCurrent \/ CancelPauseAfterCurrent \/ (\E j \in Jobs : RemoveJob(j))
           \/ ClearQueue \/ TryInstall \/ InstallSucceeds \/ InstallFails \/ BeginQuit
           \/ ProcessEnds \/ Boot
  PROVE  TypeOK'
<1> USE SlotAssumption DEF TypeOK, Rows, ThreadPcs, StarterPcs, Stops, persisted, flags,
                           thread, starter, process, history
<1>1. CASE PauseAfterCurrent
  <2>1. armedOn' \in Jobs \cup {NoJob}
    <3>1. CASE \E t \in Threads : tpc[t] \in {"encode", "booked"}
      <4> DEFINE u == CHOOSE t \in Threads : tpc[t] \in {"encode", "booked"}
      <4>1. u \in Threads
        BY <3>1
      <4> HIDE DEF u
      <4>2. cur[u] \in Jobs \cup {NoJob}
        BY <4>1
      <4> QED BY <1>1, <3>1, <4>2 DEF PauseAfterCurrent, u
    <3>2. CASE ~ \E t \in Threads : tpc[t] \in {"encode", "booked"}
      BY <1>1, <3>2 DEF PauseAfterCurrent
    <3> QED BY <3>1, <3>2
  <2> QED BY <1>1, <2>1 DEF PauseAfterCurrent
<1>2. CASE CancelPauseAfterCurrent
  BY <1>2 DEF CancelPauseAfterCurrent
<1>3. CASE \E j \in Jobs : RemoveJob(j)
  BY <1>3 DEF RemoveJob
<1>4. CASE ClearQueue
  BY <1>4 DEF ClearQueue
<1>5. CASE TryInstall
  BY <1>5 DEF TryInstall
<1>6. CASE InstallSucceeds
  BY <1>6 DEF InstallSucceeds
<1>7. CASE InstallFails
  BY <1>7 DEF InstallFails
<1>8. CASE BeginQuit
  BY <1>8 DEF BeginQuit
<1>9. CASE ProcessEnds
  BY <1>9 DEF ProcessEnds
<1>10. CASE Boot
  <2>1. row' \in [Jobs -> Rows] /\ told' \subseteq Jobs
    BY <1>10 DEF Boot
  <2>2. tpc' \in [Threads -> ThreadPcs] /\ isRunning' \in BOOLEAN
        /\ (\A u \in Threads : tpc'[u] \in {"gate", "claim", "encode", "outage", "booked"}
                                => cur'[u] \in Jobs)
    <3>1. CASE /\ isRunning' = TRUE
               /\ \E t \in Threads : Goto(t, "pass")
      BY <1>10, <3>1 DEF Boot, Goto
    <3>2. CASE UNCHANGED <<isRunning, tpc>>
      BY <1>10, <3>2 DEF Boot
    <3> QED BY <1>10, <3>1, <3>2 DEF Boot
  <2> QED BY <1>10, <2>1, <2>2 DEF Boot
<1> QED BY <1>1, <1>2, <1>3, <1>4, <1>5, <1>6, <1>7, <1>8, <1>9, <1>10

\* Every reachable state of the slot protocol is one the code's types and status strings allow.
THEOREM TypeCorrect == Spec => []TypeOK
<1>1. TypeOK /\ [Next]_vars => TypeOK'
  <2> SUFFICES ASSUME TypeOK, [Next]_vars PROVE TypeOK'
    OBVIOUS
  <2>1. CASE Next
    BY <2>1, TypeStarter, TypeThread, TypeProcess DEF Next
  <2>2. CASE UNCHANGED vars
    BY <2>2 DEF vars, TypeOK, persisted, flags, thread, starter, process, history
  <2> QED BY <2>1, <2>2
<1> QED BY TypeInit, <1>1, PTL DEF Spec

-----------------------------------------------------------------------------
(* Mutual exclusion of queue threads, of callers about to spawn one, and   *)
(* of update installs.                                                     *)

\* Inductive: the exclusion itself, and a dead process that holds nothing (Boot relies on it:
\* it spawns without asking).
SlotInv ==
  /\ OneQueueRunner
  /\ InstallExcludesQueue
  /\ ~alive => ~isRunning /\ ~installing

\* A step that moves no thread into or out of life, no caller into or out of the slot, and
\* neither flag, disturbs nothing.
LEMMA SlotFrame ==
  ASSUME SlotInv, UNCHANGED <<isRunning, installing, alive>>,
         \A t \in Threads : Live(t)' <=> Live(t),
         \A s \in Starters : Claimed(s)' <=> Claimed(s)
  PROVE  SlotInv'
BY Zenon DEF SlotInv, OneQueueRunner, InstallExcludesQueue, Live, Claimed

\* The thread that frees the slot is the only one there was, and no caller had it.
LEMMA SlotFreed ==
  ASSUME TypeOK, SlotInv, NEW t \in Threads, Live(t), Goto(t, "none"), isRunning' = FALSE,
         UNCHANGED <<installing, alive, spc>>
  PROVE  SlotInv'
<1>1. \A u \in Threads : ~Live(u)'
  BY DEF SlotInv, OneQueueRunner, Live, Goto, TypeOK
<1>2. \A s \in Starters : ~Claimed(s)'
  BY DEF SlotInv, OneQueueRunner, Claimed
<1> QED BY <1>1, <1>2, Zenon DEF SlotInv, OneQueueRunner, InstallExcludesQueue

\* The thread that runs the queue keeps the slot until the step that gives it back.
LEMMA SlotThread ==
  ASSUME TypeOK, SlotInv, NEW t \in Threads, QueueThread(t) \/ Panic(t)
  PROVE  SlotInv'
<1> USE DEF flags, thread, starter, process
<1>1. CASE (ReleaseSlot(t) /\ ~workArrived) \/ GuardDrops(t)
  <2>1. Live(t) /\ Goto(t, "none") /\ isRunning' = FALSE /\ UNCHANGED <<installing, alive, spc>>
    BY <1>1 DEF ReleaseSlot, GuardDrops, ThreadEnds, At, Live
  <2> QED BY <2>1, SlotFreed
<1>2. CASE ~(ReleaseSlot(t) /\ ~workArrived) /\ ~GuardDrops(t)
  <2>1. /\ UNCHANGED <<isRunning, installing, alive, spc>>
        /\ Live(t)
        /\ \E pc \in ThreadPcs \ {"none"} : Goto(t, pc)
    <3>1. CASE PassBegins(t) \/ LoopHead(t) \/ PickJob(t) \/ Panic(t)
      BY <3>1 DEF PassBegins, LoopHead, TakePauseAfterCurrent, PickJob, Panic, At, Live, ThreadPcs, Goto
    <3>2. CASE GateBooksError(t) \/ GateLowDisk(t) \/ GatePasses(t) \/ ClaimJob(t)
      BY <3>2 DEF GateBooksError, GateLowDisk, GatePasses, ClaimJob, At, Live, ThreadPcs, Goto
    <3>3. CASE JobCompletes(t) \/ JobFails(t) \/ OutageStops(t) \/ OutageBooks(t)
      BY <3>3 DEF JobCompletes, JobFails, OutageStops, OutageBooks, At, Live, ThreadPcs, Goto
    <3>4. CASE PauseIfArmed(t) \/ PersistPause(t) \/ DrainHook(t)
      BY <3>4 DEF PauseIfArmed, TakePauseAfterCurrent, PersistPause, DrainHook, At, Live, ThreadPcs, Goto
    <3>5. CASE TakeWorkArrived(t) \/ LookForWork(t) \/ ReleaseSlot(t)
      BY <1>2, <3>5 DEF TakeWorkArrived, LookForWork, ReleaseSlot, At, Live, ThreadPcs, Goto
    <3> QED BY <1>2, <3>1, <3>2, <3>3, <3>4, <3>5 DEF QueueThread
  <2>2. \A u \in Threads : Live(u)' <=> Live(u)
    BY <2>1 DEF Live, Goto, TypeOK
  <2>3. \A s \in Starters : Claimed(s)' <=> Claimed(s)
    BY <2>1 DEF Claimed
  <2> QED BY <2>1, <2>2, <2>3, SlotFrame
<1> QED BY <1>1, <1>2

\* A caller gets the slot only when nobody has it, and hands it to the thread it spawns.
LEMMA SlotStarter ==
  ASSUME TypeOK, SlotInv, NEW s \in Starters,
         (\E j \in Jobs : Add(s, j)) \/ PressStart(s) \/ ClaimQueueSlot(s) \/ StartUnpauses(s)
           \/ StartSpawns(s)
  PROVE  SlotInv'
<1> USE DEF flags, thread, starter, process
<1>1. CASE ClaimQueueSlot(s) /\ ClaimGranted(s)
  <2>1. /\ ~isRunning /\ ~installing /\ isRunning' = TRUE /\ alive
        /\ UNCHANGED <<installing, alive, tpc>>
        /\ spc' = [spc EXCEPT ![s] = "claimed"]
    BY <1>1 DEF ClaimQueueSlot, ClaimGranted
  <2>2. (\A t \in Threads : ~Live(t)') /\ (\A r \in Starters : Claimed(r)' <=> r = s)
    BY <2>1 DEF SlotInv, OneQueueRunner, Live, Claimed, TypeOK
  <2> QED BY <2>1, <2>2, Zenon DEF SlotInv, OneQueueRunner, InstallExcludesQueue
<1>2. CASE StartSpawns(s)
  <2>1. /\ Claimed(s) /\ isRunning /\ UNCHANGED <<isRunning, installing, alive>>
    BY <1>2 DEF StartSpawns, Claimed, SlotInv, OneQueueRunner
  <2>2. \A r \in Starters : ~Claimed(r)'
    BY <1>2, <2>1 DEF StartSpawns, Claimed, SlotInv, OneQueueRunner, TypeOK
  <2>3. PICK t \in Threads : Live(t)' /\ (\A u \in Threads : Live(u)' => u = t)
    BY <1>2, <2>1 DEF StartSpawns, Live, SlotInv, OneQueueRunner, TypeOK
  <2> QED BY <2>1, <2>2, <2>3, Zenon DEF SlotInv, OneQueueRunner, InstallExcludesQueue
<1>3. CASE ~(ClaimQueueSlot(s) /\ ClaimGranted(s)) /\ ~StartSpawns(s)
  <2>1. UNCHANGED <<isRunning, installing, alive, tpc>>
    BY <1>3 DEF Add, PressStart, ClaimQueueSlot, ClaimRefusedBusy, ClaimRefusedInstalling, StartUnpauses
  <2>2. \A r \in Starters : Claimed(r)' <=> Claimed(r)
    BY <1>3 DEF Add, PressStart, ClaimQueueSlot, ClaimRefusedBusy, ClaimRefusedInstalling,
                StartUnpauses, Claimed, TypeOK
  <2>3. \A t \in Threads : Live(t)' <=> Live(t)
    BY <2>1 DEF Live
  <2> QED BY <2>1, <2>2, <2>3, SlotFrame
<1> QED BY <1>1, <1>2, <1>3

\* The user's commands leave the slot alone; an install needs it free; the process takes all
\* along when it ends, and boots with one thread or none.
LEMMA SlotProcess ==
  ASSUME TypeOK, SlotInv,
         PauseAfterCurrent \/ CancelPauseAfterCurrent \/ (\E j \in Jobs : RemoveJob(j))
           \/ ClearQueue \/ TryInstall \/ InstallSucceeds \/ InstallFails \/ BeginQuit
           \/ ProcessEnds \/ Boot
  PROVE  SlotInv'
<1> USE DEF persisted, flags, thread, starter, process, history
<1>1. CASE PauseAfterCurrent \/ CancelPauseAfterCurrent \/ (\E j \in Jobs : RemoveJob(j))
             \/ ClearQueue \/ BeginQuit
  <2>1. UNCHANGED <<isRunning, installing, alive, tpc, spc>>
    BY <1>1 DEF PauseAfterCurrent, CancelPauseAfterCurrent, RemoveJob, ClearQueue, BeginQuit
  <2> QED BY <2>1, SlotFrame DEF Live, Claimed
<1>2. CASE TryInstall \/ InstallSucceeds \/ InstallFails
  <2>1. UNCHANGED <<isRunning, alive, tpc, spc>> /\ alive /\ (installing' => ~isRunning)
    BY <1>2 DEF TryInstall, InstallSucceeds, InstallFails
  <2> QED BY <2>1, Zenon DEF SlotInv, OneQueueRunner, InstallExcludesQueue, Live, Claimed
<1>3. CASE ProcessEnds
  <2>1. (\A t \in Threads : ~Live(t)') /\ (\A s \in Starters : ~Claimed(s)')
    BY <1>3 DEF ProcessEnds, Live, Claimed
  <2>2. ~isRunning' /\ ~installing'
    BY <1>3 DEF ProcessEnds
  <2> QED BY <2>1, <2>2, Zenon DEF SlotInv, OneQueueRunner, InstallExcludesQueue
<1>4. CASE Boot
  <2>1. ~isRunning /\ ~installing /\ alive' /\ ~installing'
    BY <1>4 DEF Boot, SlotInv
  <2>2. \A s \in Starters : ~Claimed(s)'
    BY <1>4, <2>1 DEF Boot, SlotInv, OneQueueRunner, Claimed
  <2>3. CASE isRunning' = TRUE /\ \E t \in Threads : Goto(t, "pass")
    <3>1. PICK t \in Threads : Live(t)' /\ (\A u \in Threads : Live(u)' => u = t)
      BY <2>1, <2>3 DEF Goto, Live, SlotInv, OneQueueRunner, TypeOK
    <3> QED BY <2>1, <2>2, <2>3, <3>1, Zenon DEF SlotInv, OneQueueRunner, InstallExcludesQueue
  <2>4. CASE UNCHANGED <<isRunning, tpc>>
    <3>1. \A t \in Threads : ~Live(t)'
      BY <2>1, <2>4 DEF Live, SlotInv, OneQueueRunner
    <3> QED BY <2>1, <2>2, <2>4, <3>1 DEF SlotInv, OneQueueRunner, InstallExcludesQueue
  <2> QED BY <1>4, <2>3, <2>4 DEF Boot
<1> QED BY <1>1, <1>2, <1>3, <1>4

\* The slot invariant holds of every behaviour, with the types it rests on.
LEMMA SlotInvariant == Spec => [](TypeOK /\ SlotInv)
<1>1. Init => SlotInv
  BY DEF Init, SlotInv, OneQueueRunner, InstallExcludesQueue, Live, Claimed
<1>2. TypeOK /\ SlotInv /\ [Next]_vars => SlotInv'
  <2> SUFFICES ASSUME TypeOK, SlotInv, [Next]_vars PROVE SlotInv'
    OBVIOUS
  <2>1. CASE Next
    BY <2>1, SlotStarter, SlotThread, SlotProcess DEF Next
  <2>2. CASE UNCHANGED vars
    <3>1. UNCHANGED <<isRunning, installing, alive, tpc, spc>>
      BY <2>2 DEF vars, flags, thread, starter, process
    <3> QED BY <3>1, SlotFrame DEF Live, Claimed
  <2> QED BY <2>1, <2>2
<1> QED BY TypeCorrect, <1>1, <1>2, PTL DEF Spec

\* One user of the slot: whatever the number of callers, threads and restarts, is_running is set
\* exactly while one thread, or one caller about to spawn it, has the queue; an update is installed
\* only under an idle queue, and the queue stays idle until it is in.
THEOREM SlotExclusive == Spec => []SlotIsExclusive
<1>1. SlotInv => SlotIsExclusive
  BY DEF SlotInv, SlotIsExclusive
<1> QED BY SlotInvariant, <1>1, PTL

-----------------------------------------------------------------------------
(* A stopped run stays stopped.                                            *)

\* Inductive: between the stop and the end of its thread there is no way but out, and only a
\* stop leads there.  A fresh thread at "pass" has not yet forgotten the last run's reason.
StopInv ==
  \A t \in Threads :
    /\ tpc[t] = "unwind" => lastStop # "none"
    /\ lastStop # "none" => tpc[t] \in {"none", "pass", "unwind"}

\* A step of the queue thread is a live thread's, and takes it to one place.
LEMMA ThreadStep ==
  ASSUME NEW t \in Threads, QueueThread(t) \/ Panic(t)
  PROVE  \E pc \in ThreadPcs : Goto(t, pc) /\ Live(t)
<1>1. CASE PassBegins(t) \/ LoopHead(t) \/ PickJob(t) \/ Panic(t)
  BY <1>1 DEF PassBegins, LoopHead, TakePauseAfterCurrent, PickJob, Panic, At, Live, ThreadPcs, Goto
<1>2. CASE GateBooksError(t) \/ GateLowDisk(t) \/ GatePasses(t) \/ ClaimJob(t)
  BY <1>2 DEF GateBooksError, GateLowDisk, GatePasses, ClaimJob, At, Live, ThreadPcs, Goto
<1>3. CASE JobCompletes(t) \/ JobFails(t) \/ OutageStops(t) \/ OutageBooks(t)
  BY <1>3 DEF JobCompletes, JobFails, OutageStops, OutageBooks, At, Live, ThreadPcs, Goto
<1>4. CASE PauseIfArmed(t) \/ PersistPause(t) \/ DrainHook(t)
  BY <1>4 DEF PauseIfArmed, TakePauseAfterCurrent, PersistPause, DrainHook, At, Live, ThreadPcs, Goto
<1>5. CASE TakeWorkArrived(t) \/ LookForWork(t) \/ ReleaseSlot(t) \/ GuardDrops(t)
  BY <1>5 DEF TakeWorkArrived, LookForWork, ReleaseSlot, GuardDrops, ThreadEnds, At, Live, ThreadPcs, Goto
<1> QED BY <1>1, <1>2, <1>3, <1>4, <1>5 DEF QueueThread

\* One step of a queue thread leaves the other threads' places alone, for there are none.
LEMMA ThreadIsAlone ==
  ASSUME TypeOK, SlotInv, NEW t \in Threads, Live(t), NEW pc \in ThreadPcs, Goto(t, pc)
  PROVE  /\ tpc'[t] = pc
         /\ \A u \in Threads \ {t} : tpc[u] = "none" /\ tpc'[u] = "none"
BY DEF SlotInv, OneQueueRunner, Live, Goto, TypeOK

\* The thread itself: once its run is stopped it has nowhere to go but the release.
LEMMA StopThread ==
  ASSUME TypeOK, SlotInv, StopInv, NEW t \in Threads, QueueThread(t) \/ Panic(t)
  PROVE  /\ StopInv'
         /\ lastStop # "none" /\ tpc[t] # "pass" => tpc'[t] = "none"
         /\ \A u \in Threads \ {t} : tpc'[u] = tpc[u]
<1>1. PICK pc \in ThreadPcs : Goto(t, pc) /\ Live(t)
  BY ThreadStep
<1>2. tpc'[t] = pc /\ \A u \in Threads \ {t} : tpc[u] = "none" /\ tpc'[u] = "none"
  BY <1>1, ThreadIsAlone
<1>3. /\ pc = "unwind" => lastStop' # "none"
      /\ lastStop' # "none" => pc \in {"none", "pass", "unwind"}
      /\ lastStop # "none" /\ tpc[t] # "pass" => pc = "none"
  <2>0. tpc \in [Threads -> ThreadPcs] /\ tpc'[t] = pc
        /\ (tpc[t] = "unwind" => lastStop # "none")
        /\ (lastStop # "none" => tpc[t] \in {"none", "pass", "unwind"})
    BY <1>2 DEF TypeOK, StopInv
  <2> USE <2>0 DEF flags, history, At, Goto
  <2>1. CASE PassBegins(t) \/ PickJob(t)
    BY <2>1 DEF PassBegins, PickJob
  <2>7. CASE Panic(t)
    BY <2>7, <1>1 DEF Panic, Live
  <2>2. CASE LoopHead(t)
    BY <2>2 DEF LoopHead, TakePauseAfterCurrent
  <2>3. CASE GateBooksError(t) \/ GateLowDisk(t) \/ GatePasses(t) \/ ClaimJob(t)
    BY <2>3 DEF GateBooksError, GateLowDisk, GatePasses, ClaimJob
  <2>4. CASE JobCompletes(t) \/ JobFails(t) \/ OutageStops(t) \/ OutageBooks(t)
    BY <2>4 DEF JobCompletes, JobFails, OutageStops, OutageBooks
  <2>5. CASE PauseIfArmed(t) \/ PersistPause(t) \/ DrainHook(t)
    BY <2>5 DEF PauseIfArmed, TakePauseAfterCurrent, PersistPause, DrainHook
  <2>6. CASE TakeWorkArrived(t) \/ LookForWork(t) \/ ReleaseSlot(t) \/ GuardDrops(t)
    BY <2>6 DEF TakeWorkArrived, LookForWork, ReleaseSlot, GuardDrops, ThreadEnds
  <2> QED BY <2>1, <2>2, <2>3, <2>4, <2>5, <2>6, <2>7 DEF QueueThread
<1>4. StopInv'
  BY <1>2, <1>3 DEF StopInv
<1> QED BY <1>2, <1>3, <1>4

\* Everybody else starts a thread where there is none, or ends the process.
LEMMA StopOthers ==
  ASSUME TypeOK, SlotInv, StopInv, Next, \A t \in Threads : ~QueueThread(t) /\ ~Panic(t)
  PROVE  StopInv' /\ \A t \in Threads : tpc[t] # "none" => tpc'[t] \in {tpc[t], "none"}
<1> USE DEF persisted, flags, thread, starter, process, history
<1>1. CASE \E s \in Starters : StartSpawns(s)
  <2>1. PICK s \in Starters : StartSpawns(s)
    BY <1>1
  <2>2. lastStop' = lastStop /\ \E t \in Threads : tpc[t] = "none" /\ tpc' = [tpc EXCEPT ![t] = "pass"]
    BY <2>1 DEF StartSpawns
  <2> QED BY <2>2 DEF StopInv, TypeOK
<1>2. CASE ProcessEnds
  BY <1>2 DEF ProcessEnds, StopInv
<1>3. CASE Boot
  <2>1. \A t \in Threads : tpc[t] = "none"
    BY <1>3 DEF Boot, SlotInv, OneQueueRunner, Live
  <2>2. lastStop' = lastStop
    BY <1>3 DEF Boot
  <2>3. \A t \in Threads : tpc'[t] \in {"none", "pass"}
    BY <1>3, <2>1 DEF Boot, Goto, TypeOK
  <2> QED BY <2>1, <2>2, <2>3 DEF StopInv
\* No thread is live under an install, so its failure stops none.
<1>4. CASE InstallFails
  <2>1. (\A t \in Threads : tpc[t] = "none") /\ tpc' = tpc
    BY <1>4 DEF InstallFails, SlotInv, OneQueueRunner, InstallExcludesQueue, Live
  <2> QED BY <2>1 DEF StopInv
<1>5. CASE ~(\E s \in Starters : StartSpawns(s)) /\ ~ProcessEnds /\ ~Boot /\ ~InstallFails
  <2>1. UNCHANGED <<tpc, lastStop>>
    BY <1>5 DEF Next, Add, PressStart, ClaimQueueSlot, StartUnpauses, PauseAfterCurrent,
         CancelPauseAfterCurrent, RemoveJob, ClearQueue, TryInstall, InstallSucceeds, BeginQuit
  <2> QED BY <2>1 DEF StopInv
<1> QED BY <1>1, <1>2, <1>3, <1>4, <1>5

\* Every behaviour keeps a stopped run at its end.
LEMMA StopInvariant == Spec => []StopInv
<1>1. Init => StopInv
  BY DEF Init, StopInv
<1>2. TypeOK /\ SlotInv /\ StopInv /\ [Next]_vars => StopInv'
  <2> SUFFICES ASSUME TypeOK, SlotInv, StopInv, [Next]_vars PROVE StopInv'
    OBVIOUS
  <2>1. CASE Next
    BY <2>1, StopThread, StopOthers
  <2>2. CASE UNCHANGED vars
    BY <2>2 DEF vars, thread, history, StopInv
  <2> QED BY <2>1, <2>2
<1> QED BY SlotInvariant, <1>1, <1>2, PTL DEF Spec

\* The thread that paused, met the low-disk gate, lost its host, saw the quit latch or panicked
\* takes no further job, although picking a job never looks at any of these.
THEOREM StoppedRunStops == Spec => StoppedRunTakesNoJob
<1>1. TypeOK /\ SlotInv /\ StopInv /\ [Next]_vars
        => [\A t \in Threads : lastStop # "none" /\ tpc[t] \notin {"none", "pass"}
                               => tpc'[t] \in {tpc[t], "none"}]_vars
  <2> SUFFICES ASSUME TypeOK, SlotInv, StopInv, Next, NEW t \in Threads,
                      lastStop # "none", tpc[t] \notin {"none", "pass"}
               PROVE  tpc'[t] \in {tpc[t], "none"}
    OBVIOUS
  <2>1. CASE \E u \in Threads : QueueThread(u) \/ Panic(u)
    BY <2>1, StopThread
  <2>2. CASE ~ \E u \in Threads : QueueThread(u) \/ Panic(u)
    BY <2>2, StopOthers
  <2> QED BY <2>1, <2>2
<1> QED BY SlotInvariant, StopInvariant, <1>1, PTL DEF Spec, StoppedRunTakesNoJob

-----------------------------------------------------------------------------
(* A run that drained forgets nobody.                                      *)

\* Inductive: while work somebody was told about waits, somebody has the queue, and a thread
\* that has already looked at the queue for the last time still finds the mark.  A told row has
\* been inserted, so a later insert never makes an old promise outstanding.
WakeInv ==
  /\ \A j \in told : row[j] # "absent"
  /\ \A s \in Starters : sjob[s] # NoJob => row[sjob[s]] # "absent"
  /\ lastStop = "none" /\ ~Held /\ told \cap Queued # {}
       => /\ alive /\ ~installing /\ ~restarting => isRunning
          /\ \A t \in Threads : tpc[t] \in {"hook", "arrived", "release"} => workArrived

\* The thread looks for work again, or finds the mark, before it gives the slot back for good.
LEMMA WakeThread ==
  ASSUME TypeOK, SlotInv, StopInv, WakeInv, NEW t \in Threads, QueueThread(t) \/ Panic(t)
  PROVE  WakeInv'
<1>0. row \in [Jobs -> Rows] /\ tpc \in [Threads -> ThreadPcs] /\ told \subseteq Jobs
  BY DEF TypeOK
<1>1. PICK pc \in ThreadPcs : Goto(t, pc) /\ Live(t)
  BY ThreadStep
<1>2. /\ tpc'[t] = pc /\ \A u \in Threads \ {t} : tpc[u] = "none" /\ tpc'[u] = "none"
      /\ isRunning
  BY <1>1, ThreadIsAlone DEF SlotInv, OneQueueRunner
<1>3. /\ UNCHANGED <<told, sjob, installing, restarting, alive, shutdown>> /\ alive
      /\ Queued' \subseteq Queued
      /\ \A j \in Jobs : row[j] # "absent" => row'[j] # "absent"
  <2> USE <1>0 DEF persisted, flags, starter, process, history, At, Queued
  <2>1. CASE PassBegins(t) \/ LoopHead(t) \/ PickJob(t) \/ Panic(t)
    BY <2>1 DEF PassBegins, LoopHead, TakePauseAfterCurrent, PickJob, Panic
  <2>2. CASE GateBooksError(t) \/ GateLowDisk(t) \/ GatePasses(t) \/ ClaimJob(t)
    BY <2>2 DEF GateBooksError, BookById, GateLowDisk, GatePasses, ClaimJob
  <2>3. CASE JobCompletes(t) \/ JobFails(t) \/ OutageStops(t) \/ OutageBooks(t)
    BY <2>3 DEF JobCompletes, JobFails, BookById, OutageStops, OutageBooks
  <2>4. CASE PauseIfArmed(t) \/ PersistPause(t) \/ DrainHook(t)
    BY <2>4 DEF PauseIfArmed, TakePauseAfterCurrent, PersistPause, DrainHook
  <2>5. CASE TakeWorkArrived(t) \/ LookForWork(t) \/ ReleaseSlot(t) \/ GuardDrops(t)
    BY <2>5 DEF TakeWorkArrived, LookForWork, ReleaseSlot, GuardDrops, ThreadEnds
  <2> QED BY <2>1, <2>2, <2>3, <2>4, <2>5 DEF QueueThread
<1>4. /\ \A j \in told' : row'[j] # "absent"
      /\ \A s \in Starters : sjob'[s] # NoJob => row'[sjob'[s]] # "absent"
  BY <1>3 DEF WakeInv, TypeOK
<1>5. ASSUME lastStop' = "none", ~Held', told \cap Queued' # {}
      PROVE  /\ ~installing /\ ~restarting => isRunning'
             /\ pc \in {"hook", "arrived", "release"} => workArrived'
  <2>1. CASE PassBegins(t)
    BY <1>0, <1>2, <2>1 DEF PassBegins, flags, Goto
  <2>2. CASE ~PassBegins(t)
    <3>1. lastStop = "none" /\ tpc[t] # "unwind"
      BY <1>5, <2>2 DEF StopInv, QueueThread, LoopHead, TakePauseAfterCurrent, PickJob, Panic,
         GateBooksError, GateLowDisk, GatePasses, ClaimJob, JobCompletes, JobFails, OutageStops,
         OutageBooks, PauseIfArmed, PersistPause, DrainHook, TakeWorkArrived, LookForWork,
         ReleaseSlot, GuardDrops, history
    <3>2. told \cap Queued # {}
      BY <1>3, <1>5
    <3>3. CASE Held
      <4>1. ~(queuePaused \/ lowDisk) => FALSE
        BY <1>3, <1>5, <3>1, <3>3 DEF Held
      <4> QED BY <1>3, <1>5, <2>2, <4>1 DEF Held, QueueThread, LoopHead, TakePauseAfterCurrent,
           PickJob, Panic, GateBooksError, GateLowDisk, GatePasses, ClaimJob, JobCompletes,
           JobFails, OutageStops, OutageBooks, PauseIfArmed, PersistPause, DrainHook,
           TakeWorkArrived, LookForWork, ReleaseSlot, GuardDrops, persisted, flags
    <3>4. CASE ~Held
      <4>1. tpc[t] \in {"hook", "arrived", "release"} => workArrived
        BY <1>3, <1>5, <3>1, <3>2, <3>4 DEF WakeInv
      <4> USE <1>0, <1>2, <1>5, <2>2, <3>1, <3>2, <4>1 DEF flags, At, Goto
      <4>2. CASE LoopHead(t) \/ PickJob(t) \/ Panic(t)
        BY <4>2 DEF LoopHead, TakePauseAfterCurrent, PickJob, Panic
      <4>3. CASE GateBooksError(t) \/ GateLowDisk(t) \/ GatePasses(t) \/ ClaimJob(t)
        BY <4>3 DEF GateBooksError, GateLowDisk, GatePasses, ClaimJob
      <4>4. CASE JobCompletes(t) \/ JobFails(t) \/ OutageStops(t) \/ OutageBooks(t)
        BY <4>4 DEF JobCompletes, JobFails, OutageStops, OutageBooks
      <4>5. CASE PauseIfArmed(t) \/ PersistPause(t) \/ DrainHook(t)
        BY <4>5 DEF PauseIfArmed, TakePauseAfterCurrent, PersistPause, DrainHook
      <4>6. CASE TakeWorkArrived(t) \/ ReleaseSlot(t) \/ GuardDrops(t)
        BY <4>6 DEF TakeWorkArrived, ReleaseSlot, GuardDrops, ThreadEnds
      <4>7. CASE LookForWork(t)
        BY <4>7 DEF LookForWork
      <4> QED BY <4>2, <4>3, <4>4, <4>5, <4>6, <4>7 DEF QueueThread
    <3> QED BY <3>3, <3>4
  <2> QED BY <2>1, <2>2
<1> QED BY <1>2, <1>3, <1>4, <1>5, Zenon DEF WakeInv

\* An answered start opened the queue, left the mark, or met an install.
LEMMA WakeStarter ==
  ASSUME TypeOK, SlotInv, WakeInv, NEW s \in Starters,
         (\E j \in Jobs : Add(s, j)) \/ PressStart(s) \/ ClaimQueueSlot(s) \/ StartUnpauses(s)
           \/ StartSpawns(s)
  PROVE  WakeInv'
<1> USE DEF persisted, flags, thread, starter, process, history
<1>0. /\ row \in [Jobs -> Rows] /\ told \subseteq Jobs /\ sjob \in [Starters -> Jobs \cup {NoJob}]
      /\ spc \in [Starters -> StarterPcs] /\ tpc \in [Threads -> ThreadPcs]
  BY DEF TypeOK
\* A fresh row is nobody's promise yet.
<1>1. CASE \E j \in Jobs : Add(s, j)
  <2>1. PICK j \in Jobs : Add(s, j)
    BY <1>1
  <2>2. told' \cap Queued' \subseteq told \cap Queued
    BY <1>0, <2>1 DEF Add, Queued, WakeInv
  <2>3. UNCHANGED <<told, alive, installing, restarting, lastStop, isRunning, workArrived, tpc,
                    queuePaused, lowDisk, shutdown>>
    BY <2>1 DEF Add
  <2>4. /\ \A i \in told' : row'[i] # "absent"
        /\ \A r \in Starters : sjob'[r] # NoJob => row'[sjob'[r]] # "absent"
    BY <1>0, <2>1 DEF Add, WakeInv
  <2> QED BY <2>2, <2>3, <2>4 DEF WakeInv, Held
<1>2. CASE PressStart(s) \/ StartSpawns(s)
  <2>1. UNCHANGED <<row, told, alive, installing, restarting, lastStop, isRunning, workArrived,
                    queuePaused, lowDisk, shutdown>>
    BY <1>2 DEF PressStart, StartSpawns
  <2>2. \A r \in Starters : sjob'[r] # NoJob => row'[sjob'[r]] # "absent"
    BY <1>0, <1>2 DEF PressStart, StartSpawns, WakeInv
  <2>3. \A t \in Threads : tpc'[t] \in {"hook", "arrived", "release"} => tpc'[t] = tpc[t]
    BY <1>0, <1>2 DEF PressStart, StartSpawns
  <2> QED BY <2>1, <2>2, <2>3 DEF WakeInv, Held, Queued
\* A granted claim meets no thread; a refused one leaves the mark, or an install excuses it.
<1>3. CASE ClaimQueueSlot(s)
  <2>1. /\ \A i \in told' : row'[i] # "absent"
        /\ \A r \in Starters : sjob'[r] # NoJob => row'[sjob'[r]] # "absent"
    BY <1>0, <1>3 DEF ClaimQueueSlot, WakeInv
  <2>2. (installing' \/ isRunning') /\ \A t \in Threads : tpc'[t] # "none" => workArrived'
    BY <1>3 DEF ClaimQueueSlot, ClaimGranted, ClaimRefusedBusy, ClaimRefusedInstalling, SlotInv,
                OneQueueRunner, Live
  <2> QED BY <2>1, <2>2 DEF WakeInv
\* Whoever holds the slot without a thread meets no thread either.
<1>4. CASE StartUnpauses(s)
  <2>1. isRunning' /\ \A t \in Threads : tpc'[t] = "none"
    BY <1>4 DEF StartUnpauses, SlotInv, OneQueueRunner, Live, Claimed
  <2>2. /\ \A i \in told' : row'[i] # "absent"
        /\ \A r \in Starters : sjob'[r] # NoJob => row'[sjob'[r]] # "absent"
    BY <1>0, <1>4 DEF StartUnpauses, RequeuedAfterOutage, WakeInv
  <2> QED BY <2>1, <2>2 DEF WakeInv
<1> QED BY <1>1, <1>2, <1>3, <1>4

\* Users, updates and launches: what becomes idle has nothing promised, or a reason.
LEMMA WakeProcess ==
  ASSUME TypeOK, SlotInv, WakeInv,
         PauseAfterCurrent \/ CancelPauseAfterCurrent \/ (\E j \in Jobs : RemoveJob(j))
           \/ ClearQueue \/ TryInstall \/ InstallSucceeds \/ InstallFails \/ BeginQuit
           \/ ProcessEnds \/ Boot
  PROVE  WakeInv'
<1> USE DEF persisted, flags, thread, starter, process, history
<1>0. /\ row \in [Jobs -> Rows] /\ told \subseteq Jobs /\ sjob \in [Starters -> Jobs \cup {NoJob}]
  BY DEF TypeOK
<1>1. CASE PauseAfterCurrent \/ CancelPauseAfterCurrent
  BY <1>1 DEF PauseAfterCurrent, CancelPauseAfterCurrent, WakeInv, Held, Queued
<1>2. CASE (\E j \in Jobs : RemoveJob(j)) \/ BeginQuit
  <2>1. /\ UNCHANGED <<told, sjob, alive, installing, restarting, lastStop, isRunning, workArrived,
                        tpc, queuePaused, lowDisk>>
        /\ shutdown => shutdown'
        /\ Queued' \subseteq Queued
        /\ \A j \in Jobs : row[j] # "absent" => row'[j] # "absent"
    BY <1>0, <1>2 DEF RemoveJob, BeginQuit, Queued
  <2> QED BY <1>0, <2>1 DEF WakeInv, Held
\* Clearing the queue lifts the pause and takes away what it held back.
<1>3. CASE ClearQueue
  <2>1. Queued' = {} /\ UNCHANGED <<told, sjob>> /\ \A j \in Jobs : row[j] # "absent" => row'[j] # "absent"
    BY <1>0, <1>3 DEF ClearQueue, Queued
  <2> QED BY <1>0, <2>1 DEF WakeInv
\* An install ends in a restart, or leaves its failure as the reason.
<1>4. CASE TryInstall \/ InstallSucceeds \/ InstallFails
  BY <1>4 DEF TryInstall, InstallSucceeds, InstallFails, WakeInv, Held, Queued
<1>5. CASE ProcessEnds
  BY <1>5 DEF ProcessEnds, WakeInv
\* Boot runs what it finds, unless it finds the pause.
<1>6. CASE Boot
  <2>1. \A i \in told' : row'[i] # "absent"
    BY <1>6 DEF Boot
  <2>2. \A r \in Starters : sjob'[r] # NoJob => row'[sjob'[r]] # "absent"
    BY <1>0, <1>6 DEF Boot, WakeInv
  <2>3. CASE told' # {} /\ ~queuePaused
    <3>1. isRunning' = TRUE /\ \E t \in Threads : Goto(t, "pass")
      BY <1>6, <2>3 DEF Boot
    <3>2. \A t \in Threads : tpc'[t] \notin {"hook", "arrived", "release"}
      BY <1>6, <3>1 DEF Boot, Goto, TypeOK, SlotInv, OneQueueRunner, Live
    <3> QED BY <2>1, <2>2, <3>1, <3>2 DEF WakeInv
  <2>4. CASE told' = {} \/ queuePaused
    BY <1>6, <2>1, <2>2, <2>4 DEF Boot, WakeInv, Held
  <2> QED BY <2>3, <2>4
<1> QED BY <1>1, <1>2, <1>3, <1>4, <1>5, <1>6

\* Every behaviour keeps the promises of a run that was not stopped.
LEMMA WakeInvariant == Spec => []WakeInv
<1>1. Init => WakeInv
  BY DEF Init, WakeInv
<1>2. TypeOK /\ SlotInv /\ StopInv /\ WakeInv /\ [Next]_vars => WakeInv'
  <2> SUFFICES ASSUME TypeOK, SlotInv, StopInv, WakeInv, [Next]_vars PROVE WakeInv'
    OBVIOUS
  <2>1. CASE Next
    BY <2>1, WakeStarter, WakeThread, WakeProcess DEF Next
  <2>2. CASE UNCHANGED vars
    BY <2>2 DEF vars, persisted, flags, thread, starter, process, history, WakeInv, Held, Queued
  <2> QED BY <2>1, <2>2
<1> QED BY SlotInvariant, StopInvariant, <1>1, <1>2, PTL DEF Spec

\* An answered start is never forgotten: a queue that is idle, and that nothing stopped (a pause,
\* low disk, an outage, a quit, a panic, a failed update), has no job queued that anybody was told
\* would run.
THEOREM DrainedQueueIsEmpty == Spec => []DrainedRunLeavesNoWork
<1>1. WakeInv => DrainedRunLeavesNoWork
  BY DEF WakeInv, DrainedRunLeavesNoWork
<1> QED BY WakeInvariant, <1>1, PTL
-----------------------------------------------------------------------------
(* "Pause after this": the pause that was armed on a running job.           *)

\* Inductive: a pause armed on a job is set, and the thread of that job has not come near the
\* next one: it still runs it, is about to look at the flag, or is on its way out.  The head of
\* the loop is such a place only after a remote job, whose failure is caught up with there.
ArmedInv ==
  armedOn # NoJob =>
    /\ pauseAfter
    /\ \E t \in Threads : Live(t)
    /\ \A t \in Threads : /\ tpc[t] \in {"none", "head", "encode", "booked", "outage", "unwind"}
                          /\ tpc[t] = "head" => afterRemote[t]

\* The thread that runs the queue keeps it: a job that ends takes the pause with it, unless it
\* failed on this machine, and a remote one that fails leaves it to the head of the loop.
LEMMA ArmedThread ==
  ASSUME TypeOK, SlotInv, ArmedInv, NEW t \in Threads, QueueThread(t) \/ Panic(t)
  PROVE  ArmedInv'
<1> USE DEF flags, thread, starter, process, history, At, Goto
<1>0. PICK pc \in ThreadPcs : Goto(t, pc) /\ Live(t)
  BY ThreadStep
<1>1. /\ tpc \in [Threads -> ThreadPcs] /\ afterRemote \in [Threads -> BOOLEAN]
      /\ tpc[t] # "none"
      /\ \A u \in Threads : u # t => tpc[u] = "none" /\ tpc'[u] = "none"
  BY <1>0, ThreadIsAlone DEF TypeOK, Live
<1>2. armedOn # NoJob => /\ pauseAfter
                         /\ tpc[t] \in {"head", "encode", "booked", "outage", "unwind"}
                         /\ tpc[t] = "head" => afterRemote[t]
  BY <1>1, Zenon DEF ArmedInv
<1>3. armedOn' # NoJob => /\ pauseAfter'
                          /\ tpc'[t] \in {"head", "encode", "booked", "outage", "unwind"}
                          /\ tpc'[t] = "head" => afterRemote'[t]
  <2> USE <1>1, <1>2
  <2>1. CASE PassBegins(t) \/ PickJob(t) \/ Panic(t)
    BY <2>1 DEF PassBegins, PickJob, Panic
  <2>2. CASE LoopHead(t)
    BY <2>2 DEF LoopHead, TakePauseAfterCurrent
  <2>3. CASE GateBooksError(t) \/ GateLowDisk(t) \/ GatePasses(t) \/ ClaimJob(t)
    BY <2>3 DEF GateBooksError, GateLowDisk, GatePasses, ClaimJob
  <2>4. CASE JobCompletes(t) \/ OutageStops(t) \/ OutageBooks(t)
    BY <2>4 DEF JobCompletes, OutageStops, OutageBooks
  <2>5. CASE JobFails(t)
    BY <2>5 DEF JobFails
  <2>6. CASE PauseIfArmed(t) \/ PersistPause(t)
    BY <2>6 DEF PauseIfArmed, TakePauseAfterCurrent, PersistPause
  <2>7. CASE DrainHook(t) \/ TakeWorkArrived(t) \/ LookForWork(t)
    BY <2>7 DEF DrainHook, TakeWorkArrived, LookForWork
  <2>8. CASE ReleaseSlot(t) \/ GuardDrops(t)
    BY <2>8 DEF ReleaseSlot, GuardDrops, ThreadEnds
  <2> QED BY <2>1, <2>2, <2>3, <2>4, <2>5, <2>6, <2>7, <2>8 DEF QueueThread
<1> QED BY <1>1, <1>3 DEF ArmedInv, Live

\* Nobody else comes between an armed pause and its job: a caller can spawn a thread, and a
\* launch run the queue, only where there is none.
LEMMA ArmedOthers ==
  ASSUME TypeOK, SlotInv, ArmedInv, [Next]_vars, ~ \E t \in Threads : QueueThread(t) \/ Panic(t)
  PROVE  ArmedInv'
<1> USE DEF persisted, flags, thread, starter, process, history
<1>1. CASE UNCHANGED <<armedOn, pauseAfter, tpc, afterRemote>>
  BY <1>1 DEF ArmedInv, Live
<1>2. CASE \E s \in Starters : StartSpawns(s)
  <2>1. \A t \in Threads : ~Live(t)
    BY <1>2 DEF StartSpawns, SlotInv, OneQueueRunner, Claimed
  <2> QED BY <1>2, <2>1 DEF StartSpawns, ArmedInv
\* The job is the one of the thread that encodes or has just booked it.
<1>3. CASE PauseAfterCurrent
  <2>1. CASE \E t \in Threads : tpc[t] \in {"encode", "booked"}
    <3>1. PICK t \in Threads : tpc[t] \in {"encode", "booked"}
      BY <2>1
    <3>2. \A u \in Threads : u # t => tpc[u] = "none"
      BY <3>1 DEF SlotInv, OneQueueRunner, Live
    <3> QED BY <1>3, <3>1, <3>2 DEF PauseAfterCurrent, ArmedInv, Live
  <2>2. CASE ~ \E t \in Threads : tpc[t] \in {"encode", "booked"}
    BY <1>3, <2>2 DEF PauseAfterCurrent, ArmedInv
  <2> QED BY <2>1, <2>2
<1>4. CASE CancelPauseAfterCurrent \/ ProcessEnds
  BY <1>4 DEF CancelPauseAfterCurrent, ProcessEnds, ArmedInv
<1>5. CASE Boot
  <2>1. \A t \in Threads : ~Live(t)
    BY <1>5 DEF Boot, SlotInv, OneQueueRunner
  <2> QED BY <1>5, <2>1 DEF Boot, ArmedInv
<1>6. CASE \/ \E s \in Starters : \/ \E j \in Jobs : Add(s, j)
                                  \/ PressStart(s) \/ ClaimQueueSlot(s) \/ StartUnpauses(s)
           \/ \E j \in Jobs : RemoveJob(j)
           \/ ClearQueue \/ TryInstall \/ InstallSucceeds \/ InstallFails \/ BeginQuit
           \/ UNCHANGED vars
  <2>1. UNCHANGED <<armedOn, pauseAfter, tpc, afterRemote>>
    BY <1>6 DEF Add, PressStart, ClaimQueueSlot, StartUnpauses, RemoveJob, ClearQueue, TryInstall,
                InstallSucceeds, InstallFails, BeginQuit, vars
  <2> QED BY <1>1, <2>1
<1> QED BY <1>2, <1>3, <1>4, <1>5, <1>6 DEF Next

\* Every behaviour keeps it.
LEMMA ArmedInvariant == Spec => []ArmedInv
<1>1. Init => ArmedInv
  BY DEF Init, ArmedInv
<1>2. TypeOK /\ SlotInv /\ ArmedInv /\ [Next]_vars => ArmedInv'
  BY ArmedThread, ArmedOthers
<1> QED BY SlotInvariant, <1>1, <1>2, PTL DEF Spec

\* "Pause after this" is kept: a pause armed while a job was running holds before another job is
\* claimed, unless that job failed on this machine.  Claiming a job is the queue thread's, and
\* the thread that reaches the claim carries no pause armed on the job before.
THEOREM ArmedPauseHolds == Spec => PauseHoldsBeforeNextJob
<1>1. TypeOK /\ SlotInv /\ ArmedInv /\ [Next]_vars
        => [\A j \in Jobs : row[j] = "queued" /\ row'[j] = "encoding"
                              => ~(pauseAfter /\ armedOn \notin {NoJob, j})]_vars
  <2> SUFFICES ASSUME TypeOK, SlotInv, ArmedInv, [Next]_vars,
                      NEW j \in Jobs, row[j] = "queued", row'[j] = "encoding"
               PROVE  armedOn = NoJob
    BY Zenon
  <2> USE DEF persisted, flags, thread, starter, process, history
  <2>0. row \in [Jobs -> Rows]
    BY DEF TypeOK
  <2>1. CASE \E t \in Threads : ClaimJob(t)
    BY <2>1 DEF ClaimJob, At, ArmedInv
  <2>2. CASE \E t \in Threads : QueueThread(t) \/ Panic(t)
    <3>1. PICK t \in Threads : QueueThread(t) \/ Panic(t)
      BY <2>2
    <3> USE <2>0
    <3>2. CASE GateBooksError(t) \/ JobCompletes(t) \/ JobFails(t) \/ OutageBooks(t)
      BY <3>2 DEF GateBooksError, JobCompletes, JobFails, OutageBooks, BookById
    <3>3. CASE PassBegins(t) \/ LoopHead(t) \/ PickJob(t) \/ GateLowDisk(t) \/ GatePasses(t)
                 \/ OutageStops(t) \/ PauseIfArmed(t) \/ PersistPause(t)
      BY <3>3 DEF PassBegins, LoopHead, PickJob, GateLowDisk, GatePasses, OutageStops, PauseIfArmed,
                  PersistPause
    <3>4. CASE DrainHook(t) \/ TakeWorkArrived(t) \/ LookForWork(t) \/ ReleaseSlot(t)
                 \/ GuardDrops(t) \/ Panic(t)
      BY <3>4 DEF DrainHook, TakeWorkArrived, LookForWork, ReleaseSlot, GuardDrops, Panic
    <3> QED BY <2>1, <3>1, <3>2, <3>3, <3>4 DEF QueueThread
  <2>3. CASE \E s \in Starters : (\E i \in Jobs : Add(s, i)) \/ PressStart(s) \/ ClaimQueueSlot(s)
                                   \/ StartUnpauses(s) \/ StartSpawns(s)
    BY <2>0, <2>3 DEF Add, PressStart, ClaimQueueSlot, StartUnpauses, StartSpawns
  <2>4. CASE (\E i \in Jobs : RemoveJob(i)) \/ ClearQueue \/ Boot
    BY <2>0, <2>4 DEF RemoveJob, ClearQueue, Boot
  <2>5. CASE PauseAfterCurrent \/ CancelPauseAfterCurrent \/ TryInstall \/ InstallSucceeds
               \/ InstallFails \/ BeginQuit \/ ProcessEnds \/ UNCHANGED vars
    BY <2>5 DEF PauseAfterCurrent, CancelPauseAfterCurrent, TryInstall, InstallSucceeds,
                InstallFails, BeginQuit, ProcessEnds, vars
  <2> QED BY <2>2, <2>3, <2>4, <2>5 DEF Next
<1> QED BY TypeCorrect, SlotInvariant, ArmedInvariant, <1>1, PTL DEF Spec, PauseHoldsBeforeNextJob

-----------------------------------------------------------------------------
(* Threads, callers, flags and the mark implement QueueService.            *)

Active  == {j \in Jobs : Converting(j)}
CutOff  == {j \in Jobs : row[j] = "encoding" /\ ~Converting(j)}
Stopped == Held \/ lastStop # "none"
Excused == installing \/ restarting \/ ~alive

\* A job that a thread converts is booked as such, one it has picked is not yet, and a dead process
\* remembers no stop but those it persisted.
WorkInv ==
  /\ \A t \in Threads : tpc[t] \in {"gate", "claim"} => row[cur[t]] # "encoding"
  /\ \A t \in Threads : tpc[t] \in {"encode", "outage"} => row[cur[t]] = "encoding"
  /\ ~alive => ~lowDisk /\ ~shutdown /\ ~restarting /\ lastStop = "none"

\* Steps that neither take nor end a job.
LEMMA WorkFrame ==
  ASSUME WorkInv, \A j \in Jobs : row'[j] = "encoding" <=> row[j] = "encoding",
         cur \in [Threads -> Jobs \cup {NoJob}],
         \A t \in Threads : tpc[t] \in {"gate", "claim", "encode", "outage"} => cur[t] \in Jobs,
         \A t \in Threads : tpc'[t] \in {"gate", "claim", "encode", "outage"} =>
                               tpc'[t] = tpc[t] /\ cur'[t] = cur[t],
         alive, alive'
  PROVE  WorkInv'
BY DEF WorkInv

\* Of what the service sees of jobs only the rows, and who converts which, count.
LEMMA SameWork ==
  ASSUME UNCHANGED <<row, tpc, cur>>
  PROVE  Queued' = Queued /\ Active' = Active /\ CutOff' = CutOff
BY DEF Queued, Active, CutOff, Converting

\* Rows that are not being converted come and go without it.
LEMMA OtherRows ==
  ASSUME row \in [Jobs -> Rows], UNCHANGED <<tpc, cur>>, NEW S \in SUBSET Jobs,
         \A j \in S : row[j] # "encoding" /\ row'[j] # "encoding",
         \A j \in Jobs \ S : row'[j] = row[j]
  PROVE  Active' = Active /\ CutOff' = CutOff
BY DEF Active, CutOff, Converting

\* One row, which is and stays not encoding, is all that changes.
LEMMA OneOtherRow ==
  ASSUME row \in [Jobs -> Rows], UNCHANGED <<tpc, cur>>, NEW j \in Jobs, NEW status,
         row[j] # "encoding", status # "encoding", row' = [row EXCEPT ![j] = status]
  PROVE  Active' = Active /\ CutOff' = CutOff
<1>1. /\ {j} \in SUBSET Jobs
      /\ \A k \in {j} : row[k] # "encoding" /\ row'[k] # "encoding"
      /\ \A k \in Jobs \ {j} : row'[k] = row[k]
  OBVIOUS
<1> QED BY <1>1, OtherRows

LEMMA WorkThread ==
  ASSUME TypeOK, SlotInv, WorkInv, NEW t \in Threads, QueueThread(t) \/ Panic(t)
  PROVE  WorkInv'
<1> USE DEF persisted, flags, starter, process, history, At, Goto
<1>0. /\ row \in [Jobs -> Rows] /\ tpc \in [Threads -> ThreadPcs]
      /\ cur \in [Threads -> Jobs \cup {NoJob}]
      /\ \A u \in Threads : tpc[u] \in {"gate", "claim", "encode", "outage", "booked"} => cur[u] \in Jobs
  BY DEF TypeOK
<1>1. Live(t) /\ \A u \in Threads \ {t} : tpc[u] = "none"
  BY DEF SlotInv, OneQueueRunner, Live, QueueThread, PassBegins, LoopHead, PickJob, Panic,
     GateBooksError, GateLowDisk, GatePasses, ClaimJob, JobCompletes, JobFails, OutageStops,
     OutageBooks, PauseIfArmed, PersistPause, DrainHook, TakeWorkArrived, LookForWork,
     ReleaseSlot, GuardDrops
<1> USE <1>0, <1>1 DEF WorkInv
<1>3. CASE PassBegins(t) \/ LoopHead(t)
  BY <1>3 DEF PassBegins, LoopHead, TakePauseAfterCurrent
<1>11. CASE PickJob(t)
  BY <1>11 DEF PickJob, Queued
<1>12. CASE Panic(t)
  BY <1>12 DEF Panic
<1>4. CASE GateBooksError(t) \/ GateLowDisk(t) \/ GatePasses(t)
  BY <1>4 DEF GateBooksError, BookById, GateLowDisk, GatePasses
<1>5. CASE ClaimJob(t)
  BY <1>5 DEF ClaimJob
<1>6. CASE JobCompletes(t) \/ JobFails(t) \/ OutageBooks(t)
  BY <1>6 DEF JobCompletes, JobFails, BookById, OutageBooks
<1>7. CASE OutageStops(t)
  BY <1>7 DEF OutageStops
<1>8. CASE PauseIfArmed(t) \/ PersistPause(t) \/ DrainHook(t)
  BY <1>8 DEF PauseIfArmed, TakePauseAfterCurrent, PersistPause, DrainHook
<1>9. CASE TakeWorkArrived(t) \/ LookForWork(t)
  BY <1>9 DEF TakeWorkArrived, LookForWork
<1>10. CASE ReleaseSlot(t) \/ GuardDrops(t)
  BY <1>10 DEF ReleaseSlot, GuardDrops, ThreadEnds
<1> QED BY <1>3, <1>4, <1>5, <1>6, <1>7, <1>8, <1>9, <1>10, <1>11, <1>12 DEF QueueThread

LEMMA WorkOthers ==
  ASSUME TypeOK, SlotInv, WorkInv, Next, \A t \in Threads : ~QueueThread(t) /\ ~Panic(t)
  PROVE  WorkInv'
<1> USE DEF persisted, flags, thread, starter, process, history
<1>0. /\ row \in [Jobs -> Rows] /\ tpc \in [Threads -> ThreadPcs]
      /\ cur \in [Threads -> Jobs \cup {NoJob}]
      /\ \A u \in Threads : tpc[u] \in {"gate", "claim", "encode", "outage"} => cur[u] \in Jobs
  BY DEF TypeOK
<1>1. CASE \E s \in Starters : StartSpawns(s)
  <2>1. PICK s \in Starters : StartSpawns(s)
    BY <1>1
  <2> QED BY <1>0, <2>1, WorkFrame DEF StartSpawns
<1>2. CASE \E s \in Starters, j \in Jobs : Add(s, j)
  <2>1. PICK s \in Starters, j \in Jobs : Add(s, j)
    BY <1>2
  <2> QED BY <1>0, <2>1, WorkFrame DEF Add
<1>3. CASE \E s \in Starters : StartUnpauses(s)
  <2>1. PICK s \in Starters : StartUnpauses(s)
    BY <1>3
  <2> QED BY <1>0, <2>1, WorkFrame DEF StartUnpauses, RequeuedAfterOutage
<1>4. CASE (\E j \in Jobs : RemoveJob(j)) \/ ClearQueue
  BY <1>0, <1>4, WorkFrame DEF RemoveJob, ClearQueue
<1>5. CASE ProcessEnds
  BY <1>5 DEF ProcessEnds, WorkInv
<1>6. CASE Boot
  <2>1. \A t \in Threads : tpc[t] = "none"
    BY <1>6 DEF Boot, SlotInv, OneQueueRunner, Live
  <2>2. \A t \in Threads : tpc'[t] \in {"none", "pass"}
    BY <1>0, <1>6, <2>1 DEF Boot, Goto
  <2> QED BY <1>0, <1>6, <2>2 DEF Boot, WorkInv
<1>7. CASE \/ \E s \in Starters : PressStart(s) \/ ClaimQueueSlot(s)
           \/ PauseAfterCurrent \/ CancelPauseAfterCurrent \/ TryInstall \/ InstallSucceeds
           \/ InstallFails \/ BeginQuit
  <2>1. UNCHANGED <<row, tpc, cur>> /\ alive /\ alive'
    BY <1>7 DEF PressStart, ClaimQueueSlot, PauseAfterCurrent, CancelPauseAfterCurrent,
       TryInstall, InstallSucceeds, InstallFails, BeginQuit
  <2> QED BY <1>0, <2>1, WorkFrame
<1> QED BY <1>1, <1>2, <1>3, <1>4, <1>5, <1>6, <1>7 DEF Next

\* What a running encode and a dead process look like holds of every behaviour.
LEMMA WorkInvariant == Spec => []WorkInv
<1>1. Init => WorkInv
  BY DEF Init, WorkInv
<1>2. TypeOK /\ SlotInv /\ WorkInv /\ [Next]_vars => WorkInv'
  <2> SUFFICES ASSUME TypeOK, SlotInv, WorkInv, [Next]_vars PROVE WorkInv'
    OBVIOUS
  <2>1. CASE Next
    BY <2>1, WorkThread, WorkOthers
  <2>2. CASE UNCHANGED vars
    BY <2>2 DEF vars, persisted, flags, thread, process, history, WorkInv
  <2> QED BY <2>1, <2>2
<1> QED BY SlotInvariant, <1>1, <1>2, PTL DEF Spec
-----------------------------------------------------------------------------
(* The refinement.                                                         *)

\* What the service does not show: a caller between its calls, a thread between its steps.
LEMMA Unseen ==
  ASSUME UNCHANGED <<told, isRunning>>, Queued' = Queued, Active' = Active, CutOff' = CutOff,
         Stopped' <=> Stopped, Excused' <=> Excused
  PROVE  UNCHANGED Service!vars
BY DEF Service!vars, Active, CutOff, Stopped, Excused

\* While the queue runs, and goes on running, its stops come and go as they like.
LEMMA StaysOpen ==
  ASSUME UNCHANGED told, isRunning = TRUE, isRunning' = TRUE,
         Queued' = Queued, Active' = Active, CutOff' = CutOff, Excused' <=> Excused
  PROVE  Service!Next
<1>1. Service!Promise
  <2>1. told' = told \cup {}
    OBVIOUS
  <2> QED BY <2>1 DEF Service!Promise, Active, CutOff, Excused
<1>2. Service!StopsAreNotForgotten
  BY DEF Service!StopsAreNotForgotten
<1> QED BY <1>1, <1>2 DEF Service!Next

\* Rows leave the queue by a remove, a clear or a gate's booking, with or without a new stop.
LEMMA Leaves ==
  ASSUME UNCHANGED <<told, isRunning>>, NEW S \in SUBSET Queued, Queued' = Queued \ S,
         Active' = Active, CutOff' = CutOff, Excused' <=> Excused,
         (Stopped => Stopped') \/ Queued' = {}
  PROVE  Service!Next
<1>1. Service!Withdraw
  BY DEF Service!Withdraw, Active, CutOff, Excused
<1>2. Service!StopsAreNotForgotten
  BY DEF Service!StopsAreNotForgotten, Service!Outstanding, Stopped
<1> QED BY <1>1, <1>2 DEF Service!Next

LEMMA ThreadSteps ==
  ASSUME TypeOK, SlotInv, StopInv, WakeInv, WorkInv,
         NEW t \in Threads, QueueThread(t) \/ Panic(t)
  PROVE  [Service!Next]_(Service!vars)
<1> USE DEF persisted, flags, starter, process, history, At, Goto
<1>0. /\ row \in [Jobs -> Rows] /\ tpc \in [Threads -> ThreadPcs] /\ told \subseteq Jobs
      /\ cur \in [Threads -> Jobs \cup {NoJob}] /\ isRunning \in BOOLEAN
      /\ \A u \in Threads : tpc[u] \in {"gate", "claim", "encode", "outage", "booked"} => cur[u] \in Jobs
  BY DEF TypeOK
<1>1. /\ Live(t) /\ alive /\ isRunning = TRUE
      /\ UNCHANGED <<told, alive, installing, restarting>>
  BY <1>0 DEF SlotInv, OneQueueRunner, Live, QueueThread, PassBegins, LoopHead, PickJob, Panic,
     GateBooksError, GateLowDisk, GatePasses, ClaimJob, JobCompletes, JobFails, OutageStops,
     OutageBooks, PauseIfArmed, PersistPause, DrainHook, TakeWorkArrived, LookForWork,
     ReleaseSlot, GuardDrops
<1>2. \A u \in Threads \ {t} : tpc[u] = "none" /\ tpc'[u] = "none"
  BY ThreadStep, ThreadIsAlone
<1>3. Excused' <=> Excused
  BY <1>1 DEF Excused
\* Only one thread converts anything, before the step and after it.
<1>4. /\ \A j \in Jobs : Converting(j) <=> tpc[t] \in {"encode", "outage"} /\ cur[t] = j
      /\ \A j \in Jobs : Converting(j)' <=> tpc'[t] \in {"encode", "outage"} /\ cur'[t] = j
  BY <1>2 DEF Converting
<1>5. /\ tpc[t] \in {"encode", "outage"} => Active = {cur[t]} /\ row[cur[t]] = "encoding"
      /\ tpc[t] \notin {"encode", "outage"} => Active = {}
  BY <1>0, <1>4 DEF Active, WorkInv
\* A gate books a row that is queued, or that is no longer there.
<1>6. CASE GateBooksError(t)
  <2>1. PICK j \in Jobs : j = cur[t]
    BY <1>0, <1>6 DEF GateBooksError
  <2>2. /\ row[j] # "encoding" /\ row'[j] \in {"finished", "deleted"}
        /\ \A k \in Jobs \ {j} : row'[k] = row[k]
        /\ tpc[t] = "gate" /\ tpc'[t] = "head" /\ isRunning' = isRunning
        /\ (Stopped => Stopped')
    BY <1>0, <1>6, <2>1 DEF GateBooksError, BookById, WorkInv, Stopped, Held
  <2>3. Queued' = Queued \ ({j} \cap Queued) /\ Active' = Active /\ CutOff' = CutOff
    BY <1>0, <1>4, <1>5, <2>2 DEF Queued, Active, CutOff
  <2> QED BY <1>1, <1>3, <2>2, <2>3, Leaves
\* A job is taken.
<1>7. CASE ClaimJob(t) /\ row' # row
  <2>1. PICK j \in Jobs : j = cur[t]
    BY <1>0, <1>7 DEF ClaimJob
  <2>2. /\ row[j] = "queued" /\ row' = [row EXCEPT ![j] = "encoding"] /\ cur' = cur
        /\ tpc[t] = "claim" /\ tpc'[t] = "encode" /\ isRunning' = isRunning
    BY <1>0, <1>7, <2>1 DEF ClaimJob
  <2>3. j \in Queued /\ Queued' = Queued \ {j} /\ Active = {} /\ Active' = {j} /\ CutOff' = CutOff
    BY <1>0, <1>4, <1>5, <2>1, <2>2 DEF Queued, Active, CutOff
  <2>4. Service!Take(j)
    BY <1>1, <1>3, <2>2, <2>3 DEF Service!Take, Active, CutOff, Excused
  <2>5. Service!StopsAreNotForgotten
    BY <1>1, <2>2 DEF Service!StopsAreNotForgotten
  <2> QED BY <2>4, <2>5 DEF Service!Next
\* A conversion ends, whichever way.
<1>8. CASE JobCompletes(t) \/ JobFails(t) \/ OutageBooks(t)
  <2>1. PICK j \in Jobs : j = cur[t]
    BY <1>0, <1>8 DEF JobCompletes, JobFails, OutageBooks
  <2>2. /\ tpc[t] \in {"encode", "outage"} /\ tpc'[t] \in {"booked", "head", "unwind"}
        /\ row[j] = "encoding" /\ row'[j] \in {"finished", "unreachable"}
        /\ \A k \in Jobs \ {j} : row'[k] = row[k]
        /\ isRunning' = isRunning
    BY <1>0, <1>5, <1>8, <2>1 DEF JobCompletes, JobFails, OutageBooks, BookById
  <2>3. Queued' = Queued /\ Active = {j} /\ Active' = {} /\ CutOff' = CutOff
    BY <1>0, <1>4, <1>5, <2>1, <2>2 DEF Queued, Active, CutOff
  <2>4. Service!Finish
    BY <1>1, <1>3, <2>2, <2>3 DEF Service!Finish, Active, CutOff, Excused
  <2>5. Service!StopsAreNotForgotten
    BY <1>1, <2>2 DEF Service!StopsAreNotForgotten
  <2> QED BY <2>4, <2>5 DEF Service!Next
\* A panic leaves the job it was converting as it stands.
<1>9. CASE Panic(t)
  <2>1. /\ tpc'[t] = "unwind" /\ cur' = cur /\ lastStop' = "panic"
        /\ UNCHANGED <<row, isRunning>>
    BY <1>0, <1>9 DEF Panic
  <2>2. Queued' = Queued /\ Active' = {} /\ CutOff' = CutOff \cup Active
    BY <1>0, <1>4, <1>5, <2>1 DEF Queued, Active, CutOff
  <2>3. CASE Active = {}
    BY <1>1, <1>3, <2>1, <2>2, <2>3, StaysOpen
  <2>4. CASE Active # {}
    <3>1. Service!FallOver
      BY <1>1, <1>3, <2>1, <2>2, <2>4 DEF Service!FallOver, Active, CutOff, Excused
    <3>2. Service!StopsAreNotForgotten
      BY <1>1, <2>1 DEF Service!StopsAreNotForgotten
    <3> QED BY <3>1, <3>2 DEF Service!Next
  <2> QED BY <2>3, <2>4
\* The slot is given back: by a run that was stopped, or by one that found neither work nor mark.
<1>10. CASE (ReleaseSlot(t) /\ ~workArrived) \/ GuardDrops(t)
  <2>1. /\ tpc[t] \in {"release", "unwind"} /\ tpc'[t] = "none" /\ isRunning' = FALSE
        /\ UNCHANGED <<row, queuePaused, lowDisk, shutdown, lastStop>>
    BY <1>0, <1>10 DEF ReleaseSlot, GuardDrops, ThreadEnds
  <2>2. Stopped \/ told \cap Queued = {}
    <3>1. CASE GuardDrops(t)
      BY <3>1 DEF GuardDrops, StopInv, Stopped
    <3>2. CASE ReleaseSlot(t) /\ ~workArrived
      BY <3>2 DEF ReleaseSlot, WakeInv, Stopped
    <3> QED BY <1>10, <3>1, <3>2
  <2>3. Queued' = Queued /\ Active = {} /\ Active' = {} /\ CutOff' = CutOff /\ (Stopped' <=> Stopped)
    BY <1>4, <1>5, <2>1 DEF Queued, Active, CutOff, Stopped, Held
  <2>4. Service!Close
    BY <1>1, <1>3, <2>1, <2>2, <2>3
       DEF Service!Close, Service!Outstanding, Active, CutOff, Stopped, Excused
  <2>5. Service!StopsAreNotForgotten
    BY <2>3 DEF Service!StopsAreNotForgotten, Stopped
  <2> QED BY <2>4, <2>5 DEF Service!Next
\* Whatever else the thread does touches neither rows nor slot, and takes and ends no job.
<1>11. CASE /\ ~GateBooksError(t) /\ ~(ClaimJob(t) /\ row' # row) /\ ~GuardDrops(t)
            /\ ~(JobCompletes(t) \/ JobFails(t) \/ OutageBooks(t)) /\ ~Panic(t)
            /\ ~(ReleaseSlot(t) /\ ~workArrived)
  <2>1. UNCHANGED <<row, isRunning>>
    BY <1>11 DEF QueueThread, PassBegins, LoopHead, PickJob, GateLowDisk, GatePasses,
       ClaimJob, OutageStops, PauseIfArmed, PersistPause, DrainHook, TakeWorkArrived, LookForWork,
       ReleaseSlot
  <2>2. /\ tpc'[t] \in {"encode", "outage"} <=> tpc[t] \in {"encode", "outage"}
        /\ tpc[t] \in {"encode", "outage"} => cur' = cur
    BY <1>0, <1>11, <2>1 DEF QueueThread, PassBegins, LoopHead, TakePauseAfterCurrent, PickJob,
       GateLowDisk, GatePasses, ClaimJob, OutageStops, PauseIfArmed, PersistPause, DrainHook,
       TakeWorkArrived, LookForWork, ReleaseSlot
  <2>3. Queued' = Queued /\ Active' = Active /\ CutOff' = CutOff
    BY <1>4, <2>1, <2>2 DEF Queued, Active, CutOff
  <2> QED BY <1>1, <1>3, <2>1, <2>3, StaysOpen
<1> QED BY <1>6, <1>7, <1>8, <1>9, <1>10, <1>11
LEMMA StarterSteps ==
  ASSUME TypeOK, SlotInv, WakeInv, WorkInv, NEW s \in Starters,
         (\E j \in Jobs : Add(s, j)) \/ PressStart(s) \/ ClaimQueueSlot(s) \/ StartUnpauses(s)
           \/ StartSpawns(s)
  PROVE  [Service!Next]_(Service!vars)
<1> USE DEF persisted, flags, thread, starter, process, history
<1>0. /\ row \in [Jobs -> Rows] /\ told \subseteq Jobs /\ sjob \in [Starters -> Jobs \cup {NoJob}]
      /\ isRunning \in BOOLEAN
  BY DEF TypeOK
\* A row is inserted; whoever inserts it has not been answered.
<1>1. CASE \E j \in Jobs : Add(s, j)
  <2>1. PICK j \in Jobs : Add(s, j)
    BY <1>1
  <2>2. /\ j \notin Queued \cup CutOff \cup told
        /\ Queued' = Queued \cup {j}
        /\ UNCHANGED <<told, isRunning, installing, restarting, alive, queuePaused, lowDisk,
                       shutdown, lastStop>>
    BY <1>0, <2>1 DEF Add, WakeInv, Queued, CutOff
  <2>3. j \notin Active /\ Active' = Active /\ CutOff' = CutOff
    <3>1. row[j] = "absent" /\ row' = [row EXCEPT ![j] = "queued"] /\ UNCHANGED <<tpc, cur>>
      BY <2>1 DEF Add
    <3>2. j \notin Active
      BY <3>1 DEF WorkInv, Active, Converting
    <3>3. Active' = Active /\ CutOff' = CutOff
      BY <1>0, <3>1, OneOtherRow
    <3> QED BY <3>2, <3>3
  <2>4. Service!Submit(j) /\ Service!StopsAreNotForgotten
    BY <2>2, <2>3 DEF Service!Submit, Service!StopsAreNotForgotten, Active, CutOff, Held
  <2> QED BY <2>4 DEF Service!Next
<1>2. CASE PressStart(s) \/ StartSpawns(s)
  <2>1. UNCHANGED <<row, cur, told, isRunning, installing, restarting, alive, queuePaused, lowDisk,
                    shutdown, lastStop>>
    BY <1>2 DEF PressStart, StartSpawns
  <2>2. \A t \in Threads : tpc'[t] \in {"encode", "outage"} <=> tpc[t] \in {"encode", "outage"}
    <3> tpc \in [Threads -> ThreadPcs]
      BY DEF TypeOK
    <3> QED BY <1>2 DEF PressStart, StartSpawns
  <2>3. Queued' = Queued /\ Active' = Active /\ CutOff' = CutOff
    BY <2>1, <2>2 DEF Queued, Active, CutOff, Converting
  <2> QED BY <2>1, <2>3, Unseen DEF Stopped, Held, Excused
\* The answer: by whoever opens the queue, or by one that is open, or by an install.
<1>3. CASE ClaimQueueSlot(s)
  <2>1. /\ UNCHANGED <<row, tpc, cur, installing, restarting, alive, queuePaused, lowDisk, shutdown,
                       lastStop>>
        /\ told' = told \cup ({sjob[s]} \ {NoJob})
        /\ isRunning' = TRUE \/ (isRunning' = isRunning /\ installing)
    <3>1. CASE ClaimGranted(s)
      BY <1>3, <3>1 DEF ClaimQueueSlot, ClaimGranted
    <3>2. CASE ClaimRefusedBusy(s)
      BY <1>0, <1>3, <3>2 DEF ClaimQueueSlot, ClaimRefusedBusy
    <3>3. CASE ClaimRefusedInstalling(s)
      BY <1>3, <3>3 DEF ClaimQueueSlot, ClaimRefusedInstalling
    <3> QED BY <1>3, <3>1, <3>2, <3>3 DEF ClaimQueueSlot
  <2>2. Queued' = Queued /\ Active' = Active /\ CutOff' = CutOff
    BY <2>1, SameWork
  <2>3. {sjob[s]} \ {NoJob} \in SUBSET Jobs
    BY <1>0
  <2>4. Service!Promise
    BY <2>1, <2>2, <2>3 DEF Service!Promise, Active, CutOff
  <2>5. Service!StopsAreNotForgotten
    BY <2>1 DEF Service!StopsAreNotForgotten, Held
  <2> QED BY <2>4, <2>5 DEF Service!Next
\* The holder of the slot lifts the pause, and puts back the job an outage cut off.
<1>4. CASE StartUnpauses(s)
  <2>1. /\ isRunning = TRUE /\ isRunning' = TRUE
        /\ UNCHANGED <<installing, restarting, alive>>
    BY <1>0, <1>4 DEF StartUnpauses, SlotInv, OneQueueRunner, Claimed
  <2>2. Excused' <=> Excused
    BY <2>1 DEF Excused
  <2>3. CASE RequeuedAfterOutage = {}
    <3>1. UNCHANGED told /\ Queued' = Queued /\ Active' = Active /\ CutOff' = CutOff
      BY <1>0, <1>4, <2>3, SameWork DEF StartUnpauses
    <3> QED BY <2>1, <2>2, <3>1, StaysOpen
  <2>4. CASE RequeuedAfterOutage # {}
    <3>1. PICK j \in Jobs : RequeuedAfterOutage = {j} /\ row[j] = "unreachable"
      BY <2>4 DEF RequeuedAfterOutage
    <3>2. /\ row[j] = "unreachable" /\ row' = [row EXCEPT ![j] = "queued"]
          /\ told' = told \cup {j} /\ UNCHANGED <<tpc, cur>>
      BY <1>0, <1>4, <3>1 DEF StartUnpauses
    <3>3. Active' = Active /\ CutOff' = CutOff
      BY <1>0, <3>2, OneOtherRow
    <3>4. j \notin Queued \cup Active \cup CutOff /\ Queued' = Queued \cup {j}
      BY <1>0, <3>2 DEF Queued, CutOff, WorkInv, Active, Converting
    <3>5. Service!Return(j)
      BY <2>1, <2>2, <3>2, <3>3, <3>4 DEF Service!Return, Active, CutOff, Excused
    <3>6. Service!StopsAreNotForgotten
      BY <2>1 DEF Service!StopsAreNotForgotten
    <3> QED BY <3>5, <3>6 DEF Service!Next
  <2> QED BY <2>3, <2>4
<1> QED BY <1>1, <1>2, <1>3, <1>4

LEMMA ProcessSteps ==
  ASSUME TypeOK, SlotInv, WorkInv,
         PauseAfterCurrent \/ CancelPauseAfterCurrent \/ (\E j \in Jobs : RemoveJob(j))
           \/ ClearQueue \/ TryInstall \/ InstallSucceeds \/ InstallFails \/ BeginQuit
           \/ ProcessEnds \/ Boot
  PROVE  [Service!Next]_(Service!vars)
<1> USE DEF persisted, flags, thread, starter, process, history
<1>0. row \in [Jobs -> Rows] /\ isRunning \in BOOLEAN
  BY DEF TypeOK
<1>1. CASE PauseAfterCurrent \/ CancelPauseAfterCurrent \/ InstallSucceeds
  <2>1. UNCHANGED <<row, tpc, cur, told, isRunning, queuePaused, lowDisk, shutdown, lastStop, alive>>
        /\ (Excused' <=> Excused)
    BY <1>1 DEF PauseAfterCurrent, CancelPauseAfterCurrent, InstallSucceeds, Excused
  <2> QED BY <2>1, SameWork, Unseen DEF Stopped, Held
<1>2. CASE \E j \in Jobs : RemoveJob(j)
  <2>1. PICK j \in Jobs : RemoveJob(j)
    BY <1>2
  <2>2. j \in Queued /\ Queued' = Queued \ {j} /\ Active' = Active /\ CutOff' = CutOff
    <3>1. row[j] = "queued" /\ row' = [row EXCEPT ![j] = "deleted"] /\ UNCHANGED <<tpc, cur>>
      BY <2>1 DEF RemoveJob
    <3>2. Active' = Active /\ CutOff' = CutOff
      BY <1>0, <3>1, OneOtherRow
    <3> QED BY <1>0, <3>1, <3>2 DEF Queued
  <2>3. UNCHANGED <<told, isRunning>> /\ (Excused' <=> Excused) /\ (Stopped => Stopped')
    BY <2>1 DEF RemoveJob, Excused, Stopped, Held
  <2> QED BY <2>2, <2>3, Leaves
<1>3. CASE ClearQueue
  <2>1. Queued' = {} /\ Queued' = Queued \ Queued
    BY <1>0, <1>3 DEF ClearQueue, Queued
  <2>3. Active' = Active /\ CutOff' = CutOff
    <3>1. /\ Queued \in SUBSET Jobs /\ UNCHANGED <<tpc, cur>>
          /\ \A j \in Queued : row[j] # "encoding" /\ row'[j] # "encoding"
          /\ \A j \in Jobs \ Queued : row'[j] = row[j]
      BY <1>0, <1>3 DEF ClearQueue, Queued
    <3> QED BY <1>0, <3>1, OtherRows
  <2>2. UNCHANGED <<told, isRunning>> /\ (Excused' <=> Excused)
    BY <1>3 DEF ClearQueue, Excused
  <2> QED BY <2>1, <2>2, <2>3, Leaves
<1>4. CASE BeginQuit
  <2>1. Queued' = Queued \ {} /\ Active' = Active /\ CutOff' = CutOff
    BY <1>4, SameWork DEF BeginQuit
  <2>2. UNCHANGED <<told, isRunning>> /\ (Excused' <=> Excused) /\ (Stopped => Stopped')
    BY <1>4 DEF BeginQuit, Excused, Stopped, Held
  <2> QED BY <2>1, <2>2, Leaves
<1>5. CASE TryInstall \/ InstallFails
  <2>1. /\ UNCHANGED <<row, tpc, cur, told, isRunning, queuePaused, lowDisk, shutdown, restarting,
                       alive>>
        /\ isRunning = FALSE
    BY <1>0, <1>5 DEF TryInstall, InstallFails, SlotInv, InstallExcludesQueue
  <2>2. Queued' = Queued /\ Active' = Active /\ CutOff' = CutOff
    BY <2>1, SameWork
  <2>3. CASE Excused'
    <3>1. Service!Excuse
      BY <2>1, <2>2, <2>3 DEF Service!Excuse, Active, CutOff, Excused
    <3>2. Service!StopsAreNotForgotten
      BY <2>3 DEF Service!StopsAreNotForgotten, Excused
    <3> QED BY <3>1, <3>2 DEF Service!Next
  <2>4. CASE ~Excused'
    <3>1. Excused /\ Stopped'
      BY <1>5, <2>4 DEF TryInstall, InstallFails, Excused, Stopped
    <3>2. Service!UpdateFails
      BY <2>1, <2>2, <2>4, <3>1 DEF Service!UpdateFails, Active, CutOff, Stopped, Excused
    <3>3. Service!StopsAreNotForgotten
      BY <3>1 DEF Service!StopsAreNotForgotten, Stopped
    <3> QED BY <3>2, <3>3 DEF Service!Next
  <2> QED BY <2>3, <2>4
<1>6. CASE ProcessEnds
  <2>1. told' = {} /\ isRunning' = FALSE /\ Excused' /\ Queued' = Queued
    BY <1>6 DEF ProcessEnds, Excused, Queued
  <2>4. Active' = {} /\ CutOff' = CutOff \cup Active
    <3>1. row' = row /\ \A t \in Threads : tpc'[t] = "none"
      BY <1>6 DEF ProcessEnds
    <3>2. \A j \in Active : row[j] = "encoding"
      BY DEF WorkInv, Active, Converting
    <3> QED BY <3>1, <3>2 DEF Active, CutOff, Converting
  <2>2. Service!Die
    BY <2>1, <2>4 DEF Service!Die, Active, CutOff, Excused
  <2>3. Service!StopsAreNotForgotten
    BY <2>1 DEF Service!StopsAreNotForgotten, Excused
  <2> QED BY <2>2, <2>3 DEF Service!Next
<1>7. CASE Boot
  <2>1. /\ isRunning = FALSE /\ ~installing /\ ~restarting
        /\ ~lowDisk /\ ~shutdown /\ lastStop = "none"
    BY <1>0, <1>7 DEF Boot, SlotInv, WorkInv
  <2>2. /\ Queued' = Queued \cup CutOff /\ Active' = Active /\ CutOff' = {} /\ told' = Queued'
    <3>1. \A t \in Threads : tpc[t] = "none" /\ tpc'[t] \in {"none", "pass"}
      BY <1>7, <2>1 DEF Boot, Goto, SlotInv, OneQueueRunner, Live, TypeOK
    <3>2. /\ row' = [j \in Jobs |-> IF row[j] = "encoding" THEN "queued" ELSE row[j]]
          /\ told' = Queued'
      BY <1>7 DEF Boot, Queued
    <3> QED BY <1>0, <3>1, <3>2 DEF Queued, Active, CutOff, Converting
  <2>3. ~Excused' /\ Excused /\ (Stopped' <=> queuePaused)
    BY <1>7, <2>1 DEF Boot, Excused, Stopped, Held
  <2>4. isRunning' = (Queued' # {} /\ ~Stopped')
    BY <1>7, <2>1, <2>2, <2>3 DEF Boot
  <2>5. Service!Revive
    BY <2>1, <2>2, <2>3, <2>4 DEF Service!Revive, Active, CutOff, Stopped, Excused
  <2>6. Service!StopsAreNotForgotten
    <3>1. Stopped /\ ~Stopped' => FALSE
      BY <2>1, <2>3 DEF Stopped, Held
    <3> QED BY <3>1 DEF Service!StopsAreNotForgotten, Stopped
  <2> QED BY <2>5, <2>6 DEF Service!Next
<1> QED BY <1>1, <1>2, <1>3, <1>4, <1>5, <1>6, <1>7

\* The slot protocol implements the service: whatever the number of callers, threads, stops,
\* installs, panics and restarts, a start that is answered opens the queue or is seen by the run
\* that refused it, one job is worked on at a time, only a panic or the end of the process cuts a job
\* off, and only a stop, an update or that end leaves promised work behind.
THEOREM ServiceRefined == Spec => ImplementsService
<1>1. Init => Service!Init
  BY DEF Init, Service!Init, Queued, Converting, Held
<1>2. TypeOK /\ SlotInv /\ StopInv /\ WakeInv /\ WorkInv /\ [Next]_vars
        => [Service!Next]_(Service!vars)
  <2> SUFFICES ASSUME TypeOK, SlotInv, StopInv, WakeInv, WorkInv, [Next]_vars
               PROVE  [Service!Next]_(Service!vars)
    OBVIOUS
  <2>1. CASE Next
    BY <2>1, ThreadSteps, StarterSteps, ProcessSteps DEF Next
  <2>2. CASE UNCHANGED vars
    <3>1. UNCHANGED <<row, tpc, cur, told, isRunning, installing, restarting, alive, queuePaused,
                      lowDisk, shutdown, lastStop>>
      BY <2>2 DEF vars, persisted, flags, thread, process, history
    <3> QED BY <3>1, SameWork, Unseen DEF Stopped, Held, Excused
  <2> QED BY <2>1, <2>2
<1> QED BY SlotInvariant, StopInvariant, WakeInvariant, WorkInvariant, <1>1, <1>2, PTL
        DEF Spec, ImplementsService, Service!Spec
=============================================================================
