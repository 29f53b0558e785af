-------------------------- MODULE ConversionProofs --------------------------
(***************************************************************************)
(* Theorems about Conversion, for any jobs, callers, calls and number of   *)
(* crashes, with every call free to straddle every step of the encode:     *)
(* types, that no original is lost but to a cleanup that had read          *)
(* `delete', that a job the quit path killed is left to the next launch,   *)
(* that history is true, that finished is final, what a Cancel stops, what *)
(* a freeze leaves behind, and where a whole copy survives -- each with    *)
(* the races that break it named in the property itself.                   *)
(***************************************************************************)
EXTENDS Conversion, TLAPS

-----------------------------------------------------------------------------
(* Types.                                                                  *)

\* A Cancel remembers that it booked its job only while it is under way, and deletes only then.
CallInv == \A c \in Callers : /\ cdone[c] => cpc[c] \in {"cancelKill", "cancelPid", "cancelFile"}
                              /\ cpc[c] = "cancelFile" => cdone[c]

\* A Boolean at one place of a function of Booleans.
LEMMA BoolExcept ==
  ASSUME NEW S, NEW f \in [S -> BOOLEAN], NEW g, NEW x, NEW b \in BOOLEAN,
         g = f \/ g = [f EXCEPT ![x] = b]
  PROVE  g \in [S -> BOOLEAN]
OBVIOUS

\* Every row is queued, or dropped because `keep' forbids it; nothing runs and nobody calls.
LEMMA TypeInit == Init => TypeOK /\ CallInv
<1> SUFFICES ASSUME Init PROVE TypeOK /\ CallInv
  OBVIOUS
<1> USE ConversionAssumption DEF Init, TypeOK, CallInv, Rows, ThreadPcs, CallPcs, Procs
<1>1. row \in [Jobs -> Rows] /\ message \in [Jobs -> {"none", "cancelled", "failed"}]
  OBVIOUS
<1>2. /\ src \in [Jobs -> {"original", "encoded", "gone"}]
      /\ trash \in [Jobs -> BOOLEAN]
      /\ target \in [Jobs -> {"none", "partial", "whole"}]
  OBVIOUS
<1>3. proc \in [Jobs -> Procs] /\ frozen \in [Jobs -> BOOLEAN]
  OBVIOUS
<1>4. cpc \in [Callers -> CallPcs] /\ cdone \in [Callers -> BOOLEAN]
  OBVIOUS
<1>5. cpid \in [Callers -> Jobs \cup {NoJob}] /\ cjob \in [Callers -> Jobs \cup {NoJob}]
  OBVIOUS
<1>6. killed = {} /\ purged = {} /\ missed = {} /\ adrift = {} /\ misread = {}
  OBVIOUS
<1>7. /\ \A c \in Callers : cpc[c] = "idle" /\ ~cdone[c]
      /\ cleanupMode \in CleanupModes /\ ends \in 0..MaxEnds /\ made \in 0..MaxCalls
  OBVIOUS
<1> QED BY <1>1, <1>2, <1>3, <1>4, <1>5, <1>6, <1>7

\* The quit path's kill, from the exit handler or from the thread.
LEMMA KillTypes ==
  ASSUME TypeOK, KillActiveChild \/ UNCHANGED <<encoder, killed>>
  PROVE  /\ proc' \in [Jobs -> Procs] /\ frozen' \in [Jobs -> BOOLEAN]
         /\ killed' \subseteq Jobs
BY DEF KillActiveChild, TypeOK, Procs, encoder

\* The queue thread up to the wait: claim, announce, prepare, spawn, store the handles.
LEMMA TypeEncode ==
  ASSUME TypeOK,
         StartQueue \/ RunEnds \/ (\E j \in Jobs : SourceMissing(j) \/ ClaimJob(j)) \/ SetCurrentJob
           \/ PrepareTarget \/ SpawnFails \/ ClearUnspawned \/ Spawn \/ SetPid \/ StoreChild \/ RecheckShutdown
  PROVE  TypeOK' /\ UNCHANGED call
<1> USE ConversionAssumption DEF TypeOK, Rows, ThreadPcs, CallPcs, Procs, persisted, disk, encoder,
                                 handles, thread, locals, call, process, history, lapses, At,
                                 NextTurn
<1>1. CASE StartQueue
  BY <1>1 DEF StartQueue
<1>10. CASE RunEnds
  BY <1>10 DEF RunEnds
<1>2. CASE \E j \in Jobs : SourceMissing(j)
  BY <1>2 DEF SourceMissing, BookFailure, Book
<1>3. CASE \E j \in Jobs : ClaimJob(j)
  BY <1>3 DEF ClaimJob
<1>4. CASE SetCurrentJob
  BY <1>4 DEF SetCurrentJob
<1>5. CASE PrepareTarget
  BY <1>5 DEF PrepareTarget
<1>6. CASE SpawnFails \/ ClearUnspawned
  BY <1>6 DEF SpawnFails, ClearUnspawned, BookFailure, Book
<1>7. CASE Spawn
  BY <1>7 DEF Spawn
<1>8. CASE SetPid \/ StoreChild
  BY <1>8 DEF SetPid, StoreChild
<1>9. CASE RecheckShutdown
  <2>1. /\ proc' \in [Jobs -> Procs] /\ frozen' \in [Jobs -> BOOLEAN]
        /\ killed' \subseteq Jobs
    BY <1>9, KillTypes DEF RecheckShutdown
  <2> QED BY <1>9, <2>1 DEF RecheckShutdown
<1> QED BY <1>1, <1>2, <1>3, <1>4, <1>5, <1>6, <1>7, <1>8, <1>9, <1>10

\* From the wait to the booking.
LEMMA TypeSettle ==
  ASSUME TypeOK,
         Wait \/ ClearPid \/ ClearChild \/ ClearCurrentJob \/ Condemn \/ BookCondemned \/ DecideCleanup
           \/ RereadCleanupMode \/ ApplyInPlace \/ RenameTemp \/ ApplyDistinct \/ BookBotched
           \/ BookResult \/ RemovePartial \/ BookFailedEncode
  PROVE  TypeOK' /\ UNCHANGED call
<1> USE ConversionAssumption DEF TypeOK, Rows, ThreadPcs, CallPcs, Procs, persisted, disk, encoder,
                                 handles, thread, locals, call, process, history, lapses, At,
                                 NextTurn
<1>1. CASE Wait
  BY <1>1 DEF Wait
<1>2. CASE ClearPid \/ ClearChild \/ ClearCurrentJob
  BY <1>2 DEF ClearPid, ClearChild, ClearCurrentJob
<1>3. CASE Condemn
  BY <1>3 DEF Condemn
<1>4. CASE BookCondemned
  BY <1>4 DEF BookCondemned, BookFailure, Book
<1>5. CASE DecideCleanup \/ RereadCleanupMode
  BY <1>5 DEF DecideCleanup, RereadCleanupMode
<1>6. CASE ApplyInPlace
  <2>1. /\ src' \in [Jobs -> {"original", "encoded", "gone"}]
        /\ target' \in [Jobs -> {"none", "partial", "whole"}]
        /\ qpc' \in {"book", "rename", "botched"}
    BY <1>6 DEF ApplyInPlace
  <2>3. trash' \in [Jobs -> BOOLEAN]
    <3>1. trash' = trash \/ trash' = [trash EXCEPT ![job] = TRUE]
      BY <1>6 DEF ApplyInPlace
    <3>2. trash \in [Jobs -> BOOLEAN]
      OBVIOUS
    <3> QED BY ONLY <3>1, <3>2, BoolExcept, Zenon
  <2>2. /\ At("apply") /\ UNCHANGED job
        /\ UNCHANGED <<persisted, encoder, handles, shutdown, exit, kept, mode, call, process, history>>
    BY <1>6 DEF ApplyInPlace
  <2> QED BY <2>1, <2>2, <2>3
<1>7. CASE RenameTemp
  BY <1>7 DEF RenameTemp
<1>8. CASE ApplyDistinct
  <2>1. src' \in [Jobs -> {"original", "encoded", "gone"}]
    BY <1>8 DEF ApplyDistinct
  <2>2. trash' \in [Jobs -> BOOLEAN]
    <3>1. (mode = "trash" \/ trash[job]) \in BOOLEAN
      OBVIOUS
    <3>2. CASE UNCHANGED trash
      BY <3>2
    <3>3. CASE trash' = [trash EXCEPT ![job] = mode = "trash" \/ @]
      BY <3>1, <3>3, Zenon
    <3> QED BY <1>8, <3>2, <3>3 DEF ApplyDistinct
  <2>3. target' \in [Jobs -> {"none", "partial", "whole"}] /\ qpc' \in {"book", "botched"}
    BY <1>8 DEF ApplyDistinct
  <2> QED BY <1>8, <2>1, <2>2, <2>3 DEF ApplyDistinct
<1>9. CASE BookBotched
  BY <1>9 DEF BookBotched, BookFailure, Book
<1>10. CASE BookResult
  BY <1>10 DEF BookResult
<1>11. CASE RemovePartial
  BY <1>11 DEF RemovePartial
<1>12. CASE BookFailedEncode
  BY <1>12 DEF BookFailedEncode, BookFailure, Book
<1> QED BY <1>1, <1>2, <1>3, <1>4, <1>5, <1>6, <1>7, <1>8, <1>9, <1>10, <1>11, <1>12

\* HandBrake.
LEMMA TypeEncoder ==
  ASSUME TypeOK, NEW j \in Jobs, Encoder(j)
  PROVE  TypeOK' /\ UNCHANGED call
<1> USE ConversionAssumption DEF TypeOK, Rows, ThreadPcs, CallPcs, Procs, persisted, disk, encoder,
                                 handles, thread, locals, call, process, history, lapses
<1>1. CASE EncoderOpensTarget(j)
  BY <1>1 DEF EncoderOpensTarget
<1>2. CASE EncoderExits(j)
  <2>1. proc' \in [Jobs -> Procs] /\ target' \in [Jobs -> {"none", "partial", "whole"}]
    BY <1>2 DEF EncoderExits
  <2> QED BY <1>2, <2>1 DEF EncoderExits
<1> QED BY <1>1, <1>2 DEF Encoder

\* A call that returns has typed locals, and forgets that it booked anything.
LEMMA ReturnTypes ==
  ASSUME TypeOK, CallInv, NEW c \in Callers, Return(c)
  PROVE  /\ cpc' \in [Callers -> CallPcs]
         /\ cpid' \in [Callers -> Jobs \cup {NoJob}]
         /\ cjob' \in [Callers -> Jobs \cup {NoJob}]
         /\ cdone' \in [Callers -> BOOLEAN]
         /\ cpc'[c] = "idle" /\ ~cdone'[c]
         /\ \A d \in Callers \ {c} : cpc'[d] = cpc[d] /\ cpid'[d] = cpid[d] /\ cjob'[d] = cjob[d]
                                       /\ cdone'[d] = cdone[d]
BY DEF Return, Enter, TypeOK, CallPcs

\* Pause and Resume: each reads what it later uses.
LEMMA TypePause ==
  ASSUME TypeOK, CallInv, NEW c \in Callers,
         PauseReadsPid(c) \/ PauseReadsJob(c) \/ PauseStops(c) \/ PauseBooks(c)
           \/ ResumeUnpauses(c) \/ ResumeReadsPid(c) \/ ResumeReadsJob(c) \/ ResumeContinues(c)
           \/ ResumeBooks(c)
  PROVE  TypeOK' /\ CallInv'
<1> USE ConversionAssumption DEF TypeOK, CallInv, Rows, ThreadPcs, CallPcs, Procs, persisted, disk,
                                 encoder, handles, thread, locals, call, process, history, lapses, Begin,
                                 In, Enter
<1>1. CASE PauseReadsPid(c)
  BY <1>1 DEF PauseReadsPid
<1>6. CASE ResumeReadsPid(c)
  <2>1. /\ cpc[c] = "resumePid" /\ ~cdone[c]
        /\ cpc' = [cpc EXCEPT ![c] = "resumeJob"]
        /\ cpid' = [cpid EXCEPT ![c] = currentPid]
    BY <1>6 DEF ResumeReadsPid
  <2>2. UNCHANGED <<persisted, disk, encoder, handles, shutdown, thread, cjob, cdone, process, history>>
    BY <1>6 DEF ResumeReadsPid
  <2> QED BY <2>1, <2>2
<1>5. CASE ResumeUnpauses(c)
  <2>1. /\ cpc[c] = "idle" /\ ~cdone[c] /\ queuePaused' = FALSE
        /\ cpc' = [cpc EXCEPT ![c] = "resumePid"]
    BY <1>5 DEF ResumeUnpauses
  <2>2. UNCHANGED <<row, message, cleanupMode, disk, encoder, handles, shutdown, thread, cpid, cjob,
                    cdone, alive, ends, history>>
        /\ made' \in 0..MaxCalls
    BY <1>5 DEF ResumeUnpauses
  <2>3. /\ cpc' \in [Callers -> CallPcs]
        /\ cpc'[c] = "resumePid" /\ \A d \in Callers : d # c => cpc'[d] = cpc[d]
    BY <2>1
  <2>4. CallInv'
    BY <2>1, <2>2, <2>3
  <2>5. queuePaused' \in BOOLEAN
    BY <2>1
  <2>6. \A d \in Callers : /\ cpc'[d] = "pauseStop" \/ cpc'[d] = "resumeCont" => cpid'[d] \in Jobs
                           /\ cpc'[d] \in {"pauseRow", "resumeRow", "cancelFile"} => cjob'[d] \in Jobs
                           /\ cdone'[d] => cjob'[d] \in Jobs
    BY <2>2, <2>3
  <2>7. TypeOK'
    BY <2>2, <2>3, <2>5, <2>6
  <2> QED BY <2>4, <2>7
<1>2. CASE PauseReadsJob(c) \/ ResumeReadsJob(c)
  <2>1. CASE Return(c)
    BY <1>2, <2>1, ReturnTypes DEF PauseReadsJob, ResumeReadsJob
  <2>2. CASE cpid[c] # NoJob
    BY <1>2, <2>2 DEF PauseReadsJob, ResumeReadsJob
  <2> QED BY <1>2, <2>1, <2>2 DEF PauseReadsJob, ResumeReadsJob
<1>3. CASE PauseStops(c) \/ ResumeContinues(c)
  <2>1. frozen' \in [Jobs -> BOOLEAN]
    <3>1. LiveProc(cpid[c]) \in BOOLEAN /\ frozen \in [Jobs -> BOOLEAN]
      BY DEF LiveProc
    <3>2. CASE PauseStops(c)
      <4>1. frozen' = [frozen EXCEPT ![cpid[c]] = LiveProc(cpid[c])]
        BY <3>2 DEF PauseStops
      <4> QED BY ONLY <3>1, <4>1, BoolExcept, Zenon
    <3>3. CASE ResumeContinues(c)
      <4>1. frozen' = [frozen EXCEPT ![cpid[c]] = FALSE]
        BY <3>3 DEF ResumeContinues
      <4> QED BY ONLY <3>1, <4>1, BoolExcept, Zenon
    <3> QED BY <1>3, <3>2, <3>3
  <2>2. CASE Return(c)
    BY <1>3, <2>1, <2>2, ReturnTypes DEF PauseStops, ResumeContinues
  <2>3. CASE cjob[c] # NoJob
    BY <1>3, <2>1, <2>3 DEF PauseStops, ResumeContinues
  <2> QED BY <1>3, <2>2, <2>3 DEF PauseStops, ResumeContinues
<1>4. CASE PauseBooks(c) \/ ResumeBooks(c)
  <2>1. row' \in [Jobs -> Rows]
    BY <1>4 DEF PauseBooks, ResumeBooks, Book
  <2>3. queuePaused' \in BOOLEAN
    BY <1>4 DEF PauseBooks, ResumeBooks
  <2>4. misread' \subseteq Jobs
    BY <1>4 DEF PauseBooks, ResumeBooks, MakesRun
  <2>2. Return(c)
    BY <1>4 DEF PauseBooks, ResumeBooks
  <2> QED BY <1>4, <2>1, <2>2, <2>3, <2>4, ReturnTypes DEF PauseBooks, ResumeBooks
<1> QED BY <1>1, <1>2, <1>3, <1>4, <1>5, <1>6

\* Cancel, the quit handler and the cleanup setting.
LEMMA TypeCancel ==
  ASSUME TypeOK, CallInv, NEW c \in Callers,
         CancelReadsJob(c) \/ CancelBooks(c) \/ CancelKills(c) \/ CancelClearsPid(c)
           \/ CancelDeletes(c) \/ QuitLatches(c) \/ QuitKills(c) \/ SetCleanupMode(c)
           \/ DropQueuedInPlaceJobs(c)
  PROVE  TypeOK' /\ CallInv'
<1> USE ConversionAssumption DEF TypeOK, CallInv, Rows, ThreadPcs, CallPcs, Procs, persisted, disk,
                                 encoder, handles, thread, locals, call, process, history, lapses, Begin,
                                 In, Enter
<1>1. CASE CancelReadsJob(c)
  BY <1>1 DEF CancelReadsJob
<1>2. CASE CancelBooks(c)
  <2>1. row' \in [Jobs -> Rows] /\ message' \in [Jobs -> {"none", "cancelled", "failed"}]
    BY <1>2 DEF CancelBooks
  <2>2. queuePaused' \in BOOLEAN
    BY <1>2 DEF CancelBooks
  <2>3. /\ cpc' = [cpc EXCEPT ![c] = "cancelKill"]
        /\ UNCHANGED <<cdone, cjob>> \/ (cjob[c] \in Jobs /\ cjob' = cjob /\ cdone' = [cdone EXCEPT ![c] = TRUE])
    BY <1>2 DEF CancelBooks
  <2>4. cdone' \in [Callers -> BOOLEAN]
    <3>1. cdone \in [Callers -> BOOLEAN]
      OBVIOUS
    <3>2. cdone' = cdone \/ cdone' = [cdone EXCEPT ![c] = TRUE]
      BY <2>3
    <3> QED BY ONLY <3>1, <3>2, BoolExcept, Zenon
  <2>5. UNCHANGED <<cleanupMode, disk, encoder, handles, shutdown, thread, cpid, cjob, process, history>>
    BY <1>2 DEF CancelBooks
  <2>6. \A d \in Callers : /\ cdone'[d] => cjob'[d] \in Jobs
                           /\ cdone'[d] => cpc'[d] \in {"cancelKill", "cancelPid", "cancelFile"}
                           /\ cpc'[d] = "cancelFile" => cdone'[d]
                           /\ d # c => cpc'[d] = cpc[d] /\ cdone'[d] = cdone[d]
    BY <2>3, <2>5
  <2>7. cpc' \in [Callers -> CallPcs] /\ cpc'[c] = "cancelKill"
    BY <2>3
  <2>8. CallInv'
    BY <2>6 DEF CallInv
  <2>9. TypeOK'
    BY <2>1, <2>2, <2>4, <2>5, <2>6, <2>7
  <2> QED BY <2>8, <2>9
<1>3. CASE CancelKills(c)
  <2>1. /\ proc' \in [Jobs -> Procs]
        /\ missed' \subseteq Jobs
    BY <1>3 DEF CancelKills, PassesBy
  <2>2. frozen' \in [Jobs -> BOOLEAN]
    <3>1. frozen \in [Jobs -> BOOLEAN]
      OBVIOUS
    <3>2. frozen' = frozen \/ frozen' = [frozen EXCEPT ![currentChild] = FALSE]
      BY <1>3 DEF CancelKills
    <3> QED BY ONLY <3>1, <3>2, BoolExcept, Zenon
  <2>3. cpc' = [cpc EXCEPT ![c] = "cancelPid"] /\ currentChild' = NoJob
    BY <1>3 DEF CancelKills
  <2>4. UNCHANGED <<persisted, disk, currentJob, currentPid, shutdown, thread, cpid, cjob, cdone, process,
                    killed, purged, adrift, misread>>
    BY <1>3 DEF CancelKills
  <2> QED BY <2>1, <2>2, <2>3, <2>4
<1>4. CASE CancelClearsPid(c)
  <2>1. CASE cdone[c]
    BY <1>4, <2>1 DEF CancelClearsPid
  <2>2. CASE Return(c)
    BY <1>4, <2>2, ReturnTypes DEF CancelClearsPid
  <2> QED BY <1>4, <2>1, <2>2 DEF CancelClearsPid
<1>5. CASE CancelDeletes(c)
  <2>1. target' \in [Jobs -> {"none", "partial", "whole"}] /\ Return(c)
    BY <1>5 DEF CancelDeletes
  <2> QED BY <1>5, <2>1, ReturnTypes DEF CancelDeletes
<1>6. CASE QuitLatches(c)
  BY <1>6 DEF QuitLatches
<1>7. CASE QuitKills(c)
  <2>1. KillActiveChild /\ Return(c)
    BY <1>7 DEF QuitKills
  <2> QED BY <1>7, <2>1, KillTypes, ReturnTypes DEF QuitKills
<1>8. CASE SetCleanupMode(c)
  BY <1>8 DEF SetCleanupMode
<1>9. CASE DropQueuedInPlaceJobs(c)
  <2>1. row' \in [Jobs -> Rows] /\ Return(c)
    BY <1>9 DEF DropQueuedInPlaceJobs, InPlaceDropped
  <2> QED BY <1>9, <2>1, ReturnTypes DEF DropQueuedInPlaceJobs
<1> QED BY <1>1, <1>2, <1>3, <1>4, <1>5, <1>6, <1>7, <1>8, <1>9

\* The process's end and relaunch, and the removal of a queued row.
LEMMA TypeProcess ==
  ASSUME TypeOK, CallInv, ProcessEnds \/ Boot \/ (\E j \in Jobs : RemoveJob(j))
  PROVE  TypeOK' /\ CallInv'
<1> USE ConversionAssumption DEF TypeOK, CallInv, Rows, ThreadPcs, CallPcs, Procs, persisted, disk,
                                 encoder, handles, thread, locals, call, process, history, lapses
<1>1. CASE ProcessEnds
  <2>1. /\ proc' \in [Jobs -> Procs] /\ frozen' \in [Jobs -> BOOLEAN]
        /\ killed' \subseteq Jobs /\ adrift' \subseteq Jobs /\ misread' \subseteq Jobs
    BY <1>1 DEF ProcessEnds
  <2>2. /\ cpc' \in [Callers -> CallPcs] /\ cdone' \in [Callers -> BOOLEAN]
        /\ cpid' \in [Callers -> Jobs \cup {NoJob}] /\ cjob' \in [Callers -> Jobs \cup {NoJob}]
        /\ \A c \in Callers : cpc'[c] = "idle" /\ ~cdone'[c]
    BY <1>1 DEF ProcessEnds
  <2>3. ends' \in 0..MaxEnds
    BY <1>1 DEF ProcessEnds
  <2>4. /\ qpc' = "none" /\ job' = NoJob /\ ~alive' /\ ~shutdown'
        /\ alive' \in BOOLEAN /\ shutdown' \in BOOLEAN
        /\ currentJob' = NoJob /\ currentPid' = NoJob /\ currentChild' = NoJob
        /\ exit' = "bad" /\ kept' = "original" /\ mode' = "unread"
        /\ UNCHANGED <<persisted, disk, made, purged, missed>>
    BY <1>1 DEF ProcessEnds
  <2>5. CallInv'
    BY <2>2
  <2>6. TypeOK'
    BY <2>1, <2>2, <2>3, <2>4
  <2> QED BY <2>5, <2>6
<1>2. CASE Boot
  <2>1. row' \in [Jobs -> Rows] /\ target' \in [Jobs -> {"none", "partial", "whole"}]
    BY <1>2 DEF Boot, RecoverInterruptedJobs, InPlaceDropped
  <2>2. qpc' \in {"none", "next"}
    BY <1>2 DEF Boot
  <2>3. /\ alive' \in BOOLEAN
        /\ ~alive /\ job = NoJob
        /\ UNCHANGED <<src, message, queuePaused, cleanupMode, trash, encoder, handles, shutdown, job,
                       exit, kept, mode, call, ends, made, history>>
    BY <1>2 DEF Boot, RecoverInterruptedJobs
  <2>4. CallInv'
    BY <2>3
  <2>5. TypeOK'
    BY <2>1, <2>2, <2>3
  <2> QED BY <2>4, <2>5
<1>3. CASE \E j \in Jobs : RemoveJob(j)
  <2>1. row' \in [Jobs -> Rows]
    BY <1>3 DEF RemoveJob
  <2>2. UNCHANGED <<message, queuePaused, cleanupMode, disk, encoder, handles, shutdown, thread, call,
                    process, history>>
    BY <1>3 DEF RemoveJob
  <2> QED BY <2>1, <2>2
<1> QED BY <1>1, <1>2, <1>3

\* Types hold of every behaviour, with the fact about Cancel's memory that they rest on.
LEMMA TypeInvariant == Spec => [](TypeOK /\ CallInv)
<1>1. TypeOK /\ CallInv /\ [Next]_vars => TypeOK' /\ CallInv'
  <2> SUFFICES ASSUME TypeOK, CallInv, [Next]_vars PROVE TypeOK' /\ CallInv'
    OBVIOUS
  <2>1. UNCHANGED call => CallInv'
    BY DEF call, CallInv
  <2>2. CASE StartQueue \/ QueueThread
    BY <2>1, <2>2, TypeEncode, TypeSettle DEF QueueThread
  <2>3. CASE \E j \in Jobs : Encoder(j)
    BY <2>1, <2>3, TypeEncoder
  <2>4. CASE \E c \in Callers : CallBegins(c) \/ CallContinues(c)
    BY <2>4, TypePause, TypeCancel DEF CallBegins, CallContinues
  <2>5. CASE ProcessEnds \/ Boot \/ \E j \in Jobs : RemoveJob(j)
    BY <2>5, TypeProcess
  <2>6. CASE UNCHANGED vars
    BY <2>6 DEF vars, persisted, disk, encoder, handles, thread, locals, call, process, history, lapses,
        TypeOK, CallInv
  <2> QED BY <2>2, <2>3, <2>4, <2>5, <2>6 DEF Next
<1> QED BY TypeInit, <1>1, PTL DEF Spec

\* Every variable keeps its type: in particular no call signals, kills or deletes on behalf of a job
\* it has not read, and the thread never works without one.
THEOREM ConversionTypeCorrect == Spec => []TypeOK
BY TypeInvariant, PTL

-----------------------------------------------------------------------------
(* No original is lost.                                                    *)

\* A rename may go ahead only once the original is in the Trash, or on a verdict that read
\* `delete'.  This is what a trash that refuses, a setting changed half way, or a crash and relaunch
\* must not break.
TrashedFirst == qpc = "rename" => trash[job] \/ mode = "delete"

\* The files change in three steps of the thread, and nowhere else for the worse.
LEMMA OriginalThread ==
  ASSUME TypeOK, OriginalRecoverable, TrashedFirst, ApplyInPlace \/ RenameTemp \/ ApplyDistinct
  PROVE  OriginalRecoverable' /\ TrashedFirst'
<1>1. /\ job \in Jobs /\ mode \in CleanupModes /\ mode \in {"trash", "delete", "keep"}
      /\ src \in [Jobs -> {"original", "encoded", "gone"}] /\ trash \in [Jobs -> BOOLEAN]
      /\ job' = job /\ mode' = mode
  BY ConversionAssumption DEF TypeOK, ApplyInPlace, RenameTemp, ApplyDistinct, At, locals
<1>2. CASE ApplyInPlace
  <2>0. purged' = purged
    BY <1>2 DEF ApplyInPlace, history, lapses
  <2>1. CASE UNCHANGED <<src, trash>> /\ (qpc' = "rename" => mode = "delete")
    BY <1>1, <2>0, <2>1 DEF OriginalRecoverable, TrashedFirst
  <2>2. CASE src' = [src EXCEPT ![job] = "gone"] /\ trash' = [trash EXCEPT ![job] = TRUE]
    BY <1>1, <2>0, <2>2 DEF OriginalRecoverable, TrashedFirst
  <2> QED BY <1>2, <2>1, <2>2 DEF ApplyInPlace, disk
<1>3. CASE RenameTemp
  <2>1. UNCHANGED trash /\ qpc' # "rename" /\ (trash[job] \/ mode = "delete")
    BY <1>3 DEF RenameTemp, At, TrashedFirst
  <2>2. \/ UNCHANGED <<src, purged>>
        \/ /\ src' = [src EXCEPT ![job] = "encoded"]
           /\ purged' = IF mode = "delete" THEN purged \cup {job} ELSE purged
    BY <1>3 DEF RenameTemp
  <2> QED BY <1>1, <2>1, <2>2 DEF OriginalRecoverable, TrashedFirst
<1>4. CASE ApplyDistinct
  <2>1. qpc' # "rename"
    BY <1>4 DEF ApplyDistinct
  <2>2. CASE UNCHANGED <<src, trash, purged>>
    BY <2>1, <2>2 DEF OriginalRecoverable, TrashedFirst
  <2>3. CASE /\ mode # "keep" /\ src' = [src EXCEPT ![job] = "gone"]
             /\ trash' = [trash EXCEPT ![job] = mode = "trash" \/ @]
             /\ purged' = IF mode = "delete" THEN purged \cup {job} ELSE purged
    <3>1. \A j \in Jobs \ {job} : src'[j] = src[j] /\ trash'[j] = trash[j] /\ purged \subseteq purged'
      BY <1>1, <2>3
    <3>2. mode = "trash" => trash'[job]
      BY <1>1, <2>3, Zenon
    <3>3. mode = "delete" => job \in purged'
      BY <2>3
    <3> QED BY <1>1, <2>1, <2>3, <3>1, <3>2, <3>3 DEF OriginalRecoverable, TrashedFirst
  <2> QED BY <1>4, <2>2, <2>3 DEF ApplyDistinct, disk
<1> QED BY <1>2, <1>3, <1>4

\* No other step touches the source or the Trash, and none but the cleanup leads to a rename.
LEMMA OriginalElsewhere ==
  ASSUME OriginalRecoverable, TrashedFirst, Next,
         ~(ApplyInPlace \/ RenameTemp \/ ApplyDistinct)
  PROVE  OriginalRecoverable' /\ TrashedFirst'
<1> USE DEF persisted, disk, encoder, handles, thread, locals, call, process, history, lapses, NextTurn, At
<1>1. UNCHANGED <<src, trash, purged>>
  <2>1. CASE StartQueue \/ QueueThread
    BY <2>1 DEF QueueThread, StartQueue, RunEnds, SourceMissing, ClaimJob, SetCurrentJob,
       PrepareTarget, SpawnFails, ClearUnspawned, Spawn, SetPid, StoreChild, RecheckShutdown, Wait,
       ClearPid, ClearChild,
       ClearCurrentJob, Condemn, BookCondemned, DecideCleanup, RereadCleanupMode, BookBotched,
       BookResult, RemovePartial, BookFailedEncode
  <2>2. CASE \E c \in Callers : CallBegins(c) \/ CallContinues(c)
    BY <2>2 DEF CallBegins, CallContinues, PauseReadsPid, PauseReadsJob, PauseStops, PauseBooks,
       ResumeUnpauses, ResumeReadsPid, ResumeReadsJob, ResumeContinues, ResumeBooks, CancelReadsJob,
       CancelBooks, CancelKills, CancelClearsPid, CancelDeletes, QuitLatches, QuitKills,
       SetCleanupMode, DropQueuedInPlaceJobs
  <2>3. CASE ProcessEnds \/ Boot \/ \E j \in Jobs : Encoder(j) \/ RemoveJob(j)
    BY <2>3 DEF ProcessEnds, Boot, RecoverInterruptedJobs, Encoder, EncoderOpensTarget,
       EncoderExits, RemoveJob
  <2> QED BY <2>1, <2>2, <2>3 DEF Next
<1>2. qpc' = "rename" => qpc = "rename" /\ job' = job /\ mode' = mode
  <2>1. CASE StartQueue \/ QueueThread
    BY <2>1 DEF QueueThread, StartQueue, RunEnds, SourceMissing, ClaimJob, SetCurrentJob,
       PrepareTarget, SpawnFails, ClearUnspawned, Spawn, SetPid, StoreChild, RecheckShutdown, Wait,
       ClearPid, ClearChild,
       ClearCurrentJob, Condemn, BookCondemned, DecideCleanup, RereadCleanupMode, BookBotched,
       BookResult, RemovePartial, BookFailedEncode
  <2>2. CASE \E c \in Callers : CallBegins(c) \/ CallContinues(c)
    BY <2>2 DEF CallBegins, CallContinues, PauseReadsPid, PauseReadsJob, PauseStops, PauseBooks,
       ResumeUnpauses, ResumeReadsPid, ResumeReadsJob, ResumeContinues, ResumeBooks, CancelReadsJob,
       CancelBooks, CancelKills, CancelClearsPid, CancelDeletes, QuitLatches, QuitKills,
       SetCleanupMode, DropQueuedInPlaceJobs
  <2>3. CASE ProcessEnds \/ Boot \/ \E j \in Jobs : Encoder(j) \/ RemoveJob(j)
    BY <2>3 DEF ProcessEnds, Boot, Encoder, EncoderOpensTarget, EncoderExits, RemoveJob
  <2> QED BY <2>1, <2>2, <2>3 DEF Next
<1> QED BY <1>1, <1>2 DEF OriginalRecoverable, TrashedFirst

\* Only a cleanup that read `delete' destroys a user's original; otherwise it is at its path or in
\* the Trash: whatever calls race the encode, however the setting changes, whatever step of the
\* cleanup fails, and wherever the process ends and comes back.
THEOREM OriginalIsRecoverable == Spec => []OriginalRecoverable
<1>1. Init => OriginalRecoverable /\ TrashedFirst
  BY DEF Init, OriginalRecoverable, TrashedFirst
<1>2. TypeOK /\ CallInv /\ OriginalRecoverable /\ TrashedFirst /\ [Next]_vars
        => OriginalRecoverable' /\ TrashedFirst'
  <2> SUFFICES ASSUME TypeOK, OriginalRecoverable, TrashedFirst, [Next]_vars
               PROVE  OriginalRecoverable' /\ TrashedFirst'
    OBVIOUS
  <2>1. CASE Next
    BY <2>1, OriginalThread, OriginalElsewhere
  <2>2. CASE UNCHANGED vars
    BY <2>2 DEF vars, disk, thread, locals, history, lapses, OriginalRecoverable, TrashedFirst
  <2> QED BY <2>1, <2>2
<1> QED BY TypeInvariant, <1>1, <1>2, PTL DEF Spec

-----------------------------------------------------------------------------
(* What the quit path kills is left to the next launch.                    *)

\* A row the quit path may leave as it is.
Resumable(j) == row[j] \in Running \/ message[j] = "cancelled"

\* Inductive: an encoder that runs is the thread's own, and its handle is held from the moment it is
\* stored until it is reaped or a Cancel kills what it names; so what the quit path kills is a running
\* job, and the latch it set before keeps the thread from booking it.
QuitInv ==
  /\ \A j \in Jobs : LiveProc(j) => job = j /\ qpc \in {"setpid", "setchild", "recheck", "wait"}
  /\ qpc \in {"setjob", "prepare", "spawn", "setpid", "setchild", "recheck", "wait"} => Resumable(job)
  /\ currentChild # NoJob => currentChild = job /\ qpc \in {"recheck", "wait", "clear", "clearchild"}
  /\ qpc \in {"recheck", "wait"} /\ currentChild = NoJob => ~LiveProc(job)
  /\ \A j \in Jobs : j \in killed =>
       /\ shutdown /\ Resumable(j) /\ ~LiveProc(j) /\ proc[j] # "ok"
       /\ job = j => /\ qpc \in {"recheck", "wait", "clear", "clearchild", "clearjob", "partial"}
                     /\ qpc \in {"clear", "clearchild", "clearjob"} => exit = "bad"
  /\ ~alive => ~shutdown /\ qpc = "none"

\* Steps that neither move the thread nor touch a process or its handle.
LEMMA QuitFrame ==
  ASSUME TypeOK, QuitInv, \A j \in Jobs : Resumable(j) => Resumable(j)',
         UNCHANGED <<proc, killed, currentChild, qpc, job, exit, alive>>,
         shutdown' = shutdown \/ (alive /\ shutdown')
  PROVE  QuitInv'
BY DEF QuitInv, TypeOK, LiveProc, Resumable

\* The quit path's kill: of the thread's own encode, which is running or cancelled.
LEMMA QuitKill ==
  ASSUME TypeOK, QuitInv, shutdown, KillActiveChild, shutdown' = shutdown,
         UNCHANGED <<row, message, currentChild, job, exit, alive>>,
         qpc' = qpc \/ (qpc = "recheck" /\ qpc' = "wait")
  PROVE  QuitInv'
<1>1. CASE currentChild \in Jobs /\ LiveProc(currentChild)
  <2>1. /\ currentChild = job /\ job \in Jobs /\ qpc \in {"recheck", "wait"} /\ Resumable(job)
        /\ qpc' \in {"recheck", "wait"}
    BY <1>1, ConversionAssumption DEF QuitInv
  <2>2. /\ proc' = [proc EXCEPT ![job] = "killed"] /\ killed' = killed \cup {job}
        /\ proc \in [Jobs -> Procs] /\ killed \subseteq Jobs
    BY <1>1, <2>1 DEF KillActiveChild, TypeOK
  <2> QED BY <2>1, <2>2 DEF QuitInv, LiveProc, Resumable
<1>2. CASE ~(currentChild \in Jobs /\ LiveProc(currentChild))
  BY <1>2 DEF KillActiveChild, encoder, QuitInv, LiveProc, Resumable
<1> QED BY <1>1, <1>2

\* From the claim to the stored handle; nothing the quit path killed is claimed or spawned.
LEMMA QuitEncode ==
  ASSUME TypeOK, QuitInv,
         StartQueue \/ RunEnds \/ (\E j \in Jobs : SourceMissing(j) \/ ClaimJob(j)) \/ SetCurrentJob
           \/ PrepareTarget \/ SpawnFails \/ ClearUnspawned \/ Spawn \/ SetPid \/ StoreChild \/ RecheckShutdown
  PROVE  QuitInv'
<1> USE ConversionAssumption DEF persisted, disk, encoder, handles, thread, locals, call, process,
    history, lapses, At,
                                 NextTurn
<1>0. /\ row \in [Jobs -> Rows] /\ message \in [Jobs -> {"none", "cancelled", "failed"}]
      /\ proc \in [Jobs -> Procs] /\ currentChild \in Jobs \cup {NoJob}
      /\ qpc \notin {"none", "next"} => job \in Jobs
  BY DEF TypeOK
<1>1. CASE StartQueue \/ RunEnds \/ SetCurrentJob \/ PrepareTarget \/ SetPid
  BY <1>0, <1>1 DEF StartQueue, RunEnds, SetCurrentJob, PrepareTarget, SetPid, QuitInv, LiveProc,
     Resumable
<1>2. CASE \E j \in Jobs : SourceMissing(j) \/ ClaimJob(j)
  <2>1. PICK j \in Jobs : SourceMissing(j) \/ ClaimJob(j)
    BY <1>2
  <2>2. ~shutdown /\ qpc = "next" /\ UNCHANGED <<proc, killed, currentChild, shutdown, alive>>
    BY <2>1 DEF SourceMissing, ClaimJob
  <2>3. currentChild = NoJob /\ \A i \in Jobs : i \notin killed /\ ~LiveProc(i)
    BY <2>2 DEF QuitInv
  <2>4. qpc' = "next" \/ (qpc' = "setjob" /\ Resumable(job)')
    BY <1>0, <2>1 DEF SourceMissing, ClaimJob, Resumable, Running
  <2>5. \A i \in Jobs : ~LiveProc(i)'
    BY <2>2, <2>3 DEF LiveProc
  <2>6. alive
    BY <2>1 DEF SourceMissing, ClaimJob
  <2> QED BY <2>2, <2>3, <2>4, <2>5, <2>6 DEF QuitInv
<1>7. CASE ClearUnspawned
  <2>1. qpc' = "next" /\ job' = NoJob /\ UNCHANGED <<row, message, proc, killed, currentChild, shutdown, alive>>
        /\ qpc = "unspawned"
    BY <1>7 DEF ClearUnspawned
  <2> QED BY <1>0, <2>1 DEF QuitInv, LiveProc, Resumable
<1>3. CASE SpawnFails
  <2>1. job \notin killed /\ currentChild = NoJob /\ \A i \in Jobs : ~LiveProc(i)
    BY <1>0, <1>3 DEF SpawnFails, QuitInv
  <2>2. \A i \in Jobs \ {job} : Resumable(i) => Resumable(i)'
    BY <1>0, <1>3 DEF SpawnFails, BookFailure, Book, Resumable
  <2> QED BY <1>0, <1>3, <2>1, <2>2 DEF SpawnFails, QuitInv, LiveProc
<1>4. CASE Spawn
  BY <1>0, <1>4 DEF Spawn, QuitInv, LiveProc, Resumable
<1>5. CASE StoreChild
  BY <1>0, <1>5 DEF StoreChild, QuitInv, LiveProc, Resumable
<1>6. CASE RecheckShutdown
  <2>1. CASE shutdown
    BY <1>6, <2>1, QuitKill DEF RecheckShutdown
  <2>2. CASE ~shutdown
    BY <1>0, <1>6, <2>2 DEF RecheckShutdown, QuitInv, LiveProc, Resumable
  <2> QED BY <2>1, <2>2
<1> QED BY <1>1, <1>2, <1>3, <1>4, <1>5, <1>6, <1>7

\* From the wait to the booking: only a failed exit leads past a quit, and there the latch is seen.
LEMMA QuitSettle ==
  ASSUME TypeOK, QuitInv,
         Wait \/ ClearPid \/ ClearChild \/ ClearCurrentJob \/ Condemn \/ BookCondemned \/ DecideCleanup
           \/ RereadCleanupMode \/ ApplyInPlace \/ RenameTemp \/ ApplyDistinct \/ BookBotched
           \/ BookResult \/ RemovePartial \/ BookFailedEncode
  PROVE  QuitInv'
<1> USE ConversionAssumption DEF persisted, disk, encoder, handles, thread, locals, call, process,
    history, lapses, At,
                                 NextTurn
<1>0. /\ row \in [Jobs -> Rows] /\ message \in [Jobs -> {"none", "cancelled", "failed"}]
      /\ proc \in [Jobs -> Procs] /\ currentChild \in Jobs \cup {NoJob}
      /\ qpc \notin {"none", "next"} => job \in Jobs
  BY DEF TypeOK
<1>1. CASE Wait
  <2>1. /\ qpc = "wait" /\ qpc' = "clear" /\ alive /\ job \in Jobs
        /\ UNCHANGED <<row, message, killed, currentChild, job, shutdown, alive>>
        /\ \A j \in Jobs : proc'[j] \in {proc[j], "none"}
    BY <1>0, <1>1 DEF Wait
  <2>2. ~LiveProc(job) /\ (proc[job] # "ok" => exit' = "bad")
    BY <1>0, <1>1 DEF Wait, QuitInv, LiveProc
  <2>3. \A j \in Jobs : ~LiveProc(j)'
    BY <2>1, <2>2 DEF QuitInv, LiveProc
  <2>4. \A j \in Jobs : j \in killed => proc'[j] # "ok" /\ (job = j => exit' = "bad")
    BY <2>1, <2>2 DEF QuitInv
  <2> QED BY <2>1, <2>3, <2>4 DEF QuitInv, Resumable
<1>2. CASE ClearPid \/ ClearChild \/ ClearCurrentJob
  BY <1>0, <1>2 DEF ClearPid, ClearChild, ClearCurrentJob, QuitInv, LiveProc, Resumable
<1>3. CASE Condemn \/ DecideCleanup \/ RereadCleanupMode \/ ApplyInPlace \/ RenameTemp \/ ApplyDistinct
  <2>1. /\ qpc \in {"judge", "reread", "apply", "rename"} /\ job \in Jobs
        /\ qpc' \in {"condemn", "reread", "apply", "rename", "book", "botched"} /\ alive
        /\ UNCHANGED <<row, message, proc, killed, currentChild, job, exit, shutdown, alive>>
    BY <1>0, <1>3 DEF Condemn, DecideCleanup, RereadCleanupMode, ApplyInPlace, RenameTemp,
       ApplyDistinct
  <2> QED BY <2>1 DEF QuitInv, LiveProc, Resumable
<1>4. CASE BookCondemned \/ BookBotched \/ BookResult \/ BookFailedEncode
  <2>1. /\ qpc \in {"condemn", "botched", "book", "verdict"} /\ job \in Jobs
        /\ qpc' = "next" /\ job' = NoJob /\ alive
        /\ UNCHANGED <<proc, killed, currentChild, shutdown, alive>>
    BY <1>0, <1>4 DEF BookCondemned, BookBotched, BookResult, BookFailedEncode
  <2>2. job \notin killed /\ currentChild = NoJob /\ \A i \in Jobs : ~LiveProc(i)
    BY <2>1 DEF QuitInv
  <2>3. \A i \in Jobs \ {job} : Resumable(i) => Resumable(i)'
    BY <1>0, <1>4 DEF BookCondemned, BookBotched, BookResult, BookFailedEncode, BookFailure, Book,
       Resumable
  <2> QED BY <2>1, <2>2, <2>3 DEF QuitInv, LiveProc
<1>5. CASE RemovePartial
  BY <1>0, <1>5 DEF RemovePartial, QuitInv, LiveProc, Resumable
<1> QED BY <1>1, <1>2, <1>3, <1>4, <1>5
\* HandBrake ends by itself only while nobody has killed it.
LEMMA QuitEncoder ==
  ASSUME TypeOK, QuitInv, NEW j \in Jobs, Encoder(j)
  PROVE  QuitInv'
<1>1. /\ LiveProc(j) /\ proc \in [Jobs -> Procs]
      /\ \E p \in Procs : proc' = [proc EXCEPT ![j] = p]
      /\ UNCHANGED <<row, message, killed, currentChild, qpc, job, exit, shutdown, alive>>
  BY DEF Encoder, EncoderOpensTarget, EncoderExits, LiveProc, Procs, TypeOK, persisted, handles,
     thread, locals, process, history
<1> QED BY <1>1 DEF QuitInv, LiveProc, Resumable

\* A quit between its two critical sections has latched, and nothing takes the latch back before
\* the process has ended, the call with it.
LatchInv == \A c \in Callers : cpc[c] = "quitKill" => shutdown

LEMMA LatchStep == ASSUME TypeOK, LatchInv, Next PROVE LatchInv'
<1> USE DEF call
<1>0. cpc \in [Callers -> CallPcs]
  BY DEF TypeOK
<1>1. CASE StartQueue \/ QueueThread
  <2>1. UNCHANGED <<cpc, shutdown>>
    BY <1>1 DEF QueueThread, StartQueue, RunEnds, SourceMissing, ClaimJob, SetCurrentJob,
       PrepareTarget, SpawnFails, ClearUnspawned, Spawn, SetPid, StoreChild, RecheckShutdown, Wait,
       ClearPid, ClearChild,
       ClearCurrentJob, Condemn, BookCondemned, DecideCleanup, RereadCleanupMode, ApplyInPlace,
       RenameTemp, ApplyDistinct, BookBotched, BookResult, RemovePartial, BookFailedEncode
  <2> QED BY <2>1 DEF LatchInv
<1>2. CASE \E c \in Callers : CallBegins(c) \/ CallContinues(c)
  <2>1. PICK c \in Callers : CallBegins(c) \/ CallContinues(c)
    BY <1>2
  <2>2. \/ shutdown'
        \/ shutdown' = shutdown /\ \E pc \in CallPcs \ {"quitKill"} : cpc' = [cpc EXCEPT ![c] = pc]
    BY <2>1 DEF CallBegins, CallContinues, PauseReadsPid, PauseReadsJob, PauseStops, PauseBooks,
       ResumeUnpauses, ResumeReadsPid, ResumeReadsJob, ResumeContinues, ResumeBooks, CancelReadsJob,
       CancelBooks, CancelKills, CancelClearsPid, CancelDeletes, QuitLatches, QuitKills,
       SetCleanupMode, DropQueuedInPlaceJobs, Return, Enter, CallPcs
  <2> QED BY <1>0, <2>2 DEF LatchInv
<1>3. CASE ProcessEnds \/ Boot \/ \E j \in Jobs : Encoder(j) \/ RemoveJob(j)
  BY <1>3 DEF ProcessEnds, Boot, Encoder, EncoderOpensTarget, EncoderExits, RemoveJob, LatchInv
<1> QED BY <1>1, <1>2, <1>3 DEF Next

\* A Cancel books its row as cancelled and kills what the handle names; no other call books
\* anything but a running state, and the latch is set before the child is looked for.
LEMMA QuitCalls ==
  ASSUME TypeOK, LatchInv, QuitInv, NEW c \in Callers, CallBegins(c) \/ CallContinues(c)
  PROVE  QuitInv'
<1> USE ConversionAssumption DEF persisted, disk, encoder, handles, thread, locals, call, process,
    history, lapses, Begin, In,
                                 Enter
<1>0. /\ row \in [Jobs -> Rows] /\ message \in [Jobs -> {"none", "cancelled", "failed"}]
      /\ proc \in [Jobs -> Procs] /\ currentChild \in Jobs \cup {NoJob}
      /\ killed \subseteq Jobs
      /\ qpc \notin {"none", "next"} => job \in Jobs
  BY DEF TypeOK
<1>1. CASE \/ PauseReadsPid(c) \/ ResumeUnpauses(c) \/ CancelReadsJob(c) \/ SetCleanupMode(c)
           \/ PauseReadsJob(c) \/ PauseStops(c) \/ ResumeReadsPid(c) \/ ResumeReadsJob(c)
           \/ ResumeContinues(c) \/ CancelClearsPid(c) \/ CancelDeletes(c)
  <2>1. UNCHANGED <<row, message, proc, killed, currentChild, qpc, job, exit, alive, shutdown>>
    BY <1>1 DEF PauseReadsPid, ResumeUnpauses, CancelReadsJob, SetCleanupMode, PauseReadsJob,
       PauseStops, ResumeReadsPid, ResumeReadsJob, ResumeContinues, CancelClearsPid, CancelDeletes
  <2> QED BY <2>1, QuitFrame DEF Resumable
<1>2. CASE PauseBooks(c) \/ ResumeBooks(c) \/ CancelBooks(c) \/ DropQueuedInPlaceJobs(c)
  <2>1. UNCHANGED <<proc, killed, currentChild, qpc, job, exit, alive, shutdown>>
    BY <1>2 DEF PauseBooks, ResumeBooks, CancelBooks, DropQueuedInPlaceJobs
  <2>2. ASSUME NEW j \in Jobs, Resumable(j) PROVE Resumable(j)'
    <3>1. CASE PauseBooks(c) \/ ResumeBooks(c)
      BY <1>0, <2>2, <3>1 DEF PauseBooks, ResumeBooks, Book, Resumable, Running
    <3>2. CASE CancelBooks(c)
      BY <1>0, <2>2, <3>2 DEF CancelBooks, Resumable
    <3>3. CASE DropQueuedInPlaceJobs(c)
      BY <1>0, <2>2, <3>3 DEF DropQueuedInPlaceJobs, InPlaceDropped, Resumable, Running
    <3> QED BY <1>2, <3>1, <3>2, <3>3
  <2> QED BY <2>1, <2>2, QuitFrame
<1>3. CASE CancelKills(c)
  <2>1. currentChild' = NoJob
        /\ UNCHANGED <<row, message, qpc, job, exit, shutdown, alive>>
    BY <1>3 DEF CancelKills
  <2>2. CASE currentChild = NoJob
    <3>1. UNCHANGED <<proc, killed>>
      BY <1>3, <2>2 DEF CancelKills
    <3> QED BY <2>1, <2>2, <3>1 DEF QuitInv, LiveProc, Resumable
  <2>3. CASE currentChild # NoJob
    <3>1. currentChild = job /\ job \in Jobs /\ qpc \in {"recheck", "wait", "clear", "clearchild"}
      BY <1>0, <2>3 DEF QuitInv
    <3>2. /\ proc' = [proc EXCEPT ![job] = "none"]
          /\ killed' = killed
      BY <1>3, <3>1 DEF CancelKills
    <3>3. \A j \in Jobs : j \in killed' => j \in killed
      BY <1>0, <3>1, <3>2
    <3> QED BY <1>0, <2>1, <3>1, <3>2, <3>3 DEF QuitInv, LiveProc, Resumable
  <2> QED BY <2>2, <2>3
<1>4. CASE QuitLatches(c)
  BY <1>4, QuitFrame DEF QuitLatches, Resumable
<1>5. CASE QuitKills(c)
  <2>1. shutdown
    BY <1>5 DEF QuitKills, LatchInv
  <2> QED BY <1>5, <2>1, QuitKill DEF QuitKills
<1> QED BY <1>1, <1>2, <1>3, <1>4, <1>5 DEF CallBegins, CallContinues

LEMMA QuitProcess ==
  ASSUME TypeOK, QuitInv, ProcessEnds \/ Boot \/ \E j \in Jobs : RemoveJob(j)
  PROVE  QuitInv'
<1> USE ConversionAssumption DEF persisted, disk, encoder, handles, thread, locals, call, process,
    history, lapses
<1>1. CASE ProcessEnds
  BY <1>1 DEF ProcessEnds, QuitInv, LiveProc
<1>2. CASE Boot
  <2>1. /\ UNCHANGED <<proc, killed, currentChild, job, exit, shutdown>>
        /\ qpc = "none" /\ ~shutdown /\ qpc' \in {"none", "next"} /\ alive'
    BY <1>2 DEF Boot, QuitInv
  <2>2. \A j \in Jobs : ~LiveProc(j) /\ j \notin killed
    BY <2>1 DEF QuitInv
  <2>3. currentChild = NoJob
    BY <2>1 DEF QuitInv
  <2> QED BY <2>1, <2>2, <2>3 DEF QuitInv, LiveProc
<1>3. CASE \E j \in Jobs : RemoveJob(j)
  <2>1. \A i \in Jobs : Resumable(i) => Resumable(i)'
    BY <1>3 DEF RemoveJob, Resumable, Running, TypeOK
  <2>2. UNCHANGED <<proc, killed, currentChild, qpc, job, exit, alive, shutdown>>
    BY <1>3 DEF RemoveJob
  <2> QED BY <2>1, <2>2, QuitFrame
<1> QED BY <1>1, <1>2, <1>3

\* An encode that the quit path kills, from the exit handler or by the thread itself in the window
\* before its handle is stored, is not booked as a failure: whatever calls race the quit, its row
\* stays one the next launch requeues, unless the user cancelled it.
THEOREM QuitIsResumable == Spec => []QuitLeavesJobResumable
<1>1. Init => LatchInv /\ QuitInv
  BY DEF Init, LatchInv, QuitInv, LiveProc
<1>2. TypeOK /\ LatchInv /\ QuitInv /\ [Next]_vars => LatchInv' /\ QuitInv'
  <2> SUFFICES ASSUME TypeOK, LatchInv, QuitInv, [Next]_vars PROVE LatchInv' /\ QuitInv'
    OBVIOUS
  <2>1. CASE Next
    BY <2>1, LatchStep, QuitEncode, QuitSettle, QuitEncoder, QuitCalls, QuitProcess
       DEF Next, QueueThread
  <2>2. CASE UNCHANGED vars
    BY <2>2 DEF vars, persisted, encoder, handles, thread, locals, call, process, history, lapses,
        LatchInv, QuitInv, LiveProc,
       Resumable
  <2> QED BY <2>1, <2>2
<1>3. QuitInv => QuitLeavesJobResumable
  BY DEF QuitInv, QuitLeavesJobResumable, Resumable
<1> QED BY TypeInvariant, <1>1, <1>2, <1>3, PTL DEF Spec
-----------------------------------------------------------------------------
(* The handles, and what calls have read of them.                         *)

\* The handles name the thread's own encode; its encoder lives only while it can be waited for, and
\* its pid is known unless a Cancel forgot it.
Encoding == {"setchild", "recheck", "wait"}
HandleInv ==
  /\ currentJob = IF qpc \in {"prepare", "spawn", "unspawned", "setpid", "setchild", "recheck", "wait",
                              "clear", "clearchild", "clearjob"} THEN job ELSE NoJob
  /\ \A j \in Jobs : proc[j] # "none" => job = j /\ qpc \in Encoding \cup {"setpid"}
  /\ currentChild # NoJob => currentChild = job /\ qpc \in {"recheck", "wait", "clear", "clearchild"}
  /\ currentPid # NoJob => currentPid = job /\ qpc \in Encoding \cup {"clear"}
  /\ qpc \in {"recheck", "wait"} /\ currentChild = NoJob => proc[job] = "none"
  /\ qpc \in Encoding /\ LiveProc(job) => currentPid = job \/ job \in adrift

\* The row of the thread's job is running, or in error.
RowInv == qpc \notin {"none", "next"} => row[job] \in Running \cup {"error"}

\* What a call has read is a job that was claimed, and will not be claimed again before the process
\* ends; a Pause that read the pid of an encode still under way has its job too.
ReadInv ==
  /\ ~alive => Quiet /\ qpc = "none"
  /\ \A c \in Callers :
       /\ cpc[c] = "idle" => cpid[c] = NoJob /\ cjob[c] = NoJob
       /\ cjob[c] \in Jobs => row[cjob[c]] # "queued"
       /\ cpid[c] \in Jobs => /\ row[cpid[c]] # "queued"
                              /\ cpid[c] = job => qpc \notin {"setjob", "prepare", "spawn", "setpid"}
       /\ cpc[c] = "pauseStop" /\ cpid[c] = job /\ qpc \in Encoding => cjob[c] = job

ReadyInv == HandleInv /\ RowInv /\ ReadInv

LEMMA ReadyInit == Init => ReadyInv
BY ConversionAssumption DEF Init, ReadyInv, HandleInv, RowInv, ReadInv, LiveProc, Quiet, Encoding

\* The queue thread: it alone moves the handles on.
LEMMA ReadyThread ==
  ASSUME TypeOK, ReadyInv, StartQueue \/ QueueThread
  PROVE  ReadyInv'
<1> USE ConversionAssumption DEF ReadyInv, HandleInv, RowInv, ReadInv, LiveProc, Quiet, Encoding, Running,
        persisted, disk, encoder, handles, thread, locals, call, process, history, lapses, At, NextTurn
<1>0. /\ row \in [Jobs -> Rows] /\ proc \in [Jobs -> Procs]
      /\ qpc \notin {"none", "next"} => job \in Jobs
      /\ qpc \in {"none", "next"} => job = NoJob
      /\ cpid \in [Callers -> Jobs \cup {NoJob}] /\ cjob \in [Callers -> Jobs \cup {NoJob}]
      /\ adrift \subseteq Jobs
  BY DEF TypeOK
<1>1. CASE StartQueue \/ RunEnds
  BY <1>0, <1>1 DEF StartQueue, RunEnds
<1>2. CASE \E j \in Jobs : SourceMissing(j)
  BY <1>0, <1>2 DEF SourceMissing, IsNext, BookFailure, Book
<1>3. CASE \E j \in Jobs : ClaimJob(j)
  BY <1>0, <1>3 DEF ClaimJob, IsNext
<1>4. CASE SetCurrentJob \/ PrepareTarget
  BY <1>0, <1>4 DEF SetCurrentJob, PrepareTarget
<1>5. CASE SpawnFails
  BY <1>0, <1>5 DEF SpawnFails, BookFailure, Book
<1>6. CASE ClearUnspawned
  BY <1>0, <1>6 DEF ClearUnspawned
<1>7. CASE Spawn
  BY <1>0, <1>7 DEF Spawn
<1>8. CASE SetPid
  BY <1>0, <1>8 DEF SetPid
<1>9. CASE StoreChild
  BY <1>0, <1>9 DEF StoreChild
<1>10. CASE RecheckShutdown
  BY <1>0, <1>10 DEF RecheckShutdown, KillActiveChild
<1>11. CASE Wait
  BY <1>0, <1>11 DEF Wait
<1>12. CASE ClearPid \/ ClearChild
  BY <1>0, <1>12 DEF ClearPid, ClearChild
<1>13. CASE ClearCurrentJob
  BY <1>0, <1>13 DEF ClearCurrentJob
<1>14. CASE Condemn \/ DecideCleanup \/ RereadCleanupMode \/ ApplyInPlace \/ RenameTemp \/ ApplyDistinct
  <2>1. /\ qpc \in {"judge", "reread", "apply", "rename"}
        /\ qpc' \in {"condemn", "reread", "apply", "rename", "book", "botched"}
        /\ alive /\ UNCHANGED <<row, proc, handles, job, call, alive, adrift>>
    BY <1>14 DEF Condemn, DecideCleanup, RereadCleanupMode, ApplyInPlace, RenameTemp, ApplyDistinct
  <2> QED BY <1>0, <2>1
<1>15. CASE BookCondemned \/ BookBotched \/ BookFailedEncode \/ BookResult
  <2>1. /\ qpc \in {"condemn", "botched", "verdict", "book"} /\ qpc' = "next" /\ job' = NoJob
        /\ alive /\ UNCHANGED <<proc, handles, call, alive, adrift>>
    BY <1>15 DEF BookCondemned, BookBotched, BookFailedEncode, BookResult
  <2>2. \A j \in Jobs : row'[j] = "queued" => row[j] = "queued" /\ j # job
    BY <1>0, <1>15, <2>1 DEF BookCondemned, BookBotched, BookFailedEncode, BookResult, BookFailure, Book
  <2> QED BY <1>0, <2>1, <2>2
<1>16. CASE RemovePartial
  BY <1>0, <1>16 DEF RemovePartial
<1> QED BY <1>1, <1>2, <1>3, <1>4, <1>5, <1>6, <1>7, <1>8, <1>9, <1>10, <1>11, <1>12, <1>13, <1>14,
           <1>15, <1>16 DEF QueueThread

\* HandBrake changes what its process is, not whose.
LEMMA ReadyEncoder ==
  ASSUME TypeOK, ReadyInv, NEW j \in Jobs, Encoder(j)
  PROVE  ReadyInv'
<1>1. /\ LiveProc(j) /\ proc \in [Jobs -> Procs]
      /\ \E p \in {"writing", "ok", "bad"} : proc' = [proc EXCEPT ![j] = p]
      /\ UNCHANGED <<row, handles, qpc, job, call, alive, adrift>>
  BY DEF Encoder, EncoderOpensTarget, EncoderExits, LiveProc, TypeOK, persisted, thread, locals, process,
     history, lapses
<1> QED BY <1>1, ConversionAssumption DEF ReadyInv, HandleInv, RowInv, ReadInv, LiveProc, Quiet, Encoding,
           Running, handles, call

\* A call reads handles, takes them or a process away, and never books a row as queued.
LEMMA ReadyCalls ==
  ASSUME TypeOK, ReadyInv, NEW c \in Callers, CallBegins(c) \/ CallContinues(c)
  PROVE  ReadyInv'
<1> USE ConversionAssumption DEF ReadyInv, HandleInv, RowInv, ReadInv, LiveProc, Quiet, Encoding, Running,
        persisted, disk, encoder, handles, thread, locals, call, process, history, lapses, Begin, In,
        Enter, Return
<1>0. /\ row \in [Jobs -> Rows] /\ proc \in [Jobs -> Procs]
      /\ currentJob \in Jobs \cup {NoJob} /\ currentPid \in Jobs \cup {NoJob}
      /\ currentChild \in Jobs \cup {NoJob}
      /\ qpc \notin {"none", "next"} => job \in Jobs
      /\ qpc \in {"none", "next"} => job = NoJob
      /\ cpc \in [Callers -> CallPcs]
      /\ cpid \in [Callers -> Jobs \cup {NoJob}] /\ cjob \in [Callers -> Jobs \cup {NoJob}]
      /\ adrift \subseteq Jobs
  BY DEF TypeOK
<1>1. CASE PauseReadsPid(c)
  BY <1>0, <1>1 DEF PauseReadsPid
<1>2. CASE ResumeReadsPid(c)
  BY <1>0, <1>2 DEF ResumeReadsPid
<1>3. CASE PauseReadsJob(c)
  BY <1>0, <1>3 DEF PauseReadsJob
<1>4. CASE ResumeReadsJob(c)
  BY <1>0, <1>4 DEF ResumeReadsJob
<1>5. CASE PauseStops(c) \/ ResumeContinues(c)
  BY <1>0, <1>5 DEF PauseStops, ResumeContinues
<1>6. CASE PauseBooks(c) \/ ResumeBooks(c)
  BY <1>0, <1>6 DEF PauseBooks, ResumeBooks, Book
<1>7. CASE CancelReadsJob(c)
  BY <1>0, <1>7 DEF CancelReadsJob
<1>8. CASE CancelBooks(c)
  BY <1>0, <1>8 DEF CancelBooks
<1>9. CASE CancelKills(c)
  BY <1>0, <1>9 DEF CancelKills
<1>10. CASE CancelClearsPid(c)
  BY <1>0, <1>10 DEF CancelClearsPid
<1>11. CASE CancelDeletes(c)
  BY <1>0, <1>11 DEF CancelDeletes
<1>12. CASE ResumeUnpauses(c) \/ QuitLatches(c)
  BY <1>0, <1>12 DEF ResumeUnpauses, QuitLatches
<1>13. CASE QuitKills(c)
  BY <1>0, <1>13 DEF QuitKills, KillActiveChild
<1>14. CASE SetCleanupMode(c)
  BY <1>0, <1>14 DEF SetCleanupMode
<1>15. CASE DropQueuedInPlaceJobs(c)
  BY <1>0, <1>15 DEF DropQueuedInPlaceJobs, InPlaceDropped
<1> QED BY <1>1, <1>2, <1>3, <1>4, <1>5, <1>6, <1>7, <1>8, <1>9, <1>10, <1>11, <1>12, <1>13, <1>14, <1>15
        DEF CallBegins, CallContinues

\* The end of the process takes every handle, call and encoder along.
LEMMA ReadyProcess ==
  ASSUME TypeOK, ReadyInv, ProcessEnds \/ Boot \/ \E j \in Jobs : RemoveJob(j)
  PROVE  ReadyInv'
<1> USE ConversionAssumption DEF ReadyInv, HandleInv, RowInv, ReadInv, LiveProc, Quiet, Encoding, Running,
        persisted, disk, encoder, handles, thread, locals, call, process, history, lapses
<1>0. /\ row \in [Jobs -> Rows] /\ (qpc \notin {"none", "next"} => job \in Jobs)
      /\ qpc \in {"none", "next"} => job = NoJob
      /\ cpid \in [Callers -> Jobs \cup {NoJob}] /\ cjob \in [Callers -> Jobs \cup {NoJob}]
  BY DEF TypeOK
<1>1. CASE ProcessEnds
  BY <1>0, <1>1 DEF ProcessEnds
<1>2. CASE Boot
  BY <1>0, <1>2 DEF Boot, RecoverInterruptedJobs, InPlaceDropped
<1>3. CASE \E j \in Jobs : RemoveJob(j)
  BY <1>0, <1>3 DEF RemoveJob
<1> QED BY <1>1, <1>2, <1>3

\* The three together are inductive, with the types.
LEMMA ReadyInvariant == Spec => [](TypeOK /\ CallInv /\ ReadyInv)
<1>1. TypeOK /\ CallInv /\ ReadyInv /\ [Next]_vars => ReadyInv'
  <2> SUFFICES ASSUME TypeOK, CallInv, ReadyInv, [Next]_vars PROVE ReadyInv'
    OBVIOUS
  <2>1. CASE Next
    BY <2>1, ReadyThread, ReadyEncoder, ReadyCalls, ReadyProcess DEF Next
  <2>2. CASE UNCHANGED vars
    BY <2>2 DEF vars, persisted, encoder, handles, thread, locals, call, process, history, lapses, ReadyInv,
       HandleInv, RowInv, ReadInv, LiveProc, Quiet
  <2> QED BY <2>1, <2>2
<1> QED BY TypeInvariant, ReadyInit, <1>1, PTL DEF Spec

-----------------------------------------------------------------------------
(* The files.                                                              *)

\* A Cancel that killed the encode of its own job: the thread is on its way to see that.
KillSeen ==
  \/ qpc \in {"recheck", "wait"} /\ currentChild = NoJob
  \/ qpc \in {"clear", "clearchild", "clearjob"} /\ exit = "bad"
  \/ qpc \in {"partial", "verdict"}
KillInv ==
  \A c \in Callers : cdone[c] /\ cpc[c] \in {"cancelPid", "cancelFile"} /\ cjob[c] \notin missed =>
    src[cjob[c]] # "gone" /\ (cjob[c] = job => KillSeen)

\* What the disk holds when the thread comes to book the verdict it has reached.
DiskFits(j) ==
  IF j \in InPlace
    THEN src[j] = "encoded" \/ (src[j] # "gone" /\ (kept = "original" \/ mode = "keep"))
    ELSE IF mode # "keep" /\ kept = "original" THEN target[j] = "none" /\ src[j] # "gone"
         ELSE target[j] = "whole" /\ (src[j] = "gone" <=> mode # "keep")

\* The encode target is whole by the time the cleanup compares it with the source, unless a Cancel
\* that missed the encoder has deleted it.
FileInv ==
  /\ \A j \in Jobs \ missed : /\ proc[j] = "writing" => target[j] = "partial"
                              /\ proc[j] = "ok" => target[j] = "whole"
  /\ job \notin missed =>
       /\ qpc \in {"clear", "clearchild", "clearjob"} /\ exit = "ok" => target[job] = "whole"
       /\ qpc \in {"judge", "reread", "apply", "rename"} => target[job] = "whole"
       /\ qpc = "book" => DiskFits(job)
  /\ qpc \notin {"none", "next", "rename", "book", "botched"} => src[job] # "gone"
  /\ qpc = "rename" => job \in InPlace /\ kept = "converted" /\ mode # "keep"

DiskInv == KillInv /\ FileInv

\* From the start of the queue to the wait.
LEMMA DiskEncode ==
  ASSUME TypeOK, CallInv, ReadyInv, DiskInv,
         StartQueue \/ RunEnds \/ (\E j \in Jobs : SourceMissing(j) \/ ClaimJob(j)) \/ SetCurrentJob
           \/ PrepareTarget \/ SpawnFails \/ ClearUnspawned \/ Spawn \/ SetPid \/ StoreChild
           \/ RecheckShutdown \/ Wait
  PROVE  DiskInv'
<1> USE ConversionAssumption DEF DiskInv, KillInv, FileInv, DiskFits, KillSeen, ReadyInv, HandleInv,
        ReadInv, LiveProc, Encoding, persisted, disk, encoder, handles, thread, locals, call, process,
        history,
        lapses, At, NextTurn
<1>0. /\ row \in [Jobs -> Rows] /\ proc \in [Jobs -> Procs]
      /\ src \in [Jobs -> {"original", "encoded", "gone"}]
      /\ target \in [Jobs -> {"none", "partial", "whole"}]
      /\ qpc \notin {"none", "next"} => job \in Jobs
      /\ qpc \in {"none", "next"} => job = NoJob
      /\ \A c \in Callers : cdone[c] => cjob[c] \in Jobs
      /\ missed \subseteq Jobs
  BY DEF TypeOK
<1>1. CASE StartQueue \/ RunEnds
  BY <1>0, <1>1 DEF StartQueue, RunEnds
<1>2. CASE \E j \in Jobs : SourceMissing(j)
  BY <1>0, <1>2 DEF SourceMissing
<1>3. CASE \E j \in Jobs : ClaimJob(j)
  <2>1. PICK j \in Jobs : ClaimJob(j)
    BY <1>3
  <2>2. /\ row[j] = "queued" /\ src[j] # "gone" /\ qpc = "next" /\ qpc' = "setjob" /\ job' = j
        /\ missed' = missed \ {j} /\ UNCHANGED <<disk, proc, exit, kept, mode, call, currentChild>>
    BY <2>1 DEF ClaimJob, IsNext
  <2>3. \A c \in Callers : cdone[c] => cjob[c] # j
    BY <1>0, <2>2
  <2> QED BY <1>0, <2>2, <2>3
<1>4. CASE SetCurrentJob \/ PrepareTarget
  BY <1>0, <1>4 DEF SetCurrentJob, PrepareTarget
<1>5. CASE SpawnFails \/ ClearUnspawned
  BY <1>0, <1>5 DEF SpawnFails, ClearUnspawned
<1>6. CASE Spawn \/ SetPid \/ StoreChild
  BY <1>0, <1>6 DEF Spawn, SetPid, StoreChild
<1>7. CASE RecheckShutdown
  BY <1>0, <1>7 DEF RecheckShutdown, KillActiveChild
<1>8. CASE Wait
  BY <1>0, <1>8 DEF Wait
<1> QED BY <1>1, <1>2, <1>3, <1>4, <1>5, <1>6, <1>7, <1>8

\* From the end of the wait to the booking.
LEMMA DiskSettle ==
  ASSUME TypeOK, CallInv, ReadyInv, DiskInv,
         ClearPid \/ ClearChild \/ ClearCurrentJob \/ Condemn \/ BookCondemned \/ DecideCleanup
           \/ RereadCleanupMode \/ ApplyInPlace \/ RenameTemp \/ ApplyDistinct \/ BookBotched
           \/ BookResult \/ RemovePartial \/ BookFailedEncode
  PROVE  DiskInv'
<1> USE ConversionAssumption DEF DiskInv, KillInv, FileInv, DiskFits, KillSeen, ReadyInv, HandleInv,
        LiveProc, Encoding, persisted, disk, encoder, handles, thread, locals, call, process, history,
        lapses, At, NextTurn
<1>0. /\ proc \in [Jobs -> Procs]
      /\ src \in [Jobs -> {"original", "encoded", "gone"}]
      /\ target \in [Jobs -> {"none", "partial", "whole"}]
      /\ qpc \notin {"none", "next"} => job \in Jobs
      /\ kept \in {"converted", "original"} /\ exit \in {"ok", "bad"}
      /\ qpc \in {"apply", "rename"} => mode \in {"trash", "delete", "keep"}
      /\ \A c \in Callers : cdone[c] => cjob[c] \in Jobs
  BY DEF TypeOK
<1>1. CASE ClearPid \/ ClearChild \/ ClearCurrentJob
  BY <1>0, <1>1 DEF ClearPid, ClearChild, ClearCurrentJob
<1>2. CASE Condemn
  BY <1>0, <1>2 DEF Condemn
<1>3. CASE DecideCleanup \/ RereadCleanupMode
  BY <1>0, <1>3 DEF DecideCleanup, RereadCleanupMode
<1>4. CASE ApplyInPlace
  BY <1>0, <1>4 DEF ApplyInPlace
<1>5. CASE RenameTemp
  BY <1>0, <1>5 DEF RenameTemp
<1>6. CASE ApplyDistinct
  BY <1>0, <1>6 DEF ApplyDistinct
<1>7. CASE BookCondemned \/ BookBotched \/ BookResult \/ BookFailedEncode
  <2>1. /\ qpc' = "next" /\ job' = NoJob /\ UNCHANGED <<disk, proc, call, missed>>
    BY <1>7 DEF BookCondemned, BookBotched, BookResult, BookFailedEncode
  <2> QED BY <1>0, <2>1
<1>8. CASE RemovePartial
  BY <1>0, <1>8 DEF RemovePartial
<1> QED BY <1>1, <1>2, <1>3, <1>4, <1>5, <1>6, <1>7, <1>8

\* HandBrake writes for the thread's own job, whose source is where it was.
LEMMA DiskEncoder ==
  ASSUME TypeOK, ReadyInv, DiskInv, NEW j \in Jobs, Encoder(j)
  PROVE  DiskInv'
<1> USE ConversionAssumption DEF DiskInv, KillInv, FileInv, DiskFits, KillSeen, ReadyInv, HandleInv,
        LiveProc, Encoding, persisted, disk, encoder, handles, thread, locals, call, process, history, lapses
<1>0. /\ proc \in [Jobs -> Procs] /\ target \in [Jobs -> {"none", "partial", "whole"}]
  BY DEF TypeOK
<1>1. CASE EncoderOpensTarget(j)
  BY <1>0, <1>1 DEF EncoderOpensTarget
<1>2. CASE EncoderExits(j)
  BY <1>0, <1>2 DEF EncoderExits
<1> QED BY <1>1, <1>2 DEF Encoder

\* A Cancel that did not miss its encoder deletes what the thread no longer counts on.
LEMMA DiskCalls ==
  ASSUME TypeOK, CallInv, ReadyInv, DiskInv, NEW c \in Callers, CallBegins(c) \/ CallContinues(c)
  PROVE  DiskInv'
<1> USE ConversionAssumption DEF DiskInv, KillInv, FileInv, DiskFits, KillSeen, disk, handles, thread, locals,
        process, history, lapses, Begin, In, Enter, Return
<1>0. /\ proc \in [Jobs -> Procs] /\ target \in [Jobs -> {"none", "partial", "whole"}]
      /\ cpc \in [Callers -> CallPcs] /\ cdone \in [Callers -> BOOLEAN]
      /\ cjob \in [Callers -> Jobs \cup {NoJob}] /\ cpid \in [Callers -> Jobs \cup {NoJob}]
      /\ \A d \in Callers : cdone[d] => cjob[d] \in Jobs
      /\ missed \subseteq Jobs
  BY DEF TypeOK
<1>1. CASE CancelKills(c)
  <2>1. /\ cpc[c] = "cancelKill" /\ cpc' = [cpc EXCEPT ![c] = "cancelPid"] /\ currentChild' = NoJob
        /\ UNCHANGED <<disk, thread, cjob, cdone>>
        /\ missed \subseteq missed'
    BY <1>1 DEF CancelKills, PassesBy
  <2>2. \A j \in Jobs : proc'[j] \in {proc[j], "none"}
    BY <1>0, <1>1 DEF CancelKills, encoder
  <2>3. cdone[c] /\ cjob[c] \notin missed' =>
          currentChild = cjob[c] /\ cjob[c] \in Jobs /\ LiveProc(cjob[c])
    BY <1>0, <1>1 DEF CancelKills, PassesBy
  <2>4. ASSUME currentChild = cjob[c], cjob[c] \in Jobs, LiveProc(cjob[c])
        PROVE  cjob[c] = job /\ qpc \in {"recheck", "wait"} /\ src[cjob[c]] # "gone"
    BY <2>4 DEF ReadyInv, HandleInv, LiveProc, Encoding
  <2>5. KillInv'
    BY <1>0, <2>1, <2>3, <2>4
  <2>6. FileInv'
    BY <1>0, <2>1, <2>2
  <2> QED BY <2>5, <2>6
<1>2. CASE CancelDeletes(c)
  <2>1. /\ cpc[c] = "cancelFile" /\ target' = [target EXCEPT ![cjob[c]] = "none"]
        /\ cdone[c] => cjob[c] \in Jobs
        /\ \A d \in Callers \ {c} : cpc'[d] = cpc[d] /\ cdone'[d] = cdone[d] /\ cjob'[d] = cjob[d]
        /\ cpc'[c] = "idle" /\ UNCHANGED <<src, proc, currentChild, thread, missed>>
    BY <1>0, <1>2 DEF CancelDeletes, encoder
  <2>2. cdone[c]
    BY <1>2 DEF CancelDeletes, CallInv
  <2>3. cjob[c] \in missed \/ cjob[c] # job \/ KillSeen
    BY <2>1, <2>2
  <2>4. cjob[c] \notin missed => proc[cjob[c]] \notin {"writing", "ok"}
    BY <2>1, <2>2, <2>3 DEF ReadyInv, HandleInv, Encoding
  <2> QED BY <1>0, <2>1, <2>2, <2>3, <2>4
<1>3. CASE CancelBooks(c)
  <2>1. /\ cpc[c] = "cancelRow" /\ cpc' = [cpc EXCEPT ![c] = "cancelKill"]
        /\ \A d \in Callers \ {c} : cdone'[d] = cdone[d]
        /\ UNCHANGED <<cjob, disk, proc, currentChild, thread, missed>>
    BY <1>0, <1>3 DEF CancelBooks, encoder
  <2> QED BY <1>0, <2>1
<1>4. CASE CancelClearsPid(c)
  BY <1>0, <1>4 DEF CancelClearsPid, encoder
<1>5. CASE QuitKills(c)
  <2>1. UNCHANGED <<disk, thread, currentChild, missed>> /\ \A j \in Jobs : proc'[j] \in {proc[j], "killed"}
    BY <1>0, <1>5 DEF QuitKills, KillActiveChild, encoder
  <2>2. \A d \in Callers \ {c} : cpc'[d] = cpc[d] /\ cdone'[d] = cdone[d] /\ cjob'[d] = cjob[d]
    BY <1>0, <1>5 DEF QuitKills
  <2>3. cpc'[c] = "idle"
    BY <1>0, <1>5 DEF QuitKills
  <2> QED BY <1>0, <2>1, <2>2, <2>3
<1>6. CASE ~(CancelKills(c) \/ CancelDeletes(c) \/ CancelBooks(c) \/ CancelClearsPid(c) \/ QuitKills(c))
  <2>1. UNCHANGED <<disk, proc, thread, currentChild, missed>>
    BY <1>6 DEF CallBegins, CallContinues, PauseReadsPid, PauseReadsJob, PauseStops, PauseBooks,
       ResumeUnpauses, ResumeReadsPid, ResumeReadsJob, ResumeContinues, ResumeBooks, CancelReadsJob,
       QuitLatches, SetCleanupMode, DropQueuedInPlaceJobs, encoder
  <2>2. \A d \in Callers \ {c} : cpc'[d] = cpc[d] /\ cdone'[d] = cdone[d] /\ cjob'[d] = cjob[d]
    BY <1>0, <1>6 DEF CallBegins, CallContinues, PauseReadsPid, PauseReadsJob, PauseStops, PauseBooks,
       ResumeUnpauses, ResumeReadsPid, ResumeReadsJob, ResumeContinues, ResumeBooks, CancelReadsJob,
       QuitLatches, SetCleanupMode, DropQueuedInPlaceJobs, call
  <2>3. cpc'[c] \notin {"cancelPid", "cancelFile"}
    BY <1>0, <1>6 DEF CallBegins, CallContinues, PauseReadsPid, PauseReadsJob, PauseStops, PauseBooks,
       ResumeUnpauses, ResumeReadsPid, ResumeReadsJob, ResumeContinues, ResumeBooks, CancelReadsJob,
       QuitLatches, SetCleanupMode, DropQueuedInPlaceJobs
  <2> QED BY <1>0, <2>1, <2>2, <2>3
<1> QED BY <1>1, <1>2, <1>3, <1>4, <1>5, <1>6

LEMMA DiskProcess ==
  ASSUME TypeOK, CallInv, ReadyInv, DiskInv, ProcessEnds \/ Boot \/ \E j \in Jobs : RemoveJob(j)
  PROVE  DiskInv'
<1> USE DEF DiskInv, KillInv, FileInv, DiskFits, KillSeen, disk, encoder, handles, thread, locals, call,
    history,
        lapses
<1>1. CASE ProcessEnds
  BY <1>1 DEF ProcessEnds
<1>2. CASE Boot
  <2>1. qpc' \in {"none", "next"} /\ UNCHANGED <<src, proc, missed>>
    BY <1>2 DEF Boot, RecoverInterruptedJobs
  <2>2. \A j \in Jobs : proc[j] = "none"
    BY <1>2 DEF Boot, ReadyInv, HandleInv, ReadInv, Encoding
  <2>3. \A c \in Callers : ~cdone[c] /\ UNCHANGED cdone
    BY <1>2 DEF Boot, ReadyInv, ReadInv, Quiet, CallInv
  <2> QED BY <2>1, <2>2, <2>3
<1>3. CASE \E j \in Jobs : RemoveJob(j)
  BY <1>3 DEF RemoveJob
<1> QED BY <1>1, <1>2, <1>3

\* Handles, calls and files together are inductive, with the types.
LEMMA DiskInvariant == Spec => [](TypeOK /\ CallInv /\ ReadyInv /\ DiskInv)
<1>1. Init => DiskInv
  BY DEF Init, DiskInv, KillInv, FileInv
<1>2. TypeOK /\ CallInv /\ ReadyInv /\ DiskInv /\ [Next]_vars => DiskInv'
  <2> SUFFICES ASSUME TypeOK, CallInv, ReadyInv, DiskInv, [Next]_vars PROVE DiskInv'
    OBVIOUS
  <2>1. CASE Next
    BY <2>1, DiskEncode, DiskSettle, DiskEncoder, DiskCalls, DiskProcess DEF Next, QueueThread
  <2>2. CASE UNCHANGED vars
    BY <2>2 DEF vars, disk, encoder, handles, thread, locals, call, history, lapses, DiskInv, KillInv,
        FileInv,
       DiskFits, KillSeen
  <2> QED BY <2>1, <2>2
<1> QED BY ReadyInvariant, <1>1, <1>2, PTL DEF Spec

\* Which steps book a row, and how it then changes: the thread's own job by its booking, a running row
\* or one in error by others too but not as finished, a queued one anyhow, and any by a Pause or a
\* Resume that read it.
LEMMA RowSteps ==
  ASSUME TypeOK, RowInv, [Next]_vars, NEW j \in Jobs, row'[j] # row[j]
  PROVE  \/ row[j] = "queued" /\ row'[j] \notin {"done", "skipped"}
         \/ row[j] \in Running \cup {"error"} /\ row'[j] \notin {"done", "skipped"}
         \/ BookResult /\ j = job /\ row[j] \in Running
         \/ \E c \in Callers : /\ cjob[c] = j
                               /\ \/ PauseBooks(c) /\ row'[j] = "paused"
                                  \/ ResumeBooks(c) /\ row'[j] = "encoding"
<1> USE ConversionAssumption DEF RowInv, Running, Rows, persisted, At
<1>0. /\ row \in [Jobs -> Rows]
      /\ qpc \notin {"none", "next"} => job \in Jobs
      /\ \A c \in Callers : cpc[c] \in {"pauseRow", "resumeRow"} => cjob[c] \in Jobs
  BY DEF TypeOK
<1>1. CASE StartQueue \/ QueueThread
  <2>1. CASE \E i \in Jobs : SourceMissing(i) \/ ClaimJob(i)
    BY <1>0, <2>1 DEF SourceMissing, ClaimJob, IsNext, BookFailure, Book
  <2>2. CASE SpawnFails \/ BookCondemned \/ BookBotched \/ BookFailedEncode
    BY <1>0, <2>2 DEF SpawnFails, BookCondemned, BookBotched, BookFailedEncode, BookFailure, Book
  <2>3. CASE BookResult
    BY <1>0, <2>3 DEF BookResult
  <2>4. CASE /\ ~ \E i \in Jobs : SourceMissing(i) \/ ClaimJob(i)
             /\ ~(SpawnFails \/ BookCondemned \/ BookBotched \/ BookFailedEncode \/ BookResult)
    <3>1. UNCHANGED row
      BY <1>1, <2>4 DEF QueueThread, StartQueue, RunEnds, SetCurrentJob, PrepareTarget, ClearUnspawned,
         Spawn, SetPid, StoreChild, RecheckShutdown, Wait, ClearPid, ClearChild, ClearCurrentJob, Condemn,
         DecideCleanup, RereadCleanupMode, ApplyInPlace, RenameTemp, ApplyDistinct, RemovePartial
    <3> QED BY <3>1
  <2> QED BY <2>1, <2>2, <2>3, <2>4
<1>2. CASE \E c \in Callers : CallBegins(c) \/ CallContinues(c)
  <2>1. PICK c \in Callers : CallBegins(c) \/ CallContinues(c)
    BY <1>2
  <2>2. CASE PauseBooks(c)
    <3>1. cjob[c] \in Jobs /\ row' = [row EXCEPT ![cjob[c]] = IF @ = "deleted" THEN @ ELSE "paused"]
      BY <1>0, <2>2 DEF PauseBooks, Book, In
    <3>2. cjob[c] = j /\ row'[j] = "paused"
      BY <1>0, <3>1
    <3> QED BY <2>2, <3>2
  <2>3. CASE ResumeBooks(c)
    <3>1. cjob[c] \in Jobs /\ row' = [row EXCEPT ![cjob[c]] = IF @ = "deleted" THEN @ ELSE "encoding"]
      BY <1>0, <2>3 DEF ResumeBooks, Book, In
    <3>2. cjob[c] = j /\ row'[j] = "encoding"
      BY <1>0, <3>1
    <3> QED BY <2>3, <3>2
  <2>4. CASE CancelBooks(c)
    BY <1>0, <2>4 DEF CancelBooks
  <2>5. CASE DropQueuedInPlaceJobs(c)
    BY <1>0, <2>5 DEF DropQueuedInPlaceJobs, InPlaceDropped
  <2>6. CASE ~(PauseBooks(c) \/ ResumeBooks(c) \/ CancelBooks(c) \/ DropQueuedInPlaceJobs(c))
    <3>1. UNCHANGED row
      BY <2>1, <2>6 DEF CallBegins, CallContinues, PauseReadsPid, PauseReadsJob, PauseStops,
         ResumeUnpauses, ResumeReadsPid, ResumeReadsJob, ResumeContinues, CancelReadsJob, CancelKills,
         CancelClearsPid, CancelDeletes, QuitLatches, QuitKills, SetCleanupMode
    <3> QED BY <3>1
  <2> QED BY <2>2, <2>3, <2>4, <2>5, <2>6
<1>3. CASE ProcessEnds \/ Boot \/ \E i \in Jobs : Encoder(i) \/ RemoveJob(i)
  <2>1. CASE Boot
    BY <1>0, <2>1 DEF Boot, RecoverInterruptedJobs, InPlaceDropped
  <2>2. CASE \E i \in Jobs : RemoveJob(i)
    BY <1>0, <2>2 DEF RemoveJob
  <2>3. CASE ProcessEnds \/ \E i \in Jobs : Encoder(i)
    BY <2>3 DEF ProcessEnds, Encoder, EncoderOpensTarget, EncoderExits
  <2> QED BY <1>3, <2>1, <2>2, <2>3
<1>4. CASE UNCHANGED vars
  BY <1>4 DEF vars
<1> QED BY <1>1, <1>2, <1>3, <1>4 DEF Next

\* A finished row is final but for one race: a Pause or a Resume that read its job while it was still
\* current.  No booking, no Cancel however late, no setting and no relaunch rewrites it.
THEOREM FinishedStaysFinal == Spec => FinishedIsFinal
<1>1. ASSUME TypeOK, RowInv, [Next]_vars, NEW j \in Jobs,
             row[j] \in {"done", "skipped"}, row'[j] # row[j]
      PROVE  \E c \in Callers :
               /\ cjob[c] = j /\ cpc'[c] = "idle"
               /\ <<cpc[c], row'[j]>> \in {<<"pauseRow", "paused">>, <<"resumeRow", "encoding">>}
  <2>1. PICK c \in Callers : /\ cjob[c] = j
                             /\ \/ PauseBooks(c) /\ row'[j] = "paused"
                                \/ ResumeBooks(c) /\ row'[j] = "encoding"
    BY <1>1, RowSteps DEF Running
  <2>2. cpc[c] = IF row'[j] = "paused" THEN "pauseRow" ELSE "resumeRow"
    BY <2>1 DEF PauseBooks, ResumeBooks, In
  <2>3. cpc'[c] = "idle"
    <3>1. cpc \in [Callers -> CallPcs] /\ cpc' = [cpc EXCEPT ![c] = "idle"]
      BY <1>1, <2>1 DEF PauseBooks, ResumeBooks, Return, Enter, TypeOK
    <3> QED BY <3>1
  <2> QED BY <2>1, <2>2, <2>3
<1>2. TypeOK /\ RowInv /\ [Next]_vars =>
        \A j \in Jobs : row[j] \in {"done", "skipped"} /\ row'[j] # row[j] =>
          \E c \in Callers :
            /\ cjob[c] = j /\ cpc'[c] = "idle"
            /\ <<cpc[c], row'[j]>> \in {<<"pauseRow", "paused">>, <<"resumeRow", "encoding">>}
  BY <1>1
<1>3. ReadyInv => RowInv
  BY DEF ReadyInv
<1> QED BY <1>2, <1>3, ReadyInvariant, PTL DEF Spec, FinishedIsFinal

\* What history says of a job when it is booked is what is on the disk: calls of any kind that race the
\* cleanup, and settings that change between the verdict and the booking, included.
THEOREM BookingTellsTheDisk == Spec => BookingIsTrue
<1>1. ASSUME TypeOK, ReadyInv, DiskInv, [Next]_vars, NEW j \in Jobs, row[j] \in Running, j \notin missed
      PROVE  /\ row'[j] = "done" => IF j \in InPlace THEN src[j] = "encoded"
                                     ELSE target[j] = "whole" /\ (src[j] = "gone" <=> mode # "keep")
             /\ row'[j] = "skipped" => /\ src[j] # "gone"
                                       /\ j \notin InPlace /\ mode # "keep" => target[j] = "none"
  <2>1. row'[j] \in {"done", "skipped"} => BookResult /\ j = job
    BY <1>1, RowSteps DEF Running, ReadyInv
  <2>2. ASSUME BookResult, j = job
        PROVE  /\ DiskFits(j) /\ ~(j \in InPlace /\ row'[j] \in {"done", "skipped"} /\ mode = "keep")
               /\ row'[j] = "done" => kept = "converted"
               /\ row'[j] = "skipped" => kept = "original"
    BY <1>1, <2>2 DEF BookResult, At, DiskInv, FileInv, Running, TypeOK
  <2> QED BY <2>1, <2>2, <1>1 DEF DiskFits
<1>2. TypeOK /\ ReadyInv /\ DiskInv /\ [Next]_vars =>
        \A j \in Jobs : row[j] \in Running /\ j \notin missed =>
          /\ row'[j] = "done" => IF j \in InPlace THEN src[j] = "encoded"
                                  ELSE target[j] = "whole" /\ (src[j] = "gone" <=> mode # "keep")
          /\ row'[j] = "skipped" => /\ src[j] # "gone"
                                    /\ j \notin InPlace /\ mode # "keep" => target[j] = "none"
  BY <1>1
<1> QED BY <1>2, DiskInvariant, PTL DEF Spec, BookingIsTrue

-----------------------------------------------------------------------------
(* What holds of every conversion.                                         *)

\* A row that a relaunch would requeue, deleting its encode target, still has its source.
SurviveInv ==
  /\ VideoSurvives
  /\ qpc \in {"rename", "botched"} => src[job] # "gone" \/ trash[job]
  /\ \A j \in Jobs : row[j] \in Running =>
       src[j] # "gone" \/ trash[j] \/ j \in misread \cup missed \/ (job = j /\ qpc = "book")

\* What the thread's steps do to the files of a job.
LEMMA SurviveThread ==
  ASSUME TypeOK, ReadyInv, DiskInv, SurviveInv, StartQueue \/ QueueThread
  PROVE  SurviveInv'
<1> USE DEF ReadyInv, DiskInv, FileInv, RowInv, SurviveInv, VideoSurvives, HasCopy, Running, persisted, disk,
        encoder, handles, thread, locals, call, process, history, lapses, At, NextTurn
<1>0. /\ row \in [Jobs -> Rows] /\ trash \in [Jobs -> BOOLEAN]
      /\ src \in [Jobs -> {"original", "encoded", "gone"}]
      /\ target \in [Jobs -> {"none", "partial", "whole"}]
      /\ qpc \notin {"none", "next"} => job \in Jobs
      /\ missed \subseteq Jobs /\ misread \subseteq Jobs
  BY DEF TypeOK
<1>1. CASE StartQueue \/ RunEnds \/ SetCurrentJob \/ ClearUnspawned \/ Spawn \/ SetPid \/ StoreChild
             \/ RecheckShutdown \/ Wait \/ ClearPid \/ ClearChild \/ ClearCurrentJob \/ DecideCleanup
             \/ RereadCleanupMode
  <2>1. /\ UNCHANGED <<row, src, trash, target, missed, misread>>
        /\ qpc # "book" /\ qpc' \notin {"rename", "botched"}
    BY <1>1 DEF StartQueue, RunEnds, SetCurrentJob, ClearUnspawned, Spawn, SetPid, StoreChild,
        RecheckShutdown,
       Wait, ClearPid, ClearChild, ClearCurrentJob, DecideCleanup, RereadCleanupMode
  <2> QED BY <2>1
<1>2. CASE \E j \in Jobs : SourceMissing(j) \/ ClaimJob(j)
  BY <1>0, <1>2 DEF SourceMissing, ClaimJob, IsNext, BookFailure, Book
<1>3. CASE PrepareTarget \/ Condemn \/ RemovePartial
  BY <1>0, <1>3 DEF PrepareTarget, Condemn, RemovePartial
<1>4. CASE SpawnFails \/ BookCondemned \/ BookBotched \/ BookFailedEncode
  BY <1>0, <1>4 DEF SpawnFails, BookCondemned, BookBotched, BookFailedEncode, BookFailure, Book
<1>5. CASE ApplyInPlace
  BY <1>0, <1>5 DEF ApplyInPlace
<1>6. CASE RenameTemp
  BY <1>0, <1>6 DEF RenameTemp
<1>7. CASE ApplyDistinct
  BY <1>0, <1>7 DEF ApplyDistinct
<1>8. CASE BookResult
  BY <1>0, <1>8 DEF BookResult
<1> QED BY <1>1, <1>2, <1>3, <1>4, <1>5, <1>6, <1>7, <1>8, Zenon DEF QueueThread

\* What a call, an end of the process or a relaunch does to them.
LEMMA SurviveElsewhere ==
  ASSUME TypeOK, CallInv, ReadyInv, DiskInv, SurviveInv,
         \/ \E j \in Jobs : Encoder(j) \/ RemoveJob(j)
         \/ \E c \in Callers : CallBegins(c) \/ CallContinues(c)
         \/ ProcessEnds \/ Boot
  PROVE  SurviveInv'
<1> USE ConversionAssumption DEF ReadyInv, DiskInv, KillInv, FileInv, RowInv, HandleInv, ReadInv, Encoding,
        SurviveInv, VideoSurvives, HasCopy, Running, persisted, disk, encoder, handles, thread, locals, call,
        process, history, lapses, In
<1>0. /\ row \in [Jobs -> Rows]
      /\ target \in [Jobs -> {"none", "partial", "whole"}]
      /\ qpc \notin {"none", "next"} => job \in Jobs
      /\ \A c \in Callers : cpc[c] \in {"pauseRow", "resumeRow", "cancelFile"} => cjob[c] \in Jobs
      /\ missed \subseteq Jobs /\ misread \subseteq Jobs
  BY DEF TypeOK
<1>1. CASE \E j \in Jobs : Encoder(j)
  BY <1>0, <1>1 DEF Encoder, EncoderOpensTarget, EncoderExits, LiveProc
<1>2. CASE \E j \in Jobs : RemoveJob(j)
  BY <1>0, <1>2 DEF RemoveJob
<1>3. CASE \E c \in Callers : CallBegins(c) \/ CallContinues(c)
  <2>1. PICK c \in Callers : CallBegins(c) \/ CallContinues(c)
    BY <1>3
  <2>2. CASE PauseBooks(c) \/ ResumeBooks(c)
    BY <1>0, <2>2 DEF PauseBooks, ResumeBooks, Book, MakesRun
  <2>3. CASE CancelBooks(c)
    BY <1>0, <2>3 DEF CancelBooks
  <2>4. CASE DropQueuedInPlaceJobs(c)
    BY <1>0, <2>4 DEF DropQueuedInPlaceJobs, InPlaceDropped
  <2>5. CASE CancelDeletes(c)
    <3>1. cdone[c] /\ cpc[c] = "cancelFile"
      BY <2>5 DEF CancelDeletes, CallInv
    <3>2. cjob[c] \in Jobs /\ (src[cjob[c]] # "gone" \/ cjob[c] \in missed)
      BY <1>0, <3>1
    <3> QED BY <1>0, <2>5, <3>2 DEF CancelDeletes
  <2>6. CASE CancelKills(c)
    BY <1>0, <2>6 DEF CancelKills, PassesBy
  <2>7. CASE ~(PauseBooks(c) \/ ResumeBooks(c) \/ CancelBooks(c) \/ DropQueuedInPlaceJobs(c)
                 \/ CancelDeletes(c) \/ CancelKills(c))
    <3>1. UNCHANGED <<row, src, trash, target, qpc, job, missed, misread>>
      BY <2>1, <2>7 DEF CallBegins, CallContinues, PauseReadsPid, PauseReadsJob, PauseStops,
         ResumeUnpauses, ResumeReadsPid, ResumeReadsJob, ResumeContinues, CancelReadsJob,
         CancelClearsPid, QuitLatches, QuitKills, SetCleanupMode
    <3> QED BY <3>1
  <2> QED BY <2>2, <2>3, <2>4, <2>5, <2>6, <2>7
<1>4. CASE ProcessEnds
  BY <1>0, <1>4 DEF ProcessEnds
<1>5. CASE Boot
  BY <1>0, <1>5 DEF Boot, RecoverInterruptedJobs, InPlaceDropped
<1> QED BY <1>1, <1>2, <1>3, <1>4, <1>5

\* Whatever the setting, whatever calls race the encode and wherever the process ends, a whole copy of
\* every video exists, but for those two: its job was cancelled by a Cancel that came too late for its
\* encoder, or its row came to say that a finished job still runs.
THEOREM SomeCopySurvives == Spec => []VideoSurvives
<1>1. Init => SurviveInv
  BY DEF Init, SurviveInv, VideoSurvives, HasCopy
<1>2. TypeOK /\ CallInv /\ ReadyInv /\ DiskInv /\ SurviveInv /\ [Next]_vars => SurviveInv'
  <2> SUFFICES ASSUME TypeOK, CallInv, ReadyInv, DiskInv, SurviveInv, [Next]_vars PROVE SurviveInv'
    OBVIOUS
  <2>1. CASE Next
    BY <2>1, SurviveThread, SurviveElsewhere DEF Next
  <2>2. CASE UNCHANGED vars
    BY <2>2 DEF vars, persisted, disk, thread, locals, history, lapses, SurviveInv, VideoSurvives, HasCopy
  <2> QED BY <2>1, <2>2
<1>3. SurviveInv => VideoSurvives
  BY DEF SurviveInv
<1> QED BY DiskInvariant, <1>1, <1>2, <1>3, PTL DEF Spec

\* A job in error whose encode is still to come, or runs, has a Cancel about to look for its child.
CancelInv ==
  \A j \in Jobs : row[j] = "error" /\ job = j /\ (qpc \in {"setjob", "prepare", "spawn"} \/ LiveProc(j))
    => j \in missed \/ \E c \in Callers : cpc[c] = "cancelKill" /\ cdone[c] /\ cjob[c] = j

LEMMA CancelThread ==
  ASSUME TypeOK, ReadyInv, CancelInv, StartQueue \/ QueueThread
  PROVE  CancelInv'
<1> USE ConversionAssumption DEF CancelInv, LiveProc, ReadyInv, HandleInv, Encoding, persisted, disk, encoder,
        handles, thread, locals, call, process, history, lapses, At, NextTurn
<1>0. /\ row \in [Jobs -> Rows] /\ proc \in [Jobs -> Procs]
      /\ qpc \notin {"none", "next"} => job \in Jobs
      /\ qpc \in {"none", "next"} => job = NoJob
      /\ missed \subseteq Jobs
  BY DEF TypeOK
<1>1. CASE \E j \in Jobs : SourceMissing(j) \/ ClaimJob(j)
  BY <1>0, <1>1 DEF SourceMissing, ClaimJob, BookFailure, Book
<1>2. CASE Spawn
  BY <1>0, <1>2 DEF Spawn
<1>3. CASE SetCurrentJob \/ PrepareTarget \/ SetPid \/ StoreChild
  BY <1>0, <1>3 DEF SetCurrentJob, PrepareTarget, SetPid, StoreChild
<1>4. CASE RecheckShutdown
  BY <1>0, <1>4 DEF RecheckShutdown, KillActiveChild
<1>5. CASE Wait
  BY <1>0, <1>5 DEF Wait
<1>6. CASE SpawnFails
  BY <1>0, <1>6 DEF SpawnFails, BookFailure, Book
<1>7. CASE StartQueue \/ RunEnds \/ ClearUnspawned \/ ClearPid \/ ClearChild \/ ClearCurrentJob \/ Condemn
             \/ BookCondemned \/ DecideCleanup \/ RereadCleanupMode \/ ApplyInPlace \/ RenameTemp
             \/ ApplyDistinct \/ BookBotched \/ BookResult \/ RemovePartial \/ BookFailedEncode
  <2>1. /\ qpc \notin {"setjob", "prepare", "spawn"} \cup Encoding \cup {"setpid"}
        /\ qpc' \notin {"setjob", "prepare", "spawn"} /\ UNCHANGED proc
    BY <1>7 DEF StartQueue, RunEnds, ClearUnspawned, ClearPid, ClearChild, ClearCurrentJob, Condemn,
       BookCondemned, DecideCleanup, RereadCleanupMode, ApplyInPlace, RenameTemp, ApplyDistinct, BookBotched,
       BookResult, RemovePartial, BookFailedEncode
  <2> QED BY <1>0, <2>1
<1> QED BY <1>1, <1>2, <1>3, <1>4, <1>5, <1>6, <1>7 DEF QueueThread

LEMMA CancelElsewhere ==
  ASSUME TypeOK, CallInv, ReadyInv, CancelInv,
         \/ \E j \in Jobs : Encoder(j) \/ RemoveJob(j)
         \/ \E c \in Callers : CallBegins(c) \/ CallContinues(c)
         \/ ProcessEnds \/ Boot
  PROVE  CancelInv'
<1> USE ConversionAssumption DEF CancelInv, LiveProc, ReadyInv, HandleInv, ReadInv, Encoding, Running,
        persisted, disk, encoder, handles, thread, locals, call, process, history, lapses, In, Begin,
        Enter, Return
<1>0. /\ row \in [Jobs -> Rows] /\ proc \in [Jobs -> Procs]
      /\ qpc \in {"none", "next"} => job = NoJob
      /\ cpc \in [Callers -> CallPcs] /\ cdone \in [Callers -> BOOLEAN]
      /\ cjob \in [Callers -> Jobs \cup {NoJob}]
      /\ \A c \in Callers : cpc[c] \in {"pauseRow", "resumeRow"} => cjob[c] \in Jobs
      /\ \A c \in Callers : cdone[c] => cjob[c] \in Jobs
      /\ missed \subseteq Jobs
  BY DEF TypeOK
<1>1. CASE \E j \in Jobs : Encoder(j)
  BY <1>0, <1>1 DEF Encoder, EncoderOpensTarget, EncoderExits
<1>2. CASE \E j \in Jobs : RemoveJob(j)
  BY <1>0, <1>2 DEF RemoveJob
<1>3. CASE \E c \in Callers : CallBegins(c) \/ CallContinues(c)
  <2>1. PICK c \in Callers : CallBegins(c) \/ CallContinues(c)
    BY <1>3
  <2>2. CASE CancelBooks(c)
    <3>1. cpc' = [cpc EXCEPT ![c] = "cancelKill"]
          /\ UNCHANGED <<cjob, qpc, job, proc, missed>>
      BY <2>2 DEF CancelBooks
    <3>2. CASE cjob[c] \in Jobs /\ row[cjob[c]] \in Running
      <4>1. row' = [row EXCEPT ![cjob[c]] = "error"] /\ cdone' = [cdone EXCEPT ![c] = TRUE]
        BY <2>2, <3>2 DEF CancelBooks
      <4> QED BY <1>0, <3>1, <3>2, <4>1
    <3>3. CASE ~(cjob[c] \in Jobs /\ row[cjob[c]] \in Running)
      <4>1. UNCHANGED <<row, cdone>>
        BY <2>2, <3>3 DEF CancelBooks
      <4> QED BY <1>0, <3>1, <4>1
    <3> QED BY <3>2, <3>3
  <2>3. CASE CancelKills(c)
    <3>1. /\ cpc[c] = "cancelKill" /\ cpc' = [cpc EXCEPT ![c] = "cancelPid"]
          /\ UNCHANGED <<row, cjob, cdone, qpc, job>> /\ missed \subseteq missed'
          /\ \A j \in Jobs : proc'[j] \in {proc[j], "none"}
      BY <1>0, <2>3 DEF CancelKills, PassesBy
    <3>2. cdone[c] => cjob[c] \in missed' \/ (currentChild = cjob[c] /\ proc'[cjob[c]] = "none")
      BY <1>0, <2>3 DEF CancelKills, PassesBy
    <3>3. currentChild # NoJob => qpc \notin {"setjob", "prepare", "spawn"}
      OBVIOUS
    <3> QED BY <1>0, <3>1, <3>2, <3>3
  <2>4. CASE QuitKills(c)
    <3>1. /\ cpc[c] = "quitKill" /\ \A d \in Callers \ {c} : cpc'[d] = cpc[d] /\ cdone'[d] = cdone[d] /\ cjob'[d] = cjob[d]
          /\ UNCHANGED <<row, qpc, job, missed>> /\ \A j \in Jobs : proc'[j] \in {proc[j], "killed"}
      BY <1>0, <2>4 DEF QuitKills, KillActiveChild
    <3> QED BY <1>0, <3>1
  <2>5. CASE ~(CancelBooks(c) \/ CancelKills(c) \/ QuitKills(c))
    <3>1. UNCHANGED <<qpc, job, proc, missed>>
      BY <2>1, <2>5 DEF CallBegins, CallContinues, PauseReadsPid, PauseReadsJob, PauseStops, PauseBooks,
         ResumeUnpauses, ResumeReadsPid, ResumeReadsJob, ResumeContinues, ResumeBooks, CancelReadsJob,
         CancelClearsPid, CancelDeletes, QuitLatches, SetCleanupMode, DropQueuedInPlaceJobs
    <3>2. \A j \in Jobs : row'[j] = "error" => row[j] = "error"
      BY <1>0, <2>1, <2>5 DEF CallBegins, CallContinues, PauseReadsPid, PauseReadsJob, PauseStops, PauseBooks,
         ResumeUnpauses, ResumeReadsPid, ResumeReadsJob, ResumeContinues, ResumeBooks, CancelReadsJob,
         CancelClearsPid, CancelDeletes, QuitLatches, SetCleanupMode, DropQueuedInPlaceJobs, Book,
         InPlaceDropped
    <3>3. cpc[c] # "cancelKill"
          /\ \A d \in Callers \ {c} : cpc'[d] = cpc[d] /\ cdone'[d] = cdone[d] /\ cjob'[d] = cjob[d]
      BY <1>0, <2>1, <2>5 DEF CallBegins, CallContinues, PauseReadsPid, PauseReadsJob, PauseStops, PauseBooks,
         ResumeUnpauses, ResumeReadsPid, ResumeReadsJob, ResumeContinues, ResumeBooks, CancelReadsJob,
         CancelClearsPid, CancelDeletes, QuitLatches, SetCleanupMode, DropQueuedInPlaceJobs
    <3> QED BY <1>0, <3>1, <3>2, <3>3
  <2> QED BY <2>2, <2>3, <2>4, <2>5
<1>4. CASE ProcessEnds
  BY <1>0, <1>4 DEF ProcessEnds
<1>5. CASE Boot
  <2>1. /\ qpc' \notin {"setjob", "prepare", "spawn"} /\ UNCHANGED proc
        /\ \A j \in Jobs : proc[j] = "none"
    BY <1>5 DEF Boot
  <2> QED BY <2>1
<1> QED BY <1>1, <1>2, <1>3, <1>4, <1>5

\* Once the Cancel that booked a job has returned nothing encodes for it, however many calls race, unless
\* its kill came before the thread had stored the encoder's handle.
THEOREM CancelStops == Spec => []CancelStopsEncoder
<1>1. Init => CancelInv
  BY DEF Init, CancelInv
<1>2. TypeOK /\ CallInv /\ ReadyInv /\ CancelInv /\ [Next]_vars => CancelInv'
  <2> SUFFICES ASSUME TypeOK, CallInv, ReadyInv, CancelInv, [Next]_vars PROVE CancelInv'
    OBVIOUS
  <2>1. CASE Next
    BY <2>1, CancelThread, CancelElsewhere DEF Next
  <2>2. CASE UNCHANGED vars
    BY <2>2 DEF vars, persisted, encoder, thread, locals, call, history, lapses, CancelInv, LiveProc
  <2> QED BY <2>1, <2>2
<1>3. ReadyInv /\ CancelInv => CancelStopsEncoder
  BY DEF ReadyInv, HandleInv, CancelInv, CancelStopsEncoder, Cancelled, LiveProc, Quiet
<1> QED BY ReadyInvariant, <1>1, <1>2, <1>3, PTL DEF Spec

\* A frozen encode is the one waited for.  It is remembered, forgotten by a Cancel, or in the hands of
\* a call: a Pause about to book it, a Cancel, or a Resume that has still to read its pid or has it.
FrozenInv ==
  \A j \in Jobs : frozen[j] =>
    /\ LiveProc(j) /\ qpc \in Encoding
    /\ \/ queuePaused \/ j \in adrift
       \/ \E c \in Callers : \/ cpc[c] \in {"pauseRow", "resumePid", "cancelKill", "cancelPid"}
                             \/ cpc[c] \in {"resumeJob", "resumeCont"} /\ cpid[c] = j
LEMMA FrozenThread ==
  ASSUME TypeOK, ReadyInv, FrozenInv, StartQueue \/ QueueThread
  PROVE  FrozenInv'
<1> USE ConversionAssumption DEF FrozenInv, LiveProc, ReadyInv, HandleInv, Encoding, persisted, disk, encoder,
        handles, thread, locals, call, process, history, lapses, At, NextTurn
<1>0. /\ proc \in [Jobs -> Procs] /\ frozen \in [Jobs -> BOOLEAN]
      /\ qpc \notin {"none", "next"} => job \in Jobs
  BY DEF TypeOK
<1>1. CASE qpc \notin Encoding
  <2>1. \A j \in Jobs : ~frozen[j]
    BY <1>1
  <2>2. UNCHANGED frozen
    BY <1>1 DEF QueueThread, StartQueue, RunEnds, SourceMissing, ClaimJob, SetCurrentJob,
       PrepareTarget, SpawnFails, ClearUnspawned, Spawn, SetPid, StoreChild, RecheckShutdown, Wait, ClearPid,
       ClearChild, ClearCurrentJob, Condemn, BookCondemned, DecideCleanup, RereadCleanupMode, ApplyInPlace,
       RenameTemp, ApplyDistinct, BookBotched, BookResult, RemovePartial, BookFailedEncode
  <2> QED BY <2>1, <2>2
<1>2. CASE qpc \in Encoding
  <2>1. StoreChild \/ RecheckShutdown \/ Wait
    BY <1>2 DEF QueueThread, StartQueue, RunEnds, SourceMissing, ClaimJob, SetCurrentJob,
       PrepareTarget, SpawnFails, ClearUnspawned, Spawn, SetPid, ClearPid, ClearChild, ClearCurrentJob,
       Condemn, BookCondemned, DecideCleanup, RereadCleanupMode, ApplyInPlace, RenameTemp, ApplyDistinct,
       BookBotched, BookResult, RemovePartial, BookFailedEncode
  <2>2. CASE StoreChild
    BY <1>0, <2>2 DEF StoreChild
  <2>3. CASE RecheckShutdown
    BY <1>0, <2>3 DEF RecheckShutdown, KillActiveChild
  <2>4. CASE Wait
    <3>1. \A j \in Jobs : ~LiveProc(j) /\ UNCHANGED frozen
      BY <1>0, <2>4 DEF Wait
    <3> QED BY <3>1
  <2> QED BY <2>1, <2>2, <2>3, <2>4
<1> QED BY <1>1, <1>2

LEMMA FrozenElsewhere ==
  ASSUME TypeOK, CallInv, ReadyInv, FrozenInv,
         \/ \E j \in Jobs : Encoder(j) \/ RemoveJob(j)
         \/ \E c \in Callers : CallBegins(c) \/ CallContinues(c)
         \/ ProcessEnds \/ Boot
  PROVE  FrozenInv'
<1> USE ConversionAssumption DEF ReadyInv, HandleInv, ReadInv, FrozenInv, LiveProc, Encoding,
        persisted, disk, encoder, handles, thread, locals, call, process, history, lapses, Begin, In,
        Enter, Return
<1>0. /\ proc \in [Jobs -> Procs] /\ frozen \in [Jobs -> BOOLEAN]
      /\ qpc \notin {"none", "next"} => job \in Jobs
      /\ cpc \in [Callers -> CallPcs] /\ cpid \in [Callers -> Jobs \cup {NoJob}]
      /\ cjob \in [Callers -> Jobs \cup {NoJob}]
      /\ currentPid \in Jobs \cup {NoJob} /\ currentChild \in Jobs \cup {NoJob}
      /\ adrift \subseteq Jobs
      /\ \A c \in Callers : cpc[c] \in {"pauseStop", "resumeCont"} => cpid[c] \in Jobs
  BY DEF TypeOK
<1>1. CASE \E j \in Jobs : Encoder(j)
  BY <1>0, <1>1 DEF Encoder, EncoderOpensTarget, EncoderExits
<1>2. CASE \E j \in Jobs : RemoveJob(j)
  BY <1>0, <1>2 DEF RemoveJob
<1>3. CASE \E c \in Callers : CallBegins(c) \/ CallContinues(c)
  <2>1. PICK c \in Callers : CallBegins(c) \/ CallContinues(c)
    BY <1>3
  <2>2. CASE PauseReadsPid(c) \/ PauseReadsJob(c)
    BY <1>0, <2>2 DEF PauseReadsPid, PauseReadsJob
  <2>3. CASE PauseStops(c)
    <3>1. LiveProc(cpid[c]) => cjob[c] # NoJob /\ qpc \in Encoding
      BY <1>0, <2>3 DEF PauseStops
    <3>2. /\ \A j \in Jobs : frozen'[j] => LiveProc(j) /\ (frozen[j] \/ j = cpid[c])
          /\ UNCHANGED <<proc, qpc, queuePaused, adrift>> /\ cpc[c] = "pauseStop"
          /\ \A d \in Callers \ {c} : cpc'[d] = cpc[d] /\ cpid'[d] = cpid[d]
          /\ cjob[c] # NoJob => cpc'[c] = "pauseRow"
      BY <1>0, <2>3 DEF PauseStops
    <3> QED BY <3>1, <3>2
  <2>4. CASE PauseBooks(c)
    BY <1>0, <2>4 DEF PauseBooks
  <2>5. CASE ResumeUnpauses(c)
    BY <1>0, <2>5 DEF ResumeUnpauses
  <2>6. CASE ResumeReadsPid(c)
    BY <1>0, <2>6 DEF ResumeReadsPid
  <2>7. CASE ResumeReadsJob(c)
    BY <1>0, <2>7 DEF ResumeReadsJob
  <2>8. CASE ResumeContinues(c)
    BY <1>0, <2>8 DEF ResumeContinues
  <2>9. CASE ResumeBooks(c)
    BY <1>0, <2>9 DEF ResumeBooks
  <2>10. CASE CancelReadsJob(c) \/ QuitLatches(c) \/ SetCleanupMode(c)
    BY <1>0, <2>10 DEF CancelReadsJob, QuitLatches, SetCleanupMode
  <2>11. CASE CancelBooks(c)
    BY <1>0, <2>11 DEF CancelBooks
  <2>12. CASE CancelKills(c)
    BY <1>0, <2>12 DEF CancelKills
  <2>13. CASE CancelClearsPid(c)
    <3>1. \A j \in Jobs : frozen[j] => j \in adrift'
      BY <1>0, <2>13 DEF CancelClearsPid
    <3> QED BY <1>0, <2>13, <3>1 DEF CancelClearsPid
  <2>14. CASE CancelDeletes(c) \/ DropQueuedInPlaceJobs(c)
    BY <1>0, <2>14 DEF CancelDeletes, DropQueuedInPlaceJobs
  <2>15. CASE QuitKills(c)
    BY <1>0, <2>15 DEF QuitKills, KillActiveChild
  <2> QED BY <2>1, <2>2, <2>3, <2>4, <2>5, <2>6, <2>7, <2>8, <2>9, <2>10, <2>11, <2>12, <2>13, <2>14, <2>15
          DEF CallBegins, CallContinues
<1>4. CASE ProcessEnds \/ Boot
  BY <1>0, <1>4 DEF ProcessEnds, Boot
<1> QED BY <1>1, <1>2, <1>3, <1>4

\* No freeze is lost track of, whatever calls race it: between calls the queue is remembered as paused
\* and Resume has the encoder's pid, unless a Cancel forgot that pid without killing the encoder.
THEOREM FreezeIsShown == Spec => []FrozenIsShown
<1>1. Init => FrozenInv
  BY DEF Init, FrozenInv
<1>2. TypeOK /\ CallInv /\ ReadyInv /\ FrozenInv /\ [Next]_vars => FrozenInv'
  <2> SUFFICES ASSUME TypeOK, CallInv, ReadyInv, FrozenInv, [Next]_vars PROVE FrozenInv'
    OBVIOUS
  <2>1. CASE Next
    BY <2>1, FrozenThread, FrozenElsewhere DEF Next
  <2>2. CASE UNCHANGED vars
    BY <2>2 DEF vars, persisted, encoder, thread, locals, call, history, lapses, FrozenInv, LiveProc
  <2> QED BY <2>1, <2>2
<1>3. ReadyInv /\ FrozenInv => FrozenIsShown
  BY DEF ReadyInv, HandleInv, FrozenInv, FrozenIsShown, LiveProc, Quiet, Encoding
<1> QED BY ReadyInvariant, <1>1, <1>2, <1>3, PTL DEF Spec

=============================================================================
