--------------------------- MODULE RemoteJobProofs ---------------------------
(***************************************************************************)
(* Theorems about RemoteJob, for any jobs, files and layouts and any       *)
(* number of lost connections, edits and process ends: types, that only a  *)
(* job still wanted replaces a file, that a file has one live row, that    *)
(* what happens on the host implements SafeReplace, that an outage's job   *)
(* is remembered while its stop stands, and that a job whose result is on  *)
(* the host is recognised by it.                                           *)
(***************************************************************************)
EXTENDS RemoteJob, TLAPS

-----------------------------------------------------------------------------
(* The inductive invariant.                                                *)

\* What a pull has copied is a whole file, before the second stat as after it.
Staged == pc = "restat" => staged \in Whole

\* From the judgement on it is settled how a turn will be booked.
Decided ==
  pc \in {"preparePush", "spawnPush", "push", "begin", "finalize", "book", "drop"} =>
    outcome \in {"done", "skipped"}

\* While a job pushes, no script of an earlier attempt works on its file.
Quiet == pc \in {"push", "begin"} => script[File(job)].at = "none"

\* A script has been told of a whole encode; what it has verified is that encode, and an original
\* it is about to delete has its encode published.
Vouched ==
  \A f \in Files :
    /\ script[f].at \in {"sent", "same", "verified"} => script[f].made \in Encodes
    /\ script[f].at = "verified" => tmp[f] = script[f].made
    /\ script[f].at = "moved" => f \notin layout.inPlace /\ out[f] \in Encodes

IInv ==
  /\ TypeOK /\ Staged /\ Decided /\ Quiet /\ Vouched
  /\ FinalizingIsWanted /\ OneLiveRowPerFile

-----------------------------------------------------------------------------
(* Types in three parts, and what a step that leaves one alone preserves.  *)

DbTypes ==
  /\ row \in [Jobs -> Rows]
  /\ queuePaused \in BOOLEAN
  /\ outageJob \in Jobs \cup {NoJob} /\ requeuedMark \in Jobs \cup {NoJob}
  /\ cleanupMode \in {"delete", "keep"}

HostTypes ==
  /\ src \in [Files -> Whole \cup {NoFile}]
  /\ out \in [Files -> Whole \cup {NoFile}]
  /\ tmp \in [Files -> Encodes \cup {NoFile, Partial}]
  /\ script \in [Files -> Scripts]

TurnTypes ==
  /\ running \in BOOLEAN /\ pc \in Pcs /\ job \in Jobs \cup {NoJob}
  /\ pc # "idle" => running /\ alive /\ job \in Jobs
  /\ child \in {"none", "live", "killed"}
  /\ base \in Whole \cup {NoFile} /\ staged \in Whole \cup {NoFile}
  /\ pc \in {"probe", "recheck", "spawnEncode", "encode", "judge", "preparePush", "spawnPush",
             "push", "begin"} => staged \in Whole
  /\ err \in {"none", "failed", "unreachable", "gone"}
  /\ outcome \in {"none", "done", "skipped"}

OtherTypes ==
  /\ finalizingOn \in BOOLEAN /\ shutdown \in BOOLEAN
  /\ cpc \in {"idle", "book", "kill"} /\ cjob \in Jobs \cup {NoJob}
  /\ cpc = "book" => cjob \in Jobs
  /\ alive \in BOOLEAN /\ excused \in BOOLEAN
  /\ faults \in 0..MaxFaults

LEMMA TypeParts == TypeOK <=> layout \in Layouts /\ DbTypes /\ HostTypes /\ TurnTypes /\ OtherTypes
BY DEF TypeOK, DbTypes, HostTypes, TurnTypes, OtherTypes

\* What a layout is.
LEMMA LayoutType ==
  ASSUME RemoteAssumption, layout \in Layouts
  PROVE  /\ layout.faults \in 0..MaxFaults /\ layout.inPlace \subseteq Files
         /\ \A j \in Jobs : File(j) \in Files
BY DEF RemoteAssumption, File

\* A fault more is within the bound.
LEMMA FaultType ==
  ASSUME RemoteAssumption, layout \in Layouts, faults \in 0..MaxFaults, Fault \/ Reaching
  PROVE  faults' \in 0..MaxFaults
<1>1. layout.faults \in 0..MaxFaults /\ MaxFaults \in Nat
  BY LayoutType DEF RemoteAssumption
<1>2. CASE Fault
  BY <1>1, <1>2 DEF Fault
<1>3. CASE Reaching
  BY <1>3 DEF Reaching
<1> QED BY <1>2, <1>3

LEMMA InitInv == Init => IInv
<1> SUFFICES ASSUME Init PROVE IInv
  OBVIOUS
<1> USE RemoteAssumption DEF Init
<1>1. DbTypes
  BY DEF DbTypes, Rows
<1>2. HostTypes
  BY DEF HostTypes, Whole, Owned, Encodes, Scripts, NoScript
<1>3. TurnTypes
  BY DEF TurnTypes, Pcs
<1>4. OtherTypes
  <2>1. alive \in BOOLEAN /\ excused \in BOOLEAN /\ finalizingOn \in BOOLEAN /\ shutdown \in BOOLEAN
    BY Zenon
  <2>2. faults \in 0..MaxFaults
    OBVIOUS
  <2>3. cpc \in {"idle", "book", "kill"} /\ cjob \in Jobs \cup {NoJob} /\ cpc # "book"
    OBVIOUS
  <2> QED BY <2>1, <2>2, <2>3 DEF OtherTypes
<1>5. TypeOK
  BY <1>1, <1>2, <1>3, <1>4, TypeParts
<1> QED BY <1>5 DEF IInv, Staged, Decided, Quiet, Vouched, NoScript, FinalizingIsWanted,
          OneLiveRowPerFile, Live

-----------------------------------------------------------------------------
(* Steps of the turn that write neither rows nor anything on the host.     *)

LEMMA TurnFrame ==
  ASSUME IInv, UNCHANGED <<layout, db, host>>, TurnTypes', OtherTypes',
         Staged', Decided', Quiet', FinalizingIsWanted'
  PROVE  IInv'
<1>1. DbTypes' /\ HostTypes' /\ layout' \in Layouts
  BY TypeParts DEF IInv, db, host, DbTypes, HostTypes
<1>2. TypeOK'
  BY <1>1 DEF TypeOK, DbTypes, HostTypes, TurnTypes, OtherTypes
<1>3. Vouched' /\ OneLiveRowPerFile'
  BY DEF IInv, db, host, Vouched, OneLiveRowPerFile, Live, File
<1> QED BY <1>2, <1>3 DEF IInv

LEMMA StepTransfer ==
  ASSUME IInv, CheckRoots \/ StatSource \/ PullEnds \/ Restat \/ PullFailed \/ Probe
  PROVE  IInv'
<1> USE RemoteAssumption DEF Calm, At, GoTo
<1>1. UNCHANGED <<layout, db, host, finalizingOn, shutdown, cancel, alive, excused, running, job>>
  BY DEF CheckRoots, StatSource, PullEnds, Restat, PullFailed, Probe, SshFails
<1>2. /\ layout \in Layouts /\ DbTypes /\ HostTypes /\ TurnTypes /\ OtherTypes /\ Staged
      /\ FinalizingIsWanted
  BY TypeParts DEF IInv
<1>3. Fault \/ Reaching
  BY DEF CheckRoots, StatSource, PullEnds, Restat, PullFailed, Probe, SshFails, Reaching
<1>4. OtherTypes'
  BY <1>1, <1>2, <1>3, FaultType DEF OtherTypes, cancel
<1>5. /\ pc \in {"roots", "stat", "pull", "restat", "pullFailed", "probe"}
      /\ pc' \in {"stat", "pullFailed", "preparePull", "restat", "end", "probe", "gone", "stop",
                  "fail", "recheck", "book"}
  BY DEF CheckRoots, StatSource, PullEnds, Restat, PullFailed, Probe, SshFails
<1>6. job \in Jobs /\ src[F] \in Whole \cup {NoFile}
  BY <1>2, <1>5, LayoutType DEF HostTypes, TurnTypes, F
<1>7. /\ err' \in {"none", "failed", "unreachable", "gone"} /\ outcome' \in {"none", "done", "skipped"}
      /\ child' \in {"none", "live", "killed"}
      /\ base' \in Whole \cup {NoFile} /\ staged' \in Whole \cup {NoFile}
  BY <1>2, <1>6 DEF TurnTypes, CheckRoots, StatSource, PullEnds, Restat, PullFailed, Probe, SshFails
<1>8. pc' \in {"restat", "probe", "recheck"} => staged' \in Whole
  <2>1. pc' = "restat" => staged' = src[F] /\ src[F] # NoFile
    BY <1>5 DEF CheckRoots, StatSource, PullEnds, Restat, PullFailed, Probe, SshFails
  <2>2. pc' = "probe" => pc = "restat" /\ staged' = staged
    BY <1>5 DEF CheckRoots, StatSource, PullEnds, Restat, PullFailed, Probe, SshFails
  <2>3. pc' = "recheck" => pc = "probe" /\ staged' = staged
    BY <1>5 DEF CheckRoots, StatSource, PullEnds, Restat, PullFailed, Probe, SshFails
  <2> QED BY <1>2, <1>6, <2>1, <2>2, <2>3 DEF Staged, TurnTypes
<1>9. TurnTypes'
  BY <1>1, <1>2, <1>5, <1>6, <1>7, <1>8 DEF TurnTypes, Pcs
<1>10. Staged' /\ Quiet'
  BY <1>5, <1>8 DEF Staged, Quiet
<1>11. pc' = "book" => outcome' = "skipped"
  BY <1>5 DEF CheckRoots, StatSource, PullEnds, Restat, PullFailed, Probe, SshFails
<1>12. Decided'
  BY <1>5, <1>11 DEF Decided
<1>13. ~finalizingOn'
  BY <1>1, <1>2, <1>5 DEF FinalizingIsWanted
<1>14. FinalizingIsWanted'
  BY <1>13 DEF FinalizingIsWanted
<1> QED BY <1>1, <1>4, <1>9, <1>10, <1>12, <1>14, TurnFrame

LEMMA StepEncode ==
  ASSUME IInv,
         \/ Prepare("preparePull", "spawnPull") \/ Prepare("recheck", "spawnEncode")
         \/ Prepare("preparePush", "spawnPush")
         \/ Spawn("spawnPull", "pull") \/ Spawn("spawnEncode", "encode")
         \/ EncodeEnds \/ Judge
  PROVE  IInv'
<1> USE RemoteAssumption DEF Calm, At, GoTo
<1>1. UNCHANGED <<layout, db, host, finalizingOn, shutdown, cancel, alive, excused, running, job,
                  base, staged, faults>>
  BY DEF Prepare, Spawn, EncodeEnds, Judge, host
<1>2. /\ layout \in Layouts /\ DbTypes /\ HostTypes /\ TurnTypes /\ OtherTypes
      /\ Decided /\ FinalizingIsWanted
  BY TypeParts DEF IInv
<1>3. OtherTypes'
  BY <1>1, <1>2 DEF OtherTypes, cancel
<1>4. /\ pc' = "spawnPull" => pc = "preparePull"
      /\ pc' = "spawnEncode" => pc = "recheck"
      /\ pc' = "spawnPush" => pc = "preparePush" /\ outcome' = outcome
      /\ pc' = "pull" => pc = "spawnPull"
      /\ pc' = "encode" => pc = "spawnEncode"
      /\ pc' = "judge" => pc = "encode"
      /\ pc' \in {"book", "drop", "preparePush"} => pc = "judge" /\ outcome' \in {"done", "skipped"}
  BY DEF Prepare, Spawn, EncodeEnds, Judge
<1>5. /\ pc \in {"preparePull", "recheck", "preparePush", "spawnPull", "spawnEncode", "encode", "judge"}
      /\ pc' \in {"spawnPull", "spawnEncode", "spawnPush", "end", "pull", "encode", "judge", "fail",
                  "book", "drop", "preparePush"}
  BY DEF Prepare, Spawn, EncodeEnds, Judge
<1>6. /\ err' \in {"none", "failed", "unreachable", "gone"} /\ outcome' \in {"none", "done", "skipped"}
      /\ child' \in {"none", "live", "killed"}
  BY <1>2 DEF TurnTypes, Prepare, Spawn, EncodeEnds, Judge
<1>7. TurnTypes'
  BY <1>1, <1>2, <1>4, <1>5, <1>6 DEF TurnTypes, Pcs
<1>8. Staged' /\ Quiet' /\ Decided'
  BY <1>2, <1>4, <1>5 DEF Staged, Quiet, Decided
<1>9. FinalizingIsWanted'
  BY <1>1, <1>2, <1>5 DEF FinalizingIsWanted
<1> QED BY <1>1, <1>3, <1>7, <1>8, <1>9, TurnFrame

\* The answers of the host, those that do not come, and the end of a run.
LEMMA StepUnheard ==
  ASSUME IInv, FinalizeUnanswered \/ PublishFailed \/ ProbeOutput \/ RunEnds
  PROVE  IInv'
<1> USE RemoteAssumption DEF Calm, At, GoTo
<1>1. UNCHANGED <<layout, db, host, finalizingOn, shutdown, cancel, alive, job, base, staged>>
  BY DEF FinalizeUnanswered, PublishFailed, ProbeOutput, RunEnds
<1>2. /\ layout \in Layouts /\ DbTypes /\ HostTypes /\ TurnTypes /\ OtherTypes
      /\ Decided /\ FinalizingIsWanted
  BY TypeParts DEF IInv
<1>3. Fault \/ Reaching
  BY DEF FinalizeUnanswered, PublishFailed, ProbeOutput, RunEnds, Reaching
<1>4. excused' \in BOOLEAN
  <2>1. excused' = excused \/ excused' = TRUE
    BY Zenon DEF FinalizeUnanswered, PublishFailed, ProbeOutput, RunEnds
  <2>2. CASE excused' = excused
    BY <1>2, <2>2 DEF OtherTypes
  <2>3. CASE excused' = TRUE
    BY <2>3, Zenon
  <2> QED BY <2>1, <2>2, <2>3
<1>5. OtherTypes'
  BY <1>1, <1>2, <1>3, <1>4, FaultType DEF OtherTypes, cancel
<1>6. /\ pc \in {"finalize", "publishFailed", "probeOut", "idle"}
      /\ pc' \in {"publishFailed", "end", "stop", "fail", "book", "bookGone", "idle"}
      /\ pc = "idle" <=> pc' = "idle"
      /\ pc' = "book" => outcome' = "done"
      /\ pc = "probeOut" <=> pc' \in {"book", "bookGone"} \/ (pc' = "stop" /\ pc # "publishFailed")
      /\ pc' = "publishFailed" => pc = "finalize"
  BY DEF FinalizeUnanswered, PublishFailed, ProbeOutput, RunEnds
<1>7. /\ err' \in {"none", "failed", "unreachable", "gone"} /\ outcome' \in {"none", "done", "skipped"}
      /\ child' = child
  BY <1>2 DEF TurnTypes, FinalizeUnanswered, PublishFailed, ProbeOutput, RunEnds
<1>8. running' \in BOOLEAN /\ (pc' # "idle" => running' = running)
  <2>1. running' = running \/ (running' = FALSE /\ pc' = "idle")
    BY Zenon DEF FinalizeUnanswered, PublishFailed, ProbeOutput, RunEnds
  <2>2. CASE running' = running
    BY <1>2, <2>2 DEF TurnTypes
  <2>3. CASE running' = FALSE /\ pc' = "idle"
    BY <2>3, Zenon
  <2> QED BY <2>1, <2>2, <2>3
<1>9. TurnTypes'
  BY <1>1, <1>2, <1>6, <1>7, <1>8 DEF TurnTypes, Pcs
<1>10. Staged' /\ Quiet' /\ Decided'
  BY <1>6 DEF Staged, Quiet, Decided
<1>11. FinalizingIsWanted'
  BY <1>1, <1>2, <1>6 DEF FinalizingIsWanted, db
<1> QED BY <1>1, <1>5, <1>9, <1>10, <1>11, TurnFrame

-----------------------------------------------------------------------------
(* Steps of the turn that write rows.                                      *)

LEMMA DbFrame ==
  ASSUME IInv, UNCHANGED <<layout, host>>, DbTypes', TurnTypes', OtherTypes',
         Staged', Decided', Quiet', FinalizingIsWanted', OneLiveRowPerFile'
  PROVE  IInv'
<1>1. HostTypes' /\ layout' \in Layouts
  BY TypeParts DEF IInv, host, HostTypes
<1>2. TypeOK'
  BY <1>1 DEF TypeOK, DbTypes, HostTypes, TurnTypes, OtherTypes
<1>3. Vouched'
  BY DEF IInv, host, Vouched
<1> QED BY <1>2, <1>3 DEF IInv

\* No row comes to life.
LEMMA NoneRevived ==
  ASSUME OneLiveRowPerFile, layout' = layout,
         \A j \in Jobs : row'[j] \in {"queued", "running"} => Live(j)
  PROVE  OneLiveRowPerFile'
BY DEF OneLiveRowPerFile, Live, File

LEMMA StepBook ==
  ASSUME IInv,
         \/ AskMarker \/ Book \/ DropInPlace
         \/ BookError("bookGone", "gone", "end") \/ BookError("fail", "failed", "end")
         \/ BookError("stopBook", "unreachable", "stopped") \/ StopForUnreachable
  PROVE  IInv'
<1> USE RemoteAssumption DEF Calm, At, GoTo
<1>1. UNCHANGED <<layout, host, cleanupMode, finalizingOn, shutdown, cancel, alive, excused, running, job,
                  child, base, staged, err, outcome, faults>>
  BY DEF AskMarker, Book, DropInPlace, BookError, StopForUnreachable
<1>2. /\ layout \in Layouts /\ DbTypes /\ HostTypes /\ TurnTypes /\ OtherTypes
      /\ Decided /\ FinalizingIsWanted /\ OneLiveRowPerFile
  BY TypeParts DEF IInv
<1>3. OtherTypes'
  BY <1>1, <1>2 DEF OtherTypes, cancel
<1>4. /\ pc \in {"gone", "book", "drop", "bookGone", "fail", "stopBook", "stop"}
      /\ pc' \in {"probeOut", "bookGone", "end", "stopped", "stopBook"}
      /\ pc = "gone" <=> pc' \in {"probeOut", "bookGone"}
  BY DEF AskMarker, Book, DropInPlace, BookError, StopForUnreachable
<1>5. job \in Jobs
  BY <1>2, <1>4 DEF TurnTypes
<1>6. row' = row \/ \E st \in Terminal \cup {"deleted"} : row' = [row EXCEPT ![job] = st]
  <2>1. CASE AskMarker \/ StopForUnreachable
    BY <2>1 DEF AskMarker, StopForUnreachable
  <2>2. CASE Book
    BY <1>2, <1>5, <2>2 DEF Book, Decided, Terminal
  <2>3. CASE DropInPlace
    BY <2>3 DEF DropInPlace
  <2>4. CASE BookError("bookGone", "gone", "end") \/ BookError("fail", "failed", "end")
              \/ BookError("stopBook", "unreachable", "stopped")
    <3>1. PICK st \in Terminal : row' = [row EXCEPT ![job] = IF row[job] = "deleted" THEN row[job] ELSE st]
      BY <1>2, <1>5, <2>4 DEF BookError, Terminal, DbTypes
    <3> QED BY <3>1
  <2> QED BY <2>1, <2>2, <2>3, <2>4
<1>7. row' \in [Jobs -> Rows] /\ \A j \in Jobs : row'[j] \in {"queued", "running"} => Live(j)
  BY <1>2, <1>5, <1>6 DEF DbTypes, Rows, Terminal, Live
<1>8. queuePaused' \in BOOLEAN /\ outageJob' \in Jobs \cup {NoJob} /\ requeuedMark' \in Jobs \cup {NoJob}
  <2>1. CASE StopForUnreachable
    <3>1. queuePaused' \in BOOLEAN
      BY <2>1, Zenon DEF StopForUnreachable
    <3>2. outageJob' = job /\ requeuedMark' = requeuedMark
      BY <2>1 DEF StopForUnreachable
    <3> QED BY <1>2, <1>5, <3>1, <3>2 DEF DbTypes
  <2>2. CASE ~StopForUnreachable
    BY <1>2, <2>2 DEF DbTypes, AskMarker, Book, DropInPlace, BookError
  <2> QED BY <2>1, <2>2
<1>9. DbTypes'
  BY <1>1, <1>2, <1>7, <1>8 DEF DbTypes
<1>10. TurnTypes' /\ Staged' /\ Quiet' /\ Decided'
  BY <1>1, <1>2, <1>4 DEF TurnTypes, Pcs, Staged, Quiet, Decided
<1>11. FinalizingIsWanted'
  BY <1>1, <1>2, <1>4 DEF FinalizingIsWanted
<1>12. OneLiveRowPerFile'
  BY <1>1, <1>2, <1>7, NoneRevived
<1> QED BY <1>1, <1>3, <1>9, <1>10, <1>11, <1>12, DbFrame

LEMMA StepNextJob ==
  ASSUME IInv, NEW j \in Jobs, NextJob(j)
  PROVE  IInv'
<1> USE RemoteAssumption DEF Calm, GoTo, NextJob
<1>1. UNCHANGED <<layout, host, queuePaused, outageJob, requeuedMark, cleanupMode, finalizingOn, shutdown,
                  cancel, alive, excused, running, child, base, staged, err, outcome, faults>>
  OBVIOUS
<1>2. /\ layout \in Layouts /\ DbTypes /\ HostTypes /\ TurnTypes /\ OtherTypes
      /\ FinalizingIsWanted /\ OneLiveRowPerFile
  BY TypeParts DEF IInv
<1>3. OtherTypes'
  BY <1>1, <1>2 DEF OtherTypes, cancel
<1>4. DbTypes' /\ \A k \in Jobs : row'[k] \in {"queued", "running"} => Live(k)
  BY <1>2 DEF DbTypes, Rows, Live
<1>5. running /\ alive /\ job' = j /\ pc' = "roots"
  OBVIOUS
<1>6. TurnTypes' /\ Staged' /\ Quiet' /\ Decided'
  BY <1>1, <1>2, <1>5 DEF TurnTypes, Pcs, Staged, Quiet, Decided
<1>7. FinalizingIsWanted'
  BY <1>1, <1>2 DEF FinalizingIsWanted
<1>8. OneLiveRowPerFile'
  BY <1>1, <1>2, <1>4, NoneRevived
<1> QED BY <1>1, <1>3, <1>4, <1>6, <1>7, <1>8, DbFrame

LEMMA StepTurnEnds ==
  ASSUME IInv, TurnEnds
  PROVE  IInv'
<1> USE RemoteAssumption DEF Calm, GoTo, TurnEnds
<1>1. /\ UNCHANGED <<layout, host, row, queuePaused, outageJob, cleanupMode, shutdown, cancel, alive,
                     excused, child, faults>>
      /\ finalizingOn' = FALSE /\ running' = (pc = "end")
      /\ base' = NoFile /\ staged' = NoFile /\ err' = "none" /\ outcome' = "none"
      /\ pc' = "idle" /\ job' = NoJob
  OBVIOUS
<1>2. /\ layout \in Layouts /\ DbTypes /\ HostTypes /\ TurnTypes /\ OtherTypes /\ OneLiveRowPerFile
  BY TypeParts DEF IInv
<1>3. finalizingOn' \in BOOLEAN /\ running' \in BOOLEAN
  BY <1>1, Zenon
<1>4. OtherTypes'
  BY <1>1, <1>2, <1>3 DEF OtherTypes, cancel
<1>5. DbTypes' /\ \A k \in Jobs : row'[k] \in {"queued", "running"} => Live(k)
  BY <1>2 DEF DbTypes, Live
<1>6. TurnTypes' /\ Staged' /\ Quiet' /\ Decided'
  BY <1>1, <1>2, <1>3 DEF TurnTypes, Pcs, Staged, Quiet, Decided
<1>7. FinalizingIsWanted'
  BY <1>1 DEF FinalizingIsWanted
<1>8. OneLiveRowPerFile'
  BY <1>1, <1>2, <1>5, NoneRevived
<1> QED BY <1>1, <1>4, <1>5, <1>6, <1>7, <1>8, DbFrame

-----------------------------------------------------------------------------
(* Steps that write on the host.                                           *)

LEMMA HostFrame ==
  ASSUME IInv, UNCHANGED <<layout, db>>, HostTypes', TurnTypes', OtherTypes',
         Staged', Decided', Quiet', Vouched', FinalizingIsWanted'
  PROVE  IInv'
<1>1. DbTypes' /\ layout' \in Layouts
  BY TypeParts DEF IInv, db, DbTypes
<1>2. TypeOK'
  BY <1>1 DEF TypeOK, DbTypes, HostTypes, TurnTypes, OtherTypes
<1>3. OneLiveRowPerFile'
  BY DEF IInv, db, OneLiveRowPerFile, Live, File
<1> QED BY <1>2, <1>3 DEF IInv

\* A step that gives one file a script that has verified nothing yet, or none.
LEMMA VouchedBut ==
  ASSUME Vouched, NEW g \in Files, UNCHANGED <<layout, out>>,
         \A f \in Files \ {g} : tmp'[f] = tmp[f] /\ script'[f] = script[f],
         \/ script'[g].at = "none"
         \/ script'[g].at = "sent" /\ script'[g].made \in Encodes
  PROVE  Vouched'
BY DEF Vouched

LEMMA ScriptTypes ==
  /\ NoScript \in Scripts /\ NoScript.at = "none"
  /\ \A s \in Scripts : /\ s.base \in Whole \cup {NoFile} /\ s.made \in Encodes \cup {NoFile}
                        /\ s.delete \in BOOLEAN
                        /\ \A at \in {"none", "sent", "same", "verified", "moved", "exit0", "exit"} :
                             [s EXCEPT !.at = at] \in Scripts
BY DEF Scripts, NoScript

LEMMA ResultType ==
  ASSUME staged \in Whole, job \in Jobs
  PROVE  Result \in Encodes
BY DEF Result, Whole, Owned, Encodes

LEMMA StepPush ==
  ASSUME IInv, Spawn("spawnPush", "push") \/ PushEnds \/ BeginFinalize \/ FinalizeAnswers
  PROVE  IInv'
<1> USE RemoteAssumption DEF Calm, At, GoTo
<1>1. UNCHANGED <<layout, db, src, out, shutdown, cancel, alive, excused, running, job, base,
                  staged, outcome>>
  BY DEF Spawn, PushEnds, BeginFinalize, FinalizeAnswers, db
<1>2. /\ layout \in Layouts /\ DbTypes /\ HostTypes /\ TurnTypes /\ OtherTypes
      /\ Decided /\ Quiet /\ Vouched /\ FinalizingIsWanted
  BY TypeParts DEF IInv
<1>3. Fault \/ Reaching
  BY DEF Spawn, PushEnds, BeginFinalize, FinalizeAnswers, Reaching
<1>4. finalizingOn' \in BOOLEAN
  <2>1. finalizingOn' = finalizingOn \/ finalizingOn' = TRUE
    BY Zenon DEF Spawn, PushEnds, BeginFinalize, FinalizeAnswers
  <2>2. CASE finalizingOn' = finalizingOn
    BY <1>2, <2>2 DEF OtherTypes
  <2>3. CASE finalizingOn' = TRUE
    BY <2>3, Zenon
  <2> QED BY <2>1, <2>2, <2>3
<1>5. OtherTypes'
  BY <1>1, <1>2, <1>3, <1>4, FaultType DEF OtherTypes, cancel
<1>6. /\ pc \in {"spawnPush", "push", "begin", "finalize"}
      /\ pc' \in {"push", "begin", "publishFailed", "end", "finalize", "drop", "book"}
      /\ pc' = "push" => pc = "spawnPush"
      /\ pc' = "begin" => pc = "push"
      /\ pc' = "book" => pc = "finalize"
  BY DEF Spawn, PushEnds, BeginFinalize, FinalizeAnswers
<1>7. job \in Jobs /\ F \in Files /\ (pc # "finalize" => Result \in Encodes)
  BY <1>2, <1>6, LayoutType, ResultType DEF TurnTypes, F
<1>8. /\ err' \in {"none", "failed", "unreachable", "gone"} /\ child' \in {"none", "live", "killed"}
  BY <1>2 DEF TurnTypes, Spawn, PushEnds, BeginFinalize, FinalizeAnswers
<1>9. TurnTypes' /\ Staged' /\ Decided'
  BY <1>1, <1>2, <1>6, <1>8 DEF TurnTypes, Pcs, Staged, Decided
<1>10. tmp' = tmp \/ \E t \in Encodes \cup {NoFile, Partial} : tmp' = [tmp EXCEPT ![F] = t]
  BY <1>6, <1>7 DEF Spawn, PushEnds, BeginFinalize, FinalizeAnswers, RemoveTemp
<1>11. /\ \/ script' = script
          \/ script' = [script EXCEPT ![F] = NoScript]
          \/ /\ pc = "begin" /\ pc' = "finalize"
             /\ script' = [script EXCEPT ![F] =
                       [at |-> "sent", base |-> base, made |-> Result,
                        delete |-> cleanupMode # "keep"]]
       /\ pc \in {"spawnPush", "finalize"} => script' = [script EXCEPT ![F] = NoScript]
       /\ pc = "push" => script' = script
  BY DEF Spawn, PushEnds, BeginFinalize, FinalizeAnswers
<1>12. /\ script' \in [Files -> Scripts]
       /\ \A f \in Files \ {F} : script'[f] = script[f]
       /\ script'[F].at = "none" \/ (pc' = "finalize" /\ script'[F].at = "sent" /\ script'[F].made \in Encodes)
  <2>1. CASE script' = script
    BY <1>2, <1>6, <1>7, <1>11, <2>1, ScriptTypes DEF Quiet, HostTypes, F
  <2>2. CASE script' = [script EXCEPT ![F] = NoScript]
    BY <1>2, <1>7, <2>2, ScriptTypes DEF HostTypes
  <2>3. CASE pc = "begin" /\ pc' = "finalize" /\ script' # script /\ script' # [script EXCEPT ![F] = NoScript]
    <3> DEFINE s == [at |-> "sent", base |-> base, made |-> Result, delete |-> cleanupMode # "keep"]
    <3>1. s \in Scripts /\ s.at = "sent" /\ s.made \in Encodes
      BY <1>2, <1>7, <2>3 DEF Scripts, TurnTypes
    <3>2. script' = [script EXCEPT ![F] = s]
      BY <1>11, <2>3
    <3> HIDE DEF s
    <3> QED BY <1>2, <1>7, <2>3, <3>1, <3>2 DEF HostTypes
  <2> QED BY <1>11, <2>1, <2>2, <2>3
<1>13. tmp' \in [Files -> Encodes \cup {NoFile, Partial}] /\ \A f \in Files \ {F} : tmp'[f] = tmp[f]
  BY <1>2, <1>7, <1>10 DEF HostTypes
<1>14. HostTypes'
  BY <1>1, <1>2, <1>12, <1>13 DEF HostTypes
<1>15. Vouched'
  BY <1>1, <1>2, <1>7, <1>12, <1>13, VouchedBut
<1>16. Quiet'
  BY <1>1, <1>6, <1>12 DEF Quiet, F, File
<1>17. FinalizingIsWanted'
  <2>1. CASE BeginFinalize
    BY <1>1, <1>2, <2>1 DEF FinalizingIsWanted, BeginFinalize, StillRunning, db
  <2>2. CASE FinalizeAnswers
    BY <1>1, <1>2, <2>2 DEF FinalizingIsWanted, FinalizeAnswers, db
  <2>3. CASE Spawn("spawnPush", "push") \/ PushEnds
    BY <1>1, <1>2, <2>3 DEF FinalizingIsWanted, Spawn, PushEnds
  <2> QED BY <2>1, <2>2, <2>3
<1> QED BY <1>1, <1>5, <1>9, <1>14, <1>15, <1>16, <1>17, HostFrame

\* What the script may do in one step: nothing but move on, replace the source in place, publish
\* under a free name, delete an original whose encode is published, or throw the temp away.
LEMMA ScriptEffects ==
  ASSUME IInv, NEW f \in Files, FinalizeScript(f)
  PROVE  /\ UNCHANGED <<layout, db, turn, finalizingOn, shutdown, cancel, alive, excused, faults>>
         /\ \E at \in {"same", "verified", "moved", "exit0", "exit"} :
              /\ script' = [script EXCEPT ![f].at = at]
              /\ at = "verified" => script[f].at = "same" /\ tmp[f] = script[f].made
              /\ at = "same" => script[f].at = "sent"
              /\ at = "moved" => /\ script[f].at = "verified" /\ f \notin layout.inPlace
                                 /\ out' = [out EXCEPT ![f] = tmp[f]]
              /\ at \in {"same", "verified"} => UNCHANGED <<tmp, out>>
         /\ script[f].at \in {"sent", "same", "verified", "moved"}
         /\ tmp' = tmp \/ tmp' = [tmp EXCEPT ![f] = NoFile]
         /\ \/ UNCHANGED <<src, out>>
            \/ /\ f \in layout.inPlace /\ script[f].at = "verified"
               /\ src' = [src EXCEPT ![f] = tmp[f]] /\ out' = out
            \/ /\ f \notin layout.inPlace /\ script[f].at = "verified" /\ out[f] = NoFile
               /\ out' = [out EXCEPT ![f] = tmp[f]] /\ src' = src
            \/ /\ script[f].at = "moved"
               /\ src' = [src EXCEPT ![f] = NoFile] /\ out' = out
<1> USE DEF Untouched, OnHost, ScriptAt
<1>1. CASE HostChecksOriginal(f)
  BY <1>1 DEF HostChecksOriginal
<1>2. CASE HostVerifies(f)
  BY <1>2 DEF HostVerifies
<1>3. CASE HostReplaces(f)
  BY <1>3 DEF HostReplaces
<1>4. CASE HostPublishes(f)
  BY <1>4 DEF HostPublishes
<1>5. CASE HostDeletesOriginal(f)
  BY <1>5 DEF HostDeletesOriginal
<1> QED BY <1>1, <1>2, <1>3, <1>4, <1>5 DEF FinalizeScript

\* What a script has verified is a whole encode, what it is about to retire is published.
LEMMA Verified ==
  ASSUME IInv, NEW f \in Files
  PROVE  /\ script[f].at = "verified" => tmp[f] \in Encodes
         /\ script[f].at = "moved" => f \notin layout.inPlace /\ out[f] \in Encodes
BY DEF IInv, Vouched

LEMMA StepScript ==
  ASSUME IInv, NEW f \in Files, FinalizeScript(f)
  PROVE  IInv'
<1> USE RemoteAssumption
<1>1. /\ layout \in Layouts /\ DbTypes /\ HostTypes /\ TurnTypes /\ OtherTypes
      /\ Staged /\ Decided /\ Quiet /\ Vouched /\ FinalizingIsWanted
  BY TypeParts DEF IInv
<1>2. UNCHANGED <<layout, db, turn, finalizingOn, shutdown, cancel, alive, excused, faults>>
  BY ScriptEffects
<1>3. TurnTypes' /\ OtherTypes' /\ Staged' /\ Decided' /\ FinalizingIsWanted'
  BY <1>1, <1>2 DEF turn, cancel, db, TurnTypes, OtherTypes, Staged, Decided, FinalizingIsWanted
<1>4. PICK at \in {"same", "verified", "moved", "exit0", "exit"} :
        /\ script' = [script EXCEPT ![f].at = at]
        /\ at = "verified" => script[f].at = "same" /\ tmp[f] = script[f].made
        /\ at = "same" => script[f].at = "sent"
        /\ at = "moved" => /\ script[f].at = "verified" /\ f \notin layout.inPlace
                           /\ out' = [out EXCEPT ![f] = tmp[f]]
        /\ at \in {"same", "verified"} => UNCHANGED <<tmp, out>>
  BY ScriptEffects
<1>5. script' = [script EXCEPT ![f] = [script[f] EXCEPT !.at = at]] /\ [script[f] EXCEPT !.at = at] \in Scripts
  BY <1>1, <1>4, ScriptTypes DEF HostTypes
<1>6. /\ script' \in [Files -> Scripts]
      /\ \A g \in Files \ {f} : script'[g] = script[g]
      /\ script'[f].at = at /\ script'[f].made = script[f].made
  BY <1>1, <1>5 DEF HostTypes, Scripts
<1>7. /\ src' \in [Files -> Whole \cup {NoFile}] /\ out' \in [Files -> Whole \cup {NoFile}]
      /\ tmp' \in [Files -> Encodes \cup {NoFile, Partial}]
      /\ \A g \in Files \ {f} : out'[g] = out[g] /\ tmp'[g] = tmp[g]
  BY <1>1, ScriptEffects, Verified DEF HostTypes, Whole
<1>8. HostTypes'
  BY <1>6, <1>7 DEF HostTypes
<1>9. Vouched'
  <2> SUFFICES ASSUME NEW g \in Files
               PROVE  /\ script'[g].at \in {"sent", "same", "verified"} => script'[g].made \in Encodes
                      /\ script'[g].at = "verified" => tmp'[g] = script'[g].made
                      /\ script'[g].at = "moved" => g \notin layout'.inPlace /\ out'[g] \in Encodes
    BY DEF Vouched
  <2>1. CASE g # f
    BY <1>1, <1>2, <1>6, <1>7, <2>1 DEF Vouched
  <2>2. CASE g = f
    <3>1. at = "moved" => out'[f] \in Encodes
      BY <1>1, <1>4, Verified DEF HostTypes
    <3> QED BY <1>1, <1>2, <1>4, <1>6, <2>2, <3>1 DEF Vouched
  <2> QED BY <2>1, <2>2
<1>10. Quiet'
  <2> SUFFICES ASSUME pc \in {"push", "begin"} PROVE script'[File(job)].at = "none"
    BY <1>2 DEF Quiet, turn, File
  <2>1. File(job) \in Files /\ script[File(job)].at = "none"
    BY <1>1, LayoutType DEF Quiet, TurnTypes
  <2>2. script[f].at # "none"
    BY ScriptEffects
  <2> QED BY <1>6, <2>1, <2>2
<1> QED BY <1>2, <1>3, <1>8, <1>9, <1>10, HostFrame

LEMMA StepHostStops ==
  ASSUME IInv, NEW f \in Files, HostStops(f)
  PROVE  IInv'
<1> USE RemoteAssumption DEF At, GoTo
<1>1. /\ layout \in Layouts /\ DbTypes /\ HostTypes /\ TurnTypes /\ OtherTypes
      /\ Staged /\ Decided /\ Quiet /\ Vouched /\ FinalizingIsWanted
  BY TypeParts DEF IInv
<1>2. UNCHANGED <<layout, db, src, out, tmp, running, job, child, base, staged, outcome,
                  finalizingOn, shutdown, cancel, alive, excused>>
  BY DEF HostStops
<1>3. script' = [script EXCEPT ![f] = NoScript]
  BY DEF HostStops
<1>4. \/ pc' = pc /\ err' = err
      \/ pc = "finalize" /\ pc' = "publishFailed" /\ err' = "unreachable"
  BY DEF HostStops
<1>5. OtherTypes'
  BY <1>1, <1>2, FaultType DEF OtherTypes, cancel, HostStops
<1>6. TurnTypes' /\ Staged' /\ Decided'
  BY <1>1, <1>2, <1>4 DEF TurnTypes, Pcs, Staged, Decided
<1>7. FinalizingIsWanted'
  BY <1>1, <1>2, <1>4 DEF FinalizingIsWanted, db
<1>8. /\ script' \in [Files -> Scripts] /\ script'[f].at = "none"
      /\ \A g \in Files \ {f} : script'[g] = script[g]
  BY <1>1, <1>3, ScriptTypes DEF HostTypes
<1>9. HostTypes'
  BY <1>1, <1>2, <1>8 DEF HostTypes
<1>10. Vouched'
  BY <1>1, <1>2, <1>8, VouchedBut
<1>11. Quiet'
  <2> SUFFICES ASSUME pc \in {"push", "begin"} PROVE script'[File(job)].at = "none"
    BY <1>2, <1>4 DEF Quiet, File
  <2> QED BY <1>1, <1>8, LayoutType DEF Quiet, TurnTypes
<1> QED BY <1>2, <1>5, <1>6, <1>7, <1>9, <1>10, <1>11, HostFrame

\* The owner's files are theirs, but an output name that is taken they leave alone.
LEMMA OwnerEffects ==
  ASSUME IInv, NEW f \in Files, OwnerActs(f)
  PROVE  \/ \E c \in Owned \cup {NoFile} : src' = [src EXCEPT ![f] = c] /\ out' = out
         \/ out[f] = NoFile /\ src' = src /\ \E c \in Owned : out' = [out EXCEPT ![f] = c]
<1> USE RemoteAssumption
<1>1. layout \in Layouts /\ faults \in 0..MaxFaults
  BY DEF IInv, TypeOK
<1>2. faults + 1 \in 0..MaxFaults
  BY <1>1, FaultType DEF OwnerActs, Fault
<1>3. [of |-> faults + 1, by |-> NoJob] \in Owned
  BY <1>2 DEF Owned
<1> QED BY <1>3 DEF OwnerActs

LEMMA StepOwnerActs ==
  ASSUME IInv, NEW f \in Files, OwnerActs(f)
  PROVE  IInv'
<1> USE RemoteAssumption
<1>1. /\ layout \in Layouts /\ DbTypes /\ HostTypes /\ TurnTypes /\ OtherTypes
      /\ Staged /\ Decided /\ Quiet /\ Vouched /\ FinalizingIsWanted
  BY TypeParts DEF IInv
<1>2. UNCHANGED <<layout, db, turn, tmp, script, finalizingOn, shutdown, cancel, alive>>
  BY DEF OwnerActs, Untouched
<1>3. excused' \in BOOLEAN
  <2>1. excused' = excused \/ excused' = TRUE
    BY Zenon DEF OwnerActs
  <2>2. CASE excused' = excused
    BY <1>1, <2>2 DEF OtherTypes
  <2>3. CASE excused' = TRUE
    BY <2>3, Zenon
  <2> QED BY <2>1, <2>2, <2>3
<1>4. faults' \in 0..MaxFaults
  BY <1>1, FaultType DEF OwnerActs, OtherTypes
<1>5. OtherTypes'
  BY <1>1, <1>2, <1>3, <1>4 DEF OtherTypes, cancel
<1>6. TurnTypes' /\ Staged' /\ Decided' /\ Quiet' /\ FinalizingIsWanted'
  BY <1>1, <1>2 DEF turn, db, TurnTypes, Staged, Decided, Quiet, FinalizingIsWanted, File
<1>7. HostTypes'
  BY <1>1, <1>2, OwnerEffects DEF HostTypes, Whole
<1>8. \A g \in Files : out[g] \in Encodes => out'[g] = out[g]
  <2>1. NoFile \notin Encodes
    BY ContentAssumption DEF Whole
  <2> QED BY <1>1, <2>1, OwnerEffects DEF HostTypes
<1>9. Vouched'
  BY <1>1, <1>2, <1>8 DEF Vouched
<1> QED BY <1>2, <1>5, <1>6, <1>7, <1>9, HostFrame

-----------------------------------------------------------------------------
(* Other threads.                                                          *)

LEMMA OffTurnStep ==
  ASSUME IInv, OffTurn, DbTypes', OtherTypes', FinalizingIsWanted', OneLiveRowPerFile',
         running' \in BOOLEAN, child' \in {"none", "live", "killed"}, pc # "idle" => running' /\ alive'
  PROVE  IInv'
<1>1. /\ layout \in Layouts /\ HostTypes /\ TurnTypes
      /\ Staged /\ Decided /\ Quiet /\ Vouched
  BY TypeParts DEF IInv
<1>2. layout' \in Layouts /\ HostTypes' /\ TurnTypes'
  BY <1>1 DEF OffTurn, host, HostTypes, TurnTypes
<1>3. TypeOK'
  BY <1>2 DEF TypeOK, DbTypes, HostTypes, TurnTypes, OtherTypes
<1>4. Staged' /\ Decided' /\ Quiet' /\ Vouched'
  BY <1>1 DEF OffTurn, host, Staged, Decided, Quiet, Vouched, File
<1> QED BY <1>3, <1>4 DEF IInv

\* A running row that is left running stays wanted.
LEMMA StaysWanted ==
  ASSUME IInv, UNCHANGED <<pc, job, finalizingOn>>,
         \A j \in Jobs : row[j] = "running" /\ finalizingOn => row'[j] = "running"
  PROVE  FinalizingIsWanted'
BY DEF IInv, TypeOK, FinalizingIsWanted

LEMMA StepAddRemove ==
  ASSUME IInv, (\E j \in Jobs : Add(j) \/ RemoveRow(j)) \/ ClearQueue
  PROVE  IInv'
<1>1. /\ layout \in Layouts /\ DbTypes /\ TurnTypes /\ OtherTypes /\ OneLiveRowPerFile
  BY TypeParts DEF IInv
<1>2. /\ OffTurn
      /\ UNCHANGED <<requeuedMark, cleanupMode, running, child, finalizingOn, shutdown, cancel, alive, excused>>
  BY DEF Add, RemoveRow, ClearQueue, OffTurn
<1>3. OtherTypes'
  BY <1>1, <1>2 DEF OtherTypes, cancel, OffTurn
<1>4. row' \in [Jobs -> Rows] /\ \A k \in Jobs : row[k] = "running" => row'[k] = "running"
  BY <1>1 DEF DbTypes, Rows, Terminal, Add, RemoveRow, ClearQueue
<1>5. queuePaused' \in BOOLEAN
  <2>1. queuePaused' = queuePaused \/ queuePaused' = FALSE
    BY Zenon DEF Add, RemoveRow, ClearQueue
  <2>2. CASE queuePaused' = queuePaused
    BY <1>1, <2>2 DEF DbTypes
  <2>3. CASE queuePaused' = FALSE
    BY <2>3, Zenon
  <2> QED BY <2>1, <2>2, <2>3
<1>6. outageJob' = outageJob \/ outageJob' = NoJob
  BY DEF Add, RemoveRow, ClearQueue
<1>7. DbTypes'
  BY <1>1, <1>2, <1>4, <1>5, <1>6 DEF DbTypes
<1>8. OneLiveRowPerFile'
  <2>1. CASE \E j \in Jobs : Add(j)
    <3>1. PICK j \in Jobs : Add(j)
      BY <2>1
    <3>2. /\ \A k \in Jobs : File(k) = File(j) => ~Live(k)
          /\ row' = [row EXCEPT ![j] = "queued"] /\ layout' = layout
      BY <3>1 DEF Add, OffTurn
    <3>3. \A k \in Jobs \ {j} : row'[k] = row[k]
      BY <1>1, <3>2 DEF DbTypes
    <3> QED BY <1>1, <3>2, <3>3 DEF OneLiveRowPerFile, Live, File
  <2>2. CASE ClearQueue \/ \E j \in Jobs : RemoveRow(j)
    <3>1. \A k \in Jobs : row'[k] \in {"queued", "running"} => Live(k)
      BY <1>1, <2>2 DEF DbTypes, Live, ClearQueue, RemoveRow
    <3> QED BY <1>1, <1>2, <3>1, NoneRevived DEF OffTurn
  <2> QED BY <2>1, <2>2
<1>9. FinalizingIsWanted'
  BY <1>2, <1>4, StaysWanted DEF OffTurn
<1> QED BY <1>1, <1>2, <1>3, <1>7, <1>8, <1>9, OffTurnStep DEF TurnTypes

\* The row of an outage comes back only where its file has no live row.
LEMMA StepStart ==
  ASSUME IInv, Start
  PROVE  IInv'
<1>1. /\ layout \in Layouts /\ DbTypes /\ TurnTypes /\ OtherTypes /\ OneLiveRowPerFile
  BY TypeParts DEF IInv
<1>2. /\ OffTurn /\ UNCHANGED <<cleanupMode, child, finalizingOn, shutdown, cancel, alive>>
      /\ row' = [j \in Jobs |-> IF Requeues(j) THEN "queued" ELSE row[j]]
      /\ outageJob' = NoJob /\ requeuedMark' \in {outageJob, requeuedMark}
  BY DEF Start, OffTurn, Marked
<1>3. excused' \in BOOLEAN /\ queuePaused' \in BOOLEAN /\ running' \in BOOLEAN /\ running'
  BY Zenon DEF Start
<1>4. OtherTypes'
  BY <1>1, <1>2, <1>3 DEF OtherTypes, cancel, OffTurn
<1>5. DbTypes'
  BY <1>1, <1>2, <1>3 DEF DbTypes, Rows
<1>6. OneLiveRowPerFile'
  <2> SUFFICES ASSUME NEW j \in Jobs, NEW k \in Jobs, File(j) = File(k),
                      row'[j] \in {"queued", "running"}, row'[k] \in {"queued", "running"}
               PROVE  j = k
    BY <1>2 DEF OneLiveRowPerFile, Live, File, OffTurn
  <2>1. Requeues(j) => j = outageJob /\ ~Live(k)
    BY DEF Requeues
  <2>2. Requeues(k) => k = outageJob /\ ~Live(j)
    BY DEF Requeues
  <2>3. (~Requeues(j) => Live(j)) /\ (~Requeues(k) => Live(k))
    BY <1>2 DEF Live
  <2> QED BY <1>1, <2>1, <2>2, <2>3 DEF OneLiveRowPerFile
<1>7. FinalizingIsWanted'
  <2>1. \A j \in Jobs : row[j] = "running" => row'[j] = "running"
    BY <1>2 DEF Requeues
  <2> QED BY <1>2, <2>1, StaysWanted DEF OffTurn
<1>8. pc # "idle" => running' /\ alive'
  BY <1>1, <1>2, <1>3 DEF TurnTypes
<1> QED BY <1>1, <1>2, <1>3, <1>4, <1>5, <1>6, <1>7, <1>8, OffTurnStep DEF TurnTypes

LEMMA StepCancel ==
  ASSUME IInv, Cancel \/ Quit
  PROVE  IInv'
<1>1. /\ layout \in Layouts /\ DbTypes /\ TurnTypes /\ OtherTypes /\ OneLiveRowPerFile
  BY TypeParts DEF IInv
<1>2. /\ OffTurn /\ UNCHANGED <<outageJob, requeuedMark, cleanupMode, running, finalizingOn, alive, excused>>
  BY DEF Cancel, CancelReads, CancelBooks, CancelKills, Quit, db, OffTurn
<1>3. /\ child' \in {"none", "live", "killed"}
      /\ row' = row \/ (cjob \in Jobs /\ ~finalizingOn /\ row' = [row EXCEPT ![cjob] = "cancelled"])
      /\ cpc' \in {"idle", "book", "kill"} /\ cjob' \in Jobs \cup {NoJob} /\ (cpc' = "book" => cjob' \in Jobs)
  BY <1>1 DEF TurnTypes, OtherTypes, Cancel, CancelReads, CancelBooks, CancelKills, Quit, cancel, db,
     CurrentJob
<1>4. queuePaused' \in BOOLEAN /\ shutdown' \in BOOLEAN
  <2>1. CASE CancelReads \/ CancelKills
    BY <1>1, <2>1 DEF CancelReads, CancelKills, db, DbTypes, OtherTypes
  <2>2. CASE CancelBooks
    <3>1. queuePaused' \in BOOLEAN
      BY <2>2, Zenon DEF CancelBooks
    <3>2. shutdown' = shutdown
      BY <2>2 DEF CancelBooks
    <3> QED BY <1>1, <3>1, <3>2 DEF OtherTypes
  <2>3. CASE Quit
    <3>1. shutdown' \in BOOLEAN
      BY <2>3, Zenon DEF Quit
    <3>2. queuePaused' = queuePaused
      BY <2>3 DEF Quit, db
    <3> QED BY <1>1, <3>1, <3>2 DEF DbTypes
  <2> QED BY <2>1, <2>2, <2>3 DEF Cancel
<1>5. OtherTypes'
  BY <1>1, <1>2, <1>3, <1>4 DEF OtherTypes, OffTurn
<1>6. /\ row' \in [Jobs -> Rows]
      /\ \A k \in Jobs : row'[k] \in {"queued", "running"} => Live(k)
      /\ \A k \in Jobs : row[k] = "running" /\ finalizingOn => row'[k] = "running"
  BY <1>1, <1>3 DEF DbTypes, Rows, Terminal, Live
<1>7. DbTypes'
  BY <1>1, <1>2, <1>4, <1>6 DEF DbTypes
<1>8. OneLiveRowPerFile'
  BY <1>1, <1>2, <1>6, NoneRevived DEF OffTurn
<1>9. FinalizingIsWanted'
  BY <1>2, <1>6, StaysWanted DEF OffTurn
<1> QED BY <1>1, <1>2, <1>3, <1>5, <1>7, <1>8, <1>9, OffTurnStep DEF TurnTypes

\* The switch to "keep", and the launch that applies it again.
LEMMA StepMode ==
  ASSUME IInv, (\E mode \in {"delete", "keep"} : SetCleanupMode(mode)) \/ Boot
  PROVE  IInv'
<1>1. /\ layout \in Layouts /\ DbTypes /\ TurnTypes /\ OtherTypes /\ OneLiveRowPerFile
      /\ FinalizingIsWanted
  BY TypeParts DEF IInv
<1>2. /\ OffTurn
      /\ UNCHANGED <<queuePaused, outageJob, requeuedMark, child, finalizingOn, shutdown, cancel, excused>>
      /\ cleanupMode' \in {"delete", "keep"}
  BY <1>1 DEF SetCleanupMode, Boot, OffTurn, DbTypes
<1>3. /\ row' \in [Jobs -> Rows]
      /\ \A k \in Jobs : row'[k] \in {"queued", "running"} => Live(k)
      /\ pc # "idle" => \A k \in Jobs : row[k] = "running" => row'[k] = "running"
  <2>1. CASE \E mode \in {"delete", "keep"} : SetCleanupMode(mode)
    BY <1>1, <2>1 DEF SetCleanupMode, KeepDrops, DbTypes, Rows, Live
  <2>2. CASE Boot
    BY <1>1, <2>2 DEF Boot, KeepDrops, DbTypes, Rows, Live, TurnTypes
  <2> QED BY <2>1, <2>2
<1>4. running' \in BOOLEAN /\ alive' \in BOOLEAN /\ (pc # "idle" => running' /\ alive')
  <2>1. CASE \E mode \in {"delete", "keep"} : SetCleanupMode(mode)
    BY <1>1, <2>1 DEF SetCleanupMode, TurnTypes, OtherTypes
  <2>2. CASE Boot
    <3>1. running' \in BOOLEAN /\ alive' \in BOOLEAN
      BY <2>2, Zenon DEF Boot
    <3>2. pc = "idle"
      BY <1>1, <2>2 DEF Boot, TurnTypes
    <3> QED BY <3>1, <3>2
  <2> QED BY <2>1, <2>2
<1>5. OtherTypes'
  BY <1>1, <1>2, <1>4 DEF OtherTypes, cancel, OffTurn
<1>6. DbTypes'
  BY <1>1, <1>2, <1>3 DEF DbTypes
<1>7. OneLiveRowPerFile'
  BY <1>1, <1>2, <1>3, NoneRevived DEF OffTurn
<1>8. FinalizingIsWanted'
  <2>1. CASE pc = "idle"
    BY <1>1, <1>2, <2>1 DEF FinalizingIsWanted, OffTurn
  <2>2. CASE pc # "idle"
    BY <1>2, <1>3, <2>2, StaysWanted DEF OffTurn
  <2> QED BY <2>1, <2>2
<1> QED BY <1>1, <1>2, <1>4, <1>5, <1>6, <1>7, <1>8, OffTurnStep DEF TurnTypes

LEMMA StepProcessEnds ==
  ASSUME IInv, ProcessEnds
  PROVE  IInv'
<1> USE RemoteAssumption DEF ProcessEnds
<1>1. layout \in Layouts /\ DbTypes /\ OtherTypes
  BY TypeParts DEF IInv
<1>2. UNCHANGED <<layout, db, host>> /\ pc' = "idle" /\ finalizingOn' = FALSE
  OBVIOUS
<1>3. alive' \in BOOLEAN /\ excused' \in BOOLEAN /\ shutdown' \in BOOLEAN /\ finalizingOn' \in BOOLEAN
      /\ running' \in BOOLEAN
  BY Zenon
<1>4. faults' \in 0..MaxFaults
  BY <1>1, FaultType DEF OtherTypes
<1>5. OtherTypes'
  BY <1>3, <1>4 DEF OtherTypes
<1>6. TurnTypes'
  BY <1>2, <1>3 DEF TurnTypes, Pcs
<1>7. Staged' /\ Decided' /\ Quiet' /\ FinalizingIsWanted'
  BY <1>2 DEF Staged, Decided, Quiet, FinalizingIsWanted
<1> QED BY <1>2, <1>5, <1>6, <1>7, TurnFrame

-----------------------------------------------------------------------------
(* Together.                                                               *)

LEMMA StepTurn == IInv /\ QueueThread => IInv'
<1> SUFFICES ASSUME IInv, QueueThread PROVE IInv'
  OBVIOUS
<1>1. CASE RunEnds \/ \E j \in Jobs : NextJob(j)
  BY <1>1, StepUnheard, StepNextJob
<1>2. CASE TurnStep
  BY <1>2, StepTransfer, StepEncode, StepUnheard, StepPush, StepBook, StepTurnEnds DEF TurnStep
<1> QED BY <1>1, <1>2 DEF QueueThread

LEMMA Inductive == IInv /\ [Next]_vars => IInv'
<1> SUFFICES ASSUME IInv, [Next]_vars PROVE IInv'
  OBVIOUS
<1>1. CASE QueueThread
  BY <1>1, StepTurn
<1>2. CASE \E f \in Files : FinalizeScript(f) \/ HostStops(f) \/ OwnerActs(f)
  BY <1>2, StepScript, StepHostStops, StepOwnerActs
<1>3. CASE \/ \E j \in Jobs : Add(j) \/ RemoveRow(j)
           \/ Start \/ Cancel \/ ClearQueue \/ Quit \/ ProcessEnds \/ Boot
           \/ \E mode \in {"delete", "keep"} : SetCleanupMode(mode)
  BY <1>3, StepAddRemove, StepStart, StepCancel, StepMode, StepProcessEnds
<1>4. CASE UNCHANGED vars
  <2>1. UNCHANGED <<layout, db, host, turn, finalizingOn, shutdown, cancel, alive, excused, faults>>
    BY <1>4 DEF vars
  <2>2. /\ TurnTypes /\ OtherTypes /\ Staged /\ Decided /\ Quiet /\ FinalizingIsWanted
    BY TypeParts DEF IInv
  <2>3. TurnTypes' /\ OtherTypes' /\ Staged' /\ Decided' /\ Quiet' /\ FinalizingIsWanted'
    BY <2>1, <2>2 DEF db, host, turn, cancel, TurnTypes, OtherTypes, Staged, Decided, Quiet,
       FinalizingIsWanted, File
  <2> QED BY <2>1, <2>3, TurnFrame
<1> QED BY <1>1, <1>2, <1>3, <1>4 DEF Next

LEMMA Invariant == Spec => []IInv
<1> QED BY InitInv, Inductive, PTL DEF Spec

-----------------------------------------------------------------------------
(* The theorems.                                                           *)

\* The types hold of every reachable state, whatever the jobs, files and faults.
THEOREM RemoteTypeCorrect == Spec => []TypeOK
<1>1. IInv => TypeOK
  BY DEF IInv
<1> QED BY Invariant, <1>1, PTL

\* From the script's start to its booking the row runs on, however a Cancel, a Clear, a switch of
\* the cleanup mode or a quit fall into it.
THEOREM FinalizesOnlyTheWanted == Spec => []FinalizingIsWanted
<1>1. IInv => FinalizingIsWanted
  BY DEF IInv
<1> QED BY Invariant, <1>1, PTL

\* A file never has two rows that will be encoded.
THEOREM OneRowPerFile == Spec => []OneLiveRowPerFile
<1>1. IInv => OneLiveRowPerFile
  BY DEF IInv
<1> QED BY Invariant, <1>1, PTL

\* A step of the script or of the owner is one that SafeReplace allows; nobody else touches the
\* source or the output name.
LEMMA StepMaps ==
  ASSUME IInv, [Next]_vars
  PROVE  Safe!Next \/ UNCHANGED <<layout.inPlace, src, out>>
<1>1. CASE QueueThread
  BY <1>1 DEF QueueThread, TurnStep, Calm, RunEnds, NextJob, CheckRoots, StatSource, Prepare, Spawn,
     PullEnds, Restat, PullFailed, Probe, EncodeEnds, Judge, PushEnds, BeginFinalize,
     FinalizeAnswers, FinalizeUnanswered, PublishFailed, AskMarker, ProbeOutput, Book, DropInPlace,
     BookError, StopForUnreachable, TurnEnds, host
<1>2. ASSUME NEW f \in Files, FinalizeScript(f)
      PROVE  Safe!Next \/ UNCHANGED <<layout.inPlace, src, out>>
  <2>1. layout' = layout
    BY <1>2, ScriptEffects
  <2>2. CASE UNCHANGED <<src, out>>
    BY <2>1, <2>2
  <2>3. CASE /\ f \in layout.inPlace /\ script[f].at = "verified"
             /\ src' = [src EXCEPT ![f] = tmp[f]] /\ out' = out
    <3>1. Safe!Replace(f)
      BY <2>1, <2>3, Verified DEF Safe!Replace
    <3> QED BY <3>1 DEF Safe!Next
  <2>4. CASE /\ f \notin layout.inPlace /\ script[f].at = "verified" /\ out[f] = NoFile
             /\ out' = [out EXCEPT ![f] = tmp[f]] /\ src' = src
    <3>1. Safe!Publish(f)
      BY <2>1, <2>4, Verified DEF Safe!Publish
    <3> QED BY <3>1 DEF Safe!Next
  <2>5. CASE script[f].at = "moved" /\ src' = [src EXCEPT ![f] = NoFile] /\ out' = out
    <3>1. Safe!Retire(f)
      BY <2>1, <2>5, Verified DEF Safe!Retire
    <3> QED BY <3>1 DEF Safe!Next
  <2> QED BY <1>2, <2>2, <2>3, <2>4, <2>5, ScriptEffects
<1>3. ASSUME NEW f \in Files, OwnerActs(f)
      PROVE  Safe!Next
  <2>1. layout' = layout
    BY <1>3 DEF OwnerActs, Untouched
  <2>2. Safe!OwnerActs(f)
    BY <1>3, <2>1, OwnerEffects DEF Safe!OwnerActs
  <2> QED BY <2>2 DEF Safe!Next
<1>4. CASE \E f \in Files : HostStops(f)
  BY <1>4 DEF HostStops
<1>5. CASE \/ \E j \in Jobs : Add(j) \/ RemoveRow(j)
           \/ Start \/ Cancel \/ ClearQueue \/ Quit \/ ProcessEnds \/ Boot
           \/ \E mode \in {"delete", "keep"} : SetCleanupMode(mode)
  BY <1>5 DEF Add, RemoveRow, Start, Cancel, CancelReads, CancelBooks, CancelKills, ClearQueue, Quit,
     ProcessEnds, Boot, SetCleanupMode, OffTurn, host
<1>6. CASE UNCHANGED vars
  BY <1>6 DEF vars, host
<1> QED BY <1>1, <1>2, <1>3, <1>4, <1>5, <1>6 DEF Next

\* The remote job implements SafeReplace: however the connection, the process and the owner
\* behave, the host sees whole encodes and nothing overwritten.
THEOREM RemoteRefines == Spec => ImplementsSafeReplace
<1>1. Init => Safe!Init
  BY RemoteAssumption DEF Init, Safe!Init, Owned
<1>2. IInv /\ [Next]_vars => [Safe!Next]_<<layout.inPlace, src, out>>
  BY StepMaps
<1> QED BY Invariant, <1>1, <1>2, PTL DEF Spec, ImplementsSafeReplace

-----------------------------------------------------------------------------
(* The job an outage stopped on.                                           *)

\* An outage is booked by the last step of a turn, and while its stop stands no other turn begins.
StopInv ==
  /\ pc \notin {"idle", "stopped"} => row[job] # "unreachable"
  /\ \A j \in Jobs : row[j] = "unreachable" /\ outageJob = j /\ queuePaused => ~running \/ pc = "stopped"

OutageKept ==
  \A j \in Jobs : row[j] = "unreachable" /\ outageJob = j /\ queuePaused =>
    \/ outageJob' = j \/ row'[j] = "queued"
    \/ \E k \in Jobs \ {j} : File(k) = File(j) /\ Live(k)
    \/ ClearQueue

\* Steps that stop no queue, start none and put no row among the unreachable.
LEMMA StopFrame ==
  ASSUME TypeOK, StopInv, outageJob' = outageJob,
         queuePaused' => queuePaused,
         running' => running \/ ~queuePaused',
         \A j \in Jobs : row'[j] = "unreachable" => row[j] = "unreachable",
         pc' \notin {"idle", "stopped"} => pc \notin {"idle", "stopped"} /\ job' = job,
         pc = "stopped" => pc' = "stopped" \/ ~running'
  PROVE  StopInv' /\ OutageKept
<1>1. pc # "idle" => job \in Jobs
  BY DEF TypeOK
<1> QED BY <1>1 DEF StopInv, OutageKept

LEMMA StopTurn ==
  ASSUME TypeOK, StopInv, QueueThread
  PROVE  StopInv' /\ OutageKept
<1> USE RemoteAssumption DEF At, GoTo, db, host
<1>0. /\ row \in [Jobs -> Rows] /\ pc \in Pcs /\ (pc # "idle" => running /\ job \in Jobs)
      /\ outcome \in {"none", "done", "skipped"}
  BY DEF TypeOK
<1>1. CASE \/ CheckRoots \/ StatSource \/ PullEnds \/ Restat \/ PullFailed \/ Probe
  <2>1. /\ UNCHANGED <<row, queuePaused, outageJob, running, job>>
        /\ pc \notin {"idle", "stopped"} /\ pc' \notin {"idle", "stopped"}
    BY <1>1 DEF CheckRoots, StatSource, PullEnds, Restat, PullFailed, Probe, SshFails
  <2> QED BY <2>1, StopFrame
<1>2. CASE \/ Prepare("preparePull", "spawnPull") \/ Prepare("recheck", "spawnEncode")
           \/ Prepare("preparePush", "spawnPush") \/ Spawn("spawnPull", "pull")
           \/ Spawn("spawnEncode", "encode") \/ Spawn("spawnPush", "push")
  <2>1. /\ UNCHANGED <<row, queuePaused, outageJob, running, job>>
        /\ pc \notin {"idle", "stopped"} /\ pc' \notin {"idle", "stopped"}
    BY <1>2 DEF Prepare, Spawn
  <2> QED BY <2>1, StopFrame
<1>3. CASE \/ EncodeEnds \/ Judge \/ PushEnds \/ BeginFinalize \/ FinalizeAnswers \/ FinalizeUnanswered
           \/ PublishFailed \/ AskMarker \/ ProbeOutput
  <2>1. /\ UNCHANGED <<row, queuePaused, outageJob, running, job>>
        /\ pc \notin {"idle", "stopped"} /\ pc' \notin {"idle", "stopped"}
    BY <1>3 DEF EncodeEnds, Judge, PushEnds, BeginFinalize, FinalizeAnswers, FinalizeUnanswered,
       PublishFailed, AskMarker, ProbeOutput
  <2> QED BY <2>1, StopFrame
<1>4. CASE \/ Book \/ DropInPlace \/ BookError("bookGone", "gone", "end") \/ BookError("fail", "failed", "end")
  <2>1. /\ UNCHANGED <<queuePaused, outageJob, running, job>>
        /\ pc \notin {"idle", "stopped"} /\ pc' \notin {"idle", "stopped"}
        /\ \A j \in Jobs : row'[j] = "unreachable" => row[j] = "unreachable"
    BY <1>0, <1>4 DEF Book, DropInPlace, BookError
  <2> QED BY <2>1, StopFrame
<1>5. CASE StopForUnreachable
  BY <1>0, <1>5 DEF StopForUnreachable, StopInv, OutageKept
<1>6. CASE BookError("stopBook", "unreachable", "stopped")
  BY <1>0, <1>6 DEF BookError, StopInv, OutageKept
<1>7. CASE TurnEnds \/ RunEnds
  <2>1. /\ UNCHANGED <<row, queuePaused, outageJob>> /\ pc' = "idle"
        /\ running' => running /\ pc # "stopped"
    BY <1>0, <1>7 DEF TurnEnds, RunEnds
  <2> QED BY <2>1, StopFrame
<1>8. CASE \E j \in Jobs : NextJob(j)
  BY <1>0, <1>8 DEF NextJob, StopInv, OutageKept
<1> QED BY <1>1, <1>2, <1>3, <1>4, <1>5, <1>6, <1>7, <1>8 DEF QueueThread, TurnStep

LEMMA StopElsewhere ==
  ASSUME TypeOK, StopInv, [Next]_vars, ~QueueThread
  PROVE  StopInv' /\ OutageKept
<1> USE RemoteAssumption DEF db, host, turn
<1>0. /\ row \in [Jobs -> Rows] /\ pc \in Pcs /\ (pc # "idle" => running /\ job \in Jobs)
      /\ (cpc = "book" => cjob \in Jobs) /\ running \in BOOLEAN
  BY DEF TypeOK
<1>1. CASE \E f \in Files : FinalizeScript(f) \/ HostStops(f) \/ OwnerActs(f)
  <2>1. UNCHANGED <<row, queuePaused, outageJob, running, job>>
    BY <1>1 DEF FinalizeScript, HostChecksOriginal, HostVerifies, HostReplaces, HostPublishes,
       HostDeletesOriginal, HostStops, OwnerActs, OnHost, Untouched
  <2>2. pc' = pc \/ (pc = "finalize" /\ pc' = "publishFailed")
    BY <1>1 DEF FinalizeScript, HostChecksOriginal, HostVerifies, HostReplaces, HostPublishes,
       HostDeletesOriginal, HostStops, OwnerActs, OnHost, Untouched, At, GoTo
  <2> QED BY <2>1, <2>2, StopFrame
<1>2. CASE \E j \in Jobs : Add(j) \/ RemoveRow(j)
  <2>1. /\ UNCHANGED <<queuePaused, outageJob, running, pc, job>>
        /\ \A j \in Jobs : row'[j] = "unreachable" => row[j] = "unreachable"
    BY <1>0, <1>2 DEF Add, RemoveRow, OffTurn
  <2> QED BY <2>1, StopFrame
<1>3. CASE Start
  <2>1. /\ ~running /\ pc = "idle" /\ pc' = "idle" /\ queuePaused' = FALSE
        /\ row' = [j \in Jobs |-> IF Requeues(j) THEN "queued" ELSE row[j]]
    BY <1>0, <1>3 DEF Start, OffTurn
  <2>2. ASSUME NEW j \in Jobs, row[j] = "unreachable", outageJob = j
        PROVE  row'[j] = "queued" \/ \E k \in Jobs \ {j} : File(k) = File(j) /\ Live(k)
    BY <2>1, <2>2 DEF Requeues, Live
  <2> QED BY <2>1, <2>2 DEF StopInv, OutageKept
<1>4. CASE Cancel \/ Quit
  <2>1. CASE CancelReads \/ CancelKills \/ Quit
    <3>1. UNCHANGED <<row, queuePaused, outageJob, running, pc, job>>
      BY <2>1 DEF CancelReads, CancelKills, Quit, OffTurn, db
    <3> QED BY <3>1, StopFrame
  <2>2. CASE CancelBooks
    <3>1. UNCHANGED <<outageJob, running, pc, job>>
      BY <2>2 DEF CancelBooks, OffTurn
    <3>2. queuePaused' => queuePaused
      BY <1>0, <2>2 DEF CancelBooks
    <3>3. row' = row \/ row' = [row EXCEPT ![cjob] = "cancelled"]
      BY <2>2, Zenon DEF CancelBooks
    <3>4. \A j \in Jobs : row'[j] = "unreachable" => row[j] = "unreachable"
      BY <1>0, <3>3
    <3> QED BY <3>1, <3>2, <3>4, StopFrame
  <2> QED BY <1>4, <2>1, <2>2 DEF Cancel
<1>5. CASE ClearQueue
  <2>1. /\ ~queuePaused' /\ UNCHANGED <<running, pc, job>>
        /\ \A j \in Jobs : row'[j] = "unreachable" => row[j] = "unreachable"
    BY <1>5 DEF ClearQueue, OffTurn
  <2> QED BY <1>0, <1>5, <2>1 DEF StopInv, OutageKept
<1>6. CASE ProcessEnds \/ Boot
  <2>1. /\ UNCHANGED <<queuePaused, outageJob>> /\ pc' = "idle" /\ (running' => ~queuePaused)
        /\ pc = "stopped" => ~running'
        /\ \A j \in Jobs : row'[j] = "unreachable" => row[j] = "unreachable"
    <3>1. CASE ProcessEnds
      BY <3>1 DEF ProcessEnds
    <3>2. CASE Boot
      <4>1. ~alive
        BY <3>2 DEF Boot
      <4>2. pc = "idle"
        BY <4>1 DEF TypeOK
      <4>3. UNCHANGED <<queuePaused, outageJob>> /\ pc' = pc
        BY <3>2 DEF Boot, OffTurn
      <4>4. running' => ~queuePaused
        BY <1>0, <3>2 DEF Boot
      <4>5. \A j \in Jobs : row'[j] = "unreachable" => row[j] = "unreachable"
        BY <1>0, <3>2 DEF Boot, KeepDrops
      <4> QED BY <4>2, <4>3, <4>4, <4>5
    <3> QED BY <1>6, <3>1, <3>2
  <2> QED BY <2>1, StopFrame
<1>7. CASE \E mode \in {"delete", "keep"} : SetCleanupMode(mode)
  <2>1. /\ UNCHANGED <<queuePaused, outageJob, running, pc, job>>
        /\ \A j \in Jobs : row'[j] = "unreachable" => row[j] = "unreachable"
    BY <1>7 DEF SetCleanupMode, KeepDrops, OffTurn
  <2> QED BY <2>1, StopFrame
<1>8. CASE UNCHANGED vars
  BY <1>8, StopFrame DEF vars
<1> QED BY <1>1, <1>2, <1>3, <1>4, <1>5, <1>6, <1>7, <1>8 DEF Next

\* Whatever else happens, an outage's job is remembered until a start has put it back into the queue
\* or found its file there already, or the user has cleared the queue, as long as no Cancel has
\* lifted the stop.
THEOREM OutageIsRemembered == Spec => OutageIsNotForgotten
<1>1. Init => StopInv
  BY DEF Init, StopInv
<1>2. TypeOK /\ StopInv /\ [Next]_vars => StopInv' /\ OutageKept
  BY StopTurn, StopElsewhere
<1>3. OutageKept => [\A j \in Jobs : row[j] = "unreachable" /\ outageJob = j /\ queuePaused =>
                       \/ outageJob' = j \/ row'[j] = "queued"
                       \/ \E k \in Jobs \ {j} : File(k) = File(j) /\ Live(k)
                       \/ ClearQueue]_vars
  BY DEF OutageKept
<1> QED BY RemoteTypeCorrect, <1>1, <1>2, <1>3, PTL DEF Spec, OutageIsNotForgotten
-----------------------------------------------------------------------------
(* What a job has put on the host, or is about to.                          *)

\* The file under the output name is the job's own; a script may still publish it.
Made(j)     == out[File(j)] # NoFile /\ out[File(j)].by = j
InMaking(j) == /\ out[File(j)] = NoFile
               /\ script[File(j)].at \in {"sent", "same", "verified"}
               /\ script[File(j)].made.by = j

\* A source is gone only behind a published output, and no output is published for a file that
\* is encoded in place.
GoneInv ==
  /\ \A f \in Files : out[f] # NoFile => f \notin layout.inPlace
  /\ \A f \in Files : src[f] = NoFile => out[f] # NoFile
  /\ err = "gone" => pc # "idle" /\ out[F] # NoFile
  /\ pc \in {"gone", "probeOut", "bookGone"} => out[F] # NoFile

\* From the script's start a turn can be booked "gone" no more; only the look for an output leads
\* back there.
Late == {"finalize", "publishFailed", "book", "drop", "fail", "stop", "stopBook", "stopped", "end",
         "probeOut"}

\* Whoever may find an output of its own carries the marker: queued for another try, or in the
\* turn that follows, up to where the marker is asked for.
MarkInv ==
  /\ \A j \in Jobs : Made(j) \/ InMaking(j) =>
       /\ row[j] \notin {"absent", "gone"}
       /\ row[j] = "queued" => requeuedMark = j
  /\ pc # "idle" => row[job] \notin {"absent", "queued"}
  /\ pc # "idle" /\ (Made(job) \/ InMaking(job)) => requeuedMark = job \/ pc \in Late
  /\ pc = "bookGone" => ~Made(job)

\* Until something has happened that excuses the job, which includes the end of the process.
MarkedInv == ~excused => alive /\ GoneInv /\ MarkInv

\* What it takes to disturb neither part: a file that is out stays out, no job comes to an output
\* of its own, and the turn goes on to no booking it could not make before.
LEMMA GoneFrame ==
  ASSUME GoneInv, layout' = layout,
         \A f \in Files : out[f] # NoFile => out'[f] # NoFile,
         \A f \in Files : out'[f] # NoFile => out[f] # NoFile \/ f \notin layout.inPlace,
         \A f \in Files : src'[f] = NoFile => src[f] = NoFile \/ out[f] # NoFile,
         pc # "idle" => F \in Files,
         err' = "gone" => /\ pc # "idle" /\ pc' # "idle" /\ job' = job
                          /\ err = "gone" \/ out[F] # NoFile,
         pc' \in {"gone", "probeOut", "bookGone"} =>
           /\ pc # "idle" /\ job' = job
           /\ pc \in {"gone", "probeOut", "bookGone"} \/ out[F] # NoFile
  PROVE  GoneInv'
<1>1. UNCHANGED layout.inPlace
  OBVIOUS
<1>2. \A f \in Files : out'[f] # NoFile => f \notin layout'.inPlace
  BY <1>1 DEF GoneInv
<1>3. \A f \in Files : src'[f] = NoFile => out'[f] # NoFile
  BY DEF GoneInv
<1>4. pc' # "idle" /\ pc # "idle" /\ job' = job => F' = F
  BY DEF F, File
<1>5. err' = "gone" => pc' # "idle" /\ out'[F'] # NoFile
  BY <1>4 DEF GoneInv
<1>6. pc' \in {"gone", "probeOut", "bookGone"} => out'[F'] # NoFile
  BY <1>4 DEF GoneInv
<1> QED BY <1>2, <1>3, <1>5, <1>6 DEF GoneInv

LEMMA MarkFrame ==
  ASSUME MarkInv, layout' = layout, requeuedMark' = requeuedMark,
         \A j \in Jobs : (Made(j) \/ InMaking(j))' => Made(j) \/ InMaking(j),
         \A j \in Jobs : row'[j] = row[j] \/ row'[j] \notin {"absent", "gone", "queued"},
         pc # "idle" => job \in Jobs,
         pc' # "idle" => pc # "idle" /\ job' = job /\ (pc \in Late => pc' \in Late),
         pc' = "bookGone" => pc = "bookGone" /\ (Made(job)' => Made(job))
  PROVE  MarkInv'
<1>1. \A j \in Jobs : (Made(j) \/ InMaking(j))' =>
        row'[j] \notin {"absent", "gone"} /\ (row'[j] = "queued" => requeuedMark' = j)
  BY Zenon DEF MarkInv
<1>2. pc' # "idle" => row'[job'] \notin {"absent", "queued"}
  BY DEF MarkInv
<1>3. (pc # "idle" /\ (Made(job) \/ InMaking(job)))' => requeuedMark' = job' \/ pc' \in Late
  BY DEF MarkInv, Made, InMaking, File
<1>4. pc' = "bookGone" => ~Made(job)'
  BY DEF MarkInv
<1> QED BY <1>1, <1>2, <1>3, <1>4 DEF MarkInv

\* What the frames ask of the state.
LEMMA TurnFile ==
  ASSUME IInv
  PROVE  /\ layout \in Layouts /\ (pc # "idle" => alive /\ job \in Jobs /\ F \in Files)
         /\ \A j \in Jobs : File(j) \in Files
<1>1. /\ layout \in Layouts /\ (pc # "idle" => alive /\ job \in Jobs)
  BY DEF IInv, TypeOK
<1>2. \A j \in Jobs : File(j) \in Files
  BY <1>1, LayoutType, RemoteAssumption
<1> QED BY <1>1, <1>2 DEF F

\* Nothing published and no script sent: no output of anybody's own is new.
LEMMA NoneMade ==
  ASSUME UNCHANGED <<layout, out>>,
         \A f \in Files : script'[f].at \in {"sent", "same", "verified"} =>
                            /\ script[f].at \in {"sent", "same", "verified"}
                            /\ script'[f].made = script[f].made,
         \A j \in Jobs : File(j) \in Files
  PROVE  /\ \A j \in Jobs : (Made(j) \/ InMaking(j))' => Made(j) \/ InMaking(j)
         /\ \A j \in Jobs : Made(j)' => Made(j)
BY DEF Made, InMaking, File

\* The steps of the turn that book nothing "gone" and send no script.
LEMMA MarkTransfer ==
  ASSUME IInv, GoneInv, MarkInv,
         \/ CheckRoots \/ StatSource \/ PullEnds \/ Restat \/ PullFailed \/ Probe
         \/ Prepare("preparePull", "spawnPull") \/ Prepare("recheck", "spawnEncode")
         \/ Prepare("preparePush", "spawnPush") \/ Spawn("spawnPull", "pull")
         \/ Spawn("spawnEncode", "encode") \/ Spawn("spawnPush", "push")
         \/ EncodeEnds \/ Judge \/ PushEnds \/ FinalizeAnswers \/ FinalizeUnanswered
         \/ PublishFailed \/ StopForUnreachable
  PROVE  GoneInv' /\ MarkInv'
<1> USE DEF At, GoTo, db, host, Calm, SshFails
<1>1. /\ pc # "idle" => job \in Jobs /\ F \in Files
      /\ \A j \in Jobs : File(j) \in Files
      /\ script \in [Files -> Scripts]
  BY TurnFile DEF IInv, TypeOK
<1>2. UNCHANGED <<layout, row, requeuedMark, src, out, job>> /\ pc # "idle" /\ pc' # "idle"
  BY DEF CheckRoots, StatSource, PullEnds, Restat, PullFailed, Probe, Prepare, Spawn, EncodeEnds,
         Judge, PushEnds, FinalizeAnswers, FinalizeUnanswered, PublishFailed, StopForUnreachable
<1>3. \A f \in Files : script'[f].at \in {"sent", "same", "verified"} => script'[f] = script[f]
  BY <1>1, <1>2 DEF CheckRoots, StatSource, PullEnds, Restat, PullFailed, Probe, Prepare, Spawn,
         EncodeEnds, Judge, PushEnds, FinalizeAnswers, FinalizeUnanswered, PublishFailed,
         StopForUnreachable, NoScript
<1>4. /\ pc \in Late => pc' \in Late
      /\ pc' \notin {"gone", "probeOut", "bookGone"} \/ (pc = "pullFailed" /\ err = "gone" /\ pc' = "gone")
      /\ err' = "gone" => err = "gone" \/ src[F] = NoFile
  BY DEF CheckRoots, StatSource, PullEnds, Restat, PullFailed, Probe, Prepare, Spawn, EncodeEnds,
         Judge, PushEnds, FinalizeAnswers, FinalizeUnanswered, PublishFailed, StopForUnreachable, Late
<1>5. (err = "gone" \/ src[F] = NoFile) => out[F] # NoFile
  BY <1>1, <1>2 DEF GoneInv
<1>6. GoneInv'
  BY <1>1, <1>2, <1>4, <1>5, GoneFrame
<1>7. MarkInv'
  <2>1. /\ \A j \in Jobs : (Made(j) \/ InMaking(j))' => Made(j) \/ InMaking(j)
    BY <1>1, <1>2, <1>3, NoneMade
  <2> QED BY <1>1, <1>2, <1>4, <2>1, MarkFrame
<1> QED BY <1>6, <1>7

\* The end of a turn, and of a run.
LEMMA MarkEnds ==
  ASSUME IInv, GoneInv, MarkInv, TurnEnds \/ RunEnds
  PROVE  GoneInv' /\ MarkInv'
<1> USE DEF At, GoTo, db, host, Calm
<1>1. /\ pc # "idle" => job \in Jobs /\ F \in Files
      /\ \A j \in Jobs : File(j) \in Files
  BY TurnFile
<1>2. /\ UNCHANGED <<layout, row, src, out, script>> /\ pc' = "idle" /\ err' # "gone"
      /\ requeuedMark' = requeuedMark \/ (pc # "idle" /\ requeuedMark = job)
  BY DEF TurnEnds, RunEnds, GoneInv
<1>3. GoneInv'
  BY <1>1, <1>2, GoneFrame
<1>4. \A j \in Jobs : (Made(j) \/ InMaking(j))' => Made(j) \/ InMaking(j)
  BY <1>1, <1>2, NoneMade
<1>5. \A j \in Jobs : row[j] = "queued" /\ requeuedMark = j => requeuedMark' = j
  BY <1>1, <1>2 DEF MarkInv
<1>6. MarkInv'
  BY <1>2, <1>4, <1>5 DEF MarkInv
<1> QED BY <1>3, <1>6

\* The turn of a job that is queued again begins with the marker.
LEMMA MarkNextJob ==
  ASSUME IInv, GoneInv, MarkInv, NEW j \in Jobs, NextJob(j)
  PROVE  GoneInv' /\ MarkInv'
<1> USE DEF GoTo, host, Calm
<1>1. /\ UNCHANGED <<layout, src, out, script, requeuedMark, err>> /\ pc = "idle"
      /\ pc' = "roots" /\ job' = j /\ row[j] = "queued" /\ row' = [row EXCEPT ![j] = "running"]
      /\ row \in [Jobs -> Rows]
  BY DEF NextJob, IInv, TypeOK
<1>2. \A k \in Jobs : File(k) \in Files
  BY TurnFile
<1>3. GoneInv'
  BY <1>1, <1>2, GoneFrame DEF GoneInv
<1>4. \A k \in Jobs : (Made(k) \/ InMaking(k))' => Made(k) \/ InMaking(k)
  BY <1>1, <1>2, NoneMade
<1>5. \A k \in Jobs : (Made(k) \/ InMaking(k))' =>
        row'[k] \notin {"absent", "gone"} /\ (row'[k] = "queued" => requeuedMark' = k)
  BY <1>1, <1>4 DEF MarkInv
<1>6. (pc # "idle" /\ (Made(job) \/ InMaking(job)))' => requeuedMark' = job'
  BY <1>1, <1>4 DEF MarkInv, Made, InMaking, File
<1> QED BY <1>1, <1>3, <1>5, <1>6 DEF MarkInv

\* A script is sent by a turn, which is past the booking then.
LEMMA MarkBegin ==
  ASSUME IInv, GoneInv, MarkInv, BeginFinalize
  PROVE  GoneInv' /\ MarkInv'
<1> USE DEF At, GoTo, db, host, Calm
<1>1. /\ job \in Jobs /\ F \in Files /\ \A j \in Jobs : File(j) \in Files
      /\ script \in [Files -> Scripts]
  BY TurnFile DEF BeginFinalize, IInv, TypeOK
<1>2. /\ UNCHANGED <<layout, row, requeuedMark, src, out, job, err>>
      /\ pc' \in {"end", "drop", "finalize"}
      /\ pc # "idle"
  BY DEF BeginFinalize
<1>3. GoneInv'
  BY <1>1, <1>2, GoneFrame DEF GoneInv
<1>4. CASE script' = script
  <2>1. /\ \A j \in Jobs : (Made(j) \/ InMaking(j))' => Made(j) \/ InMaking(j)
    BY <1>1, <1>2, <1>4, NoneMade
  <2>2. pc' \in Late /\ pc' # "bookGone"
    BY <1>2 DEF Late
  <2> QED BY <1>1, <1>2, <1>3, <2>1, <2>2, MarkFrame
<1>5. CASE script' # script
  <2>1. /\ row[job] = "running"
        /\ script' = [script EXCEPT ![F] = [at |-> "sent", base |-> base, made |-> Result,
                                             delete |-> cleanupMode # "keep"]]
    BY <1>5 DEF BeginFinalize, StillRunning
  <2>2. \A j \in Jobs : (Made(j) \/ InMaking(j))' => Made(j) \/ InMaking(j) \/ j = job
    BY <1>1, <1>2, <2>1 DEF Made, InMaking, File, F, Result
  <2>3. pc' \in Late /\ pc' # "bookGone"
    BY <1>2 DEF Late
  <2>4. \A j \in Jobs : (Made(j) \/ InMaking(j))' =>
          row'[j] \notin {"absent", "gone"} /\ (row'[j] = "queued" => requeuedMark' = j)
    BY <1>2, <2>1, <2>2 DEF MarkInv
  <2> QED BY <1>2, <1>3, <2>1, <2>3, <2>4 DEF MarkInv
<1> QED BY <1>3, <1>4, <1>5

\* Whoever finds its source gone asks for the marker and looks for its output: one that has made
\* one finds it.
LEMMA MarkGone ==
  ASSUME IInv, GoneInv, MarkInv, AskMarker \/ ProbeOutput, ~excused'
  PROVE  GoneInv' /\ MarkInv'
<1> USE DEF At, GoTo, db, host, Calm
<1>1. /\ job \in Jobs /\ F \in Files /\ \A j \in Jobs : File(j) \in Files
  BY TurnFile DEF AskMarker, ProbeOutput
<1>2. /\ UNCHANGED <<layout, row, src, out, script, job, err>> /\ out[F] # NoFile
      /\ pc \in {"gone", "probeOut"} /\ pc' \in {"probeOut", "bookGone", "book", "stop"}
      /\ requeuedMark' = requeuedMark \/ requeuedMark = job
  BY DEF AskMarker, ProbeOutput, GoneInv
<1>3. GoneInv'
  BY <1>1, <1>2, GoneFrame DEF GoneInv
<1>4. pc' = "bookGone" => ~Made(job)
  <2>1. CASE AskMarker
    BY <2>1 DEF AskMarker, MarkInv, Late
  <2>2. CASE ProbeOutput
    BY <1>1, <1>2, <2>2 DEF ProbeOutput, GoneInv, Made, InPlace, F
  <2> QED BY <2>1, <2>2
<1>5. \A j \in Jobs : ((Made(j) \/ InMaking(j))' => Made(j) \/ InMaking(j)) /\ (Made(j)' => Made(j))
  BY <1>1, <1>2, NoneMade
<1>6. \A j \in Jobs : row[j] = "queued" /\ requeuedMark = j => requeuedMark' = j
  BY <1>1, <1>2 DEF MarkInv
<1>7. ~InMaking(job)
  BY <1>2 DEF InMaking, F
<1> QED BY <1>1, <1>2, <1>3, <1>4, <1>5, <1>6, <1>7 DEF MarkInv, Late, Made, InMaking, File

\* The bookings.
LEMMA MarkBook ==
  ASSUME IInv, GoneInv, MarkInv,
         \/ Book \/ DropInPlace \/ BookError("bookGone", "gone", "end")
         \/ BookError("fail", "failed", "end") \/ BookError("stopBook", "unreachable", "stopped")
  PROVE  GoneInv' /\ MarkInv'
<1> USE DEF At, GoTo, db, host, Calm
<1>1. /\ job \in Jobs /\ F \in Files /\ \A j \in Jobs : File(j) \in Files
      /\ row \in [Jobs -> Rows]
  BY TurnFile DEF Book, DropInPlace, BookError, IInv, TypeOK
<1>2. /\ UNCHANGED <<layout, requeuedMark, src, out, script, job, err>>
      /\ pc # "idle" /\ pc' \in {"end", "stopped"}
  BY DEF Book, DropInPlace, BookError
<1>3. GoneInv'
  BY <1>1, <1>2, GoneFrame DEF GoneInv
<1>4. \A j \in Jobs : (Made(j) \/ InMaking(j))' => Made(j) \/ InMaking(j)
  BY <1>1, <1>2, NoneMade
<1>5. CASE ~BookError("bookGone", "gone", "end")
  <2>1. outcome \in {"done", "skipped"} \/ ~Book
    BY DEF Book, IInv, Decided
  <2>2. \A j \in Jobs : row'[j] = row[j] \/ row'[j] \notin {"absent", "gone", "queued"}
    BY <1>1, <1>5, <2>1 DEF Book, DropInPlace, BookError
  <2> QED BY <1>1, <1>2, <1>3, <1>4, <2>2, MarkFrame DEF Late
<1>6. CASE BookError("bookGone", "gone", "end")
  <2>1. ~Made(job) /\ ~InMaking(job)
    BY <1>6 DEF BookError, MarkInv, GoneInv, InMaking, F
  <2>2. \A j \in Jobs : row'[j] = row[j] \/ (j = job /\ row'[j] = "gone")
    BY <1>1, <1>6 DEF BookError
  <2>3. \A j \in Jobs : (Made(j) \/ InMaking(j))' => j # job
    BY <1>4, <2>1
  <2> QED BY <1>1, <1>2, <1>3, <1>4, <2>2, <2>3 DEF MarkInv, Late
<1> QED BY <1>5, <1>6

\* On the host: the script publishes what it was sent for, and deletes a source behind what it
\* has published.
LEMMA MarkScript ==
  ASSUME IInv, GoneInv, MarkInv, NEW f \in Files, FinalizeScript(f)
  PROVE  GoneInv' /\ MarkInv'
<1>1. /\ pc # "idle" => job \in Jobs /\ F \in Files
      /\ \A j \in Jobs : File(j) \in Files
      /\ script \in [Files -> Scripts] /\ out \in [Files -> Whole \cup {NoFile}]
      /\ src \in [Files -> Whole \cup {NoFile}]
  BY TurnFile DEF IInv, TypeOK
<1>2. UNCHANGED <<layout, row, requeuedMark, pc, job, err>>
  BY ScriptEffects DEF db, turn
<1>3. PICK at \in {"same", "verified", "moved", "exit0", "exit"} :
        /\ script' = [script EXCEPT ![f].at = at]
        /\ at \in {"same", "verified"} => script[f].at \in {"sent", "same"}
  BY ScriptEffects
<1>4. \A g \in Files : script'[g].at \in {"sent", "same", "verified"} =>
                          /\ script[g].at \in {"sent", "same", "verified"}
                          /\ script'[g].made = script[g].made
  BY <1>1, <1>3 DEF Scripts
<1>5. NoFile \notin Encodes
  BY ContentAssumption DEF Whole
<1>6. CASE UNCHANGED out
  <2>1. \A g \in Files : src'[g] = NoFile => src[g] = NoFile \/ out[g] # NoFile
    BY <1>1, <1>5, <1>6, ScriptEffects, Verified
  <2>2. GoneInv'
    BY <1>1, <1>2, <1>6, <2>1, GoneFrame DEF GoneInv
  <2>3. \A j \in Jobs : ((Made(j) \/ InMaking(j))' => Made(j) \/ InMaking(j)) /\ (Made(j)' => Made(j))
    BY <1>1, <1>2, <1>4, <1>6, NoneMade
  <2> QED BY <1>1, <1>2, <2>2, <2>3, MarkFrame
<1>7. CASE out' # out
  <2>1. /\ f \notin layout.inPlace /\ script[f].at = "verified" /\ out[f] = NoFile
        /\ out' = [out EXCEPT ![f] = tmp[f]] /\ src' = src
    BY <1>7, ScriptEffects
  <2>2. tmp[f] = script[f].made /\ tmp[f] # NoFile
    BY <1>5, <2>1, Verified DEF IInv, Vouched
  <2>3. GoneInv'
    BY <1>1, <1>2, <2>1, <2>2, GoneFrame DEF GoneInv
  <2>4. \A j \in Jobs : (Made(j) \/ InMaking(j))' => Made(j) \/ InMaking(j)
    BY <1>1, <1>2, <1>4, <2>1, <2>2 DEF Made, InMaking, File
  <2>5. pc = "bookGone" => (Made(job)' => Made(job))
    BY <1>1, <1>2, <2>1 DEF Made, GoneInv, F, File
  <2> QED BY <1>1, <1>2, <2>3, <2>4, <2>5, MarkFrame
<1> QED BY <1>6, <1>7

\* A script that stops publishes nothing more; the owner publishes no job's output, and one that
\* takes the source away excuses whoever misses it.
LEMMA MarkHost ==
  ASSUME IInv, GoneInv, MarkInv, NEW f \in Files, HostStops(f) \/ OwnerActs(f), ~excused'
  PROVE  GoneInv' /\ MarkInv'
<1>1. /\ pc # "idle" => job \in Jobs /\ F \in Files
      /\ \A j \in Jobs : File(j) \in Files
      /\ script \in [Files -> Scripts] /\ out \in [Files -> Whole \cup {NoFile}]
      /\ src \in [Files -> Whole \cup {NoFile}]
  BY TurnFile DEF IInv, TypeOK
<1>2. CASE HostStops(f)
  <2>1. /\ UNCHANGED <<layout, row, requeuedMark, src, out, job>>
        /\ script' = [script EXCEPT ![f] = NoScript]
        /\ \/ UNCHANGED <<pc, err>>
           \/ pc = "finalize" /\ pc' = "publishFailed" /\ err' = "unreachable"
    BY <1>2 DEF HostStops, At, GoTo, db
  <2>2. GoneInv'
    BY <1>1, <2>1, GoneFrame DEF GoneInv
  <2>3. \A j \in Jobs : ((Made(j) \/ InMaking(j))' => Made(j) \/ InMaking(j)) /\ (Made(j)' => Made(j))
    BY <1>1, <2>1, NoneMade DEF NoScript
  <2>4. pc' # "idle" => pc # "idle" /\ (pc \in Late => pc' \in Late)
    BY <2>1 DEF Late
  <2>5. pc' = "bookGone" => pc = "bookGone"
    BY <2>1
  <2> QED BY <1>1, <2>1, <2>2, <2>3, <2>4, <2>5, MarkFrame
<1>3. CASE OwnerActs(f)
  <2>0. /\ UNCHANGED <<layout, row, requeuedMark, pc, job, err, script>>
    BY <1>3 DEF OwnerActs, Untouched, db, turn
  <2>1. NoFile \notin Owned /\ \A c \in Owned : c.by = NoJob
    BY ContentAssumption DEF Whole, Owned
  <2>2. \/ out' = out /\ \E c \in Owned : src' = [src EXCEPT ![f] = c]
        \/ /\ src' = src /\ out[f] = NoFile /\ f \notin layout.inPlace
           /\ \E c \in Owned : out' = [out EXCEPT ![f] = c]
    <3>1. layout \in Layouts /\ faults \in 0..MaxFaults
      BY DEF IInv, TypeOK
    <3>2. faults + 1 \in 0..MaxFaults
      BY <1>3, <3>1, FaultType, RemoteAssumption DEF OwnerActs, Fault
    <3>3. [of |-> faults + 1, by |-> NoJob] \in Owned
      BY <3>2 DEF Owned
    <3> QED BY <1>3, <3>3 DEF OwnerActs
  <2>3. GoneInv'
    <3>1. /\ \A g \in Files : out[g] # NoFile => out'[g] # NoFile
          /\ \A g \in Files : out'[g] # NoFile => out[g] # NoFile \/ g \notin layout.inPlace
          /\ \A g \in Files : src'[g] = NoFile => src[g] = NoFile \/ out[g] # NoFile
      BY <1>1, <2>1, <2>2
    <3> QED BY <1>1, <2>0, <3>1, GoneFrame DEF GoneInv
  <2>4. \A j \in Jobs : ((Made(j) \/ InMaking(j))' => Made(j) \/ InMaking(j)) /\ (Made(j)' => Made(j))
    BY <1>1, <2>0, <2>1, <2>2, RemoteAssumption DEF Made, InMaking, File
  <2> QED BY <1>1, <2>0, <2>3, <2>4, MarkFrame
<1> QED BY <1>2, <1>3

\* Other threads: only a start puts a job back into the queue, and it leaves the marker.
LEMMA MarkOthers ==
  ASSUME IInv, GoneInv, MarkInv, ~excused', alive,
         \/ \E j \in Jobs : Add(j) \/ RemoveRow(j)
         \/ Cancel \/ ClearQueue \/ Quit
         \/ \E mode \in {"delete", "keep"} : SetCleanupMode(mode)
  PROVE  GoneInv' /\ MarkInv'
<1> USE DEF OffTurn, host, db
<1>1. /\ pc # "idle" => job \in Jobs /\ F \in Files
      /\ \A j \in Jobs : File(j) \in Files
      /\ row \in [Jobs -> Rows] /\ (cpc = "book" => cjob \in Jobs)
  BY TurnFile DEF IInv, TypeOK
<1>2. UNCHANGED <<layout, requeuedMark, src, out, script, pc, job, err>>
  BY DEF Add, RemoveRow, Cancel, CancelReads, CancelBooks, CancelKills, ClearQueue, Quit,
         SetCleanupMode
<1>3. GoneInv'
  BY <1>1, <1>2, GoneFrame DEF GoneInv
<1>4. \A j \in Jobs : ((Made(j) \/ InMaking(j))' => Made(j) \/ InMaking(j)) /\ (Made(j)' => Made(j))
  BY <1>1, <1>2, NoneMade
<1>5. CASE \E j \in Jobs : Add(j)
  <2>1. PICK j \in Jobs : Add(j)
    BY <1>5
  <2>2. row[j] = "absent" /\ row' = [row EXCEPT ![j] = "queued"]
    BY <2>1 DEF Add
  <2>3. ~Made(j) /\ ~InMaking(j) /\ (pc # "idle" => job # j)
    BY <2>2 DEF MarkInv
  <2> QED BY <1>1, <1>2, <1>3, <1>4, <2>2, <2>3 DEF MarkInv, Made, InMaking, File
<1>6. CASE ~ \E j \in Jobs : Add(j)
  <2>1. \A j \in Jobs : row'[j] = row[j] \/ row'[j] \notin {"absent", "gone", "queued"}
    <3>1. CASE \E j \in Jobs : RemoveRow(j)
      BY <1>1, <3>1 DEF RemoveRow
    <3>2. CASE CancelBooks
      <4>1. row' = row \/ row' = [row EXCEPT ![cjob] = "cancelled"]
        BY <3>2, Zenon DEF CancelBooks
      <4> QED BY <1>1, <4>1
    <3>3. CASE CancelReads \/ CancelKills \/ Quit
      BY <3>3 DEF CancelReads, CancelKills, Quit
    <3>4. CASE ClearQueue
      BY <3>4 DEF ClearQueue
    <3>5. CASE \E mode \in {"delete", "keep"} : SetCleanupMode(mode)
      BY <3>5 DEF SetCleanupMode, KeepDrops
    <3> QED BY <1>6, <3>1, <3>2, <3>3, <3>4, <3>5 DEF Cancel
  <2> QED BY <1>1, <1>2, <1>3, <1>4, <2>1, MarkFrame
<1> QED BY <1>5, <1>6

LEMMA MarkStart ==
  ASSUME IInv, GoneInv, MarkInv, Start, ~excused'
  PROVE  GoneInv' /\ MarkInv'
<1> USE DEF OffTurn, host, db
<1>1. /\ pc # "idle" => job \in Jobs /\ F \in Files
      /\ \A j \in Jobs : File(j) \in Files
      /\ requeuedMark \in Jobs \cup {NoJob}
      /\ pc = "idle"
  BY TurnFile DEF IInv, TypeOK, Start
<1>2. UNCHANGED <<layout, src, out, script, pc, job, err>>
  BY DEF Start
<1>3. GoneInv'
  BY <1>1, <1>2, GoneFrame DEF GoneInv
<1>4. \A j \in Jobs : (Made(j) \/ InMaking(j))' => Made(j) \/ InMaking(j)
  BY <1>1, <1>2, NoneMade
\* The marker of another job is not overwritten unless that is excused.
<1>5. requeuedMark' = requeuedMark \/ requeuedMark = NoJob
  <2>1. ~(requeuedMark' # requeuedMark /\ requeuedMark # NoJob)
    BY Zenon DEF Start
  <2> QED BY <2>1
<1>6. \A j \in Jobs : row'[j] = row[j] \/ (row'[j] = "queued" /\ requeuedMark' = j)
  BY DEF Start, Marked, Requeues
<1>7. \A j \in Jobs : (Made(j) \/ InMaking(j))' =>
        row'[j] \notin {"absent", "gone"} /\ (row'[j] = "queued" => requeuedMark' = j)
  BY <1>4, <1>5, <1>6, RemoteAssumption DEF MarkInv
<1>8. pc' = "idle"
  BY <1>1, <1>2
<1> QED BY <1>3, <1>7, <1>8 DEF MarkInv

\* What has excused a job is not forgotten, and the end of the process is such a thing.
LEMMA ExcusedStays ==
  ASSUME [Next]_vars
  PROVE  /\ excused => excused'
         /\ ~excused' /\ alive => alive'
<1> USE DEF Calm, OffTurn, OnHost, Untouched
<1>1. CASE QueueThread
  <2>1. CASE ProbeOutput
    <3>1. alive' = alive /\ (excused' = excused \/ excused' = TRUE)
      BY <2>1 DEF ProbeOutput
    <3>2. CASE excused' = excused
      BY <3>1, <3>2
    <3>3. CASE excused' = TRUE
      BY <3>3, Zenon
    <3> QED BY <3>1, <3>2, <3>3
  <2>2. CASE ~ProbeOutput
    BY <1>1, <2>2 DEF QueueThread, TurnStep, NextJob, RunEnds, CheckRoots, StatSource, Prepare, Spawn,
       PullEnds, Restat, PullFailed, Probe, EncodeEnds, Judge, PushEnds, BeginFinalize,
       FinalizeAnswers, FinalizeUnanswered, PublishFailed, AskMarker, Book, DropInPlace, BookError,
       StopForUnreachable, TurnEnds
  <2> QED BY <2>1, <2>2
<1>2. CASE \E f \in Files : FinalizeScript(f) \/ HostStops(f)
  BY <1>2 DEF FinalizeScript, HostChecksOriginal, HostVerifies, HostReplaces, HostPublishes,
     HostDeletesOriginal, HostStops
<1>3. CASE \E f \in Files : OwnerActs(f)
  <2>1. alive' = alive /\ (excused' = excused \/ excused' = TRUE)
    BY <1>3 DEF OwnerActs
  <2>2. CASE excused' = excused
    BY <2>1, <2>2
  <2>3. CASE excused' = TRUE
    BY <2>3, Zenon
  <2> QED BY <2>1, <2>2, <2>3
<1>4. CASE Start
  BY <1>4, Zenon DEF Start
<1>5. CASE ProcessEnds \/ Boot
  <2>1. excused' = TRUE \/ (excused' = excused /\ ~alive)
    BY <1>5 DEF ProcessEnds, Boot
  <2>2. CASE excused' = excused
    BY <2>1, <2>2
  <2>3. CASE excused' = TRUE
    BY <2>3, Zenon
  <2> QED BY <2>1, <2>2, <2>3
<1>6. CASE \/ \E j \in Jobs : Add(j) \/ RemoveRow(j)
           \/ Cancel \/ ClearQueue \/ Quit
           \/ \E mode \in {"delete", "keep"} : SetCleanupMode(mode)
  BY <1>6 DEF Add, RemoveRow, Cancel, CancelReads, CancelBooks, CancelKills, ClearQueue, Quit,
     SetCleanupMode
<1>7. CASE UNCHANGED vars
  BY <1>7 DEF vars
<1> QED BY <1>1, <1>2, <1>3, <1>4, <1>5, <1>6, <1>7 DEF Next

\* Every behaviour keeps the marker with whoever may need it.
LEMMA MarkedInvariant == Spec => []MarkedInv
<1>1. Init => MarkedInv
  <2> SUFFICES ASSUME Init PROVE MarkedInv
    OBVIOUS
  <2>1. [of |-> 0, by |-> NoJob] # NoFile
    BY RemoteAssumption, ContentAssumption DEF Whole, Owned
  <2>2. \A j \in Jobs : ~Made(j) /\ ~InMaking(j)
    <3>1. \A j \in Jobs : File(j) \in Files
      BY RemoteAssumption, LayoutType DEF Init
    <3> QED BY <3>1 DEF Init, Made, InMaking, NoScript
  <2> QED BY <2>1, <2>2 DEF Init, MarkedInv, GoneInv, MarkInv
<1>2. IInv /\ MarkedInv /\ [Next]_vars => MarkedInv'
  <2> SUFFICES ASSUME IInv, MarkedInv, [Next]_vars, ~excused'
               PROVE  (alive /\ GoneInv /\ MarkInv)'
    BY DEF MarkedInv
  <2>1. alive /\ GoneInv /\ MarkInv /\ alive'
    BY ExcusedStays DEF MarkedInv
  <2>2. CASE QueueThread
    <3>1. CASE RunEnds \/ \E j \in Jobs : NextJob(j)
      BY <2>1, <3>1, MarkEnds, MarkNextJob
    <3>2. CASE TurnStep
      BY <2>1, <3>2, MarkTransfer, MarkEnds, MarkBegin, MarkGone, MarkBook DEF TurnStep
    <3> QED BY <2>2, <3>1, <3>2 DEF QueueThread
  <2>3. CASE \E f \in Files : FinalizeScript(f) \/ HostStops(f) \/ OwnerActs(f)
    BY <2>1, <2>3, MarkScript, MarkHost
  <2>4. CASE \/ \E j \in Jobs : Add(j) \/ RemoveRow(j)
             \/ Cancel \/ ClearQueue \/ Quit
             \/ \E mode \in {"delete", "keep"} : SetCleanupMode(mode)
    BY <2>1, <2>4, MarkOthers
  <2>5. CASE Start
    BY <2>1, <2>5, MarkStart
  <2>6. ~ProcessEnds /\ ~Boot
    BY <2>1, Zenon DEF ProcessEnds, Boot
  <2>7. CASE UNCHANGED vars
    <3>1. GoneInv'
      BY <2>1, <2>7 DEF vars, host, turn, db, GoneInv, F, File
    <3>2. MarkInv'
      BY <2>1, <2>7 DEF vars, host, turn, db, MarkInv, Made, InMaking, F, File
    <3> QED BY <2>1, <3>1, <3>2
  <2> QED BY <2>2, <2>3, <2>4, <2>5, <2>6, <2>7 DEF Next
<1> QED BY Invariant, <1>1, <1>2, PTL DEF Spec

\* A job whose own result is on the host is not booked "Source file no longer exists": the marker
\* follows it through its own further outages and the turns of other jobs, and the turn that finds
\* its source gone asks for it.  Excused are the end of the process, an owner who takes the source,
\* a host that does not say, and another job's outage that has taken the marker.
THEOREM PublishedIsFound == Spec => []PublishedIsRecognised
<1>1. IInv /\ MarkedInv => PublishedIsRecognised
  BY DEF MarkedInv, MarkInv, Made, PublishedIsRecognised
<1> QED BY Invariant, MarkedInvariant, <1>1, PTL
=============================================================================
