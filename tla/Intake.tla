-------------------------------- MODULE Intake --------------------------------
(***************************************************************************)
(* Adding files to the queue, for a local add, a folder or the watcher:    *)
(* the settings are read and the sources probed without the database lock, *)
(* and then the skip rules, the output name and the insert are decided     *)
(* under it, one source of the batch after the other.  Other adds, the     *)
(* queue's own conversions, the user's edits of the queue, a change of     *)
(* settings, relaunches and the owner of the files come in between; what   *)
(* the lock does not keep out comes between two sources as well.           *)
(*                                                                         *)
(* A file is its content here: size and mtime are taken to tell contents   *)
(* apart.  How a conversion may fail in detail is module Conversion's.     *)
(***************************************************************************)
EXTENDS Integers, Sequences, FiniteSets, FiniteSetsExt, Functions

CONSTANTS
  Paths, NoFile, Adders, Batches,
  SuffixSettings,
  Names,     \* Names[s][p]: output names of p under suffix s, in the order they are tried
  Suffixed,  \* Suffixed[s]: the paths whose stem ends with s
  Present,   \* the paths that are there at first
  Touched,   \* the paths the owner writes or removes
  MaxRows, MaxEdits, MaxRelaunches

ASSUME IntakeAssumption ==
  /\ NoFile \notin Paths /\ Batches \subseteq Seq(Paths) \ {<<>>} /\ Present \cup Touched \subseteq Paths
  /\ Names \in [SuffixSettings -> [Paths -> Seq(Paths) \ {<<>>}]]
  /\ Suffixed \in [SuffixSettings -> SUBSET Paths]
  /\ {MaxRows, MaxEdits, MaxRelaunches} \subseteq Nat

VARIABLES
  disk,        \* what is under each path
  rows,        \* the jobs table in the order of the inserts; a deleted row stays, as "removed"
  cleanupMode,
  suffix,      \* the output suffix; the same throughout, as the preset is
  dropping,    \* update_setting wrote "keep" and has not dropped the queued in-place rows yet
  adds,        \* adds[a]: an add_files_inner call: the sources left, those at the target, and, once
               \* it inserts, the rows there were before its own and its queue_order
  pc, cur, job, \* the queue thread, its row, and that row as it was claimed
  edits, relaunches

settings == <<cleanupMode, suffix, dropping>>
thread   == <<pc, cur, job>>
vars     == <<disk, rows, settings, adds, thread, edits, relaunches>>

\* The owner's n-th content of a path, or what row "by" made of it in the n-th launch.
Owned(p, n)  == [at |-> p, by |-> 0, n |-> n]
Encode(r, p) == [at |-> p, by |-> r, n |-> relaunches]
Contents     == [at : Paths, by : 0..MaxRows, n : Nat]
Handled      == {"done", "skipped"}
Live         == {"queued", "encoding"}
Row == [src : Paths, out : Paths, status : Live \cup Handled \cup {"error"}, order : Int,
        print : Contents \cup {NoFile}, moved : BOOLEAN]
NoRow   == [src |-> NoFile, out |-> NoFile, status |-> "removed", order |-> 0, print |-> NoFile,
            moved |-> FALSE]
Calls   == [at : {"idle", "probe", "probed", "insert"}, left : Seq(Paths), atTarget : SUBSET Paths,
            known : Nat, order : Int]
IdleAdd == [at |-> "idle", left |-> <<>>, atTarget |-> {}, known |-> 0, order |-> 0]

Ids        == DOMAIN rows
InPlace(r) == rows[r].src = rows[r].out
With(S)    == {r \in Ids : rows[r].status \in S}

TypeOK ==
  /\ disk \in [Paths -> Contents \cup {NoFile}]
  /\ rows \in Seq(Row \cup {NoRow}) /\ Len(rows) <= MaxRows
  /\ cleanupMode \in {"delete", "keep"} /\ suffix \in SuffixSettings
  /\ dropping \in BOOLEAN
  /\ adds \in [Adders -> Calls]
  /\ pc \in {"idle", "encode", "cleanup", "bookDone", "bookSkipped"} /\ cur \in 0..MaxRows
  /\ job \in Row \cup {NoRow}
  /\ edits \in 0..MaxEdits /\ relaunches \in 0..MaxRelaunches

Init ==
  /\ disk = [p \in Paths |-> IF p \in Present THEN Owned(p, 0) ELSE NoFile]
  /\ rows = <<>>
  /\ cleanupMode \in {"delete", "keep"} /\ suffix \in SuffixSettings
  /\ dropping = FALSE
  /\ adds = [a \in Adders |-> IdleAdd]
  /\ pc = "idle" /\ cur = 0 /\ job = NoRow /\ edits = 0 /\ relaunches = 0

-----------------------------------------------------------------------------
(* The skip rules and the output name.                                     *)

\* They ask the first n rows.
First(n, S) == {r \in With(S) : r <= n}
QueuedPaths(n) == {rows[r].src : r \in First(n, Live)}

\* Rows whose source could not be stat'ed are known by its path only, where it may still be.
LegacyPaths(n) ==
  {rows[r].src : r \in {d \in First(n, Handled) :
                         rows[d].print = NoFile /\ (InPlace(d) \/ cleanupMode = "keep")}}
ConvertedIdentities(n) == {rows[r].print : r \in First(n, Handled)} \ {NoFile}

CheapSkip(p, n) ==
  \/ p \in QueuedPaths(n)
  \/ disk[p] \in ConvertedIdentities(n)
  \/ p \in LegacyPaths(n)
  \/ p \in Suffixed[suffix]

\* As changed: only what is on disk.
IsOnDisk(name) == disk[name] # NoFile
IsTaken(name) ==
  \/ disk[name] # NoFile
  \/ \E r \in Ids : rows[r].out = name

\* The default name if it is the source itself or is free, else the first free one; the code never
\* runs out of them.
ChooseOutput(p, out) ==
  LET tried == Names[suffix][p] IN
  IF tried[1] = p THEN out = p
  ELSE \E i \in DOMAIN tried :
         /\ out = tried[i] /\ ~IsTaken(out)
         /\ \A k \in 1..(i - 1) : IsTaken(tried[k])

\* As changed: over the queued rows alone.
QueuedTop == Max({rows[r].order : r \in With({"queued"})} \cup {0})
QueueTop  == IF With(Live) = {} THEN 0 ELSE Max({rows[r].order : r \in With(Live)})

-----------------------------------------------------------------------------
(* An add: add_files_inner.                                                *)

\* The database lock, as far as it is held for longer than a step.
Unlocked == \A a \in Adders : adds[a].at # "insert"

AddReads(a, batch) ==
  /\ adds[a].at = "idle" /\ Len(rows) < MaxRows /\ Unlocked
  /\ adds' = [adds EXCEPT ![a] = [IdleAdd EXCEPT !.at = "probe", !.left = batch]]
  /\ UNCHANGED <<disk, rows, settings, thread, edits, relaunches>>

\* Only what the cheap rules leave is probed, if the setting asks for it; a file at the target is
\* skipped by this verdict, whatever becomes of it before the insert.
AddProbes(a) ==
  /\ adds[a].at = "probe" /\ Unlocked
  /\ \E good \in SUBSET {p \in Range(adds[a].left) :
            disk[p] # NoFile /\ ~CheapSkip(p, Len(rows))} :
       adds' = [adds EXCEPT ![a].at = "probed", ![a].atTarget = good]
  /\ UNCHANGED <<disk, rows, settings, thread, edits, relaunches>>

\* The call takes the lock: what the skip rules ask is fixed from here, and the first position.
InsertBegins(a) ==
  /\ adds[a].at = "probed" /\ Unlocked
  /\ adds' = [adds EXCEPT ![a].at = "insert", ![a].known = Len(rows), ![a].order = QueueTop + 1]
  /\ UNCHANGED <<disk, rows, settings, thread, edits, relaunches>>

\* The next source of a batch; the last gives the lock back.
Inserted(a, order) ==
  LET rest == Tail(adds[a].left) IN
  adds' = [adds EXCEPT ![a] = IF rest = <<>> THEN IdleAdd
                              ELSE [adds[a] EXCEPT !.left = rest, !.order = order]]

\* As changed: whatever the cleanup mode.
Refused_Never(p, out) == FALSE
\* Both files cannot be kept of one in place.
Refused(p, out) == cleanupMode = "keep" /\ out = p

InsertNext(a) ==
  /\ adds[a].at = "insert"
  /\ LET p == Head(adds[a].left) order == adds[a].order IN
     \/ /\ p \in adds[a].atTarget \/ CheapSkip(p, adds[a].known)
        /\ Inserted(a, order) /\ UNCHANGED rows
     \/ /\ p \notin adds[a].atTarget /\ ~CheapSkip(p, adds[a].known)
        /\ \E out \in Paths :
             /\ ChooseOutput(p, out)
             /\ IF Refused(p, out) THEN Inserted(a, order) /\ UNCHANGED rows
                ELSE /\ Len(rows) < MaxRows
                     /\ rows' = Append(rows, [src |-> p, out |-> out, status |-> "queued",
                                               order |-> order, print |-> disk[p], moved |-> FALSE])
                     /\ Inserted(a, order + 1)
  /\ UNCHANGED <<disk, settings, thread, edits, relaunches>>

\* HandBrake is not found, or the database refuses a query or an insert: the call ends, and what it
\* has inserted stays.
AddFails(a) ==
  /\ adds[a].at # "idle" /\ adds' = [adds EXCEPT ![a] = IdleAdd]
  /\ UNCHANGED <<disk, rows, settings, thread, edits, relaunches>>

Add(a) ==
  \/ AddProbes(a) \/ InsertBegins(a) \/ InsertNext(a) \/ AddFails(a)
  \/ \E batch \in Batches : AddReads(a, batch)

-----------------------------------------------------------------------------
(* The queue thread: one conversion after the other.                       *)

SetStatus(r, status) == rows' = [rows EXCEPT ![r].status = status]
Delete(r) == rows' = [rows EXCEPT ![r] = NoRow]
GoTo(p)    == pc' = p /\ UNCHANGED <<cur, job>>
TurnEnds   == pc' = "idle" /\ cur' = 0 /\ job' = NoRow
JobInPlace == job.src = job.out
Elsewhere == UNCHANGED <<settings, adds, edits, relaunches>>

\* The least position first.  A source that is gone is booked; else HandBrake starts to write.
ClaimJob(r) ==
  /\ pc = "idle" /\ Unlocked /\ r \in With({"queued"})
  /\ \A q \in With({"queued"}) : rows[r].order <= rows[q].order
  /\ IF disk[rows[r].src] = NoFile
       THEN SetStatus(r, "error") /\ UNCHANGED <<disk, thread>>
       ELSE /\ SetStatus(r, "encoding") /\ pc' = "encode" /\ cur' = r /\ job' = rows[r]
            /\ disk' = IF InPlace(r) THEN disk ELSE [disk EXCEPT ![rows[r].out] = Encode(r, rows[r].out)]
  /\ Elsewhere

\* A failure removes what was written, a success goes on to the cleanup.
EncodeEnds ==
  /\ pc = "encode"
  /\ \/ GoTo("cleanup") /\ UNCHANGED <<disk, rows>>
     \/ /\ Unlocked /\ TurnEnds
        /\ disk' = IF JobInPlace THEN disk ELSE [disk EXCEPT ![job.out] = NoFile]
        /\ IF rows[cur].status = "encoding" THEN SetStatus(cur, "error") ELSE UNCHANGED rows
  /\ Elsewhere

\* The converted file wins, or the original does; in place under "keep" nothing is kept of it.  The
\* files are changed without the lock.
CleanUp ==
  /\ pc = "cleanup"
  /\ \/ /\ JobInPlace /\ cleanupMode = "keep" /\ Unlocked
        /\ Delete(cur) /\ TurnEnds /\ UNCHANGED disk
     \/ /\ ~(JobInPlace /\ cleanupMode = "keep")
        /\ disk' = CASE JobInPlace -> [disk EXCEPT ![job.src] = Encode(cur, job.src)]
                      [] cleanupMode = "keep" -> disk
                      [] OTHER -> [disk EXCEPT ![job.src] = NoFile]
        /\ GoTo("bookDone") /\ UNCHANGED rows
     \/ /\ ~(JobInPlace /\ cleanupMode = "keep")
        /\ disk' = IF JobInPlace \/ cleanupMode = "keep" THEN disk
                   ELSE [disk EXCEPT ![job.out] = NoFile]
        /\ GoTo("bookSkipped") /\ UNCHANGED rows
  /\ Elsewhere

\* As changed: the fingerprint of an in-place job stays the one of its add.
FinalPrintAsAdded == job.print
FinalPrint == IF JobInPlace THEN disk[job.src] ELSE job.print

\* Over a row still encoding; an in-place job's fingerprint is that of the file there is now.
Book ==
  /\ pc \in {"bookDone", "bookSkipped"} /\ Unlocked
  /\ rows' = IF rows[cur] = NoRow THEN rows
             ELSE [rows EXCEPT ![cur].print = FinalPrint,
                               ![cur].status = IF @ # "encoding" THEN @
                                               ELSE IF pc = "bookDone" THEN "done" ELSE "skipped"]
  /\ TurnEnds
  /\ UNCHANGED disk /\ Elsewhere

QueueThread == EncodeEnds \/ CleanUp \/ Book \/ \E r \in Ids : ClaimJob(r)

-----------------------------------------------------------------------------
(* The user, the process and the owner of the files.                       *)

\* Each of these takes the lock.
Undisturbed == Unlocked /\ UNCHANGED <<disk, adds, thread, edits, relaunches>>

\* Cancel books the row; the child it kills is an encode that ends in failure.
CancelConversion ==
  /\ cur # 0 /\ rows[cur].status = "encoding"
  /\ SetStatus(cur, "error")
  /\ UNCHANGED settings /\ Undisturbed

\* remove_job, clear_queue, and the history's removals.
RemoveJob(r) ==
  /\ rows[r].status \in {"queued", "error"} \cup Handled
  /\ Delete(r)
  /\ UNCHANGED settings /\ Undisturbed

\* The list is the one the page showed: it may lack a row, and name rows that have moved on.
Orders == Injection(1..2, Ids)
Placed(r, ids) ==
  [rows[r] EXCEPT !.moved = TRUE, !.order = (CHOOSE i \in DOMAIN ids : ids[i] = r) - 1]
ReorderQueue(ids) ==
  /\ rows' = [r \in Ids |-> IF r \in Range(ids) /\ rows[r] # NoRow THEN Placed(r, ids) ELSE rows[r]]
  /\ UNCHANGED settings /\ Undisturbed

\* Paused or queued in-place jobs make no sense under "keep": the queued ones are dropped, in a
\* critical section of its own.
SetCleanupMode(mode) ==
  /\ mode # cleanupMode /\ ~dropping
  /\ cleanupMode' = mode /\ dropping' = (mode = "keep")
  /\ UNCHANGED <<rows, suffix>> /\ Undisturbed

DropInPlace(rs) ==
  [r \in DOMAIN rs |-> IF rs[r].status = "queued" /\ rs[r].src = rs[r].out
                         THEN NoRow ELSE rs[r]]

DropQueuedInPlaceJobs ==
  /\ dropping /\ dropping' = FALSE
  /\ rows' = DropInPlace(rows)
  /\ UNCHANGED <<cleanupMode, suffix>> /\ Undisturbed

\* The process ends and starts again: recovery removes what a running row was writing and queues
\* it, and the mode's rule is applied to the result.
Relaunch ==
  /\ relaunches < MaxRelaunches /\ relaunches' = relaunches + 1
  /\ LET requeued == [r \in Ids |-> IF rows[r].status = "encoding"
                                     THEN [rows[r] EXCEPT !.status = "queued"] ELSE rows[r]]
     IN rows' = IF cleanupMode = "keep" THEN DropInPlace(requeued) ELSE requeued
  /\ disk' = [p \in Paths |-> IF \E r \in With({"encoding"}) : ~InPlace(r) /\ rows[r].out = p
                               THEN NoFile ELSE disk[p]]
  /\ adds' = [a \in Adders |-> IdleAdd] /\ dropping' = FALSE
  /\ TurnEnds
  /\ UNCHANGED <<cleanupMode, suffix, edits>>

OwnerActs(p) ==
  /\ edits < MaxEdits /\ edits' = edits + 1
  /\ \/ disk' = [disk EXCEPT ![p] = Owned(p, edits + 1)]
     \/ disk[p] # NoFile /\ disk' = [disk EXCEPT ![p] = NoFile]
  /\ UNCHANGED <<rows, settings, adds, thread, relaunches>>

Next ==
  \/ QueueThread \/ CancelConversion \/ DropQueuedInPlaceJobs \/ Relaunch
  \/ \E a \in Adders : Add(a)
  \/ \E r \in Ids : RemoveJob(r)
  \/ \E ids \in Orders : ReorderQueue(ids)
  \/ \E mode \in {"delete", "keep"} : SetCleanupMode(mode)
  \/ \E p \in Touched : OwnerActs(p)

Spec == Init /\ [][Next]_vars

-----------------------------------------------------------------------------
(* What is claimed.                                                        *)

\* Two jobs never write under one name, however the adds interleave and whatever was removed or
\* requeued meanwhile; a file encoded in place is its own name (choose_output_path and the names
\* it asks for, add_files_to_db_from).
OutputsApart ==
  \A r, q \in With(Live) : r # q /\ rows[r].out = rows[q].out => InPlace(r) \/ InPlace(q)

\* Of two queued jobs nobody reordered, the one added first is the one that runs first, also when
\* it was running, the process ended, and recovery queued it again behind the other's back
\* (get_next_queue_order, recover_interrupted_jobs, get_next_job).
FirstAddedFirst ==
  \A r, q \in With({"queued"}) :
    r < q /\ ~rows[r].moved /\ ~rows[q].moved => rows[r].order < rows[q].order

\* While both files are to be kept no job is waiting that would replace its own source: not one an
\* add decided before the switch and inserted after it, nor one recovery brought back
\* (add_files_to_db_from, update_setting, drop_queued_in_place_jobs, boot).
NothingInPlaceUnderKeep ==
  cleanupMode = "keep" /\ ~dropping => \A r \in With({"queued"}) : ~InPlace(r)

\* What a conversion has dealt with is not converted again while its history is there: neither the
\* result of an in-place job nor an original whose job is done, under either mode (cheap_skip_reason,
\* fetch_skip_sets, record_source_identity).
DealtWith(c) ==
  \E d \in With(Handled) :
    IF InPlace(d) /\ rows[d].status = "done" THEN c.by = d ELSE c = rows[d].print
NothingIsConvertedTwice ==
  [][\A r \in Ids : ClaimJob(r) /\ pc' = "encode" => ~DealtWith(disk[rows[r].src])]_vars

\* queue_ops.rs, add_files_to_db_from: "Never clobber an existing output".  The name is looked at
\* when the job is added and not when it is encoded.
NothingIsOverwritten ==
  [][\A r \in Ids : ClaimJob(r) /\ pc' = "encode" /\ ~InPlace(r) => disk[rows[r].out] = NoFile]_vars
=============================================================================
