--------------------------------- MODULE Purge ---------------------------------
(***************************************************************************)
(* The bad-source purge.  The queue thread condemns a source HandBrake     *)
(* could not make sense of; the user later has the condemned ones          *)
(* destroyed.  A purge asks the database, lets its lock go to stat, scan   *)
(* and open the source, and takes the lock again to check everything a     *)
(* second time and to destroy.  Meanwhile the same file may be added,      *)
(* converted in place, cancelled or replaced, its volume may drop out, and *)
(* a second purge may be under way.                                        *)
(*                                                                         *)
(* A file is its content: size and mtime are taken to tell contents apart. *)
(* Rows are local ones; a remote row is refused before any of this.        *)
(***************************************************************************)
EXTENDS Integers, FiniteSets

CONSTANTS
  Rows, NoRow, NoFile,
  Spellings, Files,
  FileOf,       \* the file a spelling of a path names
  Calls, NoCall,
  Healths,      \* of what the owner writes: "good", "bad" for no scan, "short" for truncated
  MaxWrites, MaxDrops

ASSUME PurgeAssumption ==
  /\ FileOf \in [Spellings -> Files]
  /\ NoRow \notin Rows /\ NoCall \notin Calls
  /\ Healths \subseteq {"good", "bad", "short"}
  /\ {MaxWrites, MaxDrops} \subseteq Nat

Contents == [by : Rows \cup {NoRow}, n : Nat, health : Healths \cup {"good"}]
Content  == Contents \cup {NoFile}
ASSUME NoFileAssumption == NoFile \notin Contents

VARIABLES
  disk,          \* what is under each file name
  mounted,       \* the volume of the files is there
  rows,          \* the jobs table; a row in no use is "none"
  pc, cur, saw,  \* the queue thread, its row, and what HandBrake read of its source
  cancel,        \* the row a Cancel has read as the current one and not booked yet
  calls,         \* calls[c]: purge_one_locked
  lock,          \* the purge that holds the database lock over its last check and the removal
  writes, drops

thread == <<pc, cur, saw>>
vars   == <<disk, mounted, rows, thread, cancel, calls, lock, writes, drops>>

Condemned == {"bad_source", "bad_source_truncated"}
Classes   == Condemned \cup {"none", "environment", "bad_source_purged", "bad_source_recovered"}
Live      == {"queued", "encoding"}
Statuses  == Live \cup {"none", "done", "error"}
ThreadPcs == {"idle", "encode", "killed", "failed", "classify", "stat", "stamp", "record", "replace",
              "book"}
CallPcs   == {"idle", "identity", "parent", "gone", "scan", "recovered", "readable", "recheck",
              "destroy"}
Row  == [src : Spellings, inPlace : BOOLEAN, status : Statuses, class : Classes, print : Content]
Call == [at : CallPcs, id : Rows \cup {NoRow}, path : Spellings, print : Content, rescan : BOOLEAN]

Owned(n, h) == [by |-> NoRow, n |-> n, health |-> h]
Encode(r)   == [by |-> r, n |-> 0, health |-> "good"]

TypeOK ==
  /\ disk \in [Files -> Content] /\ mounted \in BOOLEAN
  /\ rows \in [Rows -> Row]
  /\ pc \in ThreadPcs
  /\ cur \in Rows \cup {NoRow} /\ saw \in Content \X Classes
  /\ cancel \in Rows \cup {NoRow}
  /\ calls \in [Calls -> Call] /\ lock \in Calls \cup {NoCall}
  /\ writes \in Nat /\ drops \in Nat

Init ==
  /\ disk \in [Files -> {Owned(0, h) : h \in Healths}] /\ mounted = TRUE
  /\ \E s \in Spellings :
       /\ rows = [r \in Rows |-> [src |-> s, inPlace |-> FALSE, status |-> "none",
                                  class |-> "none", print |-> NoFile]]
       /\ calls = [c \in Calls |-> [at |-> "idle", id |-> NoRow, path |-> s, print |-> NoFile,
                                    rescan |-> FALSE]]
  /\ pc = "idle" /\ cur = NoRow /\ saw = <<NoFile, "none">> /\ cancel = NoRow
  /\ lock = NoCall /\ writes = 0 /\ drops = 0

FileAt(s)    == disk[FileOf[s]]
IsThere(s)   == mounted /\ FileAt(s) # NoFile
SourceOf(r)  == rows[r].src
LiveRows     == {r \in Rows : rows[r].status \in Live}
Unlocked     == lock = NoCall

-----------------------------------------------------------------------------
(* Adding a file and converting it, as far as a purge can meet it.         *)

\* An add of a file that is neither queued under that spelling nor a known result of a conversion.
Add(r, s, inPlace) ==
  /\ Unlocked /\ rows[r].status = "none" /\ IsThere(s)
  /\ \A q \in LiveRows : rows[q].src # s
  /\ \A q \in Rows : rows[q].status = "done" => rows[q].print # FileAt(s)
  /\ rows' = [rows EXCEPT ![r] = [src |-> s, inPlace |-> inPlace, status |-> "queued",
                                  class |-> "none", print |-> FileAt(s)]]
  /\ UNCHANGED <<disk, mounted, thread, cancel, calls, lock, writes, drops>>

\* A source that is gone is booked without a claim.
Vanished(r) ==
  /\ Unlocked /\ pc = "idle" /\ rows[r].status = "queued" /\ mounted /\ ~IsThere(SourceOf(r))
  /\ rows' = [rows EXCEPT ![r].status = "error", ![r].class = "environment"]
  /\ UNCHANGED <<disk, mounted, thread, cancel, calls, lock, writes, drops>>

Claim(r) ==
  /\ Unlocked /\ pc = "idle" /\ rows[r].status = "queued" /\ IsThere(rows[r].src)
  /\ rows' = [rows EXCEPT ![r].status = "encoding"]
  /\ pc' = "encode" /\ cur' = r /\ saw' = <<FileAt(rows[r].src), "none">>
  /\ UNCHANGED <<disk, mounted, cancel, calls, lock, writes, drops>>

\* HandBrake ends.  A short source exits 0 with too few frames; no title, as a failure or as an
\* empty output, is the same answer for a bad file and for a volume that is not there.
EncodeEnds ==
  /\ pc = "encode"
  /\ LET noTitle == saw[1].health = "bad" \/ ~mounted IN
     \/ noTitle /\ pc' \in {"failed", "classify"} /\ UNCHANGED saw
     \/ ~noTitle /\ saw[1].health = "short" /\ pc' = "stat"
        /\ saw' = <<saw[1], "bad_source_truncated">>
     \/ ~noTitle /\ saw[1].health = "good" /\ pc' \in {"replace", "book"} /\ UNCHANGED saw
  /\ UNCHANGED <<disk, mounted, rows, cur, cancel, calls, lock, writes, drops>>

\* classify: nothing is condemned that this process cannot open itself.
Classify ==
  /\ pc = "classify"
  /\ IF IsThere(SourceOf(cur))
     THEN pc' = "stat" /\ saw' = <<saw[1], "bad_source">>
     ELSE pc' = "record" /\ saw' = <<saw[1], "environment">>
  /\ UNCHANGED <<disk, mounted, rows, cur, cancel, calls, lock, writes, drops>>

\* record_condemned_identity: the source as it is now, then the row under the lock.
StatCondemned ==
  /\ pc = "stat" /\ pc' = "stamp"
  /\ saw' = <<IF mounted THEN FileAt(SourceOf(cur)) ELSE NoFile, saw[2]>>
  /\ UNCHANGED <<disk, mounted, rows, cur, cancel, calls, lock, writes, drops>>

StampCondemned ==
  /\ Unlocked /\ pc = "stamp" /\ pc' = "record"
  /\ rows' = [rows EXCEPT ![cur].print = saw[1]]
  /\ UNCHANGED <<disk, mounted, cur, saw, cancel, calls, lock, writes, drops>>

RecordError ==
  /\ Unlocked /\ pc = "record"
  /\ rows' = [rows EXCEPT ![cur].status = "error", ![cur].class = saw[2]]
  /\ pc' = "idle" /\ cur' = NoRow /\ saw' = <<NoFile, "none">>
  /\ UNCHANGED <<disk, mounted, cancel, calls, lock, writes, drops>>

\* The cleanup: the source is put away first, or the rename takes its place at once, or a
\* result beside a source that goes.
PutSourceAway ==
  /\ pc = "replace" /\ mounted
  /\ disk' = [disk EXCEPT ![FileOf[SourceOf(cur)]] = NoFile]
  /\ pc' = IF rows[cur].inPlace THEN "replace" ELSE "book"
  /\ UNCHANGED <<mounted, rows, cur, saw, cancel, calls, lock, writes, drops>>

ReplaceInPlace ==
  /\ pc = "replace" /\ rows[cur].inPlace /\ mounted
  /\ disk' = [disk EXCEPT ![FileOf[SourceOf(cur)]] = Encode(cur)]
  /\ pc' = "book"
  /\ UNCHANGED <<mounted, rows, cur, saw, cancel, calls, lock, writes, drops>>

\* The volume is gone, or a Cancel has deleted the temp.
ReplaceFails ==
  /\ pc = "replace" /\ (~mounted \/ (rows[cur].inPlace /\ rows[cur].status = "error"))
  /\ pc' = "record" /\ saw' = <<saw[1], "environment">>
  /\ UNCHANGED <<disk, mounted, rows, cur, cancel, calls, lock, writes, drops>>

\* A row still running is done; cancelled or not, one converted in place is known by what is under
\* its path now.
BookDone ==
  /\ Unlocked /\ pc = "book"
  /\ rows' = [rows EXCEPT ![cur].status = IF @ = "encoding" THEN "done" ELSE @,
                ![cur].print = IF rows[cur].inPlace /\ IsThere(SourceOf(cur))
                               THEN FileAt(SourceOf(cur)) ELSE @]
  /\ pc' = "idle" /\ cur' = NoRow /\ saw' = <<NoFile, "none">>
  /\ UNCHANGED <<disk, mounted, cancel, calls, lock, writes, drops>>

\* cancel_conversion: which row is current, and later, under the lock, its booking and the kill.
CancelReads ==
  /\ pc # "idle" /\ cancel = NoRow /\ cancel' = cur
  /\ UNCHANGED <<disk, mounted, rows, thread, calls, lock, writes, drops>>

CancelBooks ==
  /\ Unlocked /\ cancel # NoRow /\ cancel' = NoRow
  /\ rows' = IF rows[cancel].status = "encoding"
             THEN [rows EXCEPT ![cancel].status = "error", ![cancel].class = "environment"]
             ELSE rows
  /\ pc' = IF pc = "encode" THEN "killed" ELSE pc
  /\ UNCHANGED <<disk, mounted, cur, saw, calls, lock, writes, drops>>

\* The error branch leaves a row alone that a Cancel has booked; a kill condemns nothing.
SeesFailed ==
  /\ Unlocked /\ pc \in {"killed", "failed"}
  /\ IF rows[cur].status = "error"
     THEN pc' = "idle" /\ cur' = NoRow /\ saw' = <<NoFile, "none">>
     ELSE IF pc = "failed" THEN pc' = "classify" /\ UNCHANGED <<cur, saw>>
     ELSE pc' = "record" /\ saw' = <<saw[1], "environment">> /\ UNCHANGED cur
  /\ UNCHANGED <<disk, mounted, rows, cancel, calls, lock, writes, drops>>

-----------------------------------------------------------------------------
(* A purge of one row.                                                     *)

\* lookup_bad_source_row: on the review list.
OnReviewList(r) == rows[r].status = "error" /\ rows[r].class \in Condemned

InUseRaw(s) == \E q \in LiveRows : rows[q].src = s

\* As changed: by the spelling alone.
InUseAsSpelt(s) == InUseRaw(s)
\* Paths that resolve are compared as files, one that does not as it is spelt.
InUseCanonical(s) ==
  \E q \in LiveRows : rows[q].src = s \/ (IsThere(s) /\ FileOf[rows[q].src] = FileOf[s])

\* The file is there and is the one the fingerprint was taken of; no fingerprint matches nothing.
IsProved(s, print) == IsThere(s) /\ print # NoFile /\ FileAt(s) = print

SetCall(c, at) == calls' = [calls EXCEPT ![c].at = at]
Mark(r, class) == rows' = [rows EXCEPT ![r].class = class]

\* Phase 1, quick_db_check.  A row that does not pass is answered at once.
QuickCheck(c, r) ==
  /\ Unlocked /\ calls[c].at = "idle"
  /\ OnReviewList(r) /\ ~InUseRaw(rows[r].src)
  /\ calls' = [calls EXCEPT ![c] = [at |-> "identity", id |-> r, path |-> rows[r].src,
                 print |-> rows[r].print, rescan |-> rows[r].class = "bad_source"]]
  /\ UNCHANGED <<disk, mounted, rows, thread, cancel, lock, writes, drops>>

\* Phase 2, without the lock.  On a volume that dropped out a file looks as if deleted, or the
\* stat fails.
StatSource(c) ==
  /\ calls[c].at = "identity"
  /\ LET s == calls[c].path IN
     \/ IsProved(s, calls[c].print) /\ SetCall(c, IF calls[c].rescan THEN "scan" ELSE "recheck")
     \/ IsThere(s) /\ ~IsProved(s, calls[c].print) /\ SetCall(c, "idle")
     \/ ~IsThere(s) /\ SetCall(c, "parent")
     \/ ~mounted /\ SetCall(c, "idle")
  /\ UNCHANGED <<disk, mounted, rows, thread, cancel, lock, writes, drops>>

StatParent(c) ==
  /\ calls[c].at = "parent" /\ SetCall(c, IF mounted THEN "gone" ELSE "idle")
  /\ UNCHANGED <<disk, mounted, rows, thread, cancel, lock, writes, drops>>

MarkGone(c) ==
  /\ Unlocked /\ calls[c].at = "gone" /\ SetCall(c, "idle")
  /\ Mark(calls[c].id, "bad_source_purged")
  /\ UNCHANGED <<disk, mounted, thread, cancel, lock, writes, drops>>

\* A title shows the file is fine; a scan that could not run shows nothing.
Rescan(c) ==
  /\ calls[c].at = "scan"
  /\ LET s == calls[c].path
         titled == IsThere(s) /\ FileAt(s).health # "bad"
     IN  SetCall(c, IF titled THEN "recovered" ELSE "readable") \/ SetCall(c, "idle")
  /\ UNCHANGED <<disk, mounted, rows, thread, cancel, lock, writes, drops>>

MarkRecovered(c) ==
  /\ Unlocked /\ calls[c].at = "recovered" /\ SetCall(c, "idle")
  /\ Mark(calls[c].id, "bad_source_recovered")
  /\ UNCHANGED <<disk, mounted, thread, cancel, lock, writes, drops>>

OpenSource(c) ==
  /\ calls[c].at = "readable" /\ SetCall(c, IF IsThere(calls[c].path) THEN "recheck" ELSE "idle")
  /\ UNCHANGED <<disk, mounted, rows, thread, cancel, lock, writes, drops>>

\* As changed: in use, and nothing else, is asked again.
StillUnused(r, s) == ~InUseCanonical(s)
\* pre_destroy_check: every rung but the scan again, on the row as it is now.
StillCondemned(r, s) == OnReviewList(r) /\ ~InUseCanonical(s) /\ IsProved(s, rows[r].print)

\* Phase 3.
Recheck(c) ==
  /\ Unlocked /\ calls[c].at = "recheck"
  /\ LET r == calls[c].id
         s == calls[c].path
         gone == OnReviewList(r) /\ ~InUseCanonical(s) /\ mounted /\ FileAt(s) = NoFile
     IN  /\ IF StillCondemned(r, s)
            THEN SetCall(c, "destroy") /\ lock' = c
            ELSE SetCall(c, "idle") /\ UNCHANGED lock
         /\ IF gone THEN Mark(r, "bad_source_purged") ELSE UNCHANGED rows
  /\ UNCHANGED <<disk, mounted, thread, cancel, writes, drops>>

\* destroy_and_record: to the trash or for good, either may fail.
Destroy(c) ==
  /\ calls[c].at = "destroy" /\ lock = c /\ IsThere(calls[c].path)
  /\ disk' = [disk EXCEPT ![FileOf[calls[c].path]] = NoFile]
  /\ Mark(calls[c].id, "bad_source_purged")
  /\ SetCall(c, "idle") /\ lock' = NoCall
  /\ UNCHANGED <<mounted, thread, cancel, writes, drops>>

DestroyFails(c) ==
  /\ calls[c].at = "destroy" /\ lock = c
  /\ SetCall(c, "idle") /\ lock' = NoCall
  /\ UNCHANGED <<disk, mounted, rows, thread, cancel, writes, drops>>

-----------------------------------------------------------------------------
(* The owner of the files, and their volume.  Between the last check of a  *)
(* purge and its removal, two calls apart, the owner is taken not to act.  *)

OwnerWrites(f, h) ==
  /\ mounted /\ Unlocked /\ writes < MaxWrites /\ writes' = writes + 1
  /\ disk' = [disk EXCEPT ![f] = Owned(writes', h)]
  /\ UNCHANGED <<mounted, rows, thread, cancel, calls, lock, drops>>

OwnerRemoves(f) ==
  /\ mounted /\ Unlocked /\ writes < MaxWrites /\ writes' = writes + 1
  /\ disk[f] # NoFile /\ disk' = [disk EXCEPT ![f] = NoFile]
  /\ UNCHANGED <<mounted, rows, thread, cancel, calls, lock, drops>>

DropsOut ==
  /\ mounted /\ drops < MaxDrops /\ mounted' = FALSE /\ drops' = drops + 1
  /\ UNCHANGED <<disk, rows, thread, cancel, calls, lock, writes>>

ComesBack ==
  /\ ~mounted /\ mounted' = TRUE
  /\ UNCHANGED <<disk, rows, thread, cancel, calls, lock, writes, drops>>

Convert ==
  \/ \E r \in Rows, s \in Spellings, b \in BOOLEAN : Add(r, s, b)
  \/ \E r \in Rows : Vanished(r) \/ Claim(r)
  \/ EncodeEnds \/ Classify \/ StatCondemned \/ StampCondemned \/ RecordError
  \/ PutSourceAway \/ ReplaceInPlace \/ ReplaceFails \/ BookDone
  \/ CancelReads \/ CancelBooks \/ SeesFailed

PurgeOne(c) ==
  \/ \E r \in Rows : QuickCheck(c, r)
  \/ StatSource(c) \/ StatParent(c) \/ MarkGone(c) \/ Rescan(c) \/ MarkRecovered(c)
  \/ OpenSource(c) \/ Recheck(c) \/ Destroy(c) \/ DestroyFails(c)

Environment ==
  \/ \E f \in Files, h \in Healths : OwnerWrites(f, h)
  \/ \E f \in Files : OwnerRemoves(f)
  \/ DropsOut \/ ComesBack

Next == Convert \/ (\E c \in Calls : PurgeOne(c)) \/ Environment

Spec == Init /\ [][Next]_vars

-----------------------------------------------------------------------------
(* What a purge removes.                                                   *)

\* Purge c removes the file it is at in this step.
Removes(c) ==
  /\ calls[c].at = "destroy" /\ calls'[c].at # "destroy"
  /\ disk'[FileOf[calls[c].path]] # disk[FileOf[calls[c].path]]

\* A purge removes the very content its row was condemned with, whatever was added, converted or
\* written while it had let the lock go (purge_one_locked, phase 3).  The one way past its last
\* check is an encode whose Cancel was booked after it had ended: it takes its place at any time.
PurgeSparesTheNew ==
  [][\A c \in Calls : Removes(c) =>
       LET there == disk[FileOf[calls[c].path]] IN
       \/ there = rows[calls[c].id].print
       \/ \E r \in Rows : there = Encode(r) /\ rows[r].status = "error"]_vars

\* A purge does not take the source of a queued or running job away, under whatever spelling it was
\* queued and whenever it was (path_is_in_use_canonical under the lock).
LiveSourceIsSpared ==
  [][\A c \in Calls : Removes(c) =>
       \A q \in LiveRows : FileOf[rows[q].src] # FileOf[calls[c].path]]_vars

-----------------------------------------------------------------------------
(* A promise the code does not keep; the README says how it is broken.     *)

\* record_condemned_identity: "Stamping at condemnation time closes that window", in which a
\* repaired file is destroyed for what it was.  A purge removes no sound file.
RepairedIsSpared ==
  [][\A c \in Calls : Removes(c) => disk[FileOf[calls[c].path]].health # "good"]_vars
=============================================================================
