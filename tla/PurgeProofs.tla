----------------------------- MODULE PurgeProofs -----------------------------
(***************************************************************************)
(* Theorems about Purge, for any rows, calls, files and spellings of them, *)
(* any number of writes of the owner and of drop-outs of the volume: types, *)
(* that no purge takes away the source of a job that is queued or runs, and *)
(* that it removes only what its row was condemned with.                   *)
(***************************************************************************)
EXTENDS Purge, TLAPS

-----------------------------------------------------------------------------
(* The inductive invariant.                                                *)

\* A call that has passed its last check holds the database lock.
Held == \A c \in Calls : calls[c].at = "destroy" => lock = c

\* The thread at work has a row that runs or that a Cancel has booked.
Busy == pc # "idle" => cur \in Rows /\ rows[cur].status \in {"encoding", "error"}

\* A call under way has a row.
Named == \A c \in Calls : calls[c].at # "idle" => calls[c].id \in Rows

\* What call c is about to remove is no live job's source, and is what its row was condemned with,
\* unless it is gone or the encode of a cancelled job has just taken its place.
Sparing(c) ==
  LET f == FileOf[calls[c].path] IN
  /\ \A q \in Rows : rows[q].status \in Live => FileOf[rows[q].src] # f
  /\ \/ disk[f] = rows[calls[c].id].print
     \/ disk[f] = NoFile
     \/ \E r \in Rows : disk[f] = Encode(r) /\ rows[r].status = "error"
Clear == \A c \in Calls : calls[c].at = "destroy" => Sparing(c)

IInv == TypeOK /\ Held /\ Busy /\ Named /\ Clear

-----------------------------------------------------------------------------
(* Types.                                                                  *)

\* What the owner writes and what an encode leaves are contents.
LEMMA ContentTypes ==
  /\ \A n \in Nat, h \in Healths : Owned(n, h) \in Content
  /\ \A r \in Rows : Encode(r) \in Content
  /\ NoFile \in Content
BY DEF Content, Contents, Owned, Encode

LEMMA RowTypes ==
  /\ \A r \in Row : r.src \in Spellings /\ r.inPlace \in BOOLEAN /\ r.status \in Statuses
                    /\ r.class \in Classes /\ r.print \in Content
  /\ \A k \in Call : k.at \in CallPcs /\ k.id \in Rows \cup {NoRow} /\ k.path \in Spellings
                     /\ k.print \in Content /\ k.rescan \in BOOLEAN
BY DEF Row, Call

LEMMA TypeInit == Init => IInv
<1> SUFFICES ASSUME Init PROVE IInv
  OBVIOUS
<1>1. PICK s \in Spellings :
        /\ rows = [r \in Rows |-> [src |-> s, inPlace |-> FALSE, status |-> "none",
                                   class |-> "none", print |-> NoFile]]
        /\ calls = [c \in Calls |-> [at |-> "idle", id |-> NoRow, path |-> s, print |-> NoFile,
                                     rescan |-> FALSE]]
  BY DEF Init
<1>2. rows \in [Rows -> Row]
  BY <1>1, ContentTypes DEF Row, Statuses, Live, Classes
<1>3. calls \in [Calls -> Call]
  BY <1>1, ContentTypes DEF Call, CallPcs
<1>4. disk \in [Files -> Content]
  BY ContentTypes DEF Init
<1>5. saw \in Content \X Classes
  BY ContentTypes DEF Init, Classes
<1>6. TypeOK
  BY <1>2, <1>3, <1>4, <1>5 DEF Init, TypeOK, ThreadPcs
<1>7. \A c \in Calls : calls[c].at = "idle"
  BY <1>1
<1> QED BY <1>6, <1>7 DEF Init, IInv, Held, Busy, Named, Clear

-----------------------------------------------------------------------------
(* Where no call holds the lock, none is about to destroy.                 *)

LEMMA UnlockedIdle ==
  ASSUME Held, Unlocked, PurgeAssumption
  PROVE  \A c \in Calls : calls[c].at # "destroy"
BY DEF Held, Unlocked, PurgeAssumption

\* A step of the thread, a Cancel or the owner under the lock leaves the calls as they are.
LEMMA QuietStep ==
  ASSUME IInv, Unlocked, UNCHANGED <<calls, lock>>, TypeOK', Busy'
  PROVE  IInv'
<1>1. \A c \in Calls : calls[c].at # "destroy"
  BY UnlockedIdle, PurgeAssumption DEF IInv
<1> QED BY <1>1 DEF IInv, Held, Named, Clear

\* A step that leaves the rows, the files and the lock alone, and takes no call to its removal.
LEMMA CallStep ==
  ASSUME IInv, NEW c \in Calls, NEW at \in CallPcs, calls[c].at # "destroy", calls[c].at # "idle",
         SetCall(c, at), at # "destroy", UNCHANGED <<disk, rows, lock, pc, cur>>, TypeOK'
  PROVE  IInv'
<1> USE DEF SetCall, IInv
<1>1. \A d \in Calls : /\ calls'[d].at = IF d = c THEN at ELSE calls[d].at
                       /\ calls'[d].id = calls[d].id /\ calls'[d].path = calls[d].path
  BY DEF TypeOK, Call
<1>2. Held' /\ Named' /\ Busy'
  BY <1>1 DEF Held, Named, Busy
<1>3. Clear'
  <2> SUFFICES ASSUME NEW d \in Calls, calls'[d].at = "destroy" PROVE Sparing(d)'
    BY DEF Clear
  <2>1. calls[d].at = "destroy"
    BY <1>1
  <2>2. Sparing(d)
    BY <2>1 DEF Clear
  <2> QED BY <2>2, <1>1 DEF Sparing
<1> QED BY <1>2, <1>3

\* A step that leaves rows, files, calls and the lock alone.
LEMMA FrameStep ==
  ASSUME IInv, UNCHANGED <<disk, rows, calls, lock>>, TypeOK', Busy'
  PROVE  IInv'
<1>1. Held' /\ Named'
  BY DEF IInv, Held, Named
<1>2. \A c \in Calls : Sparing(c)' <=> Sparing(c)
  BY DEF Sparing
<1> QED BY <1>1, <1>2 DEF IInv, Clear

-----------------------------------------------------------------------------
(* The queue thread and the Cancel.                                        *)

\* A row with one or two of its fields replaced is a row.
LEMMA RowChange ==
  ASSUME NEW x \in Row, NEW st \in Statuses, NEW cl \in Classes, NEW p \in Content
  PROVE  /\ [x EXCEPT !.status = st] \in Row
         /\ [x EXCEPT !.status = st, !.class = cl] \in Row
         /\ [x EXCEPT !.status = st, !.print = p] \in Row
         /\ [x EXCEPT !.print = p] \in Row
         /\ [x EXCEPT !.class = cl] \in Row
BY DEF Row

LEMMA Types ==
  ASSUME TypeOK, PurgeAssumption
  PROVE  /\ \A r \in Rows : /\ rows[r] \in Row /\ rows[r].src \in Spellings
                            /\ rows[r].status \in Statuses /\ rows[r].print \in Content
                            /\ FileOf[rows[r].src] \in Files
         /\ \A s \in Spellings : FileOf[s] \in Files /\ FileAt(s) \in Content
         /\ \A c \in Calls : calls[c] \in Call /\ calls[c].path \in Spellings
                             /\ FileOf[calls[c].path] \in Files
         /\ saw[1] \in Content /\ saw[2] \in Classes
BY RowTypes DEF TypeOK, PurgeAssumption, FileAt

\* Adding, and the booking of a vanished source.
LEMMA StepAdd ==
  ASSUME IInv, NEW r \in Rows, (\E s \in Spellings, b \in BOOLEAN : Add(r, s, b)) \/ Vanished(r)
  PROVE  IInv'
<1> USE PurgeAssumption, Types DEF IInv, thread
<1>1. CASE \E s \in Spellings, b \in BOOLEAN : Add(r, s, b)
  <2>1. PICK s \in Spellings, b \in BOOLEAN : Add(r, s, b)
    BY <1>1
  <2>2. [src |-> s, inPlace |-> b, status |-> "queued", class |-> "none", print |-> FileAt(s)] \in Row
    BY DEF Row, Statuses, Live, Classes
  <2>3. rows' \in [Rows -> Row]
    BY <2>1, <2>2 DEF Add, TypeOK
  <2>4. TypeOK'
    BY <2>1, <2>3 DEF Add, TypeOK
  <2>5. Busy'
    BY <2>1 DEF Add, Busy, TypeOK
  <2> QED BY <2>1, <2>4, <2>5, QuietStep DEF Add
<1>2. CASE Vanished(r)
  <2>1. rows' = [rows EXCEPT ![r] = [rows[r] EXCEPT !.status = "error", !.class = "environment"]]
    BY <1>2 DEF Vanished, TypeOK
  <2>2. [rows[r] EXCEPT !.status = "error", !.class = "environment"] \in Row
    BY RowChange DEF Statuses, Classes
  <2>3. rows' \in [Rows -> Row]
    BY <2>1, <2>2 DEF TypeOK
  <2>4. TypeOK'
    BY <1>2, <2>3 DEF Vanished, TypeOK
  <2>5. Busy'
    BY <1>2 DEF Vanished, Busy
  <2> QED BY <1>2, <2>4, <2>5, QuietStep DEF Vanished
<1> QED BY <1>1, <1>2

LEMMA StepClaim ==
  ASSUME IInv, NEW r \in Rows, Claim(r)
  PROVE  IInv'
<1> USE PurgeAssumption, Types DEF IInv
<1>1. rows' = [rows EXCEPT ![r] = [rows[r] EXCEPT !.status = "encoding"]]
  BY DEF Claim, TypeOK
<1>2. [rows[r] EXCEPT !.status = "encoding"] \in Row
  BY RowChange DEF Statuses, Live
<1>3. rows' \in [Rows -> Row] /\ rows'[r].status = "encoding"
  BY <1>1, <1>2 DEF TypeOK, Row
<1>4. saw' \in Content \X Classes /\ pc' \in ThreadPcs
  BY DEF Claim, Classes, ThreadPcs
<1>5. TypeOK'
  BY <1>3, <1>4 DEF Claim, TypeOK
<1>6. Busy'
  BY <1>3 DEF Claim, Busy
<1> QED BY <1>5, <1>6, QuietStep DEF Claim

\* The steps of the thread that write nothing.
LEMMA StepThink ==
  ASSUME IInv, EncodeEnds \/ Classify \/ StatCondemned \/ ReplaceFails \/ CancelReads
  PROVE  IInv'
<1> USE PurgeAssumption, Types DEF IInv
<1>1. Busy'
  BY DEF Busy, EncodeEnds, Classify, StatCondemned, ReplaceFails, CancelReads, thread
<1>2. pc' \in ThreadPcs
  BY DEF EncodeEnds, Classify, StatCondemned, ReplaceFails, CancelReads, thread, ThreadPcs, TypeOK
<1>3. saw' \in Content \X Classes
  <2>1. CASE EncodeEnds
    BY <2>1 DEF EncodeEnds, Classes, Condemned, TypeOK
  <2>2. CASE Classify \/ ReplaceFails
    BY <2>2 DEF Classify, ReplaceFails, Classes, Condemned
  <2>3. CASE StatCondemned
    BY <2>3, ContentTypes DEF StatCondemned, Busy, SourceOf
  <2>4. CASE CancelReads
    BY <2>4 DEF CancelReads, thread, TypeOK
  <2> QED BY <2>1, <2>2, <2>3, <2>4
<1>4. cancel' \in Rows \cup {NoRow}
  BY DEF EncodeEnds, Classify, StatCondemned, ReplaceFails, CancelReads, TypeOK
<1>5. TypeOK' /\ UNCHANGED <<disk, rows, calls, lock>>
  BY <1>2, <1>3, <1>4 DEF EncodeEnds, Classify, StatCondemned, ReplaceFails, CancelReads, thread, TypeOK
<1> QED BY <1>1, <1>5, FrameStep

\* The bookings of the thread and of a Cancel.
LEMMA StepBook ==
  ASSUME IInv, StampCondemned \/ RecordError \/ BookDone \/ CancelBooks \/ SeesFailed
  PROVE  IInv'
<1> USE PurgeAssumption, Types DEF IInv
<1>1. CASE StampCondemned
  <2>1. rows' = [rows EXCEPT ![cur] = [rows[cur] EXCEPT !.print = saw[1]]] /\ cur \in Rows
    BY <1>1 DEF StampCondemned, Busy, TypeOK
  <2>2. rows' \in [Rows -> Row]
    BY <2>1, RowChange DEF TypeOK
  <2>3. Busy'
    BY <1>1, <2>1 DEF StampCondemned, Busy, TypeOK, Row
  <2>4. TypeOK'
    BY <1>1, <2>2 DEF StampCondemned, TypeOK, ThreadPcs
  <2> QED BY <1>1, <2>3, <2>4, QuietStep DEF StampCondemned
<1>2. CASE RecordError
  <2>1. rows' = [rows EXCEPT ![cur] = [rows[cur] EXCEPT !.status = "error", !.class = saw[2]]] /\ cur \in Rows
    BY <1>2 DEF RecordError, Busy, TypeOK
  <2>2. rows' \in [Rows -> Row]
    BY <2>1, RowChange DEF TypeOK, Statuses
  <2>3. TypeOK' /\ Busy'
    BY <1>2, <2>2, ContentTypes DEF RecordError, TypeOK, Busy, ThreadPcs, Classes
  <2> QED BY <1>2, <2>3, QuietStep DEF RecordError
<1>3. CASE BookDone
  <2> DEFINE st == IF rows[cur].status = "encoding" THEN "done" ELSE rows[cur].status
             p == IF rows[cur].inPlace /\ IsThere(SourceOf(cur)) THEN FileAt(SourceOf(cur))
                  ELSE rows[cur].print
  <2>1. cur \in Rows /\ [rows[cur] EXCEPT !.status = st, !.print = p] \in Row
    <3>1. cur \in Rows
      BY <1>3 DEF BookDone, Busy
    <3>2. st \in Statuses /\ p \in Content
      BY <3>1 DEF Statuses, SourceOf
    <3>3. rows[cur] \in Row
      BY <3>1
    <3> QED BY <3>1, <3>2, <3>3, RowChange
  <2>2. rows' \in [Rows -> Row]
    <3>1. rows' = [rows EXCEPT ![cur] = [rows[cur] EXCEPT !.status = st, !.print = p]]
      BY <1>3, <2>1 DEF BookDone, TypeOK
    <3> HIDE DEF st, p
    <3> QED BY <2>1, <3>1 DEF TypeOK
  <2>3. TypeOK' /\ Busy'
    BY <1>3, <2>2, ContentTypes DEF BookDone, TypeOK, Busy, ThreadPcs, Classes
  <2> QED BY <1>3, <2>3, QuietStep DEF BookDone
<1>4. CASE CancelBooks
  <2>1. /\ cancel \in Rows /\ rows' \in [Rows -> Row]
        /\ \A q \in Rows : rows[q].status \in {"encoding", "error"} => rows'[q].status \in {"encoding", "error"}
    <3>1. cancel \in Rows
      BY <1>4 DEF CancelBooks, TypeOK
    <3>2. CASE rows[cancel].status = "encoding"
      <4>1. rows' = [rows EXCEPT ![cancel] = [rows[cancel] EXCEPT !.status = "error", !.class = "environment"]]
        BY <1>4, <3>1, <3>2 DEF CancelBooks, TypeOK
      <4>2. rows' \in [Rows -> Row]
        BY <3>1, <4>1, RowChange DEF TypeOK, Statuses, Classes
      <4>3. rows'[cancel].status = "error"
        BY <3>1, <4>1 DEF TypeOK, Row
      <4> QED BY <3>1, <4>1, <4>2, <4>3 DEF TypeOK
    <3>3. CASE rows[cancel].status # "encoding"
      BY <1>4, <3>1, <3>3 DEF CancelBooks, TypeOK
    <3> QED BY <3>1, <3>2, <3>3
  <2>2. Busy'
    BY <1>4, <2>1 DEF CancelBooks, Busy
  <2>3. TypeOK'
    BY <1>4, <2>1 DEF CancelBooks, TypeOK, ThreadPcs
  <2> QED BY <1>4, <2>2, <2>3, QuietStep DEF CancelBooks
<1>5. CASE SeesFailed
  <2>1. saw' \in Content \X Classes /\ pc' \in ThreadPcs /\ cur' \in Rows \cup {NoRow}
    BY <1>5, ContentTypes DEF SeesFailed, TypeOK, Classes, ThreadPcs
  <2>2. TypeOK' /\ Busy'
    BY <1>5, <2>1 DEF SeesFailed, TypeOK, Busy
  <2> QED BY <1>5, <2>2, QuietStep DEF SeesFailed
<1> QED BY <1>1, <1>2, <1>3, <1>4, <1>5

\* The cleanup of an encode, at any time: a live row's source is not what a purge is about to
\* remove, and a row that a Cancel has booked is the one exception Sparing makes.
LEMMA StepReplace ==
  ASSUME IInv, PutSourceAway \/ ReplaceInPlace
  PROVE  IInv'
<1> USE PurgeAssumption, Types DEF IInv
<1>1. cur \in Rows /\ rows[cur].status \in {"encoding", "error"}
  BY DEF Busy, PutSourceAway, ReplaceInPlace
<1> DEFINE f == FileOf[SourceOf(cur)]
<1>2. f \in Files
  BY <1>1 DEF SourceOf
<1>3. \/ disk' = [disk EXCEPT ![f] = NoFile]
      \/ disk' = [disk EXCEPT ![f] = Encode(cur)]
  BY DEF PutSourceAway, ReplaceInPlace
<1>4. disk' \in [Files -> Content]
  BY <1>1, <1>2, <1>3, ContentTypes DEF TypeOK
<1>5. UNCHANGED <<mounted, rows, cur, saw, cancel, calls, lock, writes, drops>> /\ pc' \in {"replace", "book"}
  BY DEF PutSourceAway, ReplaceInPlace
<1>6. TypeOK' /\ Busy' /\ Held' /\ Named'
  BY <1>1, <1>4, <1>5 DEF TypeOK, Busy, Held, Named, ThreadPcs
<1>7. Clear'
  <2> SUFFICES ASSUME NEW c \in Calls, calls[c].at = "destroy" PROVE Sparing(c)'
    BY <1>5 DEF Clear
  <2> DEFINE g == FileOf[calls[c].path]
  <2>1. Sparing(c) /\ g \in Files
    BY DEF Clear
  <2>2. CASE g # f
    <3>1. disk'[g] = disk[g]
      BY <1>2, <1>3, <2>1, <2>2 DEF TypeOK
    <3>2. \A r \in Rows : Encode(r)' = Encode(r)
      BY DEF Encode
    <3> QED BY <3>1, <3>2, <2>1, <1>5 DEF Sparing
  <2>3. CASE g = f
    <3>1. rows[cur].status = "error"
      BY <1>1, <2>1, <2>3 DEF Sparing, Live, SourceOf
    <3>2. disk'[g] = NoFile \/ disk'[g] = Encode(cur)
      BY <1>2, <1>3, <2>3 DEF TypeOK
    <3> QED BY <3>1, <3>2, <2>1, <1>1, <1>5 DEF Sparing, Encode
  <2> QED BY <2>2, <2>3
<1> QED BY <1>6, <1>7

-----------------------------------------------------------------------------
(* The purge.                                                              *)

LEMMA StepLook ==
  ASSUME IInv, NEW c \in Calls,
         (\E r \in Rows : QuickCheck(c, r)) \/ StatSource(c) \/ StatParent(c) \/ Rescan(c) \/ OpenSource(c)
  PROVE  IInv'
<1> USE PurgeAssumption, Types DEF IInv
<1>1. CASE \E r \in Rows : QuickCheck(c, r)
  <2>1. PICK r \in Rows : QuickCheck(c, r)
    BY <1>1
  <2> DEFINE k == [at |-> "identity", id |-> r, path |-> rows[r].src,
                   print |-> rows[r].print, rescan |-> rows[r].class = "bad_source"]
  <2>2. k \in Call
    BY DEF Call, CallPcs
  <2>3. calls' = [calls EXCEPT ![c] = k]
    BY <2>1 DEF QuickCheck
  <2>4. calls' \in [Calls -> Call] /\ \A d \in Calls : calls'[d] = IF d = c THEN k ELSE calls[d]
    BY <2>2, <2>3 DEF TypeOK
  <2>5. TypeOK'
    BY <2>1, <2>4 DEF QuickCheck, TypeOK, thread
  <2>6. \A d \in Calls : calls[d].at # "destroy" /\ calls'[d].at # "destroy"
    BY <2>1, <2>4, UnlockedIdle DEF QuickCheck
  <2>7. Busy' /\ Named'
    BY <2>1, <2>4 DEF QuickCheck, thread, Busy, Named
  <2> QED BY <2>5, <2>6, <2>7 DEF Held, Clear
<1>2. CASE StatSource(c) \/ StatParent(c) \/ Rescan(c) \/ OpenSource(c)
  <2>1. PICK at \in CallPcs \ {"destroy"} : SetCall(c, at)
    BY <1>2 DEF StatSource, StatParent, Rescan, OpenSource, CallPcs
  <2>2. [calls[c] EXCEPT !.at = at] \in Call
    BY <2>1 DEF Call
  <2>3. calls' \in [Calls -> Call]
    BY <2>1, <2>2 DEF SetCall, TypeOK
  <2>4. UNCHANGED <<disk, mounted, rows, thread, cancel, lock, writes, drops>>
    BY <1>2 DEF StatSource, StatParent, Rescan, OpenSource
  <2>5. TypeOK'
    BY <2>3, <2>4 DEF TypeOK, thread
  <2>6. calls[c].at # "destroy" /\ calls[c].at # "idle"
    BY <1>2 DEF StatSource, StatParent, Rescan, OpenSource
  <2> QED BY <2>1, <2>4, <2>5, <2>6, CallStep DEF thread
<1> QED BY <1>1, <1>2

\* The end of a call that books its row, when no other is about to destroy.
LEMMA StepEnd ==
  ASSUME IInv, NEW c \in Calls, NEW class \in Classes, SetCall(c, "idle"), calls[c].at # "idle",
         Mark(calls[c].id, class), disk' \in [Files -> Content], lock' \in Calls \cup {NoCall},
         UNCHANGED <<mounted, thread, cancel, writes, drops>>,
         \A d \in Calls \ {c} : calls[d].at # "destroy"
  PROVE  IInv'
<1> USE PurgeAssumption, Types DEF IInv
<1> DEFINE r == calls[c].id
<1>1. r \in Rows
  BY DEF Named
<1>2. rows' = [rows EXCEPT ![r] = [rows[r] EXCEPT !.class = class]]
  BY <1>1 DEF Mark, TypeOK
<1>3. [rows[r] EXCEPT !.class = class] \in Row
  BY <1>1, RowChange
<1>4. rows' \in [Rows -> Row] /\ \A q \in Rows : rows'[q].status = rows[q].status
  BY <1>1, <1>2, <1>3 DEF TypeOK, Row
<1>5. [calls[c] EXCEPT !.at = "idle"] \in Call
  BY DEF Call, CallPcs
<1>6. /\ calls' \in [Calls -> Call]
      /\ \A d \in Calls : calls'[d] = IF d = c THEN [calls[c] EXCEPT !.at = "idle"] ELSE calls[d]
  BY <1>5 DEF SetCall, TypeOK
<1>7. TypeOK'
  BY <1>4, <1>6 DEF TypeOK, thread
<1>8. \A d \in Calls : calls'[d].at # "destroy"
  BY <1>6 DEF Call
<1>9. Busy' /\ Named'
  BY <1>4, <1>6 DEF thread, Busy, Named, Call
<1> QED BY <1>7, <1>8, <1>9 DEF Held, Clear

LEMMA StepMark ==
  ASSUME IInv, NEW c \in Calls, MarkGone(c) \/ MarkRecovered(c)
  PROVE  IInv'
<1>1. \A d \in Calls : calls[d].at # "destroy"
  BY UnlockedIdle, PurgeAssumption DEF MarkGone, MarkRecovered, IInv
<1>2. PICK class \in Classes : Mark(calls[c].id, class)
  BY DEF MarkGone, MarkRecovered, Classes
<1>3. /\ SetCall(c, "idle") /\ calls[c].at # "idle"
      /\ UNCHANGED <<disk, mounted, thread, cancel, lock, writes, drops>>
  BY DEF MarkGone, MarkRecovered
<1>4. disk' \in [Files -> Content] /\ lock' \in Calls \cup {NoCall}
  BY <1>3 DEF IInv, TypeOK
<1> QED BY <1>1, <1>2, <1>3, <1>4, StepEnd

\* What the last check has passed is what may be removed.
LEMMA StepRecheck ==
  ASSUME IInv, NEW c \in Calls, Recheck(c)
  PROVE  IInv'
<1> USE PurgeAssumption, Types DEF IInv
<1> DEFINE r == calls[c].id
           s == calls[c].path
<1>1. \A d \in Calls : calls[d].at # "destroy"
  BY UnlockedIdle DEF Recheck
<1>2. r \in Rows /\ calls[c].at = "recheck"
  BY DEF Named, Recheck
<1>3. CASE StillCondemned(r, s)
  <2>1. SetCall(c, "destroy") /\ lock' = c /\ IsThere(s)
    BY <1>3 DEF Recheck, StillCondemned, IsProved
  <2>2. UNCHANGED <<rows, disk, mounted, thread, cancel, writes, drops>>
    BY <2>1 DEF Recheck, IsThere
  <2>3. [calls[c] EXCEPT !.at = "destroy"] \in Call
    BY DEF Call, CallPcs
  <2>4. /\ calls' \in [Calls -> Call]
        /\ \A d \in Calls : calls'[d] = IF d = c THEN [calls[c] EXCEPT !.at = "destroy"] ELSE calls[d]
    BY <2>1, <2>3 DEF SetCall, TypeOK
  <2>5. TypeOK'
    BY <2>1, <2>2, <2>4 DEF TypeOK, thread
  <2>6. \A d \in Calls : calls'[d].at = "destroy" => d = c
    BY <1>1, <2>4
  <2>7. calls'[c].id = r /\ calls'[c].path = s
    BY <2>4 DEF Call
  <2>8. Busy' /\ Named' /\ Held'
    BY <1>2, <2>1, <2>2, <2>4, <2>6, <2>7 DEF thread, Busy, Named, Held
  <2>9. Sparing(c)'
    <3>1. disk[FileOf[s]] = rows[r].print
      BY <1>3 DEF StillCondemned, IsProved, FileAt
    <3>2. \A q \in Rows : rows[q].status \in Live => FileOf[rows[q].src] # FileOf[s]
      BY <1>3, <2>1 DEF StillCondemned, InUseCanonical, LiveRows
    <3> QED BY <2>2, <2>7, <3>1, <3>2 DEF Sparing
  <2> QED BY <2>5, <2>6, <2>8, <2>9 DEF Clear
<1>4. CASE ~StillCondemned(r, s) /\ rows' = rows
  <2>1. SetCall(c, "idle") /\ UNCHANGED <<rows, disk, mounted, thread, cancel, lock, writes, drops>>
    BY <1>4 DEF Recheck
  <2>2. [calls[c] EXCEPT !.at = "idle"] \in Call
    BY DEF Call, CallPcs
  <2>3. calls' \in [Calls -> Call]
    BY <2>1, <2>2 DEF SetCall, TypeOK
  <2>4. TypeOK'
    BY <2>1, <2>3 DEF TypeOK, thread
  <2>5. "idle" \in CallPcs
    BY DEF CallPcs
  <2> QED BY <1>2, <2>1, <2>4, <2>5, CallStep DEF thread
<1>5. CASE ~StillCondemned(r, s) /\ Mark(r, "bad_source_purged")
  <2>1. SetCall(c, "idle") /\ UNCHANGED <<disk, mounted, thread, cancel, lock, writes, drops>>
    BY <1>5 DEF Recheck
  <2>2. "bad_source_purged" \in Classes
    BY DEF Classes
  <2>3. disk' \in [Files -> Content] /\ lock' \in Calls \cup {NoCall}
    BY <2>1 DEF TypeOK
  <2> QED BY <1>1, <1>2, <1>5, <2>1, <2>2, <2>3, StepEnd
<1> QED BY <1>3, <1>4, <1>5 DEF Recheck

LEMMA StepDestroy ==
  ASSUME IInv, NEW c \in Calls, Destroy(c) \/ DestroyFails(c)
  PROVE  IInv'
<1> USE PurgeAssumption, Types DEF IInv
<1>1. \A d \in Calls \ {c} : calls[d].at # "destroy"
  BY DEF Held, Destroy, DestroyFails
<1>2. CASE Destroy(c)
  <2>1. disk' \in [Files -> Content] /\ lock' \in Calls \cup {NoCall}
    BY <1>2, ContentTypes DEF Destroy, TypeOK
  <2>2. "bad_source_purged" \in Classes
    BY DEF Classes
  <2> QED BY <1>1, <1>2, <2>1, <2>2, StepEnd DEF Destroy
<1>3. CASE DestroyFails(c)
  <2>1. [calls[c] EXCEPT !.at = "idle"] \in Call
    BY DEF Call, CallPcs
  <2>2. /\ calls' \in [Calls -> Call]
        /\ \A d \in Calls : calls'[d] = IF d = c THEN [calls[c] EXCEPT !.at = "idle"] ELSE calls[d]
    BY <1>3, <2>1 DEF DestroyFails, SetCall, TypeOK
  <2>3. TypeOK'
    BY <1>3, <2>2 DEF DestroyFails, TypeOK, thread
  <2>4. \A d \in Calls : calls'[d].at # "destroy"
    BY <1>1, <2>2 DEF Call
  <2>5. Busy' /\ Named'
    BY <1>3, <2>2 DEF DestroyFails, thread, Busy, Named, Call
  <2> QED BY <2>3, <2>4, <2>5 DEF Held, Clear
<1> QED BY <1>2, <1>3

-----------------------------------------------------------------------------
(* The owner and the volume.                                               *)

LEMMA StepEnvironment ==
  ASSUME IInv, Environment
  PROVE  IInv'
<1> USE PurgeAssumption, Types DEF IInv
<1>1. CASE (\E f \in Files, h \in Healths : OwnerWrites(f, h)) \/ (\E f \in Files : OwnerRemoves(f))
  <2>1. disk' \in [Files -> Content] /\ writes' \in Nat
    BY <1>1, ContentTypes DEF OwnerWrites, OwnerRemoves, TypeOK
  <2>2. Unlocked /\ UNCHANGED <<mounted, rows, thread, cancel, calls, lock, drops>>
    BY <1>1 DEF OwnerWrites, OwnerRemoves
  <2>3. TypeOK' /\ Busy'
    BY <2>1, <2>2 DEF TypeOK, Busy, thread
  <2> QED BY <2>2, <2>3, QuietStep
<1>2. CASE DropsOut \/ ComesBack
  <2>1. mounted' \in BOOLEAN /\ drops' \in Nat
    <3>1. mounted' \in BOOLEAN
      BY <1>2, Zenon DEF DropsOut, ComesBack
    <3>2. drops' = drops + 1 \/ drops' = drops
      BY <1>2, Zenon DEF DropsOut, ComesBack
    <3>3. drops' \in Nat
      BY <3>2 DEF TypeOK
    <3> QED BY <3>1, <3>3, Zenon
  <2>2. UNCHANGED <<disk, rows, thread, cancel, calls, lock, writes>>
    BY <1>2 DEF DropsOut, ComesBack
  <2>3. TypeOK' /\ Busy'
    BY <2>1, <2>2 DEF TypeOK, Busy, thread
  <2> QED BY <2>2, <2>3, FrameStep
<1> QED BY <1>1, <1>2 DEF Environment

LEMMA Inductive == IInv /\ [Next]_vars => IInv'
<1> SUFFICES ASSUME IInv, [Next]_vars PROVE IInv'
  OBVIOUS
<1>1. CASE Convert
  BY <1>1, StepAdd, StepClaim, StepThink, StepBook, StepReplace DEF Convert
<1>2. ASSUME NEW c \in Calls, PurgeOne(c) PROVE IInv'
  BY <1>2, StepLook, StepMark, StepRecheck, StepDestroy DEF PurgeOne
<1>3. CASE Environment
  BY <1>3, StepEnvironment
<1>4. CASE UNCHANGED vars
  <2>1. TypeOK' /\ Busy'
    BY <1>4 DEF vars, thread, IInv, TypeOK, Busy
  <2> QED BY <1>4, <2>1, FrameStep DEF vars
<1> QED BY <1>1, <1>2, <1>3, <1>4 DEF Next

LEMMA Invariant == Spec => []IInv
<1> QED BY TypeInit, Inductive, PTL DEF Spec

-----------------------------------------------------------------------------
(* The theorems.                                                           *)

\* The types hold of every reachable state, whatever the rows, calls and files.
THEOREM PurgeTypeCorrect == Spec => []TypeOK
<1>1. IInv => TypeOK
  BY DEF IInv
<1> QED BY Invariant, <1>1, PTL

\* What a purge removes has passed its last check, and is there.
LEMMA RemovedIsHeld ==
  ASSUME IInv, [Next]_vars, NEW c \in Calls, Removes(c)
  PROVE  Sparing(c) /\ disk[FileOf[calls[c].path]] # NoFile
<1> USE PurgeAssumption, Types DEF IInv
<1>1. calls[c].at = "destroy" /\ calls'[c].at # "destroy"
  BY DEF Removes
<1>2. Sparing(c)
  BY <1>1 DEF Clear
<1>3. lock = c /\ disk' # disk /\ calls' # calls
  BY <1>1 DEF Held, Removes
<1>4. ~Unlocked
  BY <1>3 DEF Unlocked
<1>5. \E d \in Calls : PurgeOne(d)
  <2>1. ~Convert
    BY <1>3 DEF Convert, Add, Vanished, Claim, EncodeEnds, Classify, StatCondemned, StampCondemned,
      RecordError, PutSourceAway, ReplaceInPlace, ReplaceFails, BookDone, CancelReads, CancelBooks,
      SeesFailed
  <2>2. ~Environment
    BY <1>3 DEF Environment, OwnerWrites, OwnerRemoves, DropsOut, ComesBack
  <2> QED BY <1>3, <2>1, <2>2 DEF Next, vars
<1>6. PICK d \in Calls : Destroy(d)
  BY <1>3, <1>5 DEF PurgeOne, QuickCheck, StatSource, StatParent, MarkGone, Rescan, MarkRecovered,
    OpenSource, Recheck, DestroyFails
<1>7. d = c
  BY <1>3, <1>6 DEF Destroy
<1> QED BY <1>2, <1>6, <1>7 DEF Destroy, IsThere, FileAt

\* No purge takes the source of a queued or running job away: under the lock of the last check no
\* job is added or claimed, and that check has asked for the file under every spelling.
THEOREM SparesLiveSources == Spec => LiveSourceIsSpared
<1>1. IInv /\ [Next]_vars =>
        [\A c \in Calls : Removes(c) =>
           \A q \in LiveRows : FileOf[rows[q].src] # FileOf[calls[c].path]]_vars
  BY RemovedIsHeld DEF Sparing, LiveRows
<1> QED BY Invariant, <1>1, PTL DEF Spec, LiveSourceIsSpared

\* What a purge removes is the content its row was condemned with, or the encode of a cancelled
\* job that has taken the place of it since the last check.
THEOREM SparesTheNew == Spec => PurgeSparesTheNew
<1>1. IInv /\ [Next]_vars =>
        [\A c \in Calls : Removes(c) =>
           LET there == disk[FileOf[calls[c].path]] IN
           \/ there = rows[calls[c].id].print
           \/ \E r \in Rows : there = Encode(r) /\ rows[r].status = "error"]_vars
  BY RemovedIsHeld DEF Sparing
<1> QED BY Invariant, <1>1, PTL DEF Spec, PurgeSparesTheNew
=============================================================================
