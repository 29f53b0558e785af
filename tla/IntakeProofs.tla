------------------------------ MODULE IntakeProofs ------------------------------
(***************************************************************************)
(* Theorems about Intake, for any paths, batches, output names, adders and *)
(* any number of rows, edits and relaunches: jobs write apart, run in the  *)
(* order they were added, none waits in place under keep, and, of batches  *)
(* that name no path twice, nothing dealt with is converted again.         *)
(***************************************************************************)
EXTENDS Intake, FiniteSetTheorems, SequenceTheorems, WellFoundedInduction, TLAPS

-----------------------------------------------------------------------------
(* Types, the calls, and the thread's turn.                                *)

\* A call under way has sources left; one at a time holds the lock, and inserts behind the rows it asked.
CallInv ==
  /\ \A a \in Adders : adds[a].at # "idle" => adds[a].left # <<>>
  /\ \A a, b \in Adders : adds[a].at = "insert" /\ adds[b].at = "insert" => a = b
  /\ \A a \in Adders : adds[a].at = "insert" => adds[a].known <= Len(rows)

\* The thread's row is running, was cancelled, or is gone; until then it is what was claimed.
SameJob(r, j) == r.src = j.src /\ r.out = j.out /\ r.print = j.print
TurnInv ==
  /\ pc = "idle" <=> cur = 0
  /\ pc # "idle" => /\ cur \in Ids /\ job \in Row
                    /\ \/ rows[cur] = NoRow
                       \/ rows[cur].status \in {"encoding", "error"} /\ SameJob(rows[cur], job)

Types == TypeOK /\ CallInv /\ TurnInv

Table == Seq(Row \cup {NoRow})

\* What is known of the table and its rows from the types.
LEMMA RowsAre ==
  ASSUME TypeOK
  PROVE  /\ rows \in Table /\ Len(rows) \in 0..MaxRows /\ Ids = 1..Len(rows)
         /\ \A r \in Ids : rows[r] \in Row \cup {NoRow}
         /\ NoRow \notin Row
  BY IntakeAssumption DEF TypeOK, Table, Ids, NoRow, Row, Live, Handled

\* Of a call: its sources.
LEMMA CallsAre ==
  ASSUME TypeOK, CallInv, NEW a \in Adders
  PROVE  /\ adds[a] \in Calls
         /\ adds[a].at # "idle" => /\ Len(adds[a].left) \in Nat \ {0}
                                   /\ Head(adds[a].left) \in Paths
                                   /\ Tail(adds[a].left) \in Seq(Paths)
  BY HeadTailProperties DEF TypeOK, CallInv, Calls

\* A step of the call: what Inserted makes of it.
LEMMA InsertedCall ==
  ASSUME TypeOK, CallInv, NEW a \in Adders, NEW order \in Int, adds[a].at = "insert", Inserted(a, order)
  PROVE  /\ adds' \in [Adders -> Calls]
         /\ \A b \in Adders : b # a => adds'[b] = adds[b]
         /\ \/ adds'[a] = IdleAdd
            \/ /\ adds'[a].left = Tail(adds[a].left) /\ adds'[a].left # <<>>
               /\ adds'[a].at = "insert" /\ adds'[a].known = adds[a].known /\ adds'[a].order = order
<1>1. adds \in [Adders -> Calls] /\ IdleAdd \in Calls
  BY DEF TypeOK, Calls, IdleAdd
<1> DEFINE rest == Tail(adds[a].left)
           next == [adds[a] EXCEPT !.left = rest, !.order = order]
<1>2. CASE rest = <<>>
  BY <1>1, <1>2 DEF Inserted
<1>3. CASE rest # <<>>
  <2>1. adds' = [adds EXCEPT ![a] = next]
    BY <1>1, <1>3 DEF Inserted
  <2>2. /\ next \in Calls /\ next.left = rest /\ next.at = adds[a].at
        /\ next.known = adds[a].known /\ next.order = order
    BY CallsAre DEF Calls
  <2> HIDE DEF next
  <2> QED
    BY <1>1, <1>3, <2>1, <2>2
<1> QED
  BY <1>2, <1>3

\* What a step other than an insert does to a row: it may go, and whoever books it ends it; only a
\* launch queues it again, and only a booking gives it another fingerprint.
RowStep(r) ==
  \/ rows'[r] = NoRow
  \/ /\ rows[r] \in Row /\ rows'[r] \in Row
     /\ rows'[r].src = rows[r].src /\ rows'[r].out = rows[r].out
     /\ rows'[r].moved \/ (rows'[r].moved = rows[r].moved /\ rows'[r].order = rows[r].order)
     /\ \/ rows'[r].status = rows[r].status /\ rows'[r].print = rows[r].print
        \/ rows[r].status \in Live /\ rows'[r].status = "error" /\ rows'[r].print = rows[r].print
        \/ /\ rows[r].status = "error" /\ rows'[r].status = "error"
           /\ rows'[r].print = FinalPrint /\ Book /\ r = cur
        \/ /\ rows[r].status = "encoding" /\ rows'[r].status \in Handled
           /\ rows'[r].print = FinalPrint /\ Book /\ r = cur
        \/ rows[r].status = "queued" /\ rows'[r].status = "encoding" /\ rows'[r].print = rows[r].print
                                     /\ ClaimJob(r) /\ pc' = "encode"
        \/ rows[r].status = "encoding" /\ rows'[r].status = "queued" /\ rows'[r].print = rows[r].print
                                       /\ Relaunch
RowsKept == rows' \in Table /\ Len(rows') = Len(rows) /\ \A r \in Ids : RowStep(r)

\* One row changes.
LEMMA OneRow ==
  ASSUME TypeOK, NEW r \in Ids, NEW new \in Row \cup {NoRow}, rows' = [rows EXCEPT ![r] = new], RowStep(r)
  PROVE  RowsKept
<1>1. rows' \in Table /\ Len(rows') = Len(rows)
  BY RowsAre, ExceptSeq DEF Table
<1>2. \A q \in Ids : q # r => rows'[q] = rows[q]
  BY RowsAre
<1>3. ASSUME NEW q \in Ids, q # r PROVE RowStep(q)
  BY <1>2, <1>3, RowsAre DEF RowStep
<1> QED
  BY <1>1, <1>3 DEF RowsKept

\* Every row may change.
LEMMA AllRows ==
  ASSUME TypeOK, rows' \in [Ids -> Row \cup {NoRow}], \A r \in Ids : RowStep(r)
  PROVE  RowsKept
  BY RowsAre, SeqDef DEF RowsKept, Table

\* Nothing changes.
LEMMA NoRows ==
  ASSUME TypeOK, rows' = rows
  PROVE  RowsKept
  BY RowsAre DEF RowsKept, RowStep

\* A live row is booked as an error, a row goes.
LEMMA RowEnds ==
  ASSUME TypeOK, NEW r \in Ids, rows[r].status \in Live, SetStatus(r, "error")
  PROVE  RowsKept
<1> DEFINE new == [rows[r] EXCEPT !.status = "error"]
<1>1. rows[r] \in Row
  BY RowsAre DEF NoRow, Live
<1>2. new \in Row /\ rows' = [rows EXCEPT ![r] = new]
  BY <1>1, RowsAre DEF SetStatus, Row
<1>3. rows'[r] = new
  BY <1>2, RowsAre
<1>4. RowStep(r)
  BY <1>1, <1>2, <1>3 DEF RowStep, Row, Live
<1> QED
  BY <1>2, <1>4, OneRow

LEMMA RowGoes ==
  ASSUME TypeOK, NEW r \in Ids, Delete(r)
  PROVE  RowsKept
<1>1. rows'[r] = NoRow
  BY RowsAre DEF Delete
<1> QED
  BY <1>1, OneRow DEF Delete, RowStep

LEMMA RowsOfThread ==
  ASSUME Types, QueueThread
  PROVE  RowsKept
<1> USE DEF Types, Row, Live, Handled
<1>0. /\ \A r \in Ids : rows[r] \in Row \cup {NoRow}
      /\ NoRow \notin Row
      /\ pc # "idle" => cur \in Ids
  BY RowsAre DEF TurnInv
<1>1. ASSUME NEW r \in Ids, ClaimJob(r) PROVE RowsKept
  <2>1. rows[r] \in Row /\ rows[r].status = "queued"
    BY <1>0, <1>1 DEF ClaimJob, With, NoRow
  <2>2. CASE SetStatus(r, "error")
    BY <2>1, <2>2, <1>1, RowEnds DEF ClaimJob, With
  <2>3. CASE SetStatus(r, "encoding") /\ pc' = "encode"
    <3>1. RowStep(r)
      BY <1>1, <2>1, <2>3, RowsAre DEF SetStatus, RowStep
    <3> QED
      BY <2>1, <2>3, <3>1, OneRow DEF SetStatus
  <2> QED
    BY <1>1, <2>2, <2>3, NoRows DEF ClaimJob
<1>2. CASE EncodeEnds
  <2>1. CASE SetStatus(cur, "error") /\ rows[cur].status = "encoding" /\ cur \in Ids
    BY <2>1, RowEnds
  <2> QED
    BY <1>0, <1>2, <2>1, NoRows DEF EncodeEnds
<1>3. CASE CleanUp
  <2>1. CASE Delete(cur)
    BY <1>0, <1>3, <2>1, RowGoes DEF CleanUp
  <2> QED
    BY <1>3, <2>1, NoRows DEF CleanUp
<1>4. CASE Book
  <2>1. CASE rows[cur] = NoRow
    BY <1>4, <2>1, NoRows DEF Book
  <2>2. CASE rows[cur] # NoRow
    <3> DEFINE new == [rows[cur] EXCEPT !.print = FinalPrint,
                                        !.status = IF @ # "encoding" THEN @
                                                   ELSE IF pc = "bookDone" THEN "done" ELSE "skipped"]
    <3>1. cur \in Ids /\ rows[cur] \in Row /\ job \in Row
      BY <1>0, <1>4, <2>2 DEF Book, TurnInv
    <3>2. FinalPrint \in Contents \cup {NoFile}
      BY <3>1 DEF FinalPrint, TypeOK
    <3>3. rows' = [rows EXCEPT ![cur] = new]
      BY <1>4, <2>2, <3>1 DEF Book
    <3>4. new \in Row /\ new.src = rows[cur].src /\ new.out = rows[cur].out /\ new.print = FinalPrint
          /\ new.moved = rows[cur].moved /\ new.order = rows[cur].order
          /\ new.status = IF rows[cur].status # "encoding" THEN rows[cur].status
                          ELSE IF pc = "bookDone" THEN "done" ELSE "skipped"
      BY <3>1, <3>2
    <3> HIDE DEF new
    <3>5. RowStep(cur)
      <4>1. rows'[cur] = new
        BY <3>1, <3>3, RowsAre
      <4>2. rows[cur].status \in {"encoding", "error"}
        BY <1>4, <2>2 DEF Book, TurnInv
      <4> QED
        BY <1>4, <3>1, <3>4, <4>1, <4>2 DEF RowStep
    <3> QED
      BY <3>1, <3>3, <3>4, <3>5, OneRow
  <2> QED
    BY <2>1, <2>2
<1> QED
  BY <1>1, <1>2, <1>3, <1>4 DEF QueueThread

LEMMA RowsOfUser ==
  ASSUME Types,
         \/ CancelConversion \/ DropQueuedInPlaceJobs
         \/ \E r \in Ids : RemoveJob(r)
         \/ \E ids \in Orders : ReorderQueue(ids)
  PROVE  RowsKept
<1> USE DEF Types, Row, Live, Handled
<1>0. /\ \A r \in Ids : rows[r] \in Row \cup {NoRow}
      /\ NoRow \notin Row
      /\ pc # "idle" => cur \in Ids
      /\ cur # 0 => pc # "idle"
  BY RowsAre DEF TurnInv
<1>1. CASE CancelConversion
  BY <1>0, <1>1, RowEnds DEF CancelConversion
<1>2. CASE DropQueuedInPlaceJobs
  <2>1. rows' \in [Ids -> Row \cup {NoRow}]
    BY <1>0, <1>2 DEF DropQueuedInPlaceJobs, DropInPlace, Ids
  <2>2. \A r \in Ids : RowStep(r)
    BY <1>0, <1>2 DEF DropQueuedInPlaceJobs, DropInPlace, Ids, RowStep
  <2> QED
    BY <2>1, <2>2, AllRows
<1>3. ASSUME NEW r \in Ids, RemoveJob(r) PROVE RowsKept
  BY <1>3, RowGoes DEF RemoveJob
<1>4. ASSUME NEW ids \in Orders, ReorderQueue(ids) PROVE RowsKept
  <2>1. ids \in [1..2 -> Ids]
    BY DEF Orders, Injection
  <2>2. ASSUME NEW r \in Ids
        PROVE  rows'[r] \in Row \cup {NoRow} /\ RowStep(r)
    <3>1. CASE r \in Range(ids) /\ rows[r] # NoRow
      <4> DEFINE place == (CHOOSE i \in DOMAIN ids : ids[i] = r) - 1
      <4>1. place \in Int
        BY <2>1, <3>1 DEF Range
      <4>2. rows'[r] = [rows[r] EXCEPT !.moved = TRUE, !.order = place]
        BY <1>4, <3>1 DEF ReorderQueue, Placed
      <4> HIDE DEF place
      <4>3. rows[r] \in Row
        BY <1>0, <3>1
      <4> QED
        BY <4>1, <4>2, <4>3 DEF RowStep
    <3>2. CASE ~(r \in Range(ids) /\ rows[r] # NoRow)
      BY <1>0, <1>4, <3>2 DEF ReorderQueue, RowStep
    <3> QED
      BY <3>1, <3>2
  <2>3. DOMAIN rows' = Ids /\ rows' = [r \in Ids |-> rows'[r]]
    BY <1>4 DEF ReorderQueue
  <2>4. rows' \in [Ids -> Row \cup {NoRow}]
    BY <2>2, <2>3
  <2> QED
    BY <2>2, <2>4, AllRows
<1> QED
  BY <1>1, <1>2, <1>3, <1>4

\* What a launch makes of a row: a running one is queued again, and nothing waits in place under keep.
LEMMA RowsOfLaunch ==
  ASSUME Types, Relaunch
  PROVE  /\ RowsKept
         /\ cleanupMode = "keep" => \A r \in Ids : rows'[r].status = "queued" => rows'[r].src # rows'[r].out
<1> USE DEF Types, Row, Live, Handled
<1> DEFINE queued == [r \in Ids |-> IF rows[r].status = "encoding"
                                    THEN [rows[r] EXCEPT !.status = "queued"] ELSE rows[r]]
<1>1. \A r \in Ids : rows[r] \in Row \cup {NoRow}
  BY RowsAre
<1>2. ASSUME NEW r \in Ids
      PROVE  /\ queued[r] \in Row \cup {NoRow}
             /\ \/ queued[r] = rows[r]
                \/ /\ rows[r] \in Row /\ rows[r].status = "encoding" /\ queued[r].status = "queued"
                   /\ queued[r].src = rows[r].src /\ queued[r].out = rows[r].out
                   /\ queued[r].print = rows[r].print
                   /\ queued[r].moved = rows[r].moved /\ queued[r].order = rows[r].order
  BY <1>1 DEF NoRow
<1>3. DOMAIN queued = Ids
  OBVIOUS
<1>4. rows' = IF cleanupMode = "keep" THEN DropInPlace(queued) ELSE queued
  BY DEF Relaunch
<1> HIDE DEF queued
<1>5. ASSUME NEW r \in Ids
      PROVE  rows'[r] = queued[r] \/ rows'[r] = NoRow
  BY <1>3, <1>4 DEF DropInPlace
<1>6. DOMAIN rows' = Ids /\ rows' = [r \in Ids |-> rows'[r]]
  <2>1. CASE cleanupMode = "keep"
    BY <1>3, <1>4, <2>1 DEF DropInPlace
  <2>2. CASE cleanupMode # "keep"
    BY <1>4, <2>2 DEF queued
  <2> QED
    BY <2>1, <2>2
<1>7. ASSUME NEW r \in Ids PROVE RowStep(r)
  BY <1>1, <1>2, <1>5, <1>7 DEF RowStep
<1>8. rows' \in [Ids -> Row \cup {NoRow}]
  BY <1>2, <1>5, <1>6
<1>9. cleanupMode = "keep" => \A r \in Ids : rows'[r].status = "queued" => rows'[r].src # rows'[r].out
  BY <1>3, <1>4 DEF DropInPlace, NoRow
<1> QED
  BY <1>7, <1>8, <1>9, AllRows

\* The table changes by a row that is appended, or in the rows there are.
Appended(a) == \E out \in Paths :
  LET p == Head(adds[a].left)
      new == [src |-> p, out |-> out, status |-> "queued", order |-> adds[a].order,
              print |-> disk[p], moved |-> FALSE]
  IN /\ adds[a].at = "insert" /\ ~CheapSkip(p, adds[a].known)
     /\ ChooseOutput(p, out) /\ ~Refused(p, out) /\ Len(rows) < MaxRows
     /\ new \in Row /\ rows' = Append(rows, new) /\ Inserted(a, adds[a].order + 1)
     /\ UNCHANGED <<disk, settings, thread, edits, relaunches>>

LEMMA InsertStep ==
  ASSUME Types, NEW a \in Adders, InsertNext(a)
  PROVE  /\ adds[a].at = "insert" /\ adds[a].order \in Int /\ adds[a].order + 1 \in Int
         /\ \/ UNCHANGED <<rows, settings>> /\ Inserted(a, adds[a].order)
            \/ Appended(a)
<1>1. Head(adds[a].left) \in Paths /\ adds[a].order \in Int
  BY CallsAre DEF Types, InsertNext, Calls
<1>2. disk[Head(adds[a].left)] \in Contents \cup {NoFile}
  BY <1>1 DEF Types, TypeOK
<1> DEFINE p == Head(adds[a].left)
<1>3. CASE UNCHANGED rows /\ Inserted(a, adds[a].order)
  BY <1>1, <1>3 DEF InsertNext, settings
<1>4. CASE ~(UNCHANGED rows /\ Inserted(a, adds[a].order))
  <2>1. PICK out \in Paths :
          /\ ~CheapSkip(p, adds[a].known) /\ ChooseOutput(p, out) /\ ~Refused(p, out) /\ Len(rows) < MaxRows
          /\ rows' = Append(rows, [src |-> p, out |-> out, status |-> "queued",
                                    order |-> adds[a].order, print |-> disk[p], moved |-> FALSE])
          /\ Inserted(a, adds[a].order + 1)
    BY <1>4 DEF InsertNext
  <2>2. [src |-> p, out |-> out, status |-> "queued", order |-> adds[a].order,
         print |-> disk[p], moved |-> FALSE] \in Row
    BY <1>1, <1>2 DEF Row, Live
  <2> QED
    BY <1>1, <2>1, <2>2 DEF InsertNext, Appended
<1> QED
  BY <1>3, <1>4

LEMMA RowsStep ==
  ASSUME Types, [Next]_vars
  PROVE  RowsKept \/ \E a \in Adders : Appended(a)
<1>1. ASSUME UNCHANGED rows PROVE RowsKept
  BY <1>1, NoRows DEF Types
<1> QED
  BY <1>1, RowsOfThread, RowsOfUser, RowsOfLaunch, InsertStep
     DEF Next, Add, AddReads, AddProbes, InsertBegins, AddFails, SetCleanupMode, OwnerActs, vars

\* A set of integers that is not empty and finite has a greatest: of the sets of greater ones one is
\* the smallest.
LEMMA GreatestExists ==
  ASSUME NEW S \in SUBSET Int, IsFiniteSet(S), S # {}
  PROVE  Max(S) \in S /\ \A y \in S : y <= Max(S)
<1> DEFINE Above(x) == {y \in S : y > x}
           T == {Above(x) : x \in S}
<1>1. IsWellFoundedOn(StrictSubsetOrdering(S), SUBSET S)
  BY FS_StrictSubsetOrderingWellFounded, FS_FiniteSubsetsOfFinite
<1>2. T \subseteq SUBSET S /\ T # {}
  OBVIOUS
<1>3. \E t \in T : \A u \in T : <<u, t>> \notin StrictSubsetOrdering(S)
  <2> HIDE DEF T
  <2> QED
    BY <1>1, <1>2, WFMin
<1>4. PICK x \in S : \A u \in T : <<u, Above(x)>> \notin StrictSubsetOrdering(S)
  BY <1>3
<1>5. ASSUME NEW y \in S, y > x PROVE FALSE
  <2>1. \A z \in S : z > y => z > x
    BY <1>5
  <2>2. y \in Above(x) /\ y \notin Above(y)
    BY <1>5
  <2>3. <<Above(y), Above(x)>> \in StrictSubsetOrdering(S)
    BY <2>1, <2>2 DEF StrictSubsetOrdering
  <2> QED
    BY <1>4, <2>3
<1>6. \E z \in S : \A y \in S : z >= y
  BY <1>5
<1> QED
  BY <1>6 DEF Max

\* The position of the row before a batch is an integer no live row is behind.
LEMMA TopIs ==
  ASSUME TypeOK
  PROVE  QueueTop \in Int /\ \A r \in With(Live) : rows[r].order <= QueueTop
<1> DEFINE W == With(Live)
           S == {rows[r].order : r \in W}
           f == [r \in W |-> rows[r].order]
<1>1. \A r \in W : rows[r] \in Row
  BY RowsAre DEF With, NoRow, Live
<1>2. S \in SUBSET Int
  BY <1>1 DEF Row
<1>3. IsFiniteSet(W)
  <2>1. Ids = 1..Len(rows) /\ Len(rows) \in Int /\ W \in SUBSET Ids
    BY RowsAre DEF With
  <2>2. IsFiniteSet(Ids)
    BY <2>1, FS_Interval
  <2> QED
    BY <2>1, <2>2, FS_Subset
<1>4. IsFiniteSet(S)
  <2>1. f \in Surjection(W, S)
    BY DEF Surjection
  <2> HIDE DEF f, S, W
  <2> QED
    BY <1>3, <2>1, FS_Surjection
<1>5. CASE W = {}
  BY <1>5 DEF QueueTop
<1>6. CASE W # {}
  <2>1. QueueTop = Max(S) /\ S # {} /\ \A r \in W : rows[r].order \in S
    BY <1>6 DEF QueueTop
  <2> HIDE DEF S, W
  <2>2. Max(S) \in S /\ \A y \in S : y <= Max(S)
    BY <1>2, <1>4, <2>1, GreatestExists
  <2> QED
    BY <1>2, <2>1, <2>2 DEF W
<1> QED
  BY <1>5, <1>6

\* The table's length: an insert adds one, nothing takes one away.
LEMMA Lengths ==
  ASSUME Types, [Next]_vars
  PROVE  /\ rows' \in Table /\ Len(rows) <= Len(rows') /\ Len(rows') <= MaxRows
         /\ Ids \subseteq Ids' /\ Ids' = 1..Len(rows')
<1>1. CASE RowsKept
  BY <1>1, RowsAre DEF RowsKept, Table, Types, Ids
<1>2. ASSUME NEW a \in Adders, Appended(a)
      PROVE  rows' \in Table /\ Len(rows') = Len(rows) + 1 /\ Len(rows) < MaxRows
  BY <1>2, RowsAre DEF Appended, Table, Types
<1> QED
  BY <1>1, <1>2, RowsStep, RowsAre, IntakeAssumption DEF Types, Table, Ids

LEMMA CallsStep ==
  ASSUME Types, [Next]_vars
  PROVE  adds' \in [Adders -> Calls] /\ CallInv'
<1>0. /\ adds \in [Adders -> Calls] /\ CallInv /\ IdleAdd \in Calls /\ TypeOK
      /\ Len(rows) \in Nat /\ Len(rows) <= Len(rows') /\ Len(rows') \in Nat
  BY Lengths, RowsAre DEF Types, TypeOK, Calls, IdleAdd, Table
<1> USE DEF CallInv, Calls
<1>1. ASSUME NEW a \in Adders, NEW batch \in Batches, AddReads(a, batch)
      PROVE  adds' \in [Adders -> Calls] /\ CallInv'
  BY <1>0, <1>1, IntakeAssumption DEF AddReads, IdleAdd
<1>2. ASSUME NEW a \in Adders, AddProbes(a) PROVE adds' \in [Adders -> Calls] /\ CallInv'
  <2>1. PICK good \in SUBSET Range(adds[a].left) :
          adds' = [adds EXCEPT ![a].at = "probed", ![a].atTarget = good]
    BY <1>2 DEF AddProbes
  <2>2. Range(adds[a].left) \subseteq Paths
    BY <1>0 DEF Range
  <2> QED
    BY <1>0, <1>2, <2>1, <2>2 DEF AddProbes
<1>3. ASSUME NEW a \in Adders, InsertBegins(a) PROVE adds' \in [Adders -> Calls] /\ CallInv'
  <2> DEFINE new == [adds[a] EXCEPT !.at = "insert", !.known = Len(rows), !.order = QueueTop + 1]
  <2>1. adds' = [adds EXCEPT ![a] = new] /\ adds[a].at = "probed" /\ UNCHANGED rows
    BY <1>0, <1>3 DEF InsertBegins
  <2>2. new \in Calls /\ new.at = "insert" /\ new.left = adds[a].left /\ new.known = Len(rows)
    <3>1. QueueTop + 1 \in Int /\ adds[a] \in Calls
      BY <1>0, TopIs
    <3> QED
      BY <1>0, <3>1
  <2> HIDE DEF new
  <2>3. /\ adds' \in [Adders -> Calls] /\ adds'[a] = new
        /\ \A b \in Adders : b # a => adds'[b] = adds[b] /\ adds[b].at # "insert"
    BY <1>0, <1>3, <2>1, <2>2 DEF InsertBegins, Unlocked
  <2> QED
    BY <1>0, <2>1, <2>2, <2>3
<1>4. ASSUME NEW a \in Adders, NEW order \in Int, adds[a].at = "insert", Inserted(a, order)
      PROVE  adds' \in [Adders -> Calls] /\ CallInv'
  <2>1. /\ adds' \in [Adders -> Calls]
        /\ \A b \in Adders : b # a => adds'[b] = adds[b]
        /\ \/ adds'[a] = IdleAdd
           \/ adds'[a].left # <<>> /\ adds'[a].at = "insert" /\ adds'[a].known = adds[a].known
    BY <1>0, <1>4, InsertedCall
  <2>2. \A b \in Adders : adds[b].at = "insert" => b = a
    BY <1>0, <1>4
  <2>3. IdleAdd.at = "idle"
    BY DEF IdleAdd
  <2>4. adds[a].known <= Len(rows') /\ adds[a].known \in Nat
    BY <1>0, <1>4
  <2> QED
    BY <1>0, <2>1, <2>2, <2>3, <2>4
<1>5. ASSUME NEW a \in Adders, InsertNext(a) PROVE adds' \in [Adders -> Calls] /\ CallInv'
  <2>1. adds[a].order \in Int /\ adds[a].order + 1 \in Int
    BY <1>0
  <2> QED
    BY <1>4, <1>5, <2>1 DEF InsertNext
<1>6. ASSUME NEW a \in Adders, AddFails(a) PROVE adds' \in [Adders -> Calls] /\ CallInv'
  BY <1>0, <1>6 DEF AddFails, IdleAdd
<1>7. CASE Relaunch
  BY <1>0, <1>7 DEF Relaunch, IdleAdd
<1>8. CASE UNCHANGED adds
  BY <1>0, <1>8
<1>9. CASE QueueThread
  BY <1>8, <1>9 DEF QueueThread, EncodeEnds, CleanUp, Book, ClaimJob, Elsewhere
<1> QED
  BY <1>1, <1>2, <1>3, <1>5, <1>6, <1>7, <1>8, <1>9
     DEF Next, Add, CancelConversion, RemoveJob, ReorderQueue, SetCleanupMode, DropQueuedInPlaceJobs,
         Undisturbed, OwnerActs, vars

\* Nothing becomes of the thread's row, but that it is booked as an error or goes, until it is booked.
LEMMA TurnStep ==
  ASSUME Types, [Next]_vars
  PROVE  TurnInv' /\ pc' \in {"idle", "encode", "cleanup", "bookDone", "bookSkipped"}
                  /\ cur' \in 0..MaxRows /\ job' \in Row \cup {NoRow}
<1>0. /\ TypeOK /\ TurnInv /\ pc \in {"idle", "encode", "cleanup", "bookDone", "bookSkipped"}
      /\ cur \in 0..MaxRows /\ job \in Row \cup {NoRow} /\ NoRow \notin Row
      /\ Ids \subseteq Ids' /\ Ids \subseteq 1..MaxRows /\ MaxRows \in Nat
      /\ \A r \in Ids : rows[r] \in Row \cup {NoRow}
  BY Lengths, RowsAre, IntakeAssumption DEF Types, TypeOK
<1>1. CASE TurnEnds
  BY <1>1, <1>0 DEF TurnEnds, TurnInv
<1>2. ASSUME NEW r \in Ids, ClaimJob(r), ~UNCHANGED thread
      PROVE  TurnInv' /\ pc' = "encode" /\ cur' = r /\ job' \in Row
  <2>1. rows[r] \in Row
    BY <1>0, <1>2 DEF ClaimJob, With, NoRow
  <2>2. rows' = [rows EXCEPT ![r] = [rows[r] EXCEPT !.status = "encoding"]]
        /\ pc' = "encode" /\ cur' = r /\ job' = rows[r]
    BY <1>2, <2>1 DEF ClaimJob, SetStatus
  <2>3. rows'[r] = [rows[r] EXCEPT !.status = "encoding"]
    BY <2>2, RowsAre, <1>0
  <2> QED
    BY <1>0, <2>1, <2>2, <2>3 DEF TurnInv, SameJob, Row
<1>3. CASE EncodeEnds \/ CleanUp
  <2>1. CASE pc \in {"encode", "cleanup"} /\ pc' \in {"cleanup", "bookDone", "bookSkipped"}
             /\ UNCHANGED <<cur, job, rows>>
    BY <1>0, <2>1 DEF TurnInv, Ids
  <2> QED
    BY <1>1, <1>3, <2>1 DEF EncodeEnds, CleanUp, GoTo
<1>4. CASE Book \/ Relaunch
  BY <1>1, <1>4 DEF Book, Relaunch
<1>5. ASSUME UNCHANGED thread, ~Book, ~Relaunch
      PROVE  TurnInv'
  <2>1. CASE pc = "idle"
    BY <1>0, <1>5, <2>1 DEF TurnInv, thread
  <2>2. CASE RowsKept /\ pc # "idle"
    <3>1. RowStep(cur) /\ cur \in Ids
      BY <1>0, <2>2 DEF RowsKept, TurnInv
    <3>2. ~ClaimJob(cur)
      BY <2>2 DEF ClaimJob
    <3>3. \/ rows'[cur] = NoRow
          \/ rows'[cur].status \in {"encoding", "error"} /\ SameJob(rows'[cur], job)
      BY <1>0, <1>5, <2>2, <3>1, <3>2 DEF RowStep, TurnInv, SameJob, Live, Handled
    <3> QED
      BY <1>0, <1>5, <2>2, <3>1, <3>3 DEF TurnInv, thread
  <2>3. CASE (\E a \in Adders : Appended(a)) /\ pc # "idle"
    <3>1. cur \in Ids /\ rows'[cur] = rows[cur]
      BY <1>0, <2>3, RowsAre DEF Appended, TurnInv, Table
    <3> QED
      BY <1>0, <1>5, <2>3, <3>1 DEF TurnInv, thread
  <2> QED
    BY <2>1, <2>2, <2>3, RowsStep
<1>6. CASE UNCHANGED thread
  BY <1>0, <1>4, <1>5, <1>6 DEF thread
<1>7. CASE QueueThread
  BY <1>0, <1>2, <1>3, <1>4, <1>6, <1>7 DEF QueueThread
<1> QED
  BY <1>0, <1>4, <1>6, <1>7
     DEF Next, Add, AddReads, AddProbes, InsertBegins, InsertNext, AddFails,
         CancelConversion, RemoveJob, ReorderQueue, SetCleanupMode, DropQueuedInPlaceJobs,
         Undisturbed, OwnerActs, vars

\* What becomes of a path: its file stays, goes, is written by its owner, by the encode of a job that
\* begins, or by the cleanup of one in place.
PathStep(p) ==
  \/ disk'[p] = disk[p]
  \/ disk'[p] = NoFile
  \/ OwnerActs(p) /\ p \in Touched /\ disk'[p] = Owned(p, edits + 1)
  \/ \E r \in Ids : /\ ClaimJob(r) /\ pc' = "encode" /\ ~InPlace(r) /\ p = rows[r].out
                    /\ disk'[p] = Encode(r, p)
  \/ CleanUp /\ JobInPlace /\ pc' = "bookDone" /\ p = job.src /\ disk'[p] = Encode(cur, p)

LEMMA DiskStep ==
  ASSUME Types, [Next]_vars
  PROVE  /\ disk' \in [Paths -> Contents \cup {NoFile}] /\ \A p \in Paths : PathStep(p)
         /\ edits' \in 0..MaxEdits /\ edits <= edits'
         /\ relaunches' \in 0..MaxRelaunches /\ relaunches <= relaunches'
<1>0. /\ disk \in [Paths -> Contents \cup {NoFile}]
      /\ edits \in 0..MaxEdits /\ relaunches \in 0..MaxRelaunches
      /\ {MaxRows, MaxEdits, MaxRelaunches} \subseteq Nat /\ Touched \subseteq Paths
      /\ Ids \subseteq 1..MaxRows
      /\ pc # "idle" => cur \in 1..MaxRows /\ job \in Row
      /\ \A r \in With({"queued"}) : r \in Ids /\ rows[r] \in Row
  BY IntakeAssumption, RowsAre DEF Types, TypeOK, TurnInv, With, NoRow
<1> DEFINE Written == disk' \in [Paths -> Contents \cup {NoFile}] /\ \A p \in Paths : PathStep(p)
<1>1. ASSUME NEW r \in 1..MaxRows, NEW p \in Paths PROVE Encode(r, p) \in Contents
  BY <1>0 DEF Encode, Contents
<1>2. ASSUME NEW r \in Ids, ClaimJob(r) PROVE Written
  <2>1. r \in 1..MaxRows /\ rows[r] \in Row
    <3>1. r \in With({"queued"})
      BY <1>2 DEF ClaimJob
    <3> QED
      BY <1>0, <3>1
  <2>2. rows[r].out \in Paths /\ Encode(r, rows[r].out) \in Contents
    BY <1>1, <2>1 DEF Row
  <2>3. \/ disk' = disk
        \/ ~InPlace(r) /\ pc' = "encode" /\ disk' = [disk EXCEPT ![rows[r].out] = Encode(r, rows[r].out)]
    BY <1>2 DEF ClaimJob
  <2> QED
    BY <1>0, <1>2, <2>1, <2>2, <2>3 DEF PathStep
<1>3. ASSUME NEW p \in Paths, disk' = [disk EXCEPT ![p] = NoFile] \/ UNCHANGED disk
      PROVE  Written
  BY <1>0, <1>3 DEF PathStep
<1>4. ASSUME EncodeEnds \/ Book \/ CleanUp PROVE Written
  <2>1. job.src \in Paths /\ job.out \in Paths /\ cur \in 1..MaxRows
    <3>1. pc # "idle"
      BY <1>4 DEF EncodeEnds, Book, CleanUp
    <3> QED
      BY <1>0, <3>1 DEF Row
  <2>2. CASE CleanUp /\ JobInPlace /\ pc' = "bookDone" /\ disk' = [disk EXCEPT ![job.src] = Encode(cur, job.src)]
    <3>1. Encode(cur, job.src) \in Contents
      BY <1>1, <2>1
    <3>2. \A p \in Paths : disk'[p] = IF p = job.src THEN Encode(cur, p) ELSE disk[p]
      BY <1>0, <2>1, <2>2
    <3> QED
      <4>1. disk' \in [Paths -> Contents \cup {NoFile}]
        BY <1>0, <2>1, <2>2, <3>1
      <4>2. ASSUME NEW p \in Paths PROVE PathStep(p)
        BY <2>2, <3>2 DEF PathStep
      <4> QED
        BY <4>1, <4>2
  <2>3. CASE disk' = [disk EXCEPT ![job.src] = NoFile] \/ disk' = [disk EXCEPT ![job.out] = NoFile] \/ UNCHANGED disk
    BY <1>3, <2>1, <2>3
  <2> QED
    BY <1>4, <2>2, <2>3 DEF EncodeEnds, Book, CleanUp, GoTo
<1>5. ASSUME Relaunch PROVE Written
  BY <1>0, <1>5 DEF Relaunch, PathStep
<1>6. ASSUME NEW p \in Touched, OwnerActs(p) PROVE Written
  <2>1. p \in Paths /\ Owned(p, edits + 1) \in Contents
    BY <1>0 DEF Owned, Contents
  <2> QED
    BY <1>0, <1>6, <2>1 DEF OwnerActs, PathStep
<1>7. ASSUME UNCHANGED disk PROVE Written
  <2>1. \A p \in Paths : disk'[p] = disk[p]
    BY <1>7
  <2>2. ASSUME NEW p \in Paths PROVE PathStep(p)
    BY <2>1 DEF PathStep
  <2> QED
    BY <1>0, <1>7, <2>2
<1>8. Written
  BY <1>2, <1>4, <1>5, <1>6, <1>7
     DEF Next, QueueThread, Add, AddReads, AddProbes, InsertBegins, InsertNext, AddFails,
         CancelConversion, RemoveJob, ReorderQueue, SetCleanupMode, DropQueuedInPlaceJobs,
         Undisturbed, OwnerActs, vars
<1>9. /\ edits' \in 0..MaxEdits /\ edits <= edits'
      /\ relaunches' \in 0..MaxRelaunches /\ relaunches <= relaunches'
  <2>1. \/ edits' = edits /\ relaunches' = relaunches
        \/ edits < MaxEdits /\ edits' = edits + 1 /\ relaunches' = relaunches
        \/ relaunches < MaxRelaunches /\ relaunches' = relaunches + 1 /\ edits' = edits
    BY DEF Next, QueueThread, EncodeEnds, Book, CleanUp, ClaimJob, Elsewhere, Add, AddReads, AddProbes,
           InsertBegins, InsertNext, AddFails, CancelConversion, RemoveJob, ReorderQueue, SetCleanupMode,
           DropQueuedInPlaceJobs, Undisturbed, OwnerActs, Relaunch, vars
  <2> QED
    BY <1>0, <2>1
<1> QED
  BY <1>8, <1>9

\* The settings, and who changes them.
LEMMA SettingsStep ==
  ASSUME Types, [Next]_vars
  PROVE  /\ cleanupMode' \in {"delete", "keep"} /\ suffix' = suffix /\ dropping' \in BOOLEAN
         /\ \/ UNCHANGED settings
            \/ \E mode \in {"delete", "keep"} : SetCleanupMode(mode)
            \/ DropQueuedInPlaceJobs \/ Relaunch
  BY DEF Types, TypeOK, Next, QueueThread, EncodeEnds, Book, CleanUp, ClaimJob, Elsewhere, Add, AddReads,
         AddProbes, InsertBegins, InsertNext, AddFails, CancelConversion, RemoveJob, ReorderQueue,
         SetCleanupMode, DropQueuedInPlaceJobs, Undisturbed, OwnerActs, Relaunch, vars, settings

LEMMA InitTypes == Init => Types
<1> SUFFICES ASSUME Init PROVE Types
  OBVIOUS
<1>1. \A p \in Present : Owned(p, 0) \in Contents
  BY IntakeAssumption DEF Owned, Contents
<1>3. disk \in [Paths -> Contents \cup {NoFile}] /\ rows \in Seq(Row \cup {NoRow}) /\ Len(rows) = 0
  BY <1>1 DEF Init
<1>4. adds \in [Adders -> Calls]
  BY DEF Init, Calls, IdleAdd
<1>5. 0 <= MaxRows /\ 0 \in 0..MaxRows /\ 0 \in 0..MaxEdits /\ 0 \in 0..MaxRelaunches
  BY IntakeAssumption
<1>2. TypeOK
  BY <1>3, <1>4, <1>5 DEF Init, TypeOK
<1> QED
  BY <1>2 DEF Init, Types, CallInv, TurnInv, IdleAdd

LEMMA StepTypes == Types /\ [Next]_vars => Types'
<1> SUFFICES ASSUME Types, [Next]_vars PROVE Types'
  OBVIOUS
<1>1. TypeOK'
  BY Lengths, CallsStep, TurnStep, DiskStep, SettingsStep DEF Types, TypeOK, Table
<1> QED
  BY <1>1, CallsStep, TurnStep DEF Types

\* The state is well typed in every behaviour.
THEOREM IntakeTypeCorrect == Spec => []TypeOK
  BY InitTypes, StepTypes, PTL DEF Spec, Types

-----------------------------------------------------------------------------
(* Two live jobs never write under one name.                               *)

\* A row is live that was.
LEMMA LiveStays ==
  ASSUME TypeOK, RowsKept, NEW r \in With(Live)'
  PROVE  /\ r \in With(Live) /\ rows[r] \in Row /\ rows'[r] \in Row
         /\ rows'[r].src = rows[r].src /\ rows'[r].out = rows[r].out /\ rows'[r].print = rows[r].print
         /\ rows'[r].moved \/ (rows'[r].moved = rows[r].moved /\ rows'[r].order = rows[r].order)
         /\ \/ rows'[r].status = rows[r].status
            \/ rows[r].status = "queued" /\ rows'[r].status = "encoding" /\ ClaimJob(r) /\ pc' = "encode"
            \/ rows[r].status = "encoding" /\ rows'[r].status = "queued" /\ Relaunch
<1>1. r \in Ids /\ RowStep(r) /\ rows'[r].status \in Live
  BY DEF RowsKept, With, Ids, Table
<1>2. rows'[r] # NoRow
  BY <1>1 DEF NoRow, Live
<1>3. /\ rows[r] \in Row /\ rows'[r] \in Row /\ rows'[r].src = rows[r].src /\ rows'[r].out = rows[r].out
      /\ rows'[r].moved \/ (rows'[r].moved = rows[r].moved /\ rows'[r].order = rows[r].order)
  BY <1>1, <1>2 DEF RowStep
<1> QED
  BY <1>1, <1>2, <1>3 DEF RowStep, With, Live, Handled

\* The row an insert appends; the others are as they were.
LEMMA RowAppended ==
  ASSUME TypeOK, NEW a \in Adders, Appended(a)
  PROVE  LET n == Len(rows) + 1 p == Head(adds[a].left) IN
         /\ n \in Ids' /\ n \notin Ids /\ Ids' = Ids \cup {n}
         /\ rows'[n] \in Row /\ rows'[n].src = p /\ ChooseOutput(p, rows'[n].out) /\ ~Refused(p, rows'[n].out)
         /\ rows'[n].status = "queued" /\ rows'[n].order = adds[a].order /\ rows'[n].print = disk[p]
         /\ rows'[n].moved = FALSE
         /\ \A r \in Ids : rows'[r] = rows[r] /\ r < n
         /\ With(Live)' = With(Live) \cup {n} /\ With({"queued"})' = With({"queued"}) \cup {n}
         /\ With(Handled)' = With(Handled)
<1> DEFINE n == Len(rows) + 1
           p == Head(adds[a].left)
<1>1. PICK out \in Paths :
        LET new == [src |-> p, out |-> out, status |-> "queued", order |-> adds[a].order,
                    print |-> disk[p], moved |-> FALSE]
        IN /\ ChooseOutput(p, out) /\ ~Refused(p, out)
           /\ new \in Row /\ rows' = Append(rows, new)
  BY DEF Appended
<1>2. /\ Len(rows) \in Nat /\ Ids = 1..Len(rows) /\ Ids' = Ids \cup {n} /\ n \notin Ids
      /\ \A r \in Ids : rows'[r] = rows[r] /\ r < n
      /\ rows'[n] = [src |-> p, out |-> out, status |-> "queued", order |-> adds[a].order,
                     print |-> disk[p], moved |-> FALSE]
  BY <1>1, RowsAre DEF Ids, Table
<1>3. rows'[n] \in Row /\ rows'[n].status = "queued"
  BY <1>1, <1>2
<1>4. /\ With(Live)' = With(Live) \cup {n} /\ With({"queued"})' = With({"queued"}) \cup {n}
      /\ With(Handled)' = With(Handled)
  BY <1>2, <1>3 DEF With, Live, Handled
<1> HIDE DEF n
<1>5. QED
  BY <1>1, <1>2, <1>3, <1>4 DEF n

\* An output name that is chosen is the source itself, or one no row has.
LEMMA ChosenOutput ==
  ASSUME NEW p, NEW out, ChooseOutput(p, out)
  PROVE  out = p \/ \A r \in Ids : rows[r].out # out
  BY DEF ChooseOutput, IsTaken

\* Whatever is removed, requeued or added meanwhile, a name is looked for among all the rows there are.
LEMMA StepOutputsApart == Types /\ OutputsApart /\ [Next]_vars => OutputsApart'
<1> SUFFICES ASSUME Types, OutputsApart, [Next]_vars PROVE OutputsApart'
  OBVIOUS
<1>1. CASE RowsKept
  BY <1>1, LiveStays DEF Types, OutputsApart, InPlace
<1>2. ASSUME NEW a \in Adders, Appended(a) PROVE OutputsApart'
  <2> DEFINE n == Len(rows) + 1
  <2>1. /\ With(Live)' = With(Live) \cup {n}
        /\ \A r \in Ids : rows'[r] = rows[r]
        /\ rows'[n].out = rows'[n].src \/ \A r \in Ids : rows[r].out # rows'[n].out
    BY <1>2, RowAppended, ChosenOutput DEF Types
  <2>2. With(Live) \subseteq Ids
    BY DEF With
  <2> HIDE DEF n
  <2> QED
    BY <2>1, <2>2 DEF OutputsApart, InPlace
<1> QED
  BY <1>1, <1>2, RowsStep

\* Two jobs never write under one name, however the adds interleave and whatever was removed or
\* requeued meanwhile (choose_output_path, add_files_to_db_from).
THEOREM JobsWriteApart == Spec => []OutputsApart
<1>1. Init => OutputsApart
  BY DEF Init, OutputsApart, With, Ids
<1> QED
  BY <1>1, InitTypes, StepTypes, StepOutputsApart, PTL DEF Spec

-----------------------------------------------------------------------------
(* The order of the queue, and what keep keeps out of it.                  *)

\* While the lock is held for an insert nobody else touches the rows or the settings, but a launch,
\* which ends every call.
LEMMA LockHeld ==
  ASSUME Types, [Next]_vars, NEW a \in Adders, adds[a].at = "insert"
  PROVE  \/ Relaunch
         \/ UNCHANGED <<rows, settings>>
         \/ Appended(a)
<1>1. ~Unlocked
  BY DEF Unlocked
<1>2. ASSUME NEW b \in Adders, InsertNext(b) PROVE UNCHANGED <<rows, settings>> \/ Appended(a)
  <2>1. b = a
    BY <1>2 DEF InsertNext, Types, CallInv
  <2> QED
    BY <1>2, <2>1, InsertStep
<1> QED
  BY <1>1, <1>2
     DEF Next, QueueThread, EncodeEnds, Book, CleanUp, ClaimJob, GoTo, Elsewhere, Add, AddReads,
         AddProbes, InsertBegins, AddFails, CancelConversion, RemoveJob, ReorderQueue,
         SetCleanupMode, DropQueuedInPlaceJobs, Undisturbed, OwnerActs, vars, settings

\* A call inserts that has just taken the lock, or that was inserting and goes on.
LEMMA CallInserts ==
  ASSUME Types, [Next]_vars, NEW a \in Adders, adds'[a].at = "insert"
  PROVE  \/ /\ InsertBegins(a) /\ UNCHANGED rows /\ adds'[a].left = adds[a].left
            /\ adds'[a].known = Len(rows) /\ adds'[a].order = QueueTop + 1
         \/ /\ adds[a].at = "insert" /\ adds'[a] = adds[a] /\ UNCHANGED rows
         \/ /\ adds[a].at = "insert" /\ adds'[a].left = Tail(adds[a].left)
            /\ adds'[a].known = adds[a].known
            /\ \/ adds'[a].order = adds[a].order /\ UNCHANGED rows
               \/ adds'[a].order = adds[a].order + 1 /\ Appended(a)
<1>0. /\ adds \in [Adders -> Calls] /\ IdleAdd.at = "idle"
      /\ \A b \in Adders : adds[b].order \in Int
  BY DEF Types, TypeOK, IdleAdd, Calls
<1>1. CASE InsertBegins(a)
  BY <1>0, <1>1 DEF InsertBegins, Calls
<1>2. ASSUME NEW order \in Int, adds[a].at = "insert", Inserted(a, order)
      PROVE  adds'[a].left = Tail(adds[a].left) /\ adds'[a].known = adds[a].known /\ adds'[a].order = order
  BY <1>0, <1>2, InsertedCall DEF Types
<1>3. CASE InsertNext(a)
  BY <1>2, <1>3, InsertStep DEF Appended
<1>4. ASSUME NEW b \in Adders, b # a, Add(b)
      PROVE  adds'[a] = adds[a] /\ adds[a].at = "insert" /\ UNCHANGED rows
  <2>1. ~InsertNext(b)
    <3>1. ASSUME InsertNext(b) PROVE FALSE
      <4>1. adds[b].at = "insert" /\ adds'[a] = adds[a]
        BY <1>4, <3>1, InsertStep, InsertedCall DEF Types, Appended
      <4> QED
        BY <1>4, <4>1 DEF Types, CallInv
    <3> QED
      BY <3>1
  <2> QED
    BY <1>0, <1>4, <2>1 DEF Add, AddReads, AddProbes, AddFails, InsertBegins
<1>5. ASSUME AddProbes(a) \/ AddFails(a) \/ (\E batch \in Batches : AddReads(a, batch)) PROVE FALSE
  <2>1. CASE AddProbes(a)
    <3>1. PICK good : adds' = [adds EXCEPT ![a].at = "probed", ![a].atTarget = good]
      BY <2>1 DEF AddProbes
    <3>2. adds'[a].at = "probed"
      BY <1>0, <3>1 DEF Calls
    <3> QED
      BY <3>2
  <2> QED
    BY <1>0, <1>5, <2>1 DEF AddFails, AddReads, IdleAdd
<1>6. CASE UNCHANGED adds
  <2>1. CASE Relaunch
    BY <1>0, <1>6, <2>1 DEF Relaunch
  <2>2. CASE Appended(a)
    BY <1>2, <1>0, <1>6, <2>2, CallsAre DEF Appended, Types
  <2> QED
    BY <1>6, <2>1, <2>2, LockHeld
<1>7. CASE Relaunch
  BY <1>0, <1>7 DEF Relaunch
<1> QED
  BY <1>1, <1>3, <1>4, <1>5, <1>6, <1>7
     DEF Next, Add, QueueThread, EncodeEnds, Book, CleanUp, ClaimJob, Elsewhere, CancelConversion, RemoveJob,
         ReorderQueue, SetCleanupMode, DropQueuedInPlaceJobs, Undisturbed, OwnerActs, vars

\* The order of the queue is that of the adds, and a batch goes behind all of it.
OrderInv ==
  /\ \A r, q \in With(Live) :
       r < q /\ ~rows[r].moved /\ ~rows[q].moved => rows[r].order < rows[q].order
  /\ \A a \in Adders, r \in With(Live) : adds[a].at = "insert" => rows[r].order < adds[a].order

LEMMA StepOrderInv == Types /\ OrderInv /\ [Next]_vars => OrderInv'
<1> SUFFICES ASSUME Types, OrderInv, [Next]_vars PROVE OrderInv'
  OBVIOUS
<1>0. TypeOK /\ CallInv /\ \A r \in With(Live) : rows[r] \in Row /\ rows[r].order \in Int /\ r \in Ids
  BY RowsAre DEF Types, With, Live, NoRow, Row
<1>1. CASE RowsKept
  <2>1. ASSUME NEW r \in With(Live)', NEW q \in With(Live)', r < q, ~rows'[r].moved, ~rows'[q].moved
        PROVE  rows'[r].order < rows'[q].order
    BY <1>0, <1>1, <2>1, LiveStays DEF OrderInv
  <2>2. ASSUME NEW a \in Adders, NEW r \in With(Live)', adds'[a].at = "insert"
        PROVE  rows'[r].order < adds'[a].order
    <3>0. ASSUME Appended(a) PROVE FALSE
      <4>1. Len(rows') = Len(rows) + 1
        BY <1>0, <3>0, RowsAre DEF Appended, Table
      <4> QED
        BY <1>0, <1>1, <4>1, RowsAre DEF RowsKept
    <3>1. UNCHANGED rows
      BY <2>2, <3>0, CallInserts
    <3>2. r \in With(Live)
      BY <3>1 DEF With, Ids
    <3>3. \/ adds'[a].order = QueueTop + 1
          \/ adds[a].at = "insert" /\ adds'[a].order = adds[a].order
      BY <2>2, <3>0, CallInserts
    <3> QED
      BY <1>0, <3>1, <3>2, <3>3, TopIs DEF OrderInv
  <2> QED
    BY <2>1, <2>2 DEF OrderInv
<1>2. ASSUME NEW a \in Adders, Appended(a) PROVE OrderInv'
  <2> DEFINE n == Len(rows) + 1
  <2>1. /\ With(Live)' = With(Live) \cup {n} /\ rows'[n].order = adds[a].order
        /\ \A r \in Ids : rows'[r] = rows[r] /\ r < n
    BY <1>0, <1>2, RowAppended
  <2>2. n \in Nat /\ adds[a].at = "insert" /\ adds[a].order \in Int
    BY <1>0, <1>2, RowsAre, CallsAre DEF Appended, Calls
  <2>3. \A r \in With(Live) : rows'[r] = rows[r] /\ r < n /\ rows[r].order < adds[a].order /\ r \in Nat
    BY <1>0, <2>1, <2>2, RowsAre DEF OrderInv
  <2>4. ASSUME NEW b \in Adders, adds'[b].at = "insert" PROVE b = a /\ adds'[b].order = adds[a].order + 1
    <3>1. \A c \in Adders : c # a => adds'[c] = adds[c]
      BY <1>0, <1>2, <2>2, InsertedCall DEF Appended
    <3>2. b = a
      BY <1>0, <2>2, <2>4, <3>1 DEF CallInv
    <3>3. \/ adds'[a] = IdleAdd
          \/ adds'[a].order = adds[a].order + 1
      BY <1>0, <1>2, <2>2, InsertedCall DEF Appended
    <3> QED
      BY <2>4, <3>2, <3>3 DEF IdleAdd
  <2> HIDE DEF n
  <2> QED
    BY <1>0, <2>1, <2>2, <2>3, <2>4 DEF OrderInv
<1> QED
  BY <1>1, <1>2, RowsStep

\* Of two queued jobs nobody reordered, the one added first is the one that runs first, also when
\* it was running, the process ended, and recovery queued it again behind the other's back
\* (get_next_queue_order, recover_interrupted_jobs, get_next_job).
THEOREM QueueIsInOrder == Spec => []FirstAddedFirst
<1>1. Init => OrderInv
  BY DEF Init, OrderInv, With, Ids, IdleAdd
<1>2. OrderInv => FirstAddedFirst
  BY DEF OrderInv, FirstAddedFirst, With, Live
<1> QED
  BY <1>1, <1>2, InitTypes, StepTypes, StepOrderInv, PTL DEF Spec

\* A switch to keep drops what waits in place, an insert refuses it, and so does a launch.
LEMMA StepInPlace == Types /\ NothingInPlaceUnderKeep /\ [Next]_vars => NothingInPlaceUnderKeep'
<1> SUFFICES ASSUME Types, NothingInPlaceUnderKeep, [Next]_vars,
                    cleanupMode' = "keep", ~dropping', NEW r \in With({"queued"})'
             PROVE  rows'[r].src # rows'[r].out
  BY DEF NothingInPlaceUnderKeep, InPlace
<1>0. TypeOK /\ Ids = DOMAIN rows /\ rows'[r].status = "queued"
  BY DEF Types, Ids, With
<1>1. CASE Relaunch
  <2>1. rows' \in Table /\ Len(rows') = Len(rows) /\ cleanupMode = "keep"
    BY <1>1, RowsOfLaunch DEF Relaunch, RowsKept
  <2>2. r \in Ids
    BY <1>0, <2>1, RowsAre DEF With, Ids, Table
  <2> QED
    BY <1>0, <1>1, <2>1, <2>2, RowsOfLaunch
<1>2. CASE DropQueuedInPlaceJobs
  BY <1>0, <1>2 DEF DropQueuedInPlaceJobs, DropInPlace, With, Ids, NoRow
<1>3. ASSUME NEW mode \in {"delete", "keep"}, SetCleanupMode(mode) PROVE FALSE
  BY <1>3 DEF SetCleanupMode
<1>4. CASE UNCHANGED settings /\ RowsKept /\ ~Relaunch
  <2>1. r \in With(Live)'
    BY <1>0 DEF With, Live
  <2>2. r \in With({"queued"}) /\ rows'[r].src = rows[r].src /\ rows'[r].out = rows[r].out
    BY <1>0, <1>4, <2>1, LiveStays DEF With, Live
  <2> QED
    BY <1>4, <2>2 DEF NothingInPlaceUnderKeep, InPlace, settings
<1>5. ASSUME NEW a \in Adders, Appended(a) PROVE rows'[r].src # rows'[r].out
  <2> DEFINE n == Len(rows) + 1
  <2>1. /\ With({"queued"})' = With({"queued"}) \cup {n} /\ \A q \in Ids : rows'[q] = rows[q]
        /\ rows'[n].src = Head(adds[a].left) /\ ~Refused(Head(adds[a].left), rows'[n].out)
    BY <1>0, <1>5, RowAppended
  <2>2. cleanupMode = "keep" /\ ~dropping
    BY <1>5 DEF Appended, settings
  <2> HIDE DEF n
  <2> QED
    BY <2>1, <2>2 DEF NothingInPlaceUnderKeep, InPlace, Refused, With
<1> QED
  BY <1>1, <1>2, <1>3, <1>4, <1>5, RowsStep, SettingsStep

\* While both files are to be kept no job is waiting that would replace its own source: not one an
\* add decided before the switch and inserted after it, nor one recovery brought back
\* (add_files_to_db_from, update_setting, drop_queued_in_place_jobs, boot).
THEOREM KeepMeansKeep == Spec => []NothingInPlaceUnderKeep
<1>1. Init => NothingInPlaceUnderKeep
  BY DEF Init, NothingInPlaceUnderKeep, With, Ids
<1> QED
  BY <1>1, InitTypes, StepTypes, StepInPlace, PTL DEF Spec

-----------------------------------------------------------------------------
(* Nothing that was dealt with is converted again.                         *)

\* No two live rows have a source in common, and none has one of the sources an insert still holds
\* that it does not ask the table about.
SourceInv ==
  /\ \A r, q \in With(Live) : rows[r].src = rows[q].src => r = q
  /\ \A a \in Adders : IsInjective(adds[a].left)
  /\ \A a \in Adders : adds[a].at = "insert" =>
       /\ \A r \in With(Live) : r > adds[a].known => rows[r].src \notin Range(adds[a].left)
       /\ \A d \in With(Handled) : d <= adds[a].known

\* A content is the owner's of an edit there was, or what a row made of its output in a launch there
\* was: an earlier one than this if the row waits, or is the one the thread is about to replace.
KnownIn(c, rs, edited, launch, replacing) ==
  /\ c.by \in 0..Len(rs)
  /\ c.by = 0 => c.n <= edited
  /\ c.by # 0 => /\ rs[c.by] = NoRow \/ c.at = rs[c.by].out
                 /\ c.n <= launch
                 /\ rs[c.by].status = "queued" \/ c.by = replacing => c.n < launch
Replacing == IF JobInPlace /\ pc \in {"encode", "cleanup"} THEN cur ELSE 0
Known(c)  == KnownIn(c, rows, edits, relaunches, Replacing)

\* What is on disk and in the fingerprints belongs there; the result of a done in-place job that
\* is still there is the one it recorded.
ContentInv ==
  /\ \A p \in Paths : disk[p] # NoFile => disk[p].at = p /\ Known(disk[p])
  /\ \A r \in Ids : rows[r].print # NoFile => rows[r].print.at = rows[r].src /\ Known(rows[r].print)
  /\ \A d \in With(Handled) :
       InPlace(d) /\ rows[d].status = "done" /\ disk[rows[d].src] # NoFile /\ disk[rows[d].src].by = d
         => disk[rows[d].src] = rows[d].print

\* No live row has a source that was dealt with.
FreshInv == \A r \in With(Live) : disk[rows[r].src] # NoFile => ~DealtWith(disk[rows[r].src])

\* A batch names no path twice.
BatchesAreSets == \A batch \in Batches : IsInjective(batch)

\* A call's sources are a batch, those it had, those it had but the first, or none.
LEMMA CallLeft ==
  ASSUME Types, [Next]_vars, NEW a \in Adders
  PROVE  \/ adds'[a].left = adds[a].left
         \/ adds'[a].left \in Batches
         \/ adds'[a].left = <<>>
         \/ adds[a].at = "insert" /\ adds'[a].left = Tail(adds[a].left)
<1>0. adds \in [Adders -> Calls] /\ IdleAdd.left = <<>>
  BY DEF Types, TypeOK, IdleAdd
<1>1. ASSUME NEW b \in Adders, NEW order \in Int, adds[b].at = "insert", Inserted(b, order)
      PROVE  \/ adds'[a].left = adds[a].left
             \/ adds'[a].left = <<>>
             \/ adds[a].at = "insert" /\ adds'[a].left = Tail(adds[a].left)
  BY <1>0, <1>1, InsertedCall DEF Types
<1>2. ASSUME NEW b \in Adders, InsertNext(b)
      PROVE  \/ adds'[a].left = adds[a].left
             \/ adds'[a].left = <<>>
             \/ adds[a].at = "insert" /\ adds'[a].left = Tail(adds[a].left)
  BY <1>1, <1>2, InsertStep DEF Appended
<1>3. ASSUME NEW b \in Adders, NEW batch \in Batches, AddReads(b, batch)
      PROVE  adds'[a].left = adds[a].left \/ adds'[a].left \in Batches
  BY <1>0, <1>3 DEF AddReads, IdleAdd
<1>4. ASSUME NEW b \in Adders, AddProbes(b) PROVE adds'[a].left = adds[a].left
  <2>1. PICK good : adds' = [adds EXCEPT ![b].at = "probed", ![b].atTarget = good]
    BY <1>4 DEF AddProbes
  <2> QED
    BY <1>0, <2>1 DEF Calls
<1>5. ASSUME NEW b \in Adders, InsertBegins(b) PROVE adds'[a].left = adds[a].left
  BY <1>0, <1>5 DEF InsertBegins, Calls
<1>6. ASSUME NEW b \in Adders, AddFails(b) PROVE adds'[a].left = adds[a].left \/ adds'[a].left = <<>>
  BY <1>0, <1>6 DEF AddFails
<1>7. CASE Relaunch
  BY <1>0, <1>7 DEF Relaunch
<1>8. CASE UNCHANGED adds
  BY <1>8
<1> QED
  BY <1>2, <1>3, <1>4, <1>5, <1>6, <1>7, <1>8
     DEF Next, Add, QueueThread, EncodeEnds, Book, CleanUp, ClaimJob, Elsewhere, CancelConversion, RemoveJob,
         ReorderQueue, SetCleanupMode, DropQueuedInPlaceJobs, Undisturbed, OwnerActs, vars

\* The first of distinct sources is not among the rest.
LEMMA RestOfDistinct ==
  ASSUME NEW s \in Seq(Paths), s # <<>>, IsInjective(s)
  PROVE  IsInjective(Tail(s)) /\ Head(s) \notin Range(Tail(s)) /\ Range(Tail(s)) \subseteq Range(s)
                              /\ Head(s) \in Range(s)
<1>1. /\ Len(s) \in Nat \ {0} /\ DOMAIN s = 1..Len(s) /\ DOMAIN Tail(s) = 1..(Len(s) - 1)
      /\ \A i \in 1..(Len(s) - 1) : Tail(s)[i] = s[i + 1] /\ i + 1 \in 1..Len(s)
      /\ Head(s) = s[1] /\ 1 \in 1..Len(s)
  BY HeadTailProperties, EmptySeq
<1> QED
  BY <1>1 DEF IsInjective, Range

\* What the skip rules leave is not the source of a live row they asked, nor what one they asked took.
LEMMA NotSkipped ==
  ASSUME NEW p, NEW n, ~CheapSkip(p, n)
  PROVE  /\ \A r \in With(Live) : r <= n => rows[r].src # p
         /\ \A d \in With(Handled) : d <= n /\ rows[d].print # NoFile => rows[d].print # disk[p]
  BY DEF CheapSkip, QueuedPaths, ConvertedIdentities, First

LEMMA StepSourceInv == BatchesAreSets /\ Types /\ SourceInv /\ [Next]_vars => SourceInv'
<1> SUFFICES ASSUME BatchesAreSets, Types, SourceInv, [Next]_vars PROVE SourceInv'
  OBVIOUS
<1>0. /\ TypeOK /\ CallInv /\ \A r \in With(Live) : r \in Ids /\ \A d \in With(Handled) : d \in Ids
      /\ \A r \in Ids : r \in Nat /\ r <= Len(rows)
      /\ \A a \in Adders : adds[a].known \in Nat /\ adds[a].left \in Seq(Paths)
  BY RowsAre DEF Types, TypeOK, With, Calls
<1>1. ASSUME NEW a \in Adders PROVE IsInjective(adds'[a].left)
  <2>1. IsInjective(<<>>)
    BY DEF IsInjective
  <2>2. adds[a].at = "insert" => IsInjective(Tail(adds[a].left))
    BY <1>0, RestOfDistinct DEF SourceInv, CallInv
  <2> QED
    BY <2>1, <2>2, CallLeft DEF SourceInv, BatchesAreSets
<1>2. ASSUME NEW a \in Adders, adds[a].at = "insert", ~Appended(a), adds'[a].at = "insert"
      PROVE  /\ \A r \in With(Live)' : r > adds'[a].known => rows'[r].src \notin Range(adds'[a].left)
             /\ \A d \in With(Handled)' : d <= adds'[a].known
  <2>1. /\ UNCHANGED rows /\ adds'[a].known = adds[a].known
        /\ adds'[a].left = adds[a].left \/ adds'[a].left = Tail(adds[a].left)
    BY <1>2, CallInserts DEF InsertBegins
  <2>2. Range(adds'[a].left) \subseteq Range(adds[a].left)
    BY <1>0, <1>2, <2>1, RestOfDistinct DEF SourceInv, CallInv
  <2> QED
    <3>1. With(Live)' = With(Live) /\ With(Handled)' = With(Handled)
      BY <2>1 DEF With, Ids
    <3> QED
      BY <1>2, <2>1, <2>2, <3>1 DEF SourceInv
<1>3. ASSUME NEW a \in Adders, adds[a].at # "insert", adds'[a].at = "insert"
      PROVE  /\ \A r \in With(Live)' : r > adds'[a].known => rows'[r].src \notin Range(adds'[a].left)
             /\ \A d \in With(Handled)' : d <= adds'[a].known
  <2>1. UNCHANGED rows /\ adds'[a].known = Len(rows)
    BY <1>3, CallInserts
  <2> QED
    BY <1>0, <2>1 DEF With, Ids
<1>4. CASE RowsKept
  <2>1. \A a \in Adders : ~Appended(a)
    <3>1. ASSUME NEW a \in Adders, Appended(a) PROVE FALSE
      <4>1. Len(rows') = Len(rows) + 1
        BY <1>0, <3>1, RowsAre DEF Appended, Table
      <4> QED
        BY <1>0, <1>4, <4>1, RowsAre DEF RowsKept
    <3> QED
      BY <3>1
  <2>2. \A r, q \in With(Live)' : rows'[r].src = rows'[q].src => r = q
    BY <1>0, <1>4, LiveStays DEF SourceInv
  <2> QED
    BY <1>1, <1>2, <1>3, <2>1, <2>2 DEF SourceInv
<1>5. ASSUME NEW a \in Adders, Appended(a) PROVE SourceInv'
  <2> DEFINE n == Len(rows) + 1
             p == Head(adds[a].left)
  <2>1. /\ With(Live)' = With(Live) \cup {n} /\ rows'[n].src = p /\ With(Handled)' = With(Handled)
        /\ \A r \in Ids : rows'[r] = rows[r] /\ r < n
    BY <1>0, <1>5, RowAppended
  <2>2. /\ adds[a].at = "insert" /\ ~CheapSkip(p, adds[a].known) /\ adds[a].order + 1 \in Int
        /\ Inserted(a, adds[a].order + 1)
    BY <1>0, <1>5, CallsAre DEF Appended, Calls
  <2>3. \A r \in With(Live) : rows[r].src # p
    <3>1. adds[a].left # <<>> /\ p \in Range(adds[a].left)
      BY <1>0, <2>2, RestOfDistinct DEF CallInv, SourceInv
    <3> QED
      BY <1>0, <2>2, <3>1, NotSkipped DEF SourceInv
  <2>4. \A r, q \in With(Live)' : rows'[r].src = rows'[q].src => r = q
    <3> HIDE DEF n, p
    <3> QED
      BY <1>0, <2>1, <2>3 DEF SourceInv
  <2>5. ASSUME NEW b \in Adders, adds'[b].at = "insert"
        PROVE  b = a /\ adds'[b].left = Tail(adds[a].left) /\ adds'[b].known = adds[a].known
    <3>1. b = a
      BY <1>0, <2>2, <2>5, InsertedCall DEF CallInv
    <3>2. adds'[a] # IdleAdd
      BY <2>5, <3>1 DEF IdleAdd
    <3> QED
      BY <1>0, <2>2, <3>1, <3>2, InsertedCall
  <2>6. p \notin Range(Tail(adds[a].left)) /\ Range(Tail(adds[a].left)) \subseteq Range(adds[a].left)
    BY <1>0, <2>2, RestOfDistinct DEF CallInv, SourceInv
  <2>7. ASSUME NEW b \in Adders, adds'[b].at = "insert"
        PROVE  /\ \A r \in With(Live)' : r > adds'[b].known => rows'[r].src \notin Range(adds'[b].left)
               /\ \A d \in With(Handled)' : d <= adds'[b].known
    <3> HIDE DEF n, p
    <3> QED
      BY <1>0, <2>1, <2>2, <2>5, <2>6, <2>7 DEF SourceInv
  <2> QED
    BY <1>1, <2>4, <2>7 DEF SourceInv
<1> QED
  BY <1>4, <1>5, RowsStep

\* What a row has been it stays, until it goes; nothing is queued that was not, but by a launch.
LEMMA RowStays ==
  ASSUME Types, [Next]_vars, NEW r \in Ids
  PROVE  /\ r \in Ids'
         /\ rows'[r] = NoRow \/ /\ rows[r] \in Row /\ rows'[r] \in Row
                                /\ rows'[r].src = rows[r].src /\ rows'[r].out = rows[r].out
         /\ rows'[r].status = "queued" => rows[r].status = "queued" \/ Relaunch
<1>0. TypeOK /\ r \in Ids' /\ rows[r] \in Row \cup {NoRow} /\ NoRow.status # "queued"
  BY Lengths, RowsAre DEF Types, NoRow
<1>1. CASE RowsKept
  BY <1>0, <1>1 DEF RowsKept, RowStep, Live, Handled
<1>2. ASSUME NEW a \in Adders, Appended(a) PROVE rows'[r] = rows[r]
  BY <1>0, <1>2, RowAppended
<1> QED
  BY <1>0, <1>1, <1>2, RowsStep

\* A row the thread is about to replace was that before, or waited.
LEMMA ReplacingStep ==
  ASSUME Types, [Next]_vars
  PROVE  Replacing' = 0 \/ Replacing' = Replacing \/ rows[Replacing'].status = "queued"
<1>1. CASE TurnEnds
  BY <1>1 DEF TurnEnds, Replacing
<1>2. CASE UNCHANGED thread
  BY <1>2 DEF thread, Replacing, JobInPlace
<1>3. ASSUME NEW r \in Ids, ClaimJob(r), ~UNCHANGED thread PROVE rows[r].status = "queued" /\ cur' = r
  BY <1>3 DEF ClaimJob, With
<1>4. CASE EncodeEnds \/ CleanUp
  <2>1. CASE pc = "encode" /\ pc' = "cleanup" /\ UNCHANGED <<cur, job>>
    BY <2>1 DEF Replacing, JobInPlace
  <2>2. CASE pc' \in {"bookDone", "bookSkipped"}
    BY <2>2 DEF Replacing
  <2> QED
    BY <1>1, <1>4, <2>1, <2>2 DEF EncodeEnds, CleanUp, GoTo
<1>5. CASE QueueThread
  <2>1. Replacing' = 0 \/ Replacing' = cur'
    BY DEF Replacing
  <2> QED
    BY <1>1, <1>2, <1>3, <1>4, <1>5, <2>1 DEF QueueThread, Book
<1> QED
  BY <1>1, <1>2, <1>5
     DEF Next, Add, AddReads, AddProbes, InsertBegins, InsertNext, AddFails, CancelConversion, RemoveJob,
         ReorderQueue, SetCleanupMode, DropQueuedInPlaceJobs, Undisturbed, OwnerActs, Relaunch, vars

\* A content that was known stays known.
LEMMA KnownStays ==
  ASSUME Types, [Next]_vars, NEW c \in Contents, Known(c)
  PROVE  KnownIn(c, rows', edits', relaunches', Replacing')
<1>1. /\ c.by \in Nat /\ c.n \in Nat /\ edits \in Nat /\ relaunches \in Nat
      /\ edits <= edits' /\ relaunches <= relaunches' /\ edits' \in Nat /\ relaunches' \in Nat
      /\ Len(rows) \in Nat /\ Len(rows') \in Nat /\ Len(rows) <= Len(rows') /\ Ids = 1..Len(rows)
  BY Lengths, DiskStep, RowsAre, IntakeAssumption DEF Contents, Types, TypeOK, Table
<1>2. c.by \in 0..Len(rows') /\ (c.by = 0 => c.n <= edits')
  BY <1>1 DEF Known, KnownIn
<1>3. CASE c.by # 0
  <2>1. c.by \in Ids /\ c.n <= relaunches /\ (rows[c.by] = NoRow \/ c.at = rows[c.by].out)
        /\ (rows[c.by].status = "queued" \/ c.by = Replacing => c.n < relaunches)
    BY <1>1, <1>3 DEF Known, KnownIn
  <2>2. rows'[c.by] = NoRow \/ c.at = rows'[c.by].out
    BY <2>1, RowStays, RowsAre DEF Types
  <2>3. ASSUME rows'[c.by].status = "queued" \/ c.by = Replacing' PROVE c.n < relaunches'
    <3>1. rows[c.by].status = "queued" \/ c.by = Replacing \/ Relaunch
      BY <1>3, <2>1, <2>3, RowStays, ReplacingStep
    <3>2. Relaunch => relaunches' = relaunches + 1
      BY DEF Relaunch
    <3> QED
      BY <1>1, <2>1, <3>1, <3>2
  <2> QED
    BY <1>1, <1>2, <1>3, <2>1, <2>2, <2>3 DEF KnownIn
<1> QED
  BY <1>2, <1>3 DEF KnownIn

\* What is written is known.
LEMMA WrittenIsKnown ==
  ASSUME Types, [Next]_vars, NEW p \in Paths, PathStep(p), disk'[p] # NoFile, disk'[p] # disk[p]
  PROVE  disk'[p].at = p /\ KnownIn(disk'[p], rows', edits', relaunches', Replacing')
<1>0. /\ edits \in Nat /\ relaunches \in Nat /\ Len(rows') \in Nat /\ Ids' = 1..Len(rows') /\ 0 \notin Ids
      /\ Ids \subseteq Ids'
  BY Lengths, RowsAre, IntakeAssumption DEF Types, TypeOK, Table
<1>1. CASE OwnerActs(p) /\ disk'[p] = Owned(p, edits + 1)
  BY <1>0, <1>1 DEF OwnerActs, Owned, KnownIn
<1>2. ASSUME NEW r \in Ids, ClaimJob(r), pc' = "encode", ~InPlace(r), p = rows[r].out, disk'[p] = Encode(r, p)
      PROVE  disk'[p].at = p /\ KnownIn(disk'[p], rows', edits', relaunches', Replacing')
  <2>1. rows[r] \in Row /\ pc = "idle" /\ rows' = [rows EXCEPT ![r].status = "encoding"] /\ job' = rows[r]
        /\ relaunches' = relaunches
    BY <1>2, RowsAre DEF ClaimJob, With, NoRow, Types, thread, SetStatus, Elsewhere
  <2>2. rows'[r].status = "encoding" /\ rows'[r].out = p
    BY <1>2, <2>1, RowsAre DEF Types, Row
  <2>3. Replacing' = 0
    BY <1>2, <2>1 DEF Replacing, JobInPlace, InPlace
  <2>4. disk'[p] = [at |-> p, by |-> r, n |-> relaunches]
    BY <1>2 DEF Encode
  <2> QED
    BY <1>0, <2>1, <2>2, <2>3, <2>4 DEF KnownIn
<1>3. CASE CleanUp /\ JobInPlace /\ pc' = "bookDone" /\ p = job.src /\ disk'[p] = Encode(cur, p)
  <2>0. pc = "cleanup" /\ job.src = p /\ job.out = p /\ UNCHANGED <<rows, relaunches>>
    BY <1>3 DEF CleanUp, TurnEnds, Elsewhere, JobInPlace
  <2>1. cur \in Ids /\ (rows[cur] = NoRow \/ (rows[cur].status # "queued" /\ rows[cur].out = p))
    BY <2>0 DEF Types, TurnInv, SameJob
  <2>2. Replacing' = 0
    BY <1>3 DEF Replacing
  <2>3. disk'[p] = [at |-> p, by |-> cur, n |-> relaunches]
    BY <1>3 DEF Encode
  <2> QED
    BY <1>0, <2>0, <2>1, <2>2, <2>3 DEF KnownIn, NoRow
<1> QED
  BY <1>1, <1>2, <1>3 DEF PathStep

\* A row's fingerprint is the one it had, or what the booking found under its source, or, of the
\* row an insert appends, what the insert found there.
LEMMA PrintStep ==
  ASSUME Types, [Next]_vars, NEW r \in Ids', rows'[r].print # NoFile
  PROVE  \/ r \in Ids /\ rows'[r].print = rows[r].print /\ rows[r] \in Row /\ rows'[r].src = rows[r].src
         \/ /\ Book /\ r = cur /\ rows[r] \in Row /\ rows'[r].src = rows[r].src
            /\ rows'[r].print = IF JobInPlace THEN disk[rows[r].src] ELSE rows[r].print
         \/ rows'[r].src \in Paths /\ rows'[r].print = disk[rows'[r].src]
<1>0. TypeOK /\ rows'[r] # NoRow
  BY DEF Types, NoRow
<1>1. CASE RowsKept
  <2>1. r \in Ids /\ RowStep(r)
    BY <1>0, <1>1, RowsAre DEF RowsKept, Ids, Table
  <2>2. CASE Book /\ r = cur /\ rows'[r].print = FinalPrint /\ rows[r] \in Row
             /\ rows'[r].src = rows[r].src
    <3>1. SameJob(rows[cur], job)
      BY <1>0, <2>2, RowsAre DEF Book, Types, TurnInv
    <3> QED
      BY <2>2, <3>1 DEF FinalPrint, SameJob
  <2> QED
    BY <1>0, <2>1, <2>2 DEF RowStep
<1>2. ASSUME NEW a \in Adders, Appended(a)
      PROVE  \/ r \in Ids /\ rows'[r] = rows[r] /\ rows[r] \in Row
             \/ rows'[r].src \in Paths /\ rows'[r].print = disk[rows'[r].src]
  <2> DEFINE n == Len(rows) + 1
  <2>1. /\ Ids' = Ids \cup {n} /\ rows'[n] \in Row /\ rows'[n].print = disk[rows'[n].src]
        /\ \A q \in Ids : rows'[q] = rows[q]
    BY <1>0, <1>2, RowAppended
  <2>2. rows'[n].src \in Paths
    BY <2>1 DEF Row
  <2> HIDE DEF n
  <2> QED
    BY <1>0, <2>1, <2>2, RowsAre
<1> QED
  BY <1>1, <1>2, RowsStep

\* A row dealt with stays as it is; one is when a turn ends, with the print of that turn.
LEMMA HandledStep ==
  ASSUME Types, [Next]_vars, NEW d \in With(Handled)'
  PROVE  /\ d \in Ids /\ rows[d] \in Row /\ rows'[d].src = rows[d].src /\ rows'[d].out = rows[d].out
         /\ \/ /\ d \in With(Handled) /\ rows'[d].status = rows[d].status
               /\ rows'[d].print = rows[d].print
            \/ /\ Book /\ d = cur /\ rows[d].status = "encoding" /\ UNCHANGED disk
               /\ rows'[d].print = IF JobInPlace THEN disk[rows[d].src] ELSE rows[d].print
               /\ JobInPlace <=> InPlace(d)
<1>0. TypeOK /\ d \in Ids' /\ rows'[d].status \in Handled /\ rows'[d] # NoRow
  BY DEF Types, NoRow, With, Handled
<1>1. CASE RowsKept
  <2>1. d \in Ids /\ RowStep(d)
    BY <1>0, <1>1, RowsAre DEF RowsKept, Ids, Table
  <2>2. ASSUME Book, d = cur, rows'[d].print = FinalPrint, rows[d].status = "encoding", rows[d] \in Row
        PROVE  /\ UNCHANGED disk /\ (JobInPlace <=> InPlace(d))
               /\ rows'[d].print = IF JobInPlace THEN disk[rows[d].src] ELSE rows[d].print
    <3>1. SameJob(rows[cur], job) /\ UNCHANGED disk
      BY <1>0, <2>2, RowsAre DEF Book, Types, TurnInv
    <3> QED
      BY <2>2, <3>1 DEF FinalPrint, SameJob, JobInPlace, InPlace
  <2> QED
    BY <1>0, <2>1, <2>2 DEF RowStep, With, Live, Handled
<1>2. ASSUME NEW a \in Adders, Appended(a)
      PROVE  d \in With(Handled) /\ d \in Ids /\ rows'[d] = rows[d] /\ rows[d] \in Row
  <2>1. d \in With(Handled) /\ d \in Ids
    BY <1>0, <1>2, RowAppended DEF With
  <2> QED
    BY <1>0, <1>2, <2>1, RowAppended, RowsAre
<1> QED
  BY <1>1, <1>2, RowsStep

LEMMA StepContentInv == Types /\ ContentInv /\ [Next]_vars => ContentInv'
<1> SUFFICES ASSUME Types, ContentInv, [Next]_vars PROVE ContentInv'
  OBVIOUS
<1>0. TypeOK /\ disk \in [Paths -> Contents \cup {NoFile}]
  BY DEF Types, TypeOK
<1>1. ASSUME NEW p \in Paths, disk[p] # NoFile
      PROVE  disk[p].at = p /\ KnownIn(disk[p], rows', edits', relaunches', Replacing')
  BY <1>0, <1>1, KnownStays DEF ContentInv
<1>2. ASSUME NEW r \in Ids, rows[r] \in Row, rows[r].print # NoFile
      PROVE  rows[r].print.at = rows[r].src /\ KnownIn(rows[r].print, rows', edits', relaunches', Replacing')
  BY <1>2, KnownStays DEF ContentInv, Row
<1>3. ASSUME NEW p \in Paths, disk'[p] # NoFile
      PROVE  disk'[p].at = p /\ KnownIn(disk'[p], rows', edits', relaunches', Replacing')
  BY <1>1, <1>3, DiskStep, WrittenIsKnown
<1>4. ASSUME NEW r \in Ids', rows'[r].print # NoFile
      PROVE  rows'[r].print.at = rows'[r].src
             /\ KnownIn(rows'[r].print, rows', edits', relaunches', Replacing')
  <2>1. \A q \in Ids : rows[q] \in Row => rows[q].src \in Paths
    BY DEF Row
  <2>2. Book => cur \in Ids
    BY DEF Book, Types, TurnInv
  <2> QED
    BY <1>1, <1>2, <1>4, <2>1, <2>2, PrintStep
<1>5. ASSUME NEW d \in With(Handled)', rows'[d].src = rows'[d].out, rows'[d].status = "done",
             disk'[rows'[d].src] # NoFile, disk'[rows'[d].src].by = d
      PROVE  disk'[rows'[d].src] = rows'[d].print
  <2> DEFINE p == rows[d].src
  <2>0. /\ d \in Ids /\ d # 0 /\ p \in Paths /\ rows'[d].src = p /\ InPlace(d)
        /\ rows[d] \in Row
    BY <1>0, <1>5, HandledStep, RowsAre DEF Row, InPlace
  <2>1. CASE Book /\ d = cur /\ UNCHANGED disk /\ JobInPlace /\ rows'[d].print = disk[p]
    BY <2>0, <2>1
  <2>2. CASE d \in With(Handled) /\ rows[d].status = "done" /\ rows'[d].print = rows[d].print
    <3>1. disk'[p] = disk[p]
      <4>1. CASE disk'[p] = Owned(p, edits + 1)
        BY <1>5, <2>0, <4>1 DEF Owned
      <4>2. ASSUME NEW r \in Ids, ClaimJob(r), disk'[p] = Encode(r, p) PROVE FALSE
        <5>1. r = d
          BY <1>5, <2>0, <4>2 DEF Encode
        <5> QED
          BY <2>2, <4>2, <5>1 DEF ClaimJob, With
      <4>3. ASSUME CleanUp, disk'[p] = Encode(cur, p) PROVE FALSE
        <5>1. cur = d
          BY <1>5, <2>0, <4>3 DEF Encode
        <5> QED
          BY <2>2, <4>3, <5>1 DEF CleanUp, Types, TurnInv, NoRow
      <4> QED
        BY <1>5, <2>0, <4>1, <4>2, <4>3, DiskStep DEF PathStep
    <3> QED
      BY <1>5, <2>0, <2>2, <3>1 DEF ContentInv
  <2> QED
    BY <1>5, <2>0, <2>1, <2>2, HandledStep
<1> QED
  BY <1>3, <1>4, <1>5 DEF ContentInv, Known, InPlace

\* What row d has dealt with.
DealtWithBy(d, c) == IF InPlace(d) /\ rows[d].status = "done" THEN c.by = d ELSE c = rows[d].print

\* A content written now is of no row that has been dealt with, and in no fingerprint.
LEMMA WrittenIsFresh ==
  ASSUME Types, ContentInv, [Next]_vars, NEW p \in Paths, PathStep(p), disk'[p] # NoFile, disk'[p] # disk[p],
         NEW d \in With(Handled)
  PROVE  ~DealtWithBy(d, disk'[p])
<1> DEFINE c == disk'[p]
<1>0. /\ d \in Ids /\ d \in Nat \ {0} /\ rows[d].status \in Handled
      /\ edits \in Nat /\ relaunches \in Nat
  BY RowsAre, IntakeAssumption DEF Types, TypeOK, With
<1>1. CASE OwnerActs(p) /\ c = Owned(p, edits + 1)
  <2>1. c.by = 0 /\ c.n = edits + 1 /\ c # NoFile
    BY <1>1 DEF Owned
  <2> QED
    BY <1>0, <2>1 DEF DealtWithBy, ContentInv, Known, KnownIn
<1>2. ASSUME NEW r \in Ids, ClaimJob(r), c = Encode(r, p) PROVE ~DealtWithBy(d, c)
  <2>1. /\ c.by = r /\ c.n = relaunches /\ c # NoFile /\ rows[r].status = "queued" /\ r # 0
    BY <1>2, RowsAre DEF Encode, ClaimJob, With, Types
  <2>2. c # rows[d].print
    BY <1>0, <2>1 DEF ContentInv, Known, KnownIn
  <2> QED
    BY <1>0, <2>1, <2>2 DEF DealtWithBy, Handled
<1>3. CASE CleanUp /\ JobInPlace /\ c = Encode(cur, p)
  <2>1. /\ c.by = cur /\ c.n = relaunches /\ c # NoFile /\ Replacing = cur /\ cur # 0
        /\ rows[cur].status \notin Handled
    BY <1>3, RowsAre DEF Encode, CleanUp, Replacing, Types, TurnInv, NoRow, Handled
  <2>2. c # rows[d].print
    BY <1>0, <2>1 DEF ContentInv, Known, KnownIn
  <2> QED
    BY <1>0, <2>1, <2>2 DEF DealtWithBy
<1> QED
  BY <1>1, <1>2, <1>3 DEF PathStep

\* Of two live rows the one that is booked did not deal with the source of the other.
LEMMA BookedApart ==
  ASSUME Types, SourceInv, ContentInv, NEW r \in With(Live), NEW d \in With(Live), r # d,
         disk[rows[r].src] # NoFile,
         NEW print \in {disk[rows[d].src], rows[d].print}
  PROVE  disk[rows[r].src] # print /\ (InPlace(d) => disk[rows[r].src].by # d)
<1>1. /\ rows[r] \in Row /\ rows[d] \in Row /\ r \in Ids /\ d \in Ids /\ d # 0
      /\ rows[r].src \in Paths /\ rows[d].src \in Paths /\ rows[d] # NoRow
  BY RowsAre DEF Types, With, NoRow, Live, Row
<1>2. rows[r].src # rows[d].src
  BY DEF SourceInv
<1>3. disk[rows[r].src].at = rows[r].src /\ Known(disk[rows[r].src])
  BY <1>1 DEF ContentInv
<1>4. print # NoFile => print.at = rows[d].src
  BY <1>1 DEF ContentInv
<1> QED
  BY <1>1, <1>2, <1>3, <1>4 DEF Known, KnownIn, InPlace

\* A source an insert does not skip was not dealt with.
LEMMA AddedIsFresh ==
  ASSUME Types, SourceInv, ContentInv, NEW a \in Adders, adds[a].at = "insert",
         ~CheapSkip(Head(adds[a].left), adds[a].known), disk[Head(adds[a].left)] # NoFile,
         NEW d \in With(Handled)
  PROVE  ~DealtWithBy(d, disk[Head(adds[a].left)])
<1> DEFINE p == Head(adds[a].left)
<1>1. p \in Paths /\ d <= adds[a].known /\ d \in Ids /\ d # 0 /\ rows[d] # NoRow
  BY CallsAre, RowsAre DEF Types, SourceInv, With, NoRow, Handled
<1>2. rows[d].print # disk[p]
  BY <1>1, NotSkipped
<1>3. disk[p].at = p /\ Known(disk[p])
  BY <1>1 DEF ContentInv
<1>4. ASSUME InPlace(d), rows[d].status = "done", disk[p].by = d PROVE FALSE
  <2>1. p = rows[d].src
    BY <1>1, <1>3, <1>4 DEF Known, KnownIn, InPlace
  <2> QED
    BY <1>2, <1>4, <2>1 DEF ContentInv
<1> QED
  BY <1>2, <1>4 DEF DealtWithBy

LEMMA StepFreshInv == Types /\ SourceInv /\ ContentInv /\ FreshInv /\ [Next]_vars => FreshInv'
<1> SUFFICES ASSUME Types, SourceInv, ContentInv, FreshInv, [Next]_vars,
                    NEW r \in With(Live)', disk'[rows'[r].src] # NoFile,
                    NEW d \in With(Handled)',
                    IF rows'[d].src = rows'[d].out /\ rows'[d].status = "done"
                      THEN disk'[rows'[r].src].by = d ELSE disk'[rows'[r].src] = rows'[d].print
             PROVE  FALSE
  BY DEF FreshInv, DealtWith, InPlace
<1> DEFINE p == rows'[r].src
<1>0. TypeOK /\ FreshInv /\ r \in Ids' /\ rows'[r].status \in Live
  BY DEF Types, With
<1>1. CASE RowsKept
  <2>1. r \in With(Live) /\ rows[r].src = p /\ p \in Paths
    BY <1>0, <1>1, LiveStays DEF Row
  <2>2. CASE d \in With(Handled) /\ rows'[d].status = rows[d].status /\ rows'[d].print = rows[d].print
             /\ rows'[d].src = rows[d].src /\ rows'[d].out = rows[d].out
    <3>1. DealtWithBy(d, disk'[p])
      BY <2>2 DEF DealtWithBy, InPlace
    <3>2. disk'[p] = disk[p]
      BY <2>1, <2>2, <3>1, DiskStep, WrittenIsFresh
    <3> QED
      BY <2>1, <2>2, <3>1, <3>2 DEF FreshInv, DealtWith, DealtWithBy
  <2>3. CASE Book /\ d = cur /\ rows[d].status = "encoding" /\ UNCHANGED disk /\ d \in Ids
             /\ rows'[d].print = (IF JobInPlace THEN disk[rows[d].src] ELSE rows[d].print)
             /\ rows'[d].src = rows[d].src /\ rows'[d].out = rows[d].out
    <3>1. d \in With(Live) /\ r # d
      BY <1>0, <2>3 DEF With, Live, Handled
    <3> QED
      BY <2>1, <2>3, <3>1, BookedApart DEF InPlace
  <2> QED
    BY <2>2, <2>3, HandledStep
<1>2. ASSUME NEW a \in Adders, Appended(a) PROVE FALSE
  <2> DEFINE n == Len(rows) + 1
  <2>1. /\ With(Live)' = With(Live) \cup {n} /\ rows'[n].src = Head(adds[a].left) /\ UNCHANGED disk
        /\ d \in With(Handled) /\ \A q \in Ids : rows'[q] = rows[q]
    BY <1>0, <1>2, RowAppended DEF Appended
  <2>2. DealtWithBy(d, disk[p])
    BY <2>1 DEF DealtWithBy, InPlace, With
  <2>3. CASE r \in With(Live)
    <3>1. rows[r].src = p
      BY <2>1, <2>3 DEF With
    <3> QED
      BY <2>1, <2>2, <2>3, <3>1 DEF FreshInv, DealtWith, DealtWithBy
  <2>4. CASE p = Head(adds[a].left)
    BY <1>2, <2>1, <2>2, <2>4, AddedIsFresh DEF Appended
  <2> HIDE DEF n
  <2> QED
    BY <2>1, <2>3, <2>4
<1> QED
  BY <1>1, <1>2, RowsStep

\* The source HandBrake starts to read was not dealt with.
LEMMA ClaimedIsFresh ==
  ASSUME FreshInv, NEW r \in Ids, ClaimJob(r), pc' = "encode"
  PROVE  ~DealtWith(disk[rows[r].src])
<1>1. r \in With(Live) /\ disk[rows[r].src] # NoFile
  BY DEF ClaimJob, With, Live, thread
<1> QED
  BY <1>1 DEF FreshInv

\* What a conversion has dealt with is not converted again while its history is there: neither the
\* result of an in-place job nor an original whose job is done, under either mode, whatever is
\* edited, removed or relaunched between the sources of an insert.  A batch is taken to name no path
\* twice, which an insert does not look at (cheap_skip_reason, fetch_skip_sets, record_source_identity).
THEOREM DealtWithOnce ==
  ASSUME BatchesAreSets
  PROVE  Spec => NothingIsConvertedTwice
<1> DEFINE Inv == Types /\ SourceInv /\ ContentInv /\ FreshInv
<1>1. Init => Inv
  <2>1. IsInjective(<<>>)
    BY DEF IsInjective
  <2>2. Init => SourceInv /\ FreshInv
    BY <2>1 DEF Init, SourceInv, FreshInv, With, Ids, IdleAdd
  <2>3. Init => ContentInv
    BY DEF Init, ContentInv, Known, KnownIn, Owned, With, Ids
  <2> QED
    BY <2>2, <2>3, InitTypes
<1>2. Inv /\ [Next]_vars => Inv'
  BY StepTypes, StepSourceInv, StepContentInv, StepFreshInv
<1>3. Inv => [\A r \in Ids : ClaimJob(r) /\ pc' = "encode" => ~DealtWith(disk[rows[r].src])]_vars
  BY ClaimedIsFresh
<1> QED
  BY <1>1, <1>2, <1>3, PTL DEF Spec, NothingIsConvertedTwice
=============================================================================
