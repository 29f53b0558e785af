--------------------------- MODULE DrainProofs ---------------------------
(***************************************************************************)
(* Theorems about what the end of a queue's drain sets off.                *)
(*                                                                         *)
(* DrainHook, for any jobs, mechanisms, batch size and history, any number *)
(* of edits and faults: no watermark passes what its mechanism did not     *)
(* take, and a mechanism that took all it was sent has no backlog when the *)
(* drain ends.                                                             *)
(*                                                                         *)
(* UpdaterDrain, for any set of versions and any number of jobs, user      *)
(* actions and crashes: types, what the user consented to, cancellation,   *)
(* the panel, and the call that undoes the drain it armed.                 *)
(***************************************************************************)
EXTENDS DrainHook, UpdaterDrain, FiniteSetTheorems, WellFoundedInduction, TLAPS

-----------------------------------------------------------------------------
(* The latest of some times.                                               *)

\* A set of times that is not empty has a latest: of the sets of later times one is the smallest.
LEMMA LatestExists ==
  ASSUME NEW N \in Nat, NEW S \in SUBSET (0..N), S # {}
  PROVE  Max(S) \in S /\ \A y \in S : y <= Max(S)
<1> DEFINE Later(x) == {y \in S : y > x}
           T == {Later(x) : x \in S}
<1>1. IsFiniteSet(S)
  <2>1. IsFiniteSet(0..N)
    BY FS_Interval
  <2> QED
    BY <2>1, FS_Subset
<1>2. IsWellFoundedOn(StrictSubsetOrdering(S), SUBSET S)
  BY <1>1, FS_StrictSubsetOrderingWellFounded, FS_FiniteSubsetsOfFinite
<1>3. T \subseteq SUBSET S /\ T # {}
  OBVIOUS
<1>4. \E t \in T : \A u \in T : <<u, t>> \notin StrictSubsetOrdering(S)
  <2> HIDE DEF T
  <2> QED
  BY <1>2, <1>3, WFMin
<1>5. PICK x \in S : \A u \in T : <<u, Later(x)>> \notin StrictSubsetOrdering(S)
  BY <1>4
<1>6. \A y \in S : y <= x
  <2> SUFFICES ASSUME NEW y \in S, y > x PROVE FALSE
    OBVIOUS
  <2>1. \A z \in S : z > y => z > x
    BY S \subseteq Int
  <2>2. y \in Later(x) /\ y \notin Later(y)
    BY S \subseteq Int
  <2>3. <<Later(y), Later(x)>> \in StrictSubsetOrdering(S)
    BY <2>1, <2>2 DEF StrictSubsetOrdering
  <2> QED
    BY <1>5, <2>3
<1> QED
  <2>1. \E z \in S : \A y \in S : z >= y
    BY <1>6, S \subseteq Int
  <2> QED
    BY <2>1, S \subseteq Int DEF Max

-----------------------------------------------------------------------------
(* The inductive invariant.                                                *)

Types ==
  /\ jobs \in [Jobs -> Row] /\ clock \in 0..MaxTime /\ unreachable \in SUBSET Jobs
  /\ pc = "encode" => job \in Jobs
  /\ watermark \in [Mechanisms -> 0..MaxTime]
  /\ took \in [Mechanisms -> SUBSET (Jobs \X Nat)]

\* Only what is booked has a time, and neither it nor a watermark lies in the future.
Times ==
  /\ \A j \in Jobs : /\ jobs[j].at <= clock
                     /\ jobs[j].status \in {"ended", "cleared"} <=> jobs[j].at # Never
  /\ \A m \in Mechanisms : watermark[m] <= clock

\* What an outage may put back shares its time with no other row.
Alone ==
  \A j \in unreachable, k \in Jobs :
    jobs[j].status = "ended" /\ k # j => jobs[k].at # jobs[j].at

\* A batch holds all that was completed between the watermark it was read with and its newest row.
Complete(rows, t) ==
  /\ rows \in SUBSET Jobs /\ rows # {}
  /\ \A j \in Completed :
       t < jobs[j].at /\ jobs[j].at <= Newest(rows) => j \in rows \/ TieTooLarge(jobs[j].at)

Loaded ==
  /\ pc \in {"send", "store"} /\ m0 \in Mechanisms => Complete(batch.rows, watermark[m0])
  /\ pc = "store" /\ m0 \in Mechanisms => Sent \subseteq took[m0]

IInv == Types /\ Times /\ Alone /\ Loaded /\ NothingPassedOver

-----------------------------------------------------------------------------
(* Batches.                                                                *)

LEMMA NewestRow ==
  ASSUME jobs \in [Jobs -> Row], NEW rows \in SUBSET Jobs, rows # {}
  PROVE  /\ \E k \in rows : Newest(rows) = jobs[k].at
         /\ \A j \in rows : jobs[j].at <= Newest(rows)
         /\ Newest(rows) \in 0..MaxTime
<1> DEFINE S == {jobs[j].at : j \in rows}
<1>1. S \in SUBSET (0..MaxTime) /\ S # {}
  BY DEF Row
<1>2. MaxTime \in Nat
  BY DrainHookAssumption
<1>3. Max(S) \in S /\ \A y \in S : y <= Max(S)
  <2> HIDE DEF S
  <2> QED
  BY <1>1, <1>2, LatestExists
<1> QED
  BY <1>1, <1>3 DEF Newest

\* The oldest rows of what is since t, short of those a full batch cuts apart, leave out nothing up to
\* their newest, unless it is a tie no batch can hold.
LEMMA OldestAreComplete ==
  ASSUME jobs \in [Jobs -> Row], NEW t \in 0..MaxTime, Since(t) # {},
         NEW B \in OldestOf(Since(t))
  PROVE  Complete(WithoutTies(B), t)
<1> DEFINE S == Since(t)
<1>1. S \in SUBSET Jobs /\ IsFiniteSet(S) /\ IsFiniteSet(Jobs)
  BY DrainHookAssumption, FS_Subset DEF Since, Completed
<1>2. Cardinality(S) \in Nat /\ Cardinality(S) # 0 /\ Batch \in Nat \ {0}
  BY <1>1, FS_CardinalityType, FS_EmptySet, DrainHookAssumption
<1>3. /\ B \in SUBSET S /\ \A j \in B, k \in S \ B : jobs[j].at <= jobs[k].at
      /\ Cardinality(B) = IF Cardinality(S) < Batch THEN Cardinality(S) ELSE Batch
  BY DEF OldestOf, kSubset
<1>4. IsFiniteSet(B) /\ Cardinality(B) # 0 /\ Cardinality(B) \in Nat
  BY <1>1, <1>2, <1>3, FS_Subset
<1>5. B # {}
  BY <1>4, FS_EmptySet
<1>6. \A j \in Jobs : jobs[j].at \in Int
  BY DEF Row
<1>7. /\ \E k \in B : Newest(B) = jobs[k].at
      /\ \A j \in B : jobs[j].at <= Newest(B)
      /\ Newest(B) \in Int
  BY <1>1, <1>3, <1>5, NewestRow
<1>8. \A j \in Completed : t < jobs[j].at => j \in S
  BY <1>6 DEF Since, Completed
<1> DEFINE earlier == {j \in B : jobs[j].at < Newest(B)}
<1>9. CASE Cardinality(B) >= Batch /\ earlier # {}
  <2>1. WithoutTies(B) = earlier
    BY <1>9 DEF WithoutTies
  <2>2. earlier \in SUBSET Jobs
    BY <1>1, <1>3
  <2>3. PICK k \in earlier : Newest(earlier) = jobs[k].at
    BY <1>9, <2>2, NewestRow
  <2>4. PICK n \in B : Newest(B) = jobs[n].at
    BY <1>7
  <2>5. ASSUME NEW j \in S, jobs[j].at <= Newest(earlier) PROVE j \in earlier
    <3>1. jobs[j].at < jobs[n].at
      BY <1>1, <1>3, <1>6, <2>3, <2>4, <2>5
    <3>2. j \in B
      BY <1>1, <1>3, <1>6, <2>4, <3>1
    <3> QED
      BY <3>1, <3>2, <2>4
  <2> QED
    BY <1>8, <1>9, <2>1, <2>2, <2>5 DEF Complete
<1>10. CASE ~(Cardinality(B) >= Batch /\ earlier # {})
  <2>1. WithoutTies(B) = B
    BY <1>10 DEF WithoutTies
  <2>2. ASSUME NEW j \in S \ B, jobs[j].at <= Newest(B) PROVE TieTooLarge(jobs[j].at)
    <3>1. Cardinality(B) = Batch
      <4>1. Cardinality(S) # Cardinality(B)
        BY <1>1, <1>3, <2>2, FS_Subset
      <4> QED
        BY <1>2, <1>3, <4>1
    <3>2. earlier = {}
      BY <1>2, <1>10, <3>1
    <3>3. \A k \in B : jobs[k].at = jobs[j].at
      BY <1>1, <1>3, <1>6, <1>7, <2>2, <3>2
    <3> DEFINE tied == {k \in Jobs : jobs[k].at = jobs[j].at}
    <3>4. B \cup {j} \in SUBSET tied /\ IsFiniteSet(tied)
      BY <1>1, <1>3, <3>3, FS_Subset
    <3>5. Cardinality(B \cup {j}) = Batch + 1
      BY <1>4, <2>2, <3>1, FS_AddElement
    <3>6. Cardinality(tied) >= Batch + 1 /\ Cardinality(tied) \in Nat
      <4> HIDE DEF tied
      <4>1. Cardinality(B \cup {j}) <= Cardinality(tied)
        BY <3>4, FS_Subset
      <4> QED
        BY <1>2, <3>4, <3>5, <4>1, FS_CardinalityType
    <3> QED
      BY <1>2, <3>6 DEF TieTooLarge
  <2> QED
    BY <1>1, <1>3, <1>5, <1>8, <2>1, <2>2 DEF Complete
<1> QED
  BY <1>9, <1>10

-----------------------------------------------------------------------------
(* Steps that leave the times alone.                                       *)

LEMMA SameTimes ==
  ASSUME jobs \in [Jobs -> Row], jobs' \in [Jobs -> Row],
         \A j \in Jobs : jobs'[j].at = jobs[j].at
  PROVE  /\ \A rows \in SUBSET Jobs : Newest(rows)' = Newest(rows)
         /\ \A t : TieTooLarge(t)' = TieTooLarge(t)
<1>1. ASSUME NEW rows \in SUBSET Jobs PROVE Newest(rows)' = Newest(rows)
  <2>1. {jobs'[j].at : j \in rows} = {jobs[j].at : j \in rows}
    OBVIOUS
  <2> QED
    BY <2>1 DEF Newest
<1>2. ASSUME NEW t PROVE TieTooLarge(t)' = TieTooLarge(t)
  <2>1. {j \in Jobs : jobs'[j].at = t} = {j \in Jobs : jobs[j].at = t}
    OBVIOUS
  <2> QED
    BY <2>1 DEF TieTooLarge
<1> QED
  BY <1>1, <1>2

LEMMA CompleteStays ==
  ASSUME jobs \in [Jobs -> Row], jobs' \in [Jobs -> Row],
         \A j \in Jobs : jobs'[j].at = jobs[j].at, Completed' \subseteq Completed,
         NEW rows, NEW t, Complete(rows, t)
  PROVE  Complete(rows, t)'
<1>1. rows \in SUBSET Jobs
  BY DEF Complete
<1>2. Newest(rows)' = Newest(rows) /\ \A n : TieTooLarge(n)' = TieTooLarge(n)
  BY <1>1, SameTimes
<1>3. \A j \in Completed' : j \in Jobs /\ j \in Completed
  BY DEF Completed
<1> QED
  BY <1>1, <1>2, <1>3 DEF Complete

LEMMA PassedStays ==
  ASSUME Types, NothingPassedOver, jobs' \in [Jobs -> Row],
         \A j \in Jobs : jobs'[j].at = jobs[j].at, Completed' \subseteq Completed,
         watermark' = watermark, \A m \in Mechanisms : took[m] \subseteq took'[m]
  PROVE  NothingPassedOver'
<1>1. \A n : TieTooLarge(n)' = TieTooLarge(n)
  BY SameTimes DEF Types
<1>2. \A j \in Completed' : j \in Jobs /\ j \in Completed
  BY DEF Completed
<1> QED
  BY <1>1, <1>2 DEF NothingPassedOver

\* A step of the queue or its user that books nothing: a row is added, taken, or cleared, and the
\* process may end.
LEMMA KeepsTimes ==
  ASSUME IInv, jobs' \in [Jobs -> Row],
         \A j \in Jobs : jobs'[j].at = jobs[j].at,
         \A j \in Jobs : jobs'[j].status = "ended" => jobs[j].status = "ended",
         \A j \in Jobs : jobs'[j].status \in {"ended", "cleared"} <=>
                         jobs[j].status \in {"ended", "cleared"},
         UNCHANGED <<clock, unreachable, watermark, took>>,
         pc' = "encode" => job' \in Jobs,
         pc' \notin {"send", "store"} \/ UNCHANGED <<pc, turn, batch>>
  PROVE  IInv'
<1>1. Types'
  BY DEF IInv, Types
<1>2. Times'
  BY DEF IInv, Types, Times
<1>3. Alone'
  BY DEF IInv, Types, Alone
<1>4. Completed' \subseteq Completed
  BY DEF Completed
<1>5. NothingPassedOver'
  BY <1>4, PassedStays DEF IInv
<1>6. Loaded'
  <2>1. CASE pc' \notin {"send", "store"}
    BY <2>1 DEF Loaded
  <2>2. CASE UNCHANGED <<pc, turn, batch>> /\ pc' \in {"send", "store"}
    <3>1. ASSUME m0 \in Mechanisms PROVE Complete(batch.rows, watermark[m0])'
      <4>1. Complete(batch.rows, watermark[m0])
        BY <2>2, <3>1 DEF IInv, Loaded
      <4> DEFINE rows == batch.rows
                 t == watermark[m0]
      <4>2. rows' = rows /\ t' = t
        BY <2>2 DEF m0
      <4>3. ASSUME NEW r, NEW u, Complete(r, u) PROVE Complete(r, u)'
        BY <1>4, <4>3, CompleteStays DEF IInv, Types
      <4> QED
        BY <4>1, <4>2, <4>3 DEF Complete
    <3>2. ASSUME m0 \in Mechanisms, pc = "store" PROVE Sent' \subseteq took'[m0]
      <4>1. Complete(batch.rows, watermark[m0]) /\ Sent \subseteq took[m0]
        BY <3>2 DEF IInv, Loaded
      <4>2. batch.rows \in SUBSET Jobs
        BY <4>1 DEF Complete
      <4>3. Sent' = Sent
        BY <2>2, <4>2 DEF Sent
      <4> QED
        BY <4>1, <4>3
    <3> QED
      BY <2>2, <3>1, <3>2 DEF Loaded, m0
  <2> QED
    BY <2>1, <2>2
<1> QED
  BY <1>1, <1>2, <1>3, <1>5, <1>6 DEF IInv

-----------------------------------------------------------------------------
(* Bookings.                                                               *)

\* A booking is later than every other time, so no tie and no watermark is concerned.
LEMMA Booked ==
  ASSUME IInv, NEW j \in Jobs, jobs[j].status = "encoding", Book(j),
         UNCHANGED <<watermark, took>>, unreachable' \in {unreachable, {j}},
         pc' = "encode" => job' \in Jobs, pc' \notin {"send", "store"}
  PROVE  IInv'
<1>1. MaxTime \in Nat
  BY DrainHookAssumption
<1>2. /\ jobs' \in [Jobs -> Row] /\ clock' \in 0..MaxTime /\ clock' = clock + 1
      /\ jobs'[j].at = clock + 1 /\ jobs'[j].status = "ended"
      /\ \A k \in Jobs \ {j} : jobs'[k] = jobs[k]
      /\ clock \in 0..MaxTime
      /\ \A k \in Jobs : jobs[k].at \in 0..MaxTime /\ jobs[k].at <= clock
  BY <1>1 DEF Book, Row, IInv, Types, Times
<1>3. jobs[j].at = 0
  BY DEF IInv, Times, Never
<1>4. Types'
  BY <1>2 DEF IInv, Types
<1>5. Times'
  <2>1. \A k \in Jobs : jobs'[k].at <= clock'
    BY <1>1, <1>2
  <2>2. \A k \in Jobs : jobs'[k].status \in {"ended", "cleared"} <=> jobs'[k].at # Never
    BY <1>1, <1>2 DEF IInv, Times, Never
  <2>3. \A m \in Mechanisms : watermark'[m] <= clock'
    BY <1>1, <1>2 DEF IInv, Types, Times
  <2> QED
    BY <2>1, <2>2, <2>3 DEF Times
<1>6. Alone'
  <2> SUFFICES ASSUME NEW i \in unreachable', NEW k \in Jobs, jobs'[i].status = "ended", k # i
               PROVE  jobs'[k].at # jobs'[i].at
    BY DEF Alone
  <2>1. i \in Jobs
    BY DEF IInv, Types
  <2>2. CASE i = j
    BY <1>1, <1>2, <2>2
  <2>3. CASE i # j
    <3>1. i \in unreachable /\ jobs[i].status = "ended"
      BY <1>2, <2>1, <2>3
    <3> QED
      BY <1>1, <1>2, <2>1, <2>3, <3>1 DEF IInv, Alone
  <2> QED
    BY <2>2, <2>3
<1>7. ASSUME NEW n \in 1..clock PROVE TieTooLarge(n)' = TieTooLarge(n)
  <2>1. {k \in Jobs : jobs'[k].at = n} = {k \in Jobs : jobs[k].at = n}
    BY <1>1, <1>2, <1>3
  <2> QED
    BY <2>1 DEF TieTooLarge
<1>8. NothingPassedOver'
  <2> SUFFICES ASSUME NEW m \in Mechanisms, NEW k \in Completed', jobs'[k].at <= watermark'[m]
               PROVE  (<<k, jobs[k].at>> \in took[m] \/ TieTooLarge(jobs[k].at))'
    BY DEF NothingPassedOver
  <2>1. k \in Jobs /\ watermark[m] \in 0..MaxTime /\ watermark[m] <= clock
    BY DEF Completed, IInv, Types, Times
  <2>2. k # j
    BY <1>1, <1>2, <2>1
  <2>3. k \in Completed /\ jobs[k].at \in 1..clock
    BY <1>1, <1>2, <2>1, <2>2 DEF Completed, IInv, Times, Never
  <2>4. <<k, jobs[k].at>> \in took[m] \/ TieTooLarge(jobs[k].at)
    BY <1>2, <2>1, <2>2, <2>3 DEF IInv, NothingPassedOver
  <2> QED
    BY <1>2, <1>7, <2>1, <2>2, <2>3, <2>4
<1> QED
  BY <1>4, <1>5, <1>6, <1>8 DEF IInv, Loaded

\* A start takes back the time of an outage's row, which was nobody else's.
LEMMA Started == ASSUME IInv, StartQueue PROVE IInv'
<1> DEFINE Back == {j \in unreachable : jobs[j].status = "ended"}
<1>1. MaxTime \in Nat /\ batch' = batch /\ pc' = "pass"
  BY DrainHookAssumption DEF StartQueue
<1>2. /\ jobs' \in [Jobs -> Row] /\ unreachable' = {} /\ clock' = clock
      /\ \A k \in Jobs \ Back : jobs'[k] = jobs[k]
      /\ \A k \in Back : jobs'[k].at = 0 /\ jobs'[k].status = "queued"
      /\ watermark' = watermark /\ took' = took
      /\ Back \subseteq Jobs
  BY <1>1 DEF StartQueue, Row, IInv, Types, Never
<1>3. Types' /\ Alone'
  BY <1>1, <1>2 DEF IInv, Types, Alone
<1>4. Times'
  <2>1. clock \in Nat /\ \A k \in Jobs : jobs[k].at \in Nat
    BY <1>1 DEF IInv, Types, Row
  <2> QED
    BY <1>2, <2>1 DEF IInv, Times, Never
<1>5. NothingPassedOver'
  <2> SUFFICES ASSUME NEW m \in Mechanisms, NEW k \in Completed', jobs'[k].at <= watermark'[m]
               PROVE  (<<k, jobs[k].at>> \in took[m] \/ TieTooLarge(jobs[k].at))'
    BY DEF NothingPassedOver
  <2>1. k \in Jobs \ Back /\ k \in Completed /\ jobs'[k] = jobs[k]
    BY <1>2 DEF Completed
  <2>2. jobs[k].at # 0
    BY <2>1 DEF Completed, IInv, Times, Never
  <2>3. {i \in Jobs : jobs'[i].at = jobs[k].at} = {i \in Jobs : jobs[i].at = jobs[k].at}
    <3>1. \A i \in Back : jobs[i].at # jobs[k].at
      BY <2>1 DEF IInv, Alone
    <3> QED
      BY <1>2, <2>2, <3>1
  <2>4. TieTooLarge(jobs[k].at)' = TieTooLarge(jobs[k].at)
    BY <2>1, <2>3 DEF TieTooLarge
  <2> QED
    BY <1>2, <2>1, <2>4 DEF IInv, NothingPassedOver
<1> QED
  BY <1>1, <1>3, <1>4, <1>5 DEF IInv, Loaded

-----------------------------------------------------------------------------
(* The drain.                                                              *)

\* Rows whose times, and so whose newest, stay the same.
LEMMA SameRows ==
  ASSUME jobs' = jobs
  PROVE  /\ Completed' = Completed
         /\ \A rows : Newest(rows)' = Newest(rows)
         /\ \A t : TieTooLarge(t)' = TieTooLarge(t)
         /\ \A rows, t : Complete(rows, t)' = Complete(rows, t)
         /\ batch' = batch => Sent' = Sent
BY DEF Completed, Newest, TieTooLarge, Complete, Sent

LEMMA LoadedBatch == ASSUME IInv, LoadJobsSince PROVE IInv'
<1> USE DEF LoadJobsSince
<1>1. CASE Since(watermark[m0]) = {}
  <2>1. pc' \in {"recheck", "load"}
    BY <1>1 DEF NextMechanism, ServeFrom
  <2> QED
    BY <1>1, <2>1, KeepsTimes DEF IInv, Types
<1>2. CASE Since(watermark[m0]) # {}
  <2>1. PICK B \in OldestOf(Since(watermark[m0])) :
          batch'.rows = WithoutTies(B) /\ pc' = "send" /\ turn' = turn
    BY <1>2
  <2>2. ASSUME m0 \in Mechanisms PROVE Complete(batch'.rows, watermark[m0])
    BY <1>2, <2>1, <2>2, OldestAreComplete DEF IInv, Types
  <2>3. Loaded'
    <3>1. m0' = m0 /\ watermark' = watermark /\ jobs' = jobs
      BY <2>1 DEF m0
    <3>2. ASSUME m0 \in Mechanisms PROVE Complete(batch.rows, watermark[m0])'
      <4>1. ASSUME NEW r, NEW u, Complete(r, u) PROVE Complete(r, u)'
        BY <3>1, <4>1, SameRows
      <4> QED
        BY <2>2, <3>1, <3>2, <4>1 DEF Complete
    <3> QED
      BY <2>1, <3>1, <3>2 DEF Loaded
  <2>4. Types' /\ Times' /\ Alone'
    BY <2>1 DEF IInv, Types, Times, Alone
  <2>5. NothingPassedOver'
    BY SameRows DEF IInv, NothingPassedOver
  <2> QED
    BY <2>3, <2>4, <2>5 DEF IInv
<1> QED
  BY <1>1, <1>2

LEMMA Delivered == ASSUME IInv, Dispatched PROVE IInv'
<1> USE DEF Dispatched
<1>1. jobs' = jobs /\ watermark' = watermark /\ pc = "send"
  OBVIOUS
<1>2. \A m \in Mechanisms : took[m] \subseteq took'[m]
  BY DEF IInv, Types
<1>3. took' \in [Mechanisms -> SUBSET (Jobs \X Nat)]
  <2>1. m0 \in Mechanisms => Sent \subseteq Jobs \X Nat
    <3>1. m0 \in Mechanisms => batch.rows \in SUBSET Jobs
      BY <1>1 DEF IInv, Loaded, Complete
    <3>2. MaxTime \in Nat
      BY DrainHookAssumption
    <3> QED
      BY <3>1, <3>2 DEF Sent, IInv, Types, Row
  <2> QED
    BY <2>1 DEF IInv, Types
<1>4. pc' # "encode" /\ (pc' \in {"send", "store"} => pc' = "store" /\ UNCHANGED <<turn, batch>>)
  BY DEF GiveUp, NextMechanism, ServeFrom
<1>5. Types' /\ Times' /\ Alone'
  BY <1>1, <1>3, <1>4 DEF IInv, Types, Times, Alone
<1>6. NothingPassedOver'
  <2>1. Completed' = Completed /\ \A t : TieTooLarge(t)' = TieTooLarge(t)
    BY <1>1, SameRows
  <2> QED
    BY <1>1, <1>2, <2>1 DEF IInv, NothingPassedOver
<1>7. Loaded'
  <2> SUFFICES ASSUME pc' = "store", UNCHANGED <<turn, batch>>, m0 \in Mechanisms
               PROVE  Complete(batch.rows, watermark[m0])' /\ Sent' \subseteq took'[m0]
    BY <1>4 DEF Loaded, m0
  <2>1. Complete(batch.rows, watermark[m0])
    BY <1>1 DEF IInv, Loaded
  <2>2. batch' = batch /\ m0' = m0
    BY DEF m0
  <2>3. Complete(batch.rows, watermark[m0])'
    BY <1>1, <2>1, <2>2, SameRows DEF Complete
  <2>4. Sent' = Sent /\ Sent \subseteq took'[m0]
    BY <1>1, <2>2, SameRows DEF IInv, Types
  <2> QED
    BY <2>3, <2>4
<1> QED
  BY <1>5, <1>6, <1>7 DEF IInv

LEMMA Stored == ASSUME IInv, StoreWatermark PROVE IInv'
<1> USE DEF StoreWatermark
<1>1. jobs' = jobs /\ clock' = clock /\ took' = took /\ unreachable' = unreachable
  OBVIOUS
<1>2. pc' \in {"load", "recheck"}
  BY DEF NextMechanism, ServeFrom
<1>3. CASE watermark' = watermark
  BY <1>1, <1>2, <1>3, KeepsTimes DEF IInv, Types
<1>4. CASE watermark' = [watermark EXCEPT ![m0] = Newest(batch.rows)]
  <2>1. CASE m0 \notin Mechanisms
    <3>1. watermark' = watermark
      BY <1>4, <2>1 DEF IInv, Types
    <3> QED
      BY <1>3, <3>1
  <2>2. CASE m0 \in Mechanisms
    <3>1. Complete(batch.rows, watermark[m0]) /\ Sent \subseteq took[m0]
      BY <2>2 DEF IInv, Loaded
    <3>2. batch.rows \in SUBSET Jobs /\ batch.rows # {}
      BY <3>1 DEF Complete
    <3>3. Newest(batch.rows) \in 0..MaxTime /\ \E k \in batch.rows : Newest(batch.rows) = jobs[k].at
      BY <3>2, NewestRow DEF IInv, Types
    <3>4. Types' /\ Alone'
      BY <1>1, <1>2, <1>4, <3>3 DEF IInv, Types, Alone
    <3>5. Times'
      BY <1>1, <1>4, <3>2, <3>3 DEF IInv, Types, Times
    <3>6. NothingPassedOver'
      <4> SUFFICES ASSUME NEW m \in Mechanisms, NEW j \in Completed, jobs[j].at <= watermark'[m]
                   PROVE  <<j, jobs[j].at>> \in took[m] \/ TieTooLarge(jobs[j].at)
        BY <1>1, SameRows DEF NothingPassedOver
      <4>1. CASE jobs[j].at <= watermark[m]
        BY <4>1 DEF IInv, NothingPassedOver
      <4>2. CASE ~(jobs[j].at <= watermark[m])
        <5>1. j \in Jobs /\ jobs[j].at \in Int /\ watermark[m] \in Int
          BY DEF Completed, IInv, Types, Row
        <5>2. m = m0 /\ watermark'[m] = Newest(batch.rows)
          BY <1>4, <2>2, <4>2 DEF IInv, Types
        <5>3. j \in batch.rows \/ TieTooLarge(jobs[j].at)
          BY <3>1, <4>2, <5>1, <5>2 DEF Complete
        <5> QED
          BY <3>1, <5>2, <5>3 DEF Sent
      <4> QED
        BY <4>1, <4>2
    <3> QED
      BY <1>2, <3>4, <3>5, <3>6 DEF IInv, Loaded
  <2> QED
    BY <2>1, <2>2
<1> QED
  BY <1>3, <1>4
-----------------------------------------------------------------------------
(* The theorem.                                                            *)

LEMMA Initially == ASSUME Init PROVE IInv
<1>1. MaxTime \in Nat /\ OldTimes \cup {0} \in SUBSET (0..MaxTime) /\ 0 \in OldTimes \cup {0}
  BY DrainHookAssumption
<1>2. clock \in 0..MaxTime /\ \A t \in OldTimes : t <= clock
  BY <1>1, LatestExists DEF Init
<1>3. PICK t \in [Jobs -> OldTimes] :
        jobs = [j \in Jobs |-> [status |-> IF t[j] = Never THEN "none" ELSE "ended", at |-> t[j]]]
  BY DEF Init
<1>4. /\ jobs \in [Jobs -> Row]
      /\ \A j \in Jobs : /\ jobs[j].at = t[j] /\ t[j] \in OldTimes
                         /\ jobs[j].status \in {"ended", "cleared"} <=> t[j] # Never
  BY <1>1, <1>3 DEF Row
<1>5. Types /\ Alone /\ Loaded
  BY <1>1, <1>2, <1>4 DEF Init, Types, Alone, Loaded, Never
<1>6. Times
  <2>1. \A m \in Mechanisms : watermark[m] <= clock
    BY <1>1, <1>2 DEF Init, Never
  <2>2. \A j \in Jobs : jobs[j].at <= clock
    BY <1>2, <1>4
  <2> QED
    BY <1>4, <2>1, <2>2 DEF Times
<1>7. NothingPassedOver
  <2> SUFFICES ASSUME NEW m \in Mechanisms, NEW j \in Completed PROVE ~(jobs[j].at <= watermark[m])
    BY DEF NothingPassedOver
  <2>1. j \in Jobs /\ jobs[j].status = "ended" /\ watermark[m] = 0
    BY DEF Completed, Init, Never
  <2>2. jobs[j].at # 0 /\ jobs[j].at \in Nat
    BY <1>1, <1>4, <2>1 DEF Row, Never
  <2> QED
    BY <2>1, <2>2
<1> QED
  BY <1>5, <1>6, <1>7 DEF IInv

LEMMA Stepwise == ASSUME IInv, [Next]_vars PROVE IInv'
<1> USE DEF thread
<1> DEFINE Kept == /\ \A j \in Jobs : jobs'[j].at = jobs[j].at
                   /\ \A j \in Jobs : jobs'[j].status = "ended" => jobs[j].status = "ended"
                   /\ \A j \in Jobs : jobs'[j].status \in {"ended", "cleared"} <=>
                                       jobs[j].status \in {"ended", "cleared"}
<1>1. jobs \in [Jobs -> Row] /\ (pc = "encode" => job \in Jobs)
  BY DEF IInv, Types
<1>2. ASSUME jobs' = jobs, UNCHANGED <<clock, unreachable, watermark, took>>,
             pc' = "encode" => UNCHANGED <<pc, job>>,
             pc' \notin {"send", "store"} \/ UNCHANGED <<pc, turn, batch>>
      PROVE  IInv'
  BY <1>1, <1>2, KeepsTimes
<1>3. CASE UNCHANGED vars
  BY <1>2, <1>3 DEF vars
<1>4. ASSUME NEW j \in Jobs, AddJob(j) PROVE IInv'
  <2>1. jobs' \in [Jobs -> Row] /\ Kept
    BY <1>1, <1>4 DEF AddJob, Row
  <2> QED
    BY <1>1, <1>4, <2>1, KeepsTimes DEF AddJob
<1>5. CASE StartQueue
  BY <1>5, Started
<1>6. CASE NextJob
  <2>1. CASE shutdown \/ With("queued") = {}
    BY <1>2, <1>6, <2>1 DEF NextJob
  <2>2. ASSUME NEW j \in With("queued"),
               job' = j, jobs' = [jobs EXCEPT ![j].status = "encoding"], pc' = "encode"
        PROVE  IInv'
    <3>1. jobs' \in [Jobs -> Row] /\ Kept /\ j \in Jobs
      BY <1>1, <2>2 DEF With, Row
    <3> QED
      BY <1>1, <1>6, <2>2, <3>1, KeepsTimes DEF NextJob
  <2> QED
    BY <1>6, <2>1, <2>2 DEF NextJob
<1>7. CASE JobEnds
  <2>1. CASE jobs[job].status = "encoding"
    BY <1>1, <1>7, <2>1, Booked DEF JobEnds
  <2>2. CASE jobs[job].status # "encoding"
    BY <1>2, <1>7, <2>2 DEF JobEnds
  <2> QED
    BY <2>1, <2>2
<1>8. CASE JobUnreachable
  BY <1>1, <1>8, Booked DEF JobUnreachable
<1>9. CASE Cancel
  BY <1>1, <1>9, Booked DEF Cancel
<1>10. CASE FireQueueDrained
  BY <1>2, <1>10 DEF FireQueueDrained, ServeFrom
<1>11. CASE LoadJobsSince
  BY <1>11, LoadedBatch
<1>12. CASE Dispatched
  BY <1>12, Delivered
<1>13. CASE Undelivered
  BY <1>2, <1>13 DEF Undelivered, GiveUp, NextMechanism, ServeFrom
<1>14. CASE StoreWatermark
  BY <1>14, Stored
<1>15. CASE StoreFails
  BY <1>2, <1>15 DEF StoreFails, GiveUp, NextMechanism, ServeFrom
<1>16. CASE Recheck
  BY <1>2, <1>16 DEF Recheck
<1>17. ASSUME NEW S \in SUBSET Mechanisms, Configure(S) PROVE IInv'
  BY <1>2, <1>17 DEF Configure
<1>18. CASE ClearHistory
  <2>1. jobs' \in [Jobs -> Row] /\ Kept
    BY <1>1, <1>18 DEF ClearHistory, Completed, Row
  <2> QED
    BY <1>1, <1>18, <2>1, KeepsTimes DEF ClearHistory
<1>19. CASE Quit
  BY <1>2, <1>19 DEF Quit
<1>20. CASE Relaunch
  <2>1. jobs' \in [Jobs -> Row] /\ Kept
    BY <1>1, <1>20 DEF Relaunch, Row
  <2> QED
    BY <1>1, <1>20, <2>1, KeepsTimes DEF Relaunch
<1> QED
  BY <1>3, <1>4, <1>5, <1>6, <1>7, <1>8, <1>9, <1>10, <1>11, <1>12, <1>13, <1>14, <1>15,
     <1>16, <1>17, <1>18, <1>19, <1>20 DEF Next, Thread

\* Whatever is refused, ends, is configured or booked in between, a mechanism's watermark passes no
\* completion that the mechanism did not take, short of a tie no batch can hold.
THEOREM NothingIsPassedOver == Spec => []NothingPassedOver
<1>1. Init => IInv
  BY Initially
<1>2. IInv /\ [Next]_vars => IInv'
  BY Stepwise
<1>3. IInv => NothingPassedOver
  BY DEF IInv
<1> QED
  BY <1>1, <1>2, <1>3, PTL DEF Spec

-----------------------------------------------------------------------------
(* What a drain leaves behind.                                             *)

Busy == pc \in {"load", "send", "store"}

\* Nothing completed is left that the mechanism has not taken, short of a tie too large.
Served(m) == \A j \in Completed : <<j, jobs[j].at>> \in took[m] \/ TieTooLarge(jobs[j].at)

\* Inductive: a mechanism that has refused nothing in this drain is served, or its turn is now or
\* yet to come; and a batch that was not cut holds all that is left.
ServedInv ==
  /\ configured \subseteq Mechanisms
  /\ Busy =>
       /\ turn \in 1..Len(AllMechanisms)
       /\ clean \subseteq cfg /\ cfg \subseteq Mechanisms
       /\ \A m \in clean : Served(m) \/ \E k \in turn..Len(AllMechanisms) : AllMechanisms[k] = m
  /\ pc \in {"send", "store"} =>
       /\ batch.rows \subseteq Jobs
       /\ \A j \in batch.rows : jobs[j].at > batch.from
       /\ ~batch.more => \A j \in Completed : jobs[j].at > watermark[m0] => j \in batch.rows

\* Inside the drain only the history shrinks and more is taken.
LEMMA ServedFrame ==
  ASSUME Types, ServedInv, configured' \subseteq Mechanisms,
         Busy' => /\ UNCHANGED <<pc, cfg, turn, batch, clean, watermark, took>>
                  /\ \A j \in Jobs : jobs'[j].at = jobs[j].at
                  /\ \A j \in Jobs : jobs'[j].status = "ended" => jobs[j].status = "ended"
  PROVE  ServedInv'
<1>1. CASE ~Busy'
  BY <1>1 DEF ServedInv, Busy
<1>2. CASE Busy'
  <2>1. /\ Completed' \subseteq Completed /\ Completed \subseteq Jobs
        /\ \A t : TieTooLarge(t)' = TieTooLarge(t)
    <3>1. \A t : {j \in Jobs : jobs'[j].at = t} = {j \in Jobs : jobs[j].at = t}
      BY <1>2
    <3> QED
      BY <1>2, <3>1 DEF Completed, TieTooLarge
  <2>2. \A m \in clean : Served(m) => Served(m)'
    BY <1>2, <2>1 DEF Served
  <2>3. m0' = m0
    BY <1>2 DEF m0
  <2> QED
    BY <1>2, <2>1, <2>2, <2>3 DEF ServedInv, Busy
<1> QED
  BY <1>1, <1>2

\* The loop over the mechanisms passes over none that was found configured.
LEMMA ServesOn ==
  ASSUME NEW i \in 1..(Len(AllMechanisms) + 1), NEW those \in SUBSET Mechanisms, ServeFrom(i, those)
  PROVE  /\ pc' \in {"load", "recheck"}
         /\ pc' = "load" => turn' \in i..Len(AllMechanisms) /\ cfg' = those
         /\ \A k \in i..Len(AllMechanisms) : AllMechanisms[k] \in those =>
              pc' = "load" /\ \E l \in turn'..Len(AllMechanisms) : AllMechanisms[l] = AllMechanisms[k]
<1> DEFINE left == {k \in i..Len(AllMechanisms) : AllMechanisms[k] \in those}
<1>1. Len(AllMechanisms) \in Nat
  BY DrainHookAssumption
<1>2. CASE left = {} /\ pc' = "recheck"
  BY <1>2
<1>3. ASSUME NEW k \in left, \A l \in left : k <= l, pc' = "load", cfg' = those, turn' = k
      PROVE  /\ pc' = "load" /\ turn' \in i..Len(AllMechanisms) /\ cfg' = those
             /\ \A n \in i..Len(AllMechanisms) : AllMechanisms[n] \in those =>
                  \E l \in turn'..Len(AllMechanisms) : AllMechanisms[l] = AllMechanisms[n]
  <2> SUFFICES ASSUME NEW n \in i..Len(AllMechanisms), AllMechanisms[n] \in those
               PROVE  n \in turn'..Len(AllMechanisms)
    BY <1>3
  <2>1. n \in left
    OBVIOUS
  <2>2. k \in Int /\ n \in Int /\ k <= n
    BY <1>1, <1>3, <2>1
  <2> QED
    BY <1>1, <1>3, <2>2
<1> QED
  BY <1>2, <1>3 DEF ServeFrom

\* A mechanism has a turn in the order of dispatch.
LEMMA HasTurn ==
  ASSUME NEW m \in Mechanisms
  PROVE  \E k \in 1..Len(AllMechanisms) : AllMechanisms[k] = m
<1>1. AllMechanisms \in Seq(Mechanisms) /\ Range(AllMechanisms) = Mechanisms
  BY DrainHookAssumption
<1> QED
  BY <1>1 DEF Range

\* A mechanism is done with: it is served, or it is not clean any more.
LEMMA NextServed ==
  ASSUME Types, ServedInv, Busy, NextMechanism, jobs' = jobs, configured' = configured,
         \A m \in Mechanisms : took[m] \subseteq took'[m],
         clean' \subseteq clean, \A m \in clean' : m = m0 => Served(m)
  PROVE  ServedInv' /\ (pc' = "recheck" => \A m \in clean' : Served(m))
<1>1. /\ Len(AllMechanisms) \in Nat /\ turn \in 1..Len(AllMechanisms)
      /\ clean \subseteq cfg /\ cfg \subseteq Mechanisms
      /\ \A m \in clean : Served(m) \/ \E k \in turn..Len(AllMechanisms) : AllMechanisms[k] = m
  BY DrainHookAssumption DEF ServedInv
<1>2. turn + 1 \in 1..(Len(AllMechanisms) + 1)
  BY <1>1
<1>3. ServeFrom(turn + 1, cfg)
  BY DEF NextMechanism
<1>4. /\ pc' \in {"load", "recheck"}
      /\ pc' = "load" => turn' \in (turn + 1)..Len(AllMechanisms) /\ cfg' = cfg
      /\ \A k \in (turn + 1)..Len(AllMechanisms) : AllMechanisms[k] \in cfg =>
           pc' = "load" /\ \E l \in turn'..Len(AllMechanisms) : AllMechanisms[l] = AllMechanisms[k]
  BY <1>1, <1>2, <1>3, ServesOn
<1>5. ASSUME NEW m \in clean', ~Served(m)
      PROVE  pc' = "load" /\ \E l \in turn'..Len(AllMechanisms) : AllMechanisms[l] = m
  <2>1. PICK k \in turn..Len(AllMechanisms) : AllMechanisms[k] = m
    BY <1>1, <1>5
  <2>2. k # turn
    BY <1>5, <2>1 DEF m0
  <2>3. k \in (turn + 1)..Len(AllMechanisms) /\ m \in cfg
    BY <1>1, <2>1, <2>2
  <2> QED
    BY <1>4, <2>1, <2>3
<1>6. \A m \in Mechanisms : Served(m) => Served(m)'
  BY SameRows DEF Served
<1>7. pc' = "load" => turn' \in 1..Len(AllMechanisms)
  BY <1>1, <1>4
<1> QED
  BY <1>1, <1>4, <1>5, <1>6, <1>7 DEF ServedInv, Busy

\* A batch that is not full is all there is since its watermark.
LEMMA BatchSince ==
  ASSUME jobs \in [Jobs -> Row], NEW t \in 0..MaxTime, NEW B \in OldestOf(Since(t))
  PROVE  /\ WithoutTies(B) \subseteq Since(t)
         /\ Cardinality(B) < Batch => WithoutTies(B) = Since(t)
<1> DEFINE S == Since(t)
<1>1. S \in SUBSET Jobs /\ IsFiniteSet(S)
  BY DrainHookAssumption, FS_Subset DEF Since, Completed
<1>2. Cardinality(S) \in Nat /\ Batch \in Nat \ {0}
  BY <1>1, FS_CardinalityType, DrainHookAssumption
<1>3. /\ B \in SUBSET S
      /\ Cardinality(B) = IF Cardinality(S) < Batch THEN Cardinality(S) ELSE Batch
  BY DEF OldestOf, kSubset
<1>4. WithoutTies(B) \subseteq B
  BY DEF WithoutTies
<1>5. ASSUME Cardinality(B) < Batch PROVE WithoutTies(B) = B /\ B = S
  <2>1. Cardinality(B) = Cardinality(S)
    BY <1>2, <1>3, <1>5
  <2>2. B = S
    BY <1>1, <1>3, <2>1, FS_Subset
  <2>3. ~(Cardinality(B) >= Batch)
    BY <1>2, <1>5, <2>1
  <2> QED
    BY <2>2, <2>3 DEF WithoutTies
<1> QED
  BY <1>3, <1>4, <1>5

LEMMA LoadServed ==
  ASSUME IInv, ServedInv, LoadJobsSince
  PROVE  ServedInv' /\ (pc' = "recheck" => \A m \in clean' : Served(m))
<1> USE DEF LoadJobsSince
<1>1. Busy /\ jobs' = jobs /\ UNCHANGED <<configured, clean, took, watermark>> /\ m0 \in Mechanisms
  <2>1. Busy /\ jobs' = jobs /\ UNCHANGED <<configured, clean, took, watermark>>
    BY DEF Busy
  <2>2. turn \in 1..Len(AllMechanisms)
    BY <2>1 DEF ServedInv
  <2> QED
    BY <2>1, <2>2, DrainHookAssumption DEF m0
<1>2. CASE Since(watermark[m0]) = {}
  <2>1. Served(m0)
    <3>1. watermark[m0] \in Int /\ \A j \in Completed : jobs[j].at \in Int
      BY <1>1 DEF IInv, Types, Row, Completed
    <3>2. \A j \in Completed : jobs[j].at <= watermark[m0]
      BY <1>2, <3>1 DEF Since
    <3> QED
      BY <1>1, <3>2 DEF IInv, NothingPassedOver, Served
  <2>2. NextMechanism
    BY <1>2
  <2> QED
    BY <1>1, <2>1, <2>2, NextServed DEF IInv
<1>3. CASE Since(watermark[m0]) # {}
  <2>1. PICK B \in OldestOf(Since(watermark[m0])) :
          /\ batch' = [rows |-> WithoutTies(B), from |-> watermark[m0], more |-> Cardinality(B) >= Batch]
          /\ pc' = "send" /\ UNCHANGED <<cfg, turn>>
    BY <1>3
  <2>2. /\ WithoutTies(B) \subseteq Since(watermark[m0])
        /\ Cardinality(B) < Batch => WithoutTies(B) = Since(watermark[m0])
    BY <1>1, BatchSince DEF IInv, Types
  <2>3. Cardinality(B) \in Nat /\ Batch \in Nat
    <3>1. IsFiniteSet(Since(watermark[m0]))
      BY DrainHookAssumption, FS_Subset DEF Since, Completed
    <3>2. B \subseteq Since(watermark[m0])
      BY DEF OldestOf, kSubset
    <3> QED
      BY <3>1, <3>2, FS_Subset, FS_CardinalityType, DrainHookAssumption
  <2>4. m0' = m0 /\ Completed' = Completed
    BY <1>1, <2>1, SameRows DEF m0
  <2>5. batch'.rows \subseteq Jobs /\ \A j \in batch'.rows : jobs'[j].at > batch'.from
    BY <1>1, <2>1, <2>2 DEF Since, Completed
  <2>6. ~batch'.more => \A j \in Completed' : jobs'[j].at > watermark'[m0'] => j \in batch'.rows
    <3> DEFINE n == Cardinality(B)
    <3>1. /\ ~batch'.more => ~(n >= Batch)
          /\ batch'.rows = WithoutTies(B) /\ watermark' = watermark
      BY <1>1, <2>1
    <3>2. SUFFICES ASSUME ~batch'.more, NEW j \in Completed, jobs[j].at > watermark[m0]
                   PROVE  j \in WithoutTies(B)
      BY <1>1, <2>4, <3>1
    <3>3. n < Batch
      <4>1. n \in Nat /\ Batch \in Nat /\ ~(n >= Batch)
        BY <2>3, <3>1, <3>2
      <4> HIDE DEF n
      <4> QED
        BY <4>1
    <3>4. j \in Since(watermark[m0])
      BY <3>2 DEF Since
    <3> QED
      BY <2>2, <3>3, <3>4
  <2>7. \A m \in Mechanisms : Served(m) => Served(m)'
    BY <1>1, SameRows DEF Served
  <2> QED
    BY <1>1, <2>1, <2>5, <2>6, <2>7 DEF ServedInv, Busy
<1> QED
  BY <1>2, <1>3

LEMMA SentServed ==
  ASSUME IInv, ServedInv, Dispatched \/ Undelivered \/ StoreFails
  PROVE  ServedInv' /\ (pc' = "recheck" => \A m \in clean' : Served(m))
<1>1. /\ Busy /\ pc \in {"send", "store"} /\ UNCHANGED <<jobs, configured, watermark>>
      /\ \A m \in Mechanisms : took[m] \subseteq took'[m]
      /\ GiveUp \/ (pc' = "store" /\ UNCHANGED <<cfg, turn, batch, clean>>)
  BY DEF Dispatched, Undelivered, StoreFails, Busy, IInv, Types
<1>2. CASE GiveUp
  BY <1>1, <1>2, NextServed DEF GiveUp, IInv
<1>3. CASE pc' = "store" /\ UNCHANGED <<cfg, turn, batch, clean>>
  <2>1. \A m \in Mechanisms : Served(m) => Served(m)'
    BY <1>1, SameRows DEF Served
  <2>2. m0' = m0 /\ Completed' = Completed
    BY <1>1, <1>3, SameRows DEF m0
  <2> QED
    BY <1>1, <1>3, <2>1, <2>2 DEF ServedInv, Busy
<1> QED
  BY <1>1, <1>2, <1>3

LEMMA StoreServed ==
  ASSUME IInv, ServedInv, StoreWatermark
  PROVE  ServedInv' /\ (pc' = "recheck" => \A m \in clean' : Served(m))
<1> USE DEF StoreWatermark
<1>1. /\ Busy /\ pc = "store" /\ UNCHANGED <<jobs, configured, clean, took>>
      /\ turn \in 1..Len(AllMechanisms)
  BY DEF Busy, ServedInv
<1>2. m0 \in Mechanisms
  BY <1>1, DrainHookAssumption DEF m0
<1>3. /\ Complete(batch.rows, watermark[m0]) /\ Sent \subseteq took[m0]
      /\ batch.rows \in SUBSET Jobs /\ batch.rows # {}
  BY <1>1, <1>2 DEF IInv, Loaded, Complete
<1>4. Newest(batch.rows) # batch.from
  <2>1. PICK k \in batch.rows : Newest(batch.rows) = jobs[k].at
    BY <1>3, NewestRow DEF IInv, Types
  <2>2. jobs[k].at > batch.from
    BY <1>1, <2>1 DEF ServedInv
  <2>3. jobs[k].at \in Nat /\ Newest(batch.rows) = jobs[k].at
    BY <1>3, <2>1 DEF IInv, Types, Row
  <2> QED
    BY <2>2, <2>3
<1>5. CASE batch.more
  <2>1. pc' = "load" /\ UNCHANGED <<cfg, turn>>
    BY <1>4, <1>5
  <2>2. \A m \in Mechanisms : Served(m) => Served(m)'
    BY <1>1, SameRows DEF Served
  <2> QED
    BY <1>1, <2>1, <2>2 DEF ServedInv, Busy
<1>6. CASE ~batch.more
  <2>1. NextMechanism
    BY <1>4, <1>6
  <2>2. Served(m0)
    <3> SUFFICES ASSUME NEW j \in Completed
                 PROVE  <<j, jobs[j].at>> \in took[m0] \/ TieTooLarge(jobs[j].at)
      BY DEF Served
    <3>1. watermark[m0] \in Int /\ jobs[j].at \in Int
      BY <1>2 DEF IInv, Types, Row, Completed
    <3>2. jobs[j].at <= watermark[m0] \/ j \in batch.rows
      BY <1>1, <1>6, <3>1 DEF ServedInv
    <3>3. j \in batch.rows => <<j, jobs[j].at>> \in took[m0]
      BY <1>3 DEF Sent
    <3> QED
      BY <1>2, <3>2, <3>3 DEF IInv, NothingPassedOver
  <2> QED
    BY <1>1, <2>1, <2>2, NextServed DEF IInv
<1> QED
  BY <1>5, <1>6

\* A drain begins with every configured mechanism to come, in the order of dispatch.
LEMMA FireServed ==
  ASSUME ServedInv, FireQueueDrained
  PROVE  ServedInv' /\ (pc' = "recheck" => \A m \in clean' : Served(m))
<1> USE DEF FireQueueDrained
<1>1. ServeFrom(1, configured) /\ clean' = configured /\ configured' = configured
      /\ configured \subseteq Mechanisms
  BY DEF ServedInv
<1>2. 1 \in 1..(Len(AllMechanisms) + 1)
  BY DrainHookAssumption
<1>3. /\ pc' \in {"load", "recheck"}
      /\ pc' = "load" => turn' \in 1..Len(AllMechanisms) /\ cfg' = configured
      /\ \A k \in 1..Len(AllMechanisms) : AllMechanisms[k] \in configured =>
           pc' = "load" /\ \E l \in turn'..Len(AllMechanisms) : AllMechanisms[l] = AllMechanisms[k]
  BY <1>1, <1>2, ServesOn
<1>4. ASSUME NEW m \in configured
      PROVE  pc' = "load" /\ \E l \in turn'..Len(AllMechanisms) : AllMechanisms[l] = m
  <2>1. PICK k \in 1..Len(AllMechanisms) : AllMechanisms[k] = m
    BY <1>1, HasTurn
  <2> QED
    BY <1>3, <2>1
<1> QED
  BY <1>1, <1>3, <1>4 DEF ServedInv, Busy

\* The drain comes to its end only by a mechanism that is done with.
LEMMA ServedStep ==
  ASSUME IInv, ServedInv, [Next]_vars
  PROVE  /\ ServedInv'
         /\ pc \notin {"recheck", "off"} /\ pc' = "recheck" => \A m \in clean' : Served(m)
<1> USE DEF thread
<1>1. jobs \in [Jobs -> Row] /\ configured \subseteq Mechanisms /\ Types
  BY DEF IInv, Types, ServedInv
<1>2. CASE LoadJobsSince \/ Dispatched \/ Undelivered \/ StoreFails \/ StoreWatermark \/ FireQueueDrained
  BY <1>2, LoadServed, SentServed, StoreServed, FireServed
<1>3. CASE \/ UNCHANGED vars \/ (\E S \in SUBSET Mechanisms : Configure(S)) \/ Quit
  BY <1>1, <1>3, ServedFrame DEF vars, Configure, Quit, Busy
<1>4. CASE NextJob \/ JobEnds \/ JobUnreachable \/ Recheck \/ StartQueue \/ Cancel \/ Relaunch
  <2>1. ~Busy' /\ configured' = configured /\ (pc' = "recheck" => pc = "recheck")
    BY <1>4 DEF NextJob, JobEnds, JobUnreachable, Recheck, StartQueue, Cancel, Relaunch, Busy
  <2> QED
    BY <1>1, <2>1, ServedFrame
<1>5. CASE (\E j \in Jobs : AddJob(j)) \/ ClearHistory
  <2>1. /\ UNCHANGED <<pc, cfg, turn, batch, clean, watermark, took, configured>>
        /\ \A j \in Jobs : jobs'[j].at = jobs[j].at
        /\ \A j \in Jobs : jobs'[j].status = "ended" => jobs[j].status = "ended"
    BY <1>1, <1>5 DEF AddJob, ClearHistory, Completed, Row
  <2> QED
    BY <1>1, <2>1, ServedFrame
<1> QED
  BY <1>2, <1>3, <1>4, <1>5 DEF Next, Thread

\* However large its backlog, a mechanism that takes all a drain sends it has none when the drain
\* ends, whatever became of the others; clearing the history or quitting meanwhile changes nothing.
THEOREM DrainLeavesNoBacklog == Spec => DrainServesEach
<1>1. Init => ServedInv
  BY DEF Init, ServedInv, Busy
<1>2. IInv /\ ServedInv /\ [Next]_vars => ServedInv'
  BY ServedStep
<1>3. IInv /\ ServedInv /\ [Next]_vars =>
        [(pc \notin {"recheck", "off"} /\ pc' = "recheck") =>
           \A m \in clean', j \in Completed :
             <<j, jobs[j].at>> \in took[m] \/ TieTooLarge(jobs[j].at)]_vars
  BY ServedStep DEF Served
<1> QED
  BY Initially, Stepwise, <1>1, <1>2, <1>3, PTL DEF Spec, DrainServesEach

-----------------------------------------------------------------------------
(* The updater that waits for the drain: types.                            *)

\* No deferral, a deferral, and what is known of either.
LEMMA NoPendingType ==
  /\ NoPending \in PendingInstall
  /\ NoPending.version = NoVersion /\ ~NoPending.user_requested
BY DEF PendingInstall, NoPending

LEMMA PendingType ==
  ASSUME NEW v \in Versions, NEW u \in BOOLEAN
  PROVE  [version |-> v, user_requested |-> u] \in PendingInstall
BY DEF PendingInstall

LEMMA PendingFields ==
  ASSUME NEW p \in PendingInstall
  PROVE  p.version \in Versions \cup {NoVersion} /\ p.user_requested \in BOOLEAN
BY DEF PendingInstall

\* The counters stay within their bounds.
LEMMA Counters ==
  /\ 0 \in Rows /\ 0 \in UserActs /\ 0 \in Deaths
  /\ \A n \in Rows : (n > 0 => n - 1 \in Rows) /\ (n < MaxQueued => n + 1 \in Rows)
  /\ \A n \in UserActs : n < MaxActs => n + 1 \in UserActs
  /\ \A n \in Deaths : n < MaxDeaths => n + 1 \in Deaths
BY UpdaterAssumption DEF Rows, UserActs, Deaths

\* The values the code assigns, each in its range.
LEMMA Names ==
  /\ "Idle" \in Statuses /\ "Checking" \in Statuses /\ "Available" \in Statuses
     /\ "Downloading" \in Statuses /\ "WaitingForIdle" \in Statuses
     /\ "ReadyToRestart" \in Statuses /\ "Error" \in Statuses
  /\ "none" \in OpPcs /\ "check" \in OpPcs /\ "drain" \in OpPcs /\ "mark" \in OpPcs
     /\ "recheck" \in OpPcs /\ "register" \in OpPcs /\ "download" \in OpPcs
     /\ "gate" \in OpPcs /\ "deferred" \in OpPcs /\ "await" \in OpPcs
     /\ "install" \in OpPcs /\ "drop" \in OpPcs /\ "clear" \in OpPcs /\ "undo" \in OpPcs
     /\ "start" \in OpPcs
  /\ "idle" \in QueuePcs /\ "encode" \in QueuePcs /\ "taken" \in QueuePcs
     /\ "stopped" \in QueuePcs
  /\ "none" \in Askers /\ "user" \in Askers /\ "drain" \in Askers
  /\ "none" \in Cancellations /\ "heard" \in Cancellations
     /\ "overwritten" \in Cancellations /\ "late" \in Cancellations
  /\ "manual" \in Cycles /\ \A m \in Modes : m # "off" => m \in Cycles
  /\ "UserRequested" \in Triggers /\ "Retry" \in Triggers
BY DEF Statuses, OpPcs, QueuePcs, Askers, Cancellations, Cycles, Triggers, Modes

\* The steps several actions share.
LEMMA UnpauseTypes ==
  UnpauseQueue => queuePaused' \in BOOLEAN /\ drainMark' \in BOOLEAN /\ why' \in Askers
BY Names DEF UnpauseQueue

LEMMA TakeTypes ==
  why \in Askers /\ TakeDrainPause =>
    queuePaused' \in BOOLEAN /\ drainMark' \in BOOLEAN /\ why' \in Askers
BY Names DEF TakeDrainPause

LEMMA GoOnTypes == queued \in Rows /\ GoOn => qpc' \in QueuePcs /\ queued' \in Rows
BY Names, Counters DEF GoOn

LEMMA TypeInit == UpdaterInit => UpdaterTypeOK
BY Counters, NoPendingType, Names DEF UpdaterInit, UpdaterTypeOK

LEMMA TypeQueue == UpdaterTypeOK /\ (Queue \/ UserOnQueue) => UpdaterTypeOK'
<1> SUFFICES ASSUME UpdaterTypeOK, Queue \/ UserOnQueue PROVE UpdaterTypeOK'
  OBVIOUS
<1> USE Counters, NoPendingType, Names DEF UpdaterTypeOK, persisted, panel, op, queue, process,
                                           blame, consent, LowerFlag, UserPausesQueue, Act
<1>1. CASE JobCompletes
  <2>1. CASE pauseAfter
    BY <1>1, <2>1 DEF JobCompletes
  <2>2. CASE ~pauseAfter
    BY <1>1, <2>2, GoOnTypes DEF JobCompletes
  <2> QED BY <2>1, <2>2
<1>2. CASE JobFails
  BY <1>2, GoOnTypes DEF JobFails
<1>3. CASE PauseLands
  BY <1>3 DEF PauseLands
<1>4. CASE QueueUnwinds
  BY <1>4 DEF QueueUnwinds
<1>5. CASE AddAndStart
  <2>1. CASE MayClaim
    BY <1>5, <2>1, UnpauseTypes DEF AddAndStart
  <2>2. CASE ~MayClaim
    BY <1>5, <2>2 DEF AddAndStart
  <2> QED BY <2>1, <2>2
<1>6. CASE PressStart
  <2>1. CASE queued > 0
    BY <1>6, <2>1, UnpauseTypes, GoOnTypes DEF PressStart
  <2>2. CASE ~(queued > 0)
    BY <1>6, <2>2, UnpauseTypes, GoOnTypes DEF PressStart
  <2> QED BY <2>1, <2>2
<1>7. CASE Pause \/ Resume
  BY <1>7, UnpauseTypes DEF Pause, Resume
<1>8. CASE CancelConversion
  BY <1>8, UnpauseTypes, GoOnTypes DEF CancelConversion
<1>9. CASE PauseAfterCurrent \/ CancelPauseAfterCurrent
  BY <1>9 DEF PauseAfterCurrent, CancelPauseAfterCurrent
<1> QED BY <1>1, <1>2, <1>3, <1>4, <1>5, <1>6, <1>7, <1>8, <1>9 DEF Queue, UserOnQueue

LEMMA TypePanel == UpdaterTypeOK /\ (UserOnPanel \/ Scheduler) => UpdaterTypeOK'
<1> SUFFICES ASSUME UpdaterTypeOK, UserOnPanel \/ Scheduler PROVE UpdaterTypeOK'
  OBVIOUS
<1> USE Counters, NoPendingType, Names DEF UpdaterTypeOK, persisted, panel, op, queue, process,
                                           blame, consent, Act, Begin, InstallSteps, Drops
<1>1. CASE \E m \in Modes : SetMode(m)
  BY <1>1 DEF SetMode, DropBecauseOfMode, KeepThroughMode
<1>2. CASE Skip
  <2>1. CASE PendingMatches(available)
    BY <1>2, <2>1 DEF Skip
  <2>2. CASE ~PendingMatches(available)
    BY <1>2, <2>2 DEF Skip
  <2> QED BY <2>1, <2>2
<1>3. CASE CheckNow
  BY <1>3 DEF CheckNow
<1>4. CASE PressInstall
  BY <1>4 DEF PressInstall
<1>5. CASE Tick \/ CycleRefused
  BY <1>5 DEF Tick, CycleRefused
<1>6. CASE CycleBegins
  BY <1>6 DEF CycleBegins
<1>7. CASE Retry
  BY <1>7, PendingFields DEF Retry
<1> QED BY <1>1, <1>2, <1>3, <1>4, <1>5, <1>6, <1>7 DEF UserOnPanel, Scheduler

LEMMA TypeOperation == UpdaterTypeOK /\ Operation => UpdaterTypeOK'
<1> SUFFICES ASSUME UpdaterTypeOK, Operation PROVE UpdaterTypeOK'
  OBVIOUS
<1> USE Counters, NoPendingType, Names DEF UpdaterTypeOK, persisted, panel, op, queue, process,
                                           blame, consent, At, Goto, GiveUpInstall, EndCycle,
                                           Abandon, LowerFlag
<1>1. CASE CheckReturns
  <2> USE <1>1 DEF CheckReturns
  <2>1. CASE CheckFails \/ CheckFindsNothing
    BY <2>1 DEF CheckFails, CheckFindsNothing
  <2>2. ASSUME NEW v \in Versions, CheckFinds(v) PROVE UpdaterTypeOK'
    <3> USE <2>2 DEF CheckFinds, CycleAt
    <3>1. CASE Outcome(v) = "Nothing"
      BY <3>1
    <3>2. CASE Outcome(v) = "Notify"
      BY <3>2
    <3>3. CASE Outcome(v) = "Install"
      <4>1. pending' \in PendingInstall
        BY <3>3, PendingType
      <4> QED BY <3>3, <4>1
    <3> QED BY <3>1, <3>2, <3>3
  <2> QED BY <2>1, <2>2
<1>2. CASE ArmDrain
  <2>1. CASE pauseAfter
    BY <1>2, <2>1 DEF ArmDrain
  <2>2. CASE ~pauseAfter
    BY <1>2, <2>2 DEF ArmDrain
  <2> QED BY <2>1, <2>2
<1>3. CASE MarkDrain
  BY <1>3 DEF MarkDrain
<1>4. CASE RecheckReturns
  BY <1>4, PendingType DEF RecheckReturns, RecheckFails, RecheckFindsNothing, RecheckFindsCancelled,
                           RecheckNeedsConsent, RecheckProceeds
<1>5. CASE DownloadReturns
  BY <1>5 DEF DownloadReturns, DownloadFails, DownloadUnwanted, DownloadWanted
<1>6. CASE TryInstallNow
  BY <1>6 DEF TryInstallNow
<1>7. CASE Deferred \/ AwaitIdle
  BY <1>7 DEF Deferred, AwaitIdle
<1>8. CASE InstallSucceeds \/ InstallFails
  BY <1>8 DEF InstallSucceeds, InstallFails
<1>9. CASE DropGuard
  <2>1. CASE armed
    BY <1>9, <2>1 DEF DropGuard
  <2>2. CASE ~armed
    BY <1>9, <2>2 DEF DropGuard
  <2> QED BY <2>1, <2>2
<1>10. CASE ClearDrainPause
  <2>1. drainMark' \in BOOLEAN
    BY <1>10 DEF ClearDrainPause
  <2>2. opc' \in OpPcs
    BY <1>10 DEF ClearDrainPause
  <2>3. pending' = pending /\ status' = status /\ available' = available
    BY <1>10 DEF ClearDrainPause
  <2> QED BY <1>10, <2>1, <2>2, <2>3 DEF ClearDrainPause
<1>11. CASE UndoDrainPause
  <2>1. CASE queuePaused
    BY <1>11, <2>1, TakeTypes DEF UndoDrainPause
  <2>2. CASE ~queuePaused
    BY <1>11, <2>2 DEF UndoDrainPause
  <2> QED BY <2>1, <2>2
<1>12. CASE StartQueueNow
  BY <1>12, GoOnTypes DEF StartQueueNow
<1>13. CASE Register
  <2>1. pending' \in PendingInstall
    BY <1>13 DEF Register, PendingInstall
  <2> QED BY <1>13, <2>1 DEF Register
<1> QED
  BY <1>1, <1>2, <1>3, <1>4, <1>5, <1>6, <1>7, <1>8, <1>9, <1>10, <1>11, <1>12, <1>13
     DEF Operation

LEMMA TypeProcess == UpdaterTypeOK /\ Process => UpdaterTypeOK'
<1> SUFFICES ASSUME UpdaterTypeOK, Process PROVE UpdaterTypeOK'
  OBVIOUS
<1> USE Counters, NoPendingType, Names DEF UpdaterTypeOK, persisted, panel, op, queue, process,
                                           blame, consent, Gone
<1>1. CASE RestartsIntoUpdate
  BY <1>1 DEF RestartsIntoUpdate
<1>2. CASE QuitOrCrash
  BY <1>2 DEF QuitOrCrash
<1>3. CASE Launch
  <2>1. CASE queuePaused /\ ~drainMark
    BY <1>3, <2>1, TakeTypes, GoOnTypes DEF Launch
  <2>2. CASE ~(queuePaused /\ ~drainMark)
    BY <1>3, <2>2, TakeTypes, GoOnTypes DEF Launch
  <2> QED BY <2>1, <2>2
<1> QED BY <1>1, <1>2, <1>3 DEF Process

LEMMA TypeStep == UpdaterTypeOK /\ [UpdaterNext]_updaterVars => UpdaterTypeOK'
<1>1. UpdaterTypeOK /\ UNCHANGED updaterVars => UpdaterTypeOK'
  BY DEF UpdaterTypeOK, updaterVars, persisted, panel, op, queue, process, blame, consent
<1> QED BY <1>1, TypeQueue, TypePanel, TypeOperation, TypeProcess DEF UpdaterNext

\* Every variable of the updater and of the queue it drains keeps its type: the latch, the panel,
\* the deferral and the row count, whatever the bounds (updater.rs, converter.rs).
THEOREM UpdaterTypeCorrect == UpdaterSpec => []UpdaterTypeOK
<1> QED BY TypeInit, TypeStep, PTL DEF UpdaterSpec

-----------------------------------------------------------------------------
(* The inductive invariants behind the safety properties.                  *)

Retrying == opc \in {"drain", "mark", "recheck"}
Performing == opc \in {"download", "gate", "deferred", "await", "install"}

\* A cycle never works for the user, and only an install has a guard or gets that far.
KindInv ==
  /\ okind \in Cycles => ~wants /\ ~armed
  /\ opc = "check" => okind \in Cycles
  /\ Retrying => okind \in Triggers
  /\ opc = "register" => okind \in Triggers /\ found # NoVersion
  /\ ~IsPending => ~pending.user_requested

\* Between the click and its check nothing moves the version on the panel; from its registration on
\* the deferral carries the consent, and a retry reads it from there.
ConsentInv ==
  /\ okind = "UserRequested" /\ Retrying => available = shown /\ available # NoVersion
  /\ pending.user_requested =>
       \/ pending.version = shown
       \/ okind = "UserRequested" /\ (Retrying \/ opc = "register")
  /\ okind = "Retry" /\ Retrying /\ IsPending => wants = pending.user_requested
  /\ (Performing \/ opc = "register") /\ wants => found = shown

\* A cancelled operation has nothing pending left to find at its next look.
CancelInv ==
  /\ opc \in {"check", "register", "gate", "install"} => dropped # "heard"
  /\ Retrying /\ dropped = "heard" => okind = "Retry" /\ ~IsPending
  /\ opc = "download" /\ dropped = "heard" => ~IsPending

\* What the panel is about to say of the deferral was true when the operation looked.
PanelInv ==
  /\ status \in {"Checking", "Downloading"} => opc = "check" \/ Performing
  /\ status = "WaitingForIdle" \/ opc = "await" => IsPending \/ dropped = "late"

\* A flag raised for the drain is still the guard's of the call that raised it, or was kept.
FlagInv ==
  pauseAfter /\ armedBy = "drain" /\ ~kept /\ ~restarting =>
    armed /\ (opc \in {"mark", "recheck", "register", "drop"} \/ Performing)

\* The steps beside an operation: of the queue, its user, the scheduler that waits, and a launch.
Aside ==
  \/ Queue \/ UserOnQueue \/ Tick \/ CycleRefused \/ Launch
  \/ UNCHANGED updaterVars

\* They leave the updater's own state alone.
LEMMA Quiet ==
  Aside =>
    UNCHANGED <<available, status, pending, opc, okind, wants, found, armed, shown, dropped>>
BY DEF Aside, Queue, JobCompletes, JobFails, PauseLands, QueueUnwinds, UserOnQueue, AddAndStart,
       PressStart, Pause, Resume, CancelConversion, PauseAfterCurrent, CancelPauseAfterCurrent,
       Tick, CycleRefused, Launch, updaterVars, panel, op, consent

\* The queue and its user lower the flag, or raise it for the user.
LEMMA FlagQuiet ==
  Aside =>
    /\ \/ UNCHANGED <<pauseAfter, armedBy, kept>>
       \/ ~pauseAfter'
       \/ armedBy' = "user"
    /\ restarting' = restarting
BY DEF Aside, Queue, JobCompletes, JobFails, PauseLands, QueueUnwinds, UserOnQueue, AddAndStart,
       PressStart, Pause, Resume, CancelConversion, PauseAfterCurrent, CancelPauseAfterCurrent,
       Tick, CycleRefused, Launch, updaterVars, op, queue, process, blame, LowerFlag

\* The steps of an operation that only look at the queue.
AsksQueue ==
  \/ ArmDrain \/ MarkDrain \/ TryInstallNow \/ DropGuard
  \/ ClearDrainPause \/ UndoDrainPause
  \/ StartQueueNow

LEMMA AsksQueueMoves ==
  AsksQueue =>
    /\ UNCHANGED <<available, status, pending, okind, wants, found, shown, dropped>>
    /\ armed' # armed => opc = "drain"
    /\ \/ Retrying /\ opc' \in {"mark", "recheck"}
       \/ opc = "gate" /\ opc' \in {"deferred", "install"}
       \/ opc \in {"drop", "clear", "undo", "start"} /\ opc' \in {"clear", "undo", "start", "none"}
<1> USE DEF AsksQueue, At, Goto, Retrying, panel, consent
<1>1. CASE ArmDrain
  BY <1>1 DEF ArmDrain
<1>2. CASE MarkDrain
  BY <1>2 DEF MarkDrain
<1>3. CASE TryInstallNow
  BY <1>3 DEF TryInstallNow
<1>4. CASE DropGuard
  BY <1>4 DEF DropGuard
<1>5. CASE ClearDrainPause
  BY <1>5 DEF ClearDrainPause
<1>6. CASE UndoDrainPause
  BY <1>6 DEF UndoDrainPause
<1>7. CASE StartQueueNow
  BY <1>7 DEF StartQueueNow
<1> QED BY <1>1, <1>2, <1>3, <1>4, <1>5, <1>6, <1>7

\* Every step is one of these.
LEMMA Steps ==
  [UpdaterNext]_updaterVars <=>
    \/ Aside
    \/ AsksQueue
    \/ (\E m \in Modes : SetMode(m)) \/ Skip
    \/ CheckNow \/ CycleBegins \/ PressInstall \/ Retry
    \/ CheckReturns \/ RecheckReturns \/ Register \/ DownloadReturns
    \/ Deferred \/ AwaitIdle \/ InstallSucceeds \/ InstallFails
    \/ RestartsIntoUpdate \/ QuitOrCrash
BY DEF Aside, UpdaterNext, UserOnPanel, Scheduler, Operation, Process, AsksQueue

LEMMA KindsApart == \A k : k \in Cycles => k \notin Triggers /\ k # "Retry" /\ k # "UserRequested"
BY DEF Cycles, Triggers

LEMMA KindStep == UpdaterTypeOK /\ KindInv /\ [UpdaterNext]_updaterVars => KindInv'
<1> SUFFICES ASSUME UpdaterTypeOK, KindInv, [UpdaterNext]_updaterVars PROVE KindInv'
  OBVIOUS
<1> USE NoPendingType DEF KindInv, Retrying, IsPending, Triggers
<1>1. CASE Aside
  BY <1>1, Quiet
<1>2. CASE AsksQueue
  BY <1>2, AsksQueueMoves, KindsApart
<1>3. CASE \E m \in Modes : SetMode(m)
  <2>1. PICK m \in Modes : SetMode(m)
  BY <1>3
  <2> QED BY <2>1 DEF SetMode, DropBecauseOfMode, KeepThroughMode, Drops, op
<1>4. CASE Skip
  BY <1>4 DEF Skip, PanelBusy, Latched, PendingMatches, Drops, op
<1>5. CASE CheckNow \/ CycleBegins
  BY <1>5 DEF CheckNow, CycleBegins, Begin, Latched, Cycles, Modes, UpdaterTypeOK
<1>6. CASE PressInstall \/ Retry
  BY <1>6, KindsApart DEF PressInstall, Retry, Begin, Latched, InstallSteps, panel
<1>7. CASE CheckReturns
  BY <1>7 DEF CheckReturns, CheckFails, CheckFindsNothing, CheckFinds, CycleAt, EndCycle, consent
<1>8. CASE RecheckReturns
  BY <1>8, UpdaterAssumption DEF RecheckReturns, RecheckFails, RecheckFindsNothing,
                                 RecheckFindsCancelled, RecheckNeedsConsent, RecheckProceeds,
                                 GiveUpInstall, At, Goto, VersionDrift, Consented, UserConsented,
                                 panel, consent
<1>9. CASE DownloadReturns
  BY <1>9 DEF DownloadReturns, DownloadFails, DownloadUnwanted, DownloadWanted, Abandon, At, Goto,
              PendingMatches, consent
<1>10. CASE Deferred \/ AwaitIdle
  BY <1>10 DEF Deferred, AwaitIdle, Abandon, At, Goto, PendingMatches, consent
<1>11. CASE InstallSucceeds \/ InstallFails
  BY <1>11 DEF InstallSucceeds, InstallFails, Abandon, At, consent
<1>12. CASE RestartsIntoUpdate \/ QuitOrCrash
  BY <1>12 DEF RestartsIntoUpdate, QuitOrCrash, Gone
<1>13. CASE Register
  BY <1>13 DEF Register, At, Goto, consent
<1> QED
  BY <1>1, <1>2, <1>3, <1>4, <1>5, <1>6, <1>7, <1>8, <1>9, <1>10, <1>11, <1>12, <1>13, Steps

LEMMA CancelStep == KindInv /\ CancelInv /\ [UpdaterNext]_updaterVars => CancelInv'
<1> SUFFICES ASSUME KindInv, CancelInv, [UpdaterNext]_updaterVars PROVE CancelInv'
  OBVIOUS
<1> USE NoPendingType DEF KindInv, CancelInv, Retrying, IsPending
<1>1. CASE Aside
  BY <1>1, Quiet
<1>2. CASE AsksQueue
  BY <1>2, AsksQueueMoves
<1>3. CASE \E m \in Modes : SetMode(m)
  <2>1. PICK m \in Modes : SetMode(m)
  BY <1>3
  <2>2. CASE DropBecauseOfMode(m)
    <3>1. ~IsPending' /\ opc' = opc /\ okind' = okind
      BY <2>1, <2>2 DEF SetMode, DropBecauseOfMode, op
    <3>2. dropped' = "heard" =>
            \/ dropped = "heard" /\ opc # "register"
            \/ okind = "Retry" /\ Retrying
            \/ opc = "download"
      BY <2>2 DEF DropBecauseOfMode, Drops
    <3> QED BY <3>1, <3>2
  <2>3. CASE KeepThroughMode(m)
    BY <2>1, <2>3 DEF SetMode, KeepThroughMode, op
  <2> QED BY <2>1, <2>2, <2>3 DEF SetMode
<1>4. CASE Skip
  BY <1>4 DEF Skip, PanelBusy, Latched, PendingMatches, Drops, op
<1>5. CASE CheckNow \/ CycleBegins
  BY <1>5 DEF CheckNow, CycleBegins, Begin, Latched, Cycles, Modes, UpdaterTypeOK
<1>6. CASE PressInstall \/ Retry
  BY <1>6 DEF PressInstall, Retry, Begin, Latched, InstallSteps, panel
<1>7. CASE CheckReturns
  BY <1>7 DEF CheckReturns, CheckFails, CheckFindsNothing, CheckFinds, CycleAt, EndCycle, consent
<1>8. CASE RecheckReturns
  BY <1>8 DEF RecheckReturns, RecheckFails, RecheckFindsNothing, RecheckFindsCancelled,
              RecheckNeedsConsent, RecheckProceeds, GiveUpInstall, At, Goto, VersionDrift,
              Consented, UserConsented, panel, consent
<1>9. CASE DownloadReturns
  BY <1>9 DEF DownloadReturns, DownloadFails, DownloadUnwanted, DownloadWanted, Abandon, At, Goto,
              PendingMatches, consent
<1>10. CASE Deferred \/ AwaitIdle
  BY <1>10 DEF Deferred, AwaitIdle, Abandon, At, Goto, PendingMatches, consent
<1>11. CASE InstallSucceeds \/ InstallFails
  BY <1>11 DEF InstallSucceeds, InstallFails, Abandon, At, consent
<1>12. CASE RestartsIntoUpdate \/ QuitOrCrash
  BY <1>12 DEF RestartsIntoUpdate, QuitOrCrash, Gone
<1>13. CASE Register
  BY <1>13 DEF Register, At, Goto, consent
<1> QED
  BY <1>1, <1>2, <1>3, <1>4, <1>5, <1>6, <1>7, <1>8, <1>9, <1>10, <1>11, <1>12, <1>13, Steps

LEMMA PanelStep == KindInv /\ PanelInv /\ [UpdaterNext]_updaterVars => PanelInv'
<1> SUFFICES ASSUME KindInv, PanelInv, [UpdaterNext]_updaterVars PROVE PanelInv'
  OBVIOUS
<1> USE NoPendingType DEF KindInv, PanelInv, Retrying, Performing, IsPending
<1>1. CASE Aside
  BY <1>1, Quiet
<1>2. CASE AsksQueue
  BY <1>2, AsksQueueMoves
<1>3. CASE \E m \in Modes : SetMode(m)
  <2>1. PICK m \in Modes : SetMode(m)
  BY <1>3
  <2> QED BY <2>1 DEF SetMode, DropBecauseOfMode, KeepThroughMode, Drops, op
<1>4. CASE Skip
  BY <1>4 DEF Skip, PanelBusy, Latched, PendingMatches, Drops, op
<1>5. CASE CheckNow \/ CycleBegins
  BY <1>5 DEF CheckNow, CycleBegins, Begin, Latched, Cycles, Modes, UpdaterTypeOK
<1>6. CASE PressInstall \/ Retry
  BY <1>6 DEF PressInstall, Retry, Begin, Latched, InstallSteps, panel
<1>7. CASE CheckReturns
  BY <1>7 DEF CheckReturns, CheckFails, CheckFindsNothing, CheckFinds, CycleAt, EndCycle, consent
<1>8. CASE RecheckReturns
  BY <1>8 DEF RecheckReturns, RecheckFails, RecheckFindsNothing, RecheckFindsCancelled,
              RecheckNeedsConsent, RecheckProceeds, GiveUpInstall, At, Goto, VersionDrift,
              Consented, UserConsented, panel, consent
<1>9. CASE DownloadReturns
  BY <1>9 DEF DownloadReturns, DownloadFails, DownloadUnwanted, DownloadWanted, Abandon, At, Goto,
              PendingMatches, consent
<1>10. CASE Deferred \/ AwaitIdle
  BY <1>10 DEF Deferred, AwaitIdle, Abandon, At, Goto, PendingMatches, consent
<1>11. CASE InstallSucceeds \/ InstallFails
  BY <1>11 DEF InstallSucceeds, InstallFails, Abandon, At, consent
<1>12. CASE RestartsIntoUpdate \/ QuitOrCrash
  BY <1>12 DEF RestartsIntoUpdate, QuitOrCrash, Gone
<1>13. CASE Register
  BY <1>13 DEF Register, At, Goto, consent
<1> QED
  BY <1>1, <1>2, <1>3, <1>4, <1>5, <1>6, <1>7, <1>8, <1>9, <1>10, <1>11, <1>12, <1>13, Steps

LEMMA ConsentStep == KindInv /\ ConsentInv /\ [UpdaterNext]_updaterVars => ConsentInv'
<1> SUFFICES ASSUME KindInv, ConsentInv, [UpdaterNext]_updaterVars PROVE ConsentInv'
  OBVIOUS
<1> USE NoPendingType DEF KindInv, ConsentInv, Retrying, Performing, IsPending
<1>1. CASE Aside
  BY <1>1, Quiet
<1>2. CASE AsksQueue
  BY <1>2, AsksQueueMoves
<1>3. CASE \E m \in Modes : SetMode(m)
  <2>1. PICK m \in Modes : SetMode(m)
  BY <1>3
  <2> QED BY <2>1 DEF SetMode, DropBecauseOfMode, KeepThroughMode, Drops, op
<1>4. CASE Skip
  BY <1>4 DEF Skip, PanelBusy, Latched, PendingMatches, Drops, op
<1>5. CASE CheckNow \/ CycleBegins
  BY <1>5 DEF CheckNow, CycleBegins, Begin, Latched, Cycles, Modes, UpdaterTypeOK
<1>6. CASE PressInstall \/ Retry
  BY <1>6 DEF PressInstall, Retry, Begin, Latched, InstallSteps, panel
<1>7. CASE CheckReturns
  BY <1>7 DEF CheckReturns, CheckFails, CheckFindsNothing, CheckFinds, CycleAt, EndCycle, consent
<1>8. CASE RecheckReturns
  <2> USE <1>8 DEF RecheckReturns, At, GiveUpInstall, Goto, panel, consent
  <2>1. CASE RecheckFails \/ RecheckFindsNothing \/ RecheckFindsCancelled
    BY <2>1 DEF RecheckFails, RecheckFindsNothing, RecheckFindsCancelled
  <2>2. ASSUME NEW v \in Versions, RecheckNeedsConsent(v) PROVE ConsentInv'
    BY <2>2, UpdaterAssumption DEF RecheckNeedsConsent
  <2>3. ASSUME NEW v \in Versions, RecheckProceeds(v) PROVE ConsentInv'
    <3> USE <2>3 DEF RecheckProceeds
    <3>1. opc' = "register" /\ found' = v /\ wants' = wants /\ shown' = shown
      OBVIOUS
    <3>2. okind' = okind /\ pending' = pending
      OBVIOUS
    <3>3. wants => v = shown
      <4>1. CASE okind = "UserRequested"
        BY <4>1 DEF VersionDrift, Consented, UserConsented
      <4>2. CASE okind = "Retry"
        BY <4>2 DEF VersionDrift, Consented, UserConsented
      <4> QED BY <4>1, <4>2, KindsApart DEF Triggers
    <3> QED BY <3>1, <3>2, <3>3
  <2> QED BY <2>1, <2>2, <2>3
<1>9. CASE DownloadReturns
  BY <1>9 DEF DownloadReturns, DownloadFails, DownloadUnwanted, DownloadWanted, Abandon, At, Goto,
              PendingMatches, consent
<1>10. CASE Deferred \/ AwaitIdle
  BY <1>10 DEF Deferred, AwaitIdle, Abandon, At, Goto, PendingMatches, consent
<1>11. CASE InstallSucceeds \/ InstallFails
  BY <1>11 DEF InstallSucceeds, InstallFails, Abandon, At, consent
<1>12. CASE RestartsIntoUpdate \/ QuitOrCrash
  BY <1>12 DEF RestartsIntoUpdate, QuitOrCrash, Gone
<1>13. CASE Register
  BY <1>13 DEF Register, At, Goto, consent
<1> QED
  BY <1>1, <1>2, <1>3, <1>4, <1>5, <1>6, <1>7, <1>8, <1>9, <1>10, <1>11, <1>12, <1>13, Steps

LEMMA FlagStep == KindInv /\ FlagInv /\ [UpdaterNext]_updaterVars => FlagInv'
<1> SUFFICES ASSUME KindInv, FlagInv, [UpdaterNext]_updaterVars PROVE FlagInv'
  OBVIOUS
<1> USE DEF KindInv, FlagInv, Performing
<1>1. CASE Aside
  BY <1>1, Quiet, FlagQuiet
<1>2. CASE \/ MarkDrain \/ TryInstallNow \/ ClearDrainPause \/ UndoDrainPause
           \/ StartQueueNow
           \/ (\E m \in Modes : SetMode(m)) \/ Skip
  BY <1>2 DEF MarkDrain, TryInstallNow, ClearDrainPause, UndoDrainPause, StartQueueNow, SetMode,
              Skip, At, Goto, op, queue, blame, process
<1>3. CASE ArmDrain
  BY <1>3 DEF ArmDrain, At, Goto, process
<1>4. CASE DropGuard
  BY <1>4 DEF DropGuard, LowerFlag, At, Goto, process
<1>5. CASE CheckNow \/ CycleBegins \/ PressInstall \/ Retry
  BY <1>5 DEF CheckNow, CycleBegins, PressInstall, Retry, Begin, Latched, queue, blame, process
<1>6. CASE CheckReturns
  BY <1>6 DEF CheckReturns, CheckFails, CheckFindsNothing, CheckFinds, CycleAt, EndCycle, queue,
              blame, process
<1>7. CASE RecheckReturns
  <2>1. opc' \in {"drop", "register"} /\ armed' = armed
    BY <1>7 DEF RecheckReturns, RecheckFails, RecheckFindsNothing, RecheckFindsCancelled,
                RecheckNeedsConsent, RecheckProceeds, GiveUpInstall, Goto
  <2>2. opc = "recheck" /\ UNCHANGED <<pauseAfter, armedBy, kept, restarting>>
    BY <1>7 DEF RecheckReturns, At, queue, blame, process
  <2> QED BY <2>1, <2>2
<1>8. CASE DownloadReturns
  <2>1. opc = "download" /\ UNCHANGED <<pauseAfter, armedBy, kept, restarting, armed, okind>>
    BY <1>8 DEF DownloadReturns, DownloadFails, DownloadUnwanted, DownloadWanted, Abandon, At, Goto,
                queue, blame, process
  <2>2. opc' \in {"gate", "drop"} \/ okind \in Cycles
    BY <1>8 DEF DownloadReturns, DownloadFails, DownloadUnwanted, DownloadWanted, Abandon, Goto
  <2> QED BY <2>1, <2>2
<1>9. CASE Register \/ Deferred \/ AwaitIdle
  BY <1>9 DEF Register, Deferred, AwaitIdle, Abandon, At, Goto, queue, blame, process
<1>10. CASE InstallSucceeds \/ InstallFails
  BY <1>10 DEF InstallSucceeds, InstallFails, Abandon, At, queue, blame, process
<1>11. CASE RestartsIntoUpdate \/ QuitOrCrash
  BY <1>11 DEF RestartsIntoUpdate, QuitOrCrash, Gone
<1> QED
  BY <1>1, <1>2, <1>3, <1>4, <1>5, <1>6, <1>7, <1>8, <1>9, <1>10, <1>11, Steps DEF AsksQueue

LEMMA InvInit == UpdaterInit => KindInv /\ CancelInv /\ PanelInv /\ ConsentInv /\ FlagInv
BY NoPendingType DEF UpdaterInit, KindInv, CancelInv, PanelInv, ConsentInv, FlagInv, Retrying,
                     Performing, IsPending

LEMMA Kinds == UpdaterSpec => [](UpdaterTypeOK /\ KindInv)
<1>1. UpdaterInit => UpdaterTypeOK /\ KindInv
  BY TypeInit, InvInit
<1>2. UpdaterTypeOK /\ KindInv /\ [UpdaterNext]_updaterVars => (UpdaterTypeOK /\ KindInv)'
  BY TypeStep, KindStep
<1> QED BY <1>1, <1>2, PTL DEF UpdaterSpec

\* Whatever new releases, retries, checks and failures come between: a version the user asked for
\* is installed only if the panel showed it at the click (recheck_pending's version drift).
THEOREM UserGetsWhatWasShown == UpdaterSpec => []InstallsWhatWasShown
<1>1. KindInv /\ ConsentInv /\ [UpdaterNext]_updaterVars => ConsentInv'
  BY ConsentStep
<1>2. ConsentInv => InstallsWhatWasShown
  BY DEF ConsentInv, Performing, InstallsWhatWasShown
<1> QED BY InvInit, Kinds, <1>1, <1>2, PTL DEF UpdaterSpec

\* A mode change or a skip that drops the deferral stops the operation working for it, at its next
\* look at the deferral (install_pending's read of the consent, perform_install's check of pending).
THEOREM CancellationHolds == UpdaterSpec => []CancelledInstallStops
<1>1. KindInv /\ CancelInv /\ [UpdaterNext]_updaterVars => CancelInv'
  BY CancelStep
<1>2. CancelInv => CancelledInstallStops
  BY DEF CancelInv, CancelledInstallStops
<1> QED BY InvInit, Kinds, <1>1, <1>2, PTL DEF UpdaterSpec

\* What is installed is wanted: shown to the user who asked for it, and not cancelled where the
\* operation would still look.
THEOREM InstallIsWanted == UpdaterSpec => []InstallsWhatIsWanted
<1>1. InstallsWhatWasShown /\ CancelledInstallStops => InstallsWhatIsWanted
  BY DEF InstallsWhatIsWanted
<1> QED BY UserGetsWhatWasShown, CancellationHolds, <1>1, PTL

\* The panel never shows work that no operation is doing, nor a wait for a deferral that was gone
\* when the operation last looked.
THEOREM PanelNeverSticks == UpdaterSpec => []PanelIsNotStuck
<1>1. KindInv /\ PanelInv /\ [UpdaterNext]_updaterVars => PanelInv'
  BY PanelStep
<1>2. PanelInv => PanelIsNotStuck
  BY DEF PanelInv, Performing, PanelIsNotStuck, Latched
<1> QED BY InvInit, Kinds, <1>1, <1>2, PTL DEF UpdaterSpec

\* DrainGuard: the call that raised the flag has lowered it when it gives the install up.
THEOREM DrainIsUndone == UpdaterSpec => []ArmingCallUndoes
<1>1. KindInv /\ FlagInv /\ [UpdaterNext]_updaterVars => FlagInv'
  BY FlagStep
<1>2. FlagInv => ArmingCallUndoes
  BY DEF FlagInv, Performing, ArmingCallUndoes, Latched
<1> QED BY InvInit, Kinds, <1>1, <1>2, PTL DEF UpdaterSpec

=============================================================================
