--------------------------- MODULE FileSourcesProofs ---------------------------
(***************************************************************************)
(* Theorems about what brings files in.                                    *)
(*                                                                         *)
(* FileIntake, for any selections and any answers: every unit picked is in *)
(* one place until the page has spoken of it and is not left unstarted,    *)
(* and the status line is true.                                            *)
(*                                                                         *)
(* FolderWatch, for any files, callers, scanners, delay and lag: the       *)
(* reaper takes out nothing that has not been quiet.                       *)
(***************************************************************************)
EXTENDS FileIntake, FolderWatch, TLAPS

-----------------------------------------------------------------------------
(* The inductive invariant.                                                *)

\* A unit waits in a queue of tasks; no unit is in it twice.
Waits(q, u) == \E i \in 1 .. Len(q) : q[i].unit = u
Apart(q)    == \A i, j \in 1 .. Len(q) : q[i].unit = q[j].unit => i = j

\* What the sorted selections hold: added by itself, the last of that, and asked for.
Own(ans, u)     == ans[u[1]] # NoAnswer /\ FirstUnit(ans[u[1]]) <= u[2] /\ u[2] <= ans[u[1]].small
LastOwn(ans, u) == Own(ans, u) /\ u[2] = ans[u[1]].small
Large(ans, u)   ==
  ans[u[1]] # NoAnswer /\ ans[u[1]].small < u[2] /\ u[2] <= ans[u[1]].small + ans[u[1]].big
OwnsNone(ans, s) == ans[s].small < FirstUnit(ans[s])

\* The notice rides on the last of what a selection adds by itself.
Carries(ans, t) ==
  /\ t.notice => OwnsNone(ans, t.unit[1]) \/ LastOwn(ans, t.unit)
  /\ LastOwn(ans, t.unit) /\ Short(ans[t.unit[1]]) => t.notice

\* A drain runs when a task waits, and has a task while it runs.
DrainInv ==
  /\ tasks # <<>> => running
  /\ pc = "idle" <=> ~running
  /\ running => task \in Tasks

\* What is sorted has an answer, and only of that is a shortfall told.
SortInv ==
  /\ \A s \in Selections : Sorted(s) <=> asked[s] = "sorted"
  /\ \A s \in told : Sorted(s)

\* A unit waits in one place exactly while a sorted selection holds it and nothing was said of it.
PlaceInv ==
  /\ Apart(confirms) /\ Apart(Work)
  /\ \A u \in Units : ~(Waits(confirms, u) /\ Waits(Work, u))
  /\ \A u \in Units : Waits(confirms, u) \/ Waits(Work, u) <=>
                     (Own(answer, u) \/ Large(answer, u)) /\ said[u] = "none"
  /\ \A u \in Units : said[u] # "none" => Own(answer, u) \/ Large(answer, u)
  /\ \A u \in Units : Waits(confirms, u) => Large(answer, u)

\* What selections add by themselves waits in the order of their answers.
OrderInv ==
  \A i, j \in 1 .. Len(Work) :
    /\ Work[i].unit[1] = Work[j].unit[1] /\ i < j
    /\ Own(answer, Work[i].unit) /\ Own(answer, Work[j].unit)
    => Work[i].unit[2] < Work[j].unit[2]

\* Every task that waits carries its notice, or none, as it should.
NoticeInv ==
  /\ \A i \in 1 .. Len(confirms) : Carries(answer, confirms[i])
  /\ \A i \in 1 .. Len(Work) : Carries(answer, Work[i])

\* A shortfall is told once the last add that carries it was reported, and no earlier.
ToldInv ==
  \A s \in Selections : Sorted(s) =>
    /\ Short(answer[s]) /\ OwnsNone(answer, s) => s \in told
    /\ Short(answer[s]) =>
         \A u \in Units : u[1] = s /\ LastOwn(answer, u) /\ said[u] = "added" => s \in told
    /\ s \in told => \A u \in Units : u[1] = s /\ Own(answer, u) => said[u] # "none"

\* The inductive invariant.
IInv == TypeOK /\ DrainInv /\ SortInv /\ PlaceInv /\ OrderInv /\ NoticeInv /\ ToldInv
        /\ NothingWaitsUnstarted /\ AddingIsTrue /\ TimerIsItsOwn

-----------------------------------------------------------------------------
(* Queues of tasks.                                                        *)

\* What waits is a task of a unit.
LEMMA UnitOfPlace ==
  ASSUME NEW q \in Seq(Tasks), NEW i \in 1 .. Len(q)
  PROVE  q[i] \in Tasks /\ q[i].unit \in Units
<1>1. q[i] \in Tasks OBVIOUS
<1> QED BY <1>1 DEF Tasks

\* One queue after the other: what waits in it, and when no unit is in it twice.
LEMMA WaitsInBoth ==
  ASSUME NEW p \in Seq(Tasks), NEW q \in Seq(Tasks), NEW u
  PROVE  Waits(p \o q, u) <=> Waits(p, u) \/ Waits(q, u)
<1>1. ASSUME NEW i \in 1 .. Len(p \o q), (p \o q)[i].unit = u PROVE Waits(p, u) \/ Waits(q, u)
  <2>1. CASE i <= Len(p) BY <1>1, <2>1 DEF Waits
  <2>2. CASE i > Len(p)
    <3>1. i - Len(p) \in 1 .. Len(q) /\ (p \o q)[i] = q[i - Len(p)] BY <2>2
    <3> QED BY <1>1, <3>1 DEF Waits
  <2> QED BY <2>1, <2>2
<1>2. ASSUME NEW i \in 1 .. Len(p), p[i].unit = u PROVE Waits(p \o q, u)
  <2>1. i \in 1 .. Len(p \o q) /\ (p \o q)[i] = p[i] OBVIOUS
  <2> QED BY <1>2, <2>1 DEF Waits
<1>3. ASSUME NEW i \in 1 .. Len(q), q[i].unit = u PROVE Waits(p \o q, u)
  <2>1. i + Len(p) \in 1 .. Len(p \o q) /\ (p \o q)[i + Len(p)] = q[i] OBVIOUS
  <2> QED BY <1>3, <2>1 DEF Waits
<1> QED BY <1>1, <1>2, <1>3 DEF Waits

\* Two queues of which no unit is in both have no unit twice, one after the other.
LEMMA ApartInBoth ==
  ASSUME NEW p \in Seq(Tasks), NEW q \in Seq(Tasks), Apart(p), Apart(q),
         \A u \in Units : ~(Waits(p, u) /\ Waits(q, u))
  PROVE  Apart(p \o q)
<1> SUFFICES ASSUME NEW i \in 1 .. Len(p \o q), NEW j \in 1 .. Len(p \o q),
                    (p \o q)[i].unit = (p \o q)[j].unit, i <= j
             PROVE i = j BY DEF Apart
<1>1. CASE j <= Len(p) BY <1>1 DEF Apart
<1>2. CASE Len(p) < i
  <2>1. /\ i - Len(p) \in 1 .. Len(q) /\ (p \o q)[i] = q[i - Len(p)]
        /\ j - Len(p) \in 1 .. Len(q) /\ (p \o q)[j] = q[j - Len(p)] BY <1>2
  <2>2. i - Len(p) = j - Len(p) BY <2>1 DEF Apart
  <2> QED BY <2>2
<1>3. CASE i <= Len(p) /\ Len(p) < j
  <2>1. /\ i \in 1 .. Len(p) /\ (p \o q)[i] = p[i]
        /\ j - Len(p) \in 1 .. Len(q) /\ (p \o q)[j] = q[j - Len(p)] BY <1>3
  <2>2. p[i].unit \in Units BY <2>1, UnitOfPlace
  <2> QED BY <2>1, <2>2 DEF Waits
<1> QED BY <1>1, <1>2, <1>3

\* Without its head a queue holds every other unit, and no longer that one.
LEMMA AfterTheHead ==
  ASSUME NEW q \in Seq(Tasks), q # <<>>, Apart(q)
  PROVE  /\ Tail(q) \in Seq(Tasks) /\ Apart(Tail(q)) /\ Head(q) \in Tasks
         /\ \A u : Waits(Tail(q), u) <=> Waits(q, u) /\ u # Head(q).unit
         /\ Waits(q, Head(q).unit)
<1>1. /\ Tail(q) \in Seq(Tasks) /\ Len(Tail(q)) = Len(q) - 1 /\ Head(q) = q[1]
      /\ Head(q) \in Tasks /\ 1 \in 1 .. Len(q)
      /\ \A i \in 1 .. Len(Tail(q)) : i + 1 \in 1 .. Len(q) /\ Tail(q)[i] = q[i + 1]
  OBVIOUS
<1>2. \A i \in 1 .. Len(q) : i # 1 => i - 1 \in 1 .. Len(Tail(q)) /\ Tail(q)[i - 1] = q[i]
  BY <1>1
<1>3. Apart(Tail(q))
  <2> SUFFICES ASSUME NEW i \in 1 .. Len(Tail(q)), NEW j \in 1 .. Len(Tail(q)),
                      Tail(q)[i].unit = Tail(q)[j].unit
               PROVE i = j BY DEF Apart
  <2>1. i + 1 = j + 1 BY <1>1 DEF Apart
  <2> QED BY <2>1
<1>4. ASSUME NEW u, Waits(Tail(q), u) PROVE Waits(q, u) /\ u # Head(q).unit
  <2>1. PICK i \in 1 .. Len(Tail(q)) : Tail(q)[i].unit = u BY <1>4 DEF Waits
  <2>2. i + 1 \in 1 .. Len(q) /\ q[i + 1].unit = u /\ i + 1 # 1 BY <1>1, <2>1
  <2>3. Waits(q, u) BY <2>2 DEF Waits
  <2>4. u # Head(q).unit BY <1>1, <2>2 DEF Apart
  <2> QED BY <2>3, <2>4
<1>5. ASSUME NEW u, Waits(q, u), u # Head(q).unit PROVE Waits(Tail(q), u)
  <2>1. PICK i \in 1 .. Len(q) : q[i].unit = u BY <1>5 DEF Waits
  <2>2. i # 1 BY <1>1, <1>5, <2>1
  <2> QED BY <1>2, <2>1, <2>2 DEF Waits
<1>6. Waits(q, Head(q).unit) BY <1>1 DEF Waits
<1> QED BY <1>1, <1>3, <1>4, <1>5, <1>6

\* The work is empty unless a drain runs; then its task is at the head.
LEMMA WorkIs ==
  ASSUME TypeOK, DrainInv
  PROVE  /\ Work \in Seq(Tasks)
         /\ running => Work # <<>> /\ Head(Work) = task /\ Tail(Work) = tasks
         /\ ~running => Work = <<>>
<1>1. CASE running
  <2>1. task \in Tasks /\ tasks \in Seq(Tasks) BY <1>1 DEF TypeOK, DrainInv
  <2>2. Work = <<task>> \o tasks BY <1>1 DEF Work
  <2>3. <<task>> \in Seq(Tasks) BY <2>1
  <2>4. <<task>> \o tasks \in Seq(Tasks) /\ <<task>> \o tasks # <<>> /\ Head(<<task>> \o tasks) = task
    BY <2>1, <2>3
  <2>5. Tail(<<task>> \o tasks) = tasks
    <3>1. Tail(<<task>> \o tasks) \in Seq(Tasks) /\ Len(Tail(<<task>> \o tasks)) = Len(tasks)
      BY <2>1, <2>3
    <3>2. \A i \in 1 .. Len(tasks) : Tail(<<task>> \o tasks)[i] = tasks[i] BY <2>1, <2>3
    <3> QED BY <2>1, <3>1, <3>2
  <2> QED BY <1>1, <2>2, <2>4, <2>5
<1>2. CASE ~running
  <2>1. tasks = <<>> BY <1>2 DEF DrainInv
  <2> QED BY <1>2, <2>1 DEF Work
<1> QED BY <1>1, <1>2

\* enqueue appends to the work, whether a drain is under way or starts.
LEMMA EnqueueAppends ==
  ASSUME TypeOK, DrainInv, NEW ts \in Seq(Tasks), Enqueue(ts)
  PROVE  /\ Work' = Work \o ts /\ DrainInv'
         /\ tasks' \in Seq(Tasks) /\ running' \in BOOLEAN /\ task' \in Tasks \cup {NoTask}
         /\ pc' \in {"idle", "add", "start"}
         /\ running => running' /\ task' = task
<1>1. CASE running
  <2>1. /\ tasks' = tasks \o ts /\ running' /\ task' = task /\ pc' = pc /\ running' \in BOOLEAN
    BY <1>1 DEF Enqueue, TypeOK
  <2>2. tasks \in Seq(Tasks) /\ tasks' \in Seq(Tasks) /\ task \in Tasks /\ pc # "idle" /\ pc \in {"idle", "add", "start"}
    BY <1>1, <2>1 DEF TypeOK, DrainInv
  <2>3. Work' = <<task>> \o (tasks \o ts) /\ Work = <<task>> \o tasks BY <1>1, <2>1 DEF Work
  <2>4. <<task>> \o (tasks \o ts) = (<<task>> \o tasks) \o ts BY <2>2
  <2> QED BY <1>1, <2>1, <2>2, <2>3, <2>4 DEF DrainInv
<1>2. CASE ~running
  <2>1. tasks = <<>> /\ Work = <<>> BY <1>2, WorkIs DEF DrainInv
  <2>2. ComesRound(ts) /\ Work \o ts = ts BY <1>2, <2>1 DEF Enqueue
  <2>3. CASE ts = <<>>
    <3>1. running' = FALSE /\ pc' = "idle" /\ task' = NoTask /\ tasks' = <<>>
      BY <2>2, <2>3 DEF ComesRound
    <3>2. Work' = <<>> BY <3>1 DEF Work
    <3> QED BY <1>2, <2>2, <2>3, <3>1, <3>2 DEF DrainInv
  <2>4. CASE ts # <<>>
    <3>1. running' = TRUE /\ pc' = "add" /\ task' = Head(ts) /\ tasks' = Tail(ts)
      BY <2>2, <2>4 DEF ComesRound, Take
    <3>2. Head(ts) \in Tasks /\ Tail(ts) \in Seq(Tasks) BY <2>4
    <3>3. <<Head(ts)>> \o Tail(ts) = ts BY <2>4
    <3> QED BY <1>2, <2>2, <3>1, <3>2, <3>3 DEF Work, DrainInv
  <2> QED BY <2>3, <2>4
<1> QED BY <1>1, <1>2

\* A drain that comes round is done with the head of the work.
LEMMA RoundTakes ==
  ASSUME TypeOK, DrainInv, running, ComesRound(tasks)
  PROVE  /\ Work' = Tail(Work) /\ DrainInv'
         /\ tasks' \in Seq(Tasks) /\ running' \in BOOLEAN /\ task' \in Tasks \cup {NoTask}
         /\ pc' \in {"idle", "add", "start"}
<1>1. Tail(Work) = tasks /\ tasks \in Seq(Tasks) BY WorkIs DEF TypeOK
<1>2. CASE tasks = <<>>
  <2>1. running' = FALSE /\ pc' = "idle" /\ task' = NoTask /\ tasks' = <<>> BY <1>2 DEF ComesRound
  <2>2. Work' = <<>> BY <2>1 DEF Work
  <2> QED BY <1>1, <1>2, <2>1, <2>2 DEF DrainInv
<1>3. CASE tasks # <<>>
  <2>1. running' = TRUE /\ pc' = "add" /\ task' = Head(tasks) /\ tasks' = Tail(tasks)
    BY <1>3 DEF ComesRound, Take
  <2>2. Head(tasks) \in Tasks /\ Tail(tasks) \in Seq(Tasks) /\ <<Head(tasks)>> \o Tail(tasks) = tasks
    BY <1>1, <1>3
  <2> QED BY <1>1, <2>1, <2>2 DEF Work, DrainInv
<1> QED BY <1>2, <1>3

-----------------------------------------------------------------------------
(* Units, answers and tasks.                                               *)

\* A unit is of a selection.
LEMMA UnitIs == ASSUME NEW u \in Units PROVE u[1] \in Selections /\ u[2] \in Nat /\ u = <<u[1], u[2]>>
BY FileIntakeAssumption DEF Units

\* An answer, and where its units begin.
LEMMA AnswerIs ==
  ASSUME NEW a \in Answers
  PROVE  /\ a.files \in BOOLEAN /\ a.small \in Nat /\ a.big \in Nat /\ Short(a) \in BOOLEAN
         /\ FirstUnit(a) \in {0, 1} /\ a.small + a.big <= MaxFolders /\ MaxFolders \in Nat
         /\ a # NoAnswer
<1>1. a \in [files : BOOLEAN, small : Nat, big : Nat, empty : BOOLEAN, missing : BOOLEAN]
  BY FileIntakeAssumption
<1>2. FirstUnit(a) \in {0, 1} /\ Short(a) \in BOOLEAN BY <1>1 DEF FirstUnit, Short
<1> QED BY <1>1, <1>2, FileIntakeAssumption

\* The units that are added by themselves begin at 0 or 1.
LEMMA FirstSaysFiles == \A a : FirstUnit(a) \in {0, 1} BY DEF FirstUnit

\* Tasks of units: only the last carries the notice.
LEMMA CarryIs ==
  ASSUME NEW us \in Seq(Units), NEW notice \in BOOLEAN
  PROVE  /\ Carry(us, notice) \in Seq(Tasks) /\ Len(Carry(us, notice)) = Len(us)
         /\ \A i \in 1 .. Len(us) :
              Carry(us, notice)[i].unit = us[i] /\ (Carry(us, notice)[i].notice <=> notice /\ i = Len(us))
<1> DEFINE c == [i \in 1 .. Len(us) |-> [unit |-> us[i], notice |-> notice /\ i = Len(us)]]
<1>1. \A i \in 1 .. Len(us) : c[i] \in Tasks BY DEF Tasks
<1>2. c \in Seq(Tasks) /\ Len(c) = Len(us) BY <1>1
<1>3. Carry(us, notice) = c BY DEF Carry
<1>4. \A i \in 1 .. Len(us) : c[i] = [unit |-> us[i], notice |-> notice /\ i = Len(us)]
  OBVIOUS
<1> HIDE DEF c
<1>5. \A i \in 1 .. Len(us) : c[i].unit = us[i] /\ (c[i].notice <=> notice /\ i = Len(us))
  <2> TAKE i \in 1 .. Len(us)
  <2> DEFINE b == notice /\ i = Len(us)
  <2>1. c[i] = [unit |-> us[i], notice |-> b] BY <1>4
  <2>2. b \in BOOLEAN OBVIOUS
  <2> HIDE DEF b
  <2>3. c[i].unit = us[i] /\ c[i].notice = b BY <2>1
  <2>4. c[i].notice <=> b BY <2>2, <2>3
  <2> QED BY <2>3, <2>4 DEF b
<1> QED BY <1>2, <1>3, <1>5

\* The units of an answer, in order: those added by themselves, and those asked for.
LEMMA AutoIs ==
  ASSUME NEW s \in Selections, NEW a \in Answers
  PROVE  /\ AutoUnits(s, a) \in Seq(Units) /\ Len(AutoUnits(s, a)) = a.small + 1 - FirstUnit(a)
         /\ a.small + 1 - FirstUnit(a) \in Nat
         /\ \A i \in 1 .. (a.small + 1 - FirstUnit(a)) : AutoUnits(s, a)[i] = <<s, FirstUnit(a) + i - 1>>
<1> DEFINE n == a.small + 1 - FirstUnit(a)
           c == [i \in 1 .. n |-> <<s, FirstUnit(a) + i - 1>>]
<1>1. n \in Nat BY AnswerIs
<1>2. \A i \in 1 .. n : FirstUnit(a) + i - 1 \in 0 .. MaxFolders BY AnswerIs
<1>3. \A i \in 1 .. n : c[i] \in Units BY <1>2 DEF Units
<1>4. c \in Seq(Units) /\ Len(c) = n
  <2> HIDE DEF n
  <2> QED BY <1>1, <1>3
<1>5. AutoUnits(s, a) = c BY DEF AutoUnits
<1> QED BY <1>1, <1>4, <1>5

\* The units the user is asked for.
LEMMA BigIs ==
  ASSUME NEW s \in Selections, NEW a \in Answers
  PROVE  /\ BigUnits(s, a) \in Seq(Units) /\ Len(BigUnits(s, a)) = a.big
         /\ \A i \in 1 .. a.big : BigUnits(s, a)[i] = <<s, a.small + i>>
<1> DEFINE n == a.big
           c == [i \in 1 .. n |-> <<s, a.small + i>>]
<1>1. n \in Nat BY AnswerIs
<1>2. \A i \in 1 .. n : a.small + i \in 0 .. MaxFolders BY AnswerIs
<1>3. \A i \in 1 .. n : c[i] \in Units BY <1>2 DEF Units
<1>4. c \in Seq(Units) /\ Len(c) = n
  <2> HIDE DEF n
  <2> QED BY <1>1, <1>3
<1>5. BigUnits(s, a) = c BY DEF BigUnits
<1> QED BY <1>4, <1>5

\* What a sorted selection hands to the drain, and to the user.
LEMMA AutoTasks ==
  ASSUME NEW s \in Selections, NEW a \in Answers, NEW ts, ts = Carry(AutoUnits(s, a), Short(a))
  PROVE  /\ ts \in Seq(Tasks) /\ Apart(ts) /\ Len(ts) = a.small + 1 - FirstUnit(a)
         /\ \A i \in 1 .. Len(ts) : ts[i].unit = <<s, FirstUnit(a) + i - 1>>
         /\ \A i \in 1 .. Len(ts) : ts[i].notice <=> Short(a) /\ ts[i].unit[2] = a.small
         /\ \A u \in Units : Waits(ts, u) <=> u[1] = s /\ FirstUnit(a) <= u[2] /\ u[2] <= a.small
<1>1. /\ ts \in Seq(Tasks) /\ Len(ts) = a.small + 1 - FirstUnit(a)
      /\ \A i \in 1 .. Len(ts) : ts[i].unit = <<s, FirstUnit(a) + i - 1>>
                                    /\ (ts[i].notice <=> Short(a) /\ i = Len(ts))
  <2> DEFINE us == AutoUnits(s, a)
  <2>1. /\ us \in Seq(Units) /\ Len(us) = a.small + 1 - FirstUnit(a)
        /\ \A i \in 1 .. (a.small + 1 - FirstUnit(a)) : us[i] = <<s, FirstUnit(a) + i - 1>>
    BY AutoIs
  <2>2. Short(a) \in BOOLEAN /\ ts = Carry(us, Short(a)) BY AnswerIs
  <2> HIDE DEF us
  <2>3. /\ ts \in Seq(Tasks) /\ Len(ts) = Len(us)
        /\ \A i \in 1 .. Len(us) : ts[i].unit = us[i] /\ (ts[i].notice <=> Short(a) /\ i = Len(us))
    BY <2>1, <2>2, CarryIs
  <2> QED BY <2>1, <2>3
<1>2. FirstUnit(a) \in {0, 1} /\ a.small \in Nat BY AnswerIs
<1>3. Apart(ts)
  <2> SUFFICES ASSUME NEW i \in 1 .. Len(ts), NEW j \in 1 .. Len(ts), ts[i].unit = ts[j].unit PROVE i = j
    BY DEF Apart
  <2>1. FirstUnit(a) + i - 1 = FirstUnit(a) + j - 1 BY <1>1
  <2> QED BY <1>2, <2>1
<1>4. \A i \in 1 .. Len(ts) : ts[i].notice <=> Short(a) /\ ts[i].unit[2] = a.small
  <2> TAKE i \in 1 .. Len(ts)
  <2>1. ts[i].unit[2] = FirstUnit(a) + i - 1 BY <1>1
  <2> QED BY <1>1, <1>2, <2>1
<1>5. ASSUME NEW u \in Units, Waits(ts, u) PROVE u[1] = s /\ FirstUnit(a) <= u[2] /\ u[2] <= a.small
  <2>1. PICK i \in 1 .. Len(ts) : ts[i].unit = u BY <1>5 DEF Waits
  <2>2. u[1] = s /\ u[2] = FirstUnit(a) + i - 1 BY <1>1, <2>1
  <2> QED BY <1>1, <1>2, <2>2
<1>6. ASSUME NEW u \in Units, u[1] = s, FirstUnit(a) <= u[2], u[2] <= a.small PROVE Waits(ts, u)
  <2> DEFINE i == u[2] - FirstUnit(a) + 1
  <2>1. i \in 1 .. Len(ts) /\ FirstUnit(a) + i - 1 = u[2] BY <1>1, <1>2, <1>6, UnitIs
  <2>2. ts[i].unit = u BY <1>1, <1>6, <2>1, UnitIs
  <2> QED BY <2>1, <2>2 DEF Waits
<1> QED BY <1>1, <1>3, <1>4, <1>5, <1>6

\* The tasks that wait for the user: no notice rides on them if anything is added by itself.
LEMMA BigTasks ==
  ASSUME NEW s \in Selections, NEW a \in Answers, NEW ts,
         ts = Carry(BigUnits(s, a), Short(a) /\ AutoUnits(s, a) = <<>>)
  PROVE  /\ ts \in Seq(Tasks) /\ Apart(ts)
         /\ \A i \in 1 .. Len(ts) : ts[i].unit[1] = s /\ a.small < ts[i].unit[2]
         /\ \A i \in 1 .. Len(ts) : ts[i].notice => a.small < FirstUnit(a)
         /\ \A u \in Units : Waits(ts, u) <=> u[1] = s /\ a.small < u[2] /\ u[2] <= a.small + a.big
<1>1. /\ ts \in Seq(Tasks) /\ Len(ts) = a.big
      /\ \A i \in 1 .. Len(ts) : ts[i].unit = <<s, a.small + i>> /\ (ts[i].notice => AutoUnits(s, a) = <<>>)
  <2> DEFINE us == BigUnits(s, a)
             notice == Short(a) /\ AutoUnits(s, a) = <<>>
  <2>1. us \in Seq(Units) /\ Len(us) = a.big /\ \A i \in 1 .. a.big : us[i] = <<s, a.small + i>>
    BY BigIs
  <2>2. notice \in BOOLEAN /\ ts = Carry(us, notice) /\ (notice => AutoUnits(s, a) = <<>>) OBVIOUS
  <2> HIDE DEF us, notice
  <2> QED BY <2>1, <2>2, CarryIs
<1>2. FirstUnit(a) \in {0, 1} /\ a.small \in Nat /\ a.big \in Nat BY AnswerIs
<1>3. Apart(ts)
  <2> SUFFICES ASSUME NEW i \in 1 .. Len(ts), NEW j \in 1 .. Len(ts), ts[i].unit = ts[j].unit PROVE i = j
    BY DEF Apart
  <2>1. a.small + i = a.small + j BY <1>1
  <2> QED BY <1>2, <2>1
<1>4. \A i \in 1 .. Len(ts) : ts[i].unit[1] = s /\ a.small < ts[i].unit[2]
  <2> TAKE i \in 1 .. Len(ts)
  <2>1. ts[i].unit[1] = s /\ ts[i].unit[2] = a.small + i BY <1>1
  <2> QED BY <1>2, <2>1
<1>5. \A i \in 1 .. Len(ts) : ts[i].notice => a.small < FirstUnit(a)
  <2>1. AutoUnits(s, a) = <<>> => a.small + 1 - FirstUnit(a) = 0 BY AutoIs
  <2> QED BY <1>1, <1>2, <2>1
<1>6. ASSUME NEW u \in Units, Waits(ts, u) PROVE u[1] = s /\ a.small < u[2] /\ u[2] <= a.small + a.big
  <2>1. PICK i \in 1 .. Len(ts) : ts[i].unit = u BY <1>6 DEF Waits
  <2>2. u[1] = s /\ u[2] = a.small + i BY <1>1, <2>1
  <2> QED BY <1>1, <1>2, <2>2
<1>7. ASSUME NEW u \in Units, u[1] = s, a.small < u[2], u[2] <= a.small + a.big PROVE Waits(ts, u)
  <2> DEFINE i == u[2] - a.small
  <2>1. i \in 1 .. Len(ts) /\ a.small + i = u[2] BY <1>1, <1>2, <1>7, UnitIs
  <2>2. ts[i].unit = u BY <1>1, <1>7, <2>1, UnitIs
  <2> QED BY <2>1, <2>2 DEF Waits
<1> QED BY <1>1, <1>3, <1>4, <1>5, <1>6, <1>7

-----------------------------------------------------------------------------
(* The kinds of steps.                                                     *)

\* The status line is a message or empty.
LEMMA LineTypes ==
  ASSUME NEW m \in Messages \cup {NoMessage}, NEW brief \in BOOLEAN, TypeOK, SetStatusMsg(m, brief)
  PROVE  status' \in Messages \cup {NoMessage} /\ timers' \subseteq Messages /\ told' \subseteq Selections
<1>1. status' \in Messages \cup {NoMessage} /\ timers' \subseteq Messages
  BY DEF SetStatusMsg, TimerFor
<1>2. CASE m.notice
  <2>1. m \in Messages BY <1>2 DEF NoMessage, Message
  <2>2. m.of \in Units BY <2>1 DEF Messages
  <2> QED BY <1>1, <2>2, UnitIs DEF SetStatusMsg, TypeOK
<1>3. CASE ~m.notice
  BY <1>1, <1>3 DEF SetStatusMsg, TypeOK
<1> QED BY <1>2, <1>3

\* What is said is a message.
LEMMA MessageTypes ==
  ASSUME NEW kind \in {"adding", "failed", "skipped", "nothing", "summary", "error"},
         NEW u \in Units, NEW notice \in BOOLEAN
  PROVE  Message(kind, u, notice) \in Messages
BY DEF Message, Messages

\* The unit of the files.
LEMMA FirstUnitIs == \A s \in Selections : <<s, 0>> \in Units
BY FileIntakeAssumption DEF Units

\* What a report does, whatever it says.
LEMMA ReportIs ==
  ASSUME TypeOK, DrainInv, NEW how \in {"added", "error"}, NEW m \in Messages \cup {NoMessage},
         pc # "idle", Report(how, m), started' = started, startAsked' = startAsked
  PROVE  /\ TypeOK' /\ DrainInv' /\ running /\ task \in Tasks /\ task.unit \in Units
         /\ Work # <<>> /\ Head(Work) = task /\ Work' = Tail(Work)
         /\ said' = [said EXCEPT ![task.unit] = how] /\ SetStatusMsg(m, TRUE)
         /\ UNCHANGED <<asked, answer, confirms, added, started>>
<1>1. running /\ task \in Tasks BY DEF DrainInv
<1>2. task.unit \in Units BY <1>1 DEF Tasks
<1>3. ComesRound(tasks) /\ SetStatusMsg(m, TRUE) 
      /\ UNCHANGED <<asked, answer, confirms, added, started, startAsked>>
      /\ said' = [said EXCEPT ![task.unit] = how]
  BY DEF Report
<1>4. /\ Work' = Tail(Work) /\ DrainInv'
      /\ tasks' \in Seq(Tasks) /\ running' \in BOOLEAN /\ task' \in Tasks \cup {NoTask}
      /\ pc' \in {"idle", "add", "start"}
  BY <1>1, <1>3, RoundTakes
<1>5. status' \in Messages \cup {NoMessage} /\ timers' \subseteq Messages /\ told' \subseteq Selections
  BY <1>3, LineTypes
<1>6. said' \in [Units -> {"none", "added", "error", "skipped"}]
  BY <1>3 DEF TypeOK
<1>7. TypeOK' BY <1>3, <1>4, <1>5, <1>6 DEF TypeOK
<1> QED BY <1>1, <1>2, <1>3, <1>4, <1>7, WorkIs

\* A report ends an add: the summary of one that was started, or the error of one that failed.
Reports ==
  \E how \in {"added", "error"}, m \in Messages \cup {NoMessage} :
    /\ pc # "idle" /\ Report(how, m) /\ started' = started /\ startAsked' = startAsked
    /\ m.kind # "adding"
    /\ m.notice => how = "added" /\ task.notice /\ m.of = task.unit
    /\ how = "added" => task.unit \in started /\ (task.notice => m.notice)

\* The summary of an add and its error are reports.
LEMMA StartReports == ASSUME TypeOK, DrainInv, StartAnswers PROVE Reports
<1>1. pc # "idle" /\ pc = "start" /\ task.unit \in started /\ started' = started /\ startAsked' = startAsked
  BY DEF StartAnswers
<1>2. PICK blank \in BOOLEAN :
        Report("added", IF blank /\ ~task.notice THEN NoMessage
                        ELSE Message("summary", task.unit, task.notice))
  BY DEF StartAnswers
<1>3. task \in Tasks BY <1>1 DEF DrainInv
<1>4. task.unit \in Units /\ task.notice \in BOOLEAN BY <1>3 DEF Tasks
<1> DEFINE m == IF blank /\ ~task.notice THEN NoMessage ELSE Message("summary", task.unit, task.notice)
<1>5. /\ m \in Messages \cup {NoMessage} /\ m.kind # "adding" /\ (m.notice => task.notice /\ m.of = task.unit)
      /\ task.notice => m.notice
  <2>1. CASE blank /\ ~task.notice BY <2>1 DEF NoMessage, Message
  <2>2. CASE ~(blank /\ ~task.notice)
    <3>1. m = Message("summary", task.unit, task.notice) BY <2>2
    <3>2. m \in Messages BY <1>4, <3>1, MessageTypes
    <3>3. m.kind = "summary" /\ m.of = task.unit /\ m.notice = task.notice BY <3>1 DEF Message
    <3> QED BY <3>2, <3>3
  <2> QED BY <2>1, <2>2
<1>6. Report("added", m) BY <1>2
<1> HIDE DEF m
<1> QED BY <1>1, <1>5, <1>6 DEF Reports

\* So is the error of a call.
LEMMA FailReports == ASSUME TypeOK, DrainInv, CallFails PROVE Reports
<1>1. pc # "idle" /\ started' = started /\ startAsked' = startAsked BY DEF CallFails
<1> DEFINE m == Message("error", task.unit, FALSE)
<1>2. Report("error", m) BY DEF CallFails
<1>3. task \in Tasks BY <1>1 DEF DrainInv
<1>4. task.unit \in Units BY <1>3 DEF Tasks
<1>5. m \in Messages /\ m.kind = "error" /\ m.notice = FALSE BY <1>4, MessageTypes DEF Message
<1> HIDE DEF m
<1> QED BY <1>1, <1>2, <1>5 DEF Reports

\* The line of a sorted selection tells a shortfall when no add is to carry it.
LEMMA OutcomeIs ==
  ASSUME NEW s \in Selections, NEW a \in Answers
  PROVE  /\ Outcome(s, a) \in Messages \cup {NoMessage} /\ Outcome(s, a).kind # "adding"
         /\ Outcome(s, a).notice <=> AutoUnits(s, a) = <<>> /\ Short(a)
         /\ Outcome(s, a).notice => Outcome(s, a).of[1] = s
<1>1. <<s, 0>> \in Units /\ Short(a) \in BOOLEAN BY FirstUnitIs, AnswerIs
<1>2. CASE AutoUnits(s, a) # <<>> \/ (BigUnits(s, a) # <<>> /\ ~Short(a))
  <2>1. Outcome(s, a) = NoMessage BY <1>2 DEF Outcome
  <2> QED BY <1>2, <2>1 DEF NoMessage, Message
<1>3. CASE AutoUnits(s, a) = <<>> /\ BigUnits(s, a) # <<>> /\ Short(a)
  <2>1. Outcome(s, a) = Message("skipped", <<s, 0>>, TRUE) BY <1>3 DEF Outcome
  <2>2. Outcome(s, a) \in Messages BY <1>1, <2>1, MessageTypes
  <2> QED BY <1>3, <2>1, <2>2 DEF Message
<1>4. CASE AutoUnits(s, a) = <<>> /\ BigUnits(s, a) = <<>>
  <2>1. Outcome(s, a) = Message("nothing", <<s, 0>>, Short(a)) BY <1>4 DEF Outcome
  <2>2. Outcome(s, a) \in Messages BY <1>1, <2>1, MessageTypes
  <2>3. Outcome(s, a).kind = "nothing" /\ Outcome(s, a).of = <<s, 0>> /\ Outcome(s, a).notice = Short(a)
    BY <2>1 DEF Message
  <2> QED BY <1>1, <1>4, <2>2, <2>3
<1> QED BY <1>2, <1>3, <1>4

\* Sorting, as the invariants see it.
SortsAs(s, a) ==
  LET new == Carry(BigUnits(s, a), Short(a) /\ AutoUnits(s, a) = <<>>)
      ts  == Carry(AutoUnits(s, a), Short(a))
  IN  /\ asked[s] = "sorting" /\ asked' = [asked EXCEPT ![s] = "sorted"]
      /\ answer' = [answer EXCEPT ![s] = a]
      /\ confirms' = confirms \o new /\ Work' = Work \o ts
      /\ SetStatusMsg(Outcome(s, a), AutoUnits(s, a) = <<>>)
      /\ running => running' /\ task' = task
      /\ UNCHANGED <<added, startAsked, started, said>>

\* The handler of a sorted selection does that.
LEMMA SortIs ==
  ASSUME TypeOK, DrainInv, NEW s \in Selections, SortAnswers(s)
  PROVE  TypeOK' /\ DrainInv' /\ \E a \in Answers : SortsAs(s, a)
<1>1. PICK a \in Answers :
        /\ asked[s] = "sorting" /\ asked' = [asked EXCEPT ![s] = "sorted"]
        /\ answer' = [answer EXCEPT ![s] = a]
        /\ confirms' = confirms \o Carry(BigUnits(s, a), Short(a) /\ AutoUnits(s, a) = <<>>)
        /\ Enqueue(Carry(AutoUnits(s, a), Short(a)))
        /\ SetStatusMsg(Outcome(s, a), AutoUnits(s, a) = <<>>)
        /\ UNCHANGED <<added, startAsked, started, said>>
  BY DEF SortAnswers, Prompts, backend
<1> DEFINE ts  == Carry(AutoUnits(s, a), Short(a))
           new == Carry(BigUnits(s, a), Short(a) /\ AutoUnits(s, a) = <<>>)
<1>2. ts \in Seq(Tasks) /\ new \in Seq(Tasks) BY AutoTasks, BigTasks
<1>3. /\ Work' = Work \o ts /\ DrainInv'
      /\ tasks' \in Seq(Tasks) /\ running' \in BOOLEAN /\ task' \in Tasks \cup {NoTask}
      /\ pc' \in {"idle", "add", "start"} /\ (running => running' /\ task' = task)
  <2> HIDE DEF ts
  <2>1. Enqueue(ts) BY <1>1 DEF ts
  <2> QED BY <1>2, <2>1, EnqueueAppends
<1>4. status' \in Messages \cup {NoMessage} /\ timers' \subseteq Messages /\ told' \subseteq Selections
  <2>1. Outcome(s, a) \in Messages \cup {NoMessage} BY OutcomeIs
  <2>2. (AutoUnits(s, a) = <<>>) \in BOOLEAN OBVIOUS
  <2> QED BY <1>1, <2>1, <2>2, LineTypes
<1>5. confirms' \in Seq(Tasks)
  <2> HIDE DEF new
  <2>1. confirms' = confirms \o new BY <1>1 DEF new
  <2> QED BY <1>2, <2>1 DEF TypeOK
<1>6. asked' \in [Selections -> {"no", "sorting", "sorted", "failed"}]
      /\ answer' \in [Selections -> Answers \cup {NoAnswer}]
  BY <1>1 DEF TypeOK
<1>7. TypeOK' BY <1>1, <1>3, <1>4, <1>5, <1>6 DEF TypeOK
<1>8. SortsAs(s, a) BY <1>1, <1>3 DEF SortsAs
<1> QED BY <1>3, <1>7, <1>8

\* The answer to a prompt, as the invariants see it.
LEMMA AddIs ==
  ASSUME TypeOK, DrainInv, OnAdd
  PROVE  /\ TypeOK' /\ DrainInv'
         /\ confirms # <<>> /\ confirms' = Tail(confirms) /\ Work' = Work \o <<Head(confirms)>>
         /\ running => running' /\ task' = task
         /\ UNCHANGED <<asked, answer, status, timers, told, added, startAsked, started, said>>
<1>1. /\ confirms # <<>> /\ confirms' = Tail(confirms) /\ Enqueue(<<Head(confirms)>>)
      /\ UNCHANGED <<asked, answer, status, timers, told, added, startAsked, started, said>>
  BY DEF OnAdd, line, backend
<1>2. Head(confirms) \in Tasks /\ <<Head(confirms)>> \in Seq(Tasks) /\ Tail(confirms) \in Seq(Tasks)
  <2>1. confirms \in Seq(Tasks) BY DEF TypeOK
  <2> QED BY <1>1, <2>1
<1>3. /\ Work' = Work \o <<Head(confirms)>> /\ DrainInv'
      /\ tasks' \in Seq(Tasks) /\ running' \in BOOLEAN /\ task' \in Tasks \cup {NoTask}
      /\ pc' \in {"idle", "add", "start"} /\ (running => running' /\ task' = task)
  BY <1>1, <1>2, EnqueueAppends
<1> QED BY <1>1, <1>2, <1>3 DEF TypeOK

\* A skipped prompt leaves its place, and that is said of it.
LEMMA SkipIs ==
  ASSUME TypeOK, DrainInv, OnSkip
  PROVE  /\ TypeOK' /\ DrainInv'
         /\ confirms # <<>> /\ confirms' = Tail(confirms) /\ Head(confirms).unit \in Units
         /\ said' = [said EXCEPT ![Head(confirms).unit] = "skipped"] /\ Work' = Work
         /\ UNCHANGED <<asked, answer, running, task, status, timers, told, added, startAsked, started>>
<1>1. /\ confirms # <<>> /\ confirms' = Tail(confirms)
      /\ said' = [said EXCEPT ![Head(confirms).unit] = "skipped"]
      /\ UNCHANGED <<asked, answer, tasks, running, pc, task, status, timers, told, added, startAsked, started>>
  BY DEF OnSkip, drain, line, backend
<1>2. Head(confirms) \in Tasks /\ Tail(confirms) \in Seq(Tasks)
  <2>1. confirms \in Seq(Tasks) BY DEF TypeOK
  <2> QED BY <1>1, <2>1
<1>3. Head(confirms).unit \in Units BY <1>2 DEF Tasks
<1>4. TypeOK' BY <1>1, <1>2, <1>3 DEF TypeOK
<1>5. DrainInv' /\ Work' = Work BY <1>1 DEF DrainInv, Work
<1> QED BY <1>1, <1>3, <1>4, <1>5

\* The steps that leave what waits, and what was said of it, alone.
Quiet == Work' = Work /\ UNCHANGED <<confirms, answer, said, told, running, task>>

\* Picks, failures to sort, the timer, and what the backend does on its own are quiet.
LEMMA QuietSteps ==
  ASSUME TypeOK, DrainInv,
         \/ \E s \in Selections : Pick(s) \/ SortFails(s)
         \/ AddAnswers \/ TimerFires \/ BackendStarts \/ UNCHANGED vars
         \/ \E u \in Units : BackendAdds(u)
  PROVE  TypeOK' /\ DrainInv' /\ Quiet
<1>1. ASSUME NEW s \in Selections, Pick(s) PROVE TypeOK' /\ DrainInv' /\ Quiet
  <2> DEFINE m == Message("adding", <<s, 0>>, FALSE)
  <2>1. m \in Messages /\ ~m.notice BY FirstUnitIs, MessageTypes DEF Message
  <2> HIDE DEF m
  <2>2. asked' = [asked EXCEPT ![s] = "sorting"] /\ SetStatusMsg(m, FALSE)
        /\ UNCHANGED <<answer, confirms, tasks, running, pc, task, added, startAsked, started, said>>
    BY <1>1 DEF Pick, m, drain, backend
  <2>3. status' \in Messages \cup {NoMessage} /\ timers' \subseteq Messages /\ told' \subseteq Selections
        /\ told' = told
    BY <2>1, <2>2, LineTypes DEF SetStatusMsg
  <2> QED BY <2>2, <2>3 DEF TypeOK, DrainInv, Quiet, Work
<1>2. ASSUME NEW s \in Selections, SortFails(s) PROVE TypeOK' /\ DrainInv' /\ Quiet
  <2> DEFINE m == Message("failed", <<s, 0>>, FALSE)
  <2>1. m \in Messages /\ ~m.notice BY FirstUnitIs, MessageTypes DEF Message
  <2> HIDE DEF m
  <2>2. asked' = [asked EXCEPT ![s] = "failed"] /\ SetStatusMsg(m, TRUE)
        /\ UNCHANGED <<answer, confirms, tasks, running, pc, task, added, startAsked, started, said>>
    BY <1>2 DEF SortFails, m, drain, backend
  <2>3. status' \in Messages \cup {NoMessage} /\ timers' \subseteq Messages /\ told' \subseteq Selections
        /\ told' = told
    BY <2>1, <2>2, LineTypes DEF SetStatusMsg
  <2> QED BY <2>2, <2>3 DEF TypeOK, DrainInv, Quiet, Work
<1>3. CASE AddAnswers
  BY <1>3 DEF AddAnswers, line, TypeOK, DrainInv, Quiet, Work
<1>4. CASE TimerFires
  BY <1>4 DEF TimerFires, drain, backend, TypeOK, DrainInv, Quiet, Work
<1>5. CASE BackendStarts
  BY <1>5 DEF BackendStarts, drain, line, TypeOK, DrainInv, Quiet, Work
<1>6. CASE UNCHANGED vars
  BY <1>6 DEF vars, drain, line, backend, TypeOK, DrainInv, Quiet, Work
<1>7. ASSUME NEW u \in Units, BackendAdds(u) PROVE TypeOK' /\ DrainInv' /\ Quiet
  BY <1>7 DEF BackendAdds, drain, line, TypeOK, DrainInv, Quiet, Work
<1> QED BY <1>1, <1>2, <1>3, <1>4, <1>5, <1>6, <1>7

\* Every step is one of five kinds.
LEMMA StepIs ==
  ASSUME TypeOK, DrainInv, [Next]_vars
  PROVE  /\ TypeOK' /\ DrainInv'
         /\ Reports \/ OnAdd \/ OnSkip \/ Quiet \/ \E s \in Selections, a \in Answers : SortsAs(s, a)
<1>1. CASE StartAnswers \/ CallFails
  <2>1. Reports BY <1>1, StartReports, FailReports
  <2>2. TypeOK' /\ DrainInv' BY <2>1, ReportIs DEF Reports
  <2> QED BY <2>1, <2>2
<1>2. CASE OnAdd BY <1>2, AddIs
<1>3. CASE OnSkip BY <1>3, SkipIs
<1>4. ASSUME NEW s \in Selections, SortAnswers(s)
      PROVE  TypeOK' /\ DrainInv' /\ \E a \in Answers : SortsAs(s, a)
  BY <1>4, SortIs
<1> QED BY <1>1, <1>2, <1>3, <1>4, QuietSteps DEF Next, Drain, Sort

-----------------------------------------------------------------------------
(* What is sorted.                                                         *)

\* Only a selection under way is sorted, and only of what is sorted is a shortfall told.
LEMMA SortPreserved ==
  ASSUME TypeOK, DrainInv, PlaceInv, SortInv, [Next]_vars
  PROVE  SortInv'
<1>1. ASSUME NEW s \in Selections, Pick(s) PROVE SortInv'
  BY <1>1 DEF Pick, SetStatusMsg, Message, SortInv, Sorted, TypeOK
<1>2. ASSUME NEW s \in Selections, SortFails(s) PROVE SortInv'
  BY <1>2 DEF SortFails, SetStatusMsg, Message, SortInv, Sorted, TypeOK
<1>3. ASSUME NEW s \in Selections, NEW a \in Answers, SortsAs(s, a) PROVE SortInv'
  <2>1. /\ asked' = [asked EXCEPT ![s] = "sorted"] /\ answer' = [answer EXCEPT ![s] = a] /\ a # NoAnswer
        /\ told' \subseteq told \cup {s}
    BY <1>3, AnswerIs, OutcomeIs DEF SortsAs, SetStatusMsg
  <2> QED BY <2>1 DEF SortInv, Sorted, TypeOK
<1>4. CASE Reports
  <2>1. PICK how \in {"added", "error"}, m \in Messages \cup {NoMessage} :
          /\ pc # "idle" /\ Report(how, m) /\ started' = started /\ startAsked' = startAsked
          /\ m.notice => m.of = task.unit
    BY <1>4 DEF Reports
  <2>2. /\ running /\ task.unit \in Units /\ Work # <<>> /\ Head(Work) = task /\ SetStatusMsg(m, TRUE)
        /\ UNCHANGED <<asked, answer>>
    BY <2>1, ReportIs
  <2>3. Waits(Work, task.unit) BY <2>2, AfterTheHead, WorkIs DEF PlaceInv
  <2>4. Sorted(task.unit[1]) /\ task.unit[1] \in Selections
    BY <2>2, <2>3, UnitIs DEF PlaceInv, Own, Large, Sorted
  <2>5. told' \subseteq told \cup {task.unit[1]} BY <2>1, <2>2 DEF SetStatusMsg
  <2> QED BY <2>2, <2>4, <2>5 DEF SortInv, Sorted
<1>5. CASE UNCHANGED <<asked, answer, told>>
  BY <1>5 DEF SortInv, Sorted
<1>6. ASSUME NEW s \in Selections, SortAnswers(s) PROVE SortInv'
  BY <1>3, <1>6, SortIs
<1>7. CASE StartAnswers \/ CallFails BY <1>4, <1>7, StartReports, FailReports
<1>8. CASE \/ AddAnswers \/ TimerFires \/ BackendStarts \/ OnAdd \/ OnSkip \/ UNCHANGED vars
           \/ \E u \in Units : BackendAdds(u)
  BY <1>5, <1>8 DEF AddAnswers, TimerFires, BackendStarts, BackendAdds, OnAdd, OnSkip, vars, line
<1> QED BY <1>1, <1>2, <1>6, <1>7, <1>8 DEF Next, Drain, Sort

-----------------------------------------------------------------------------
(* Where each unit is.                                                     *)

\* What a report leaves behind.
LEMMA ReportLeaves ==
  ASSUME TypeOK, DrainInv, PlaceInv, Reports
  PROVE  \E how \in {"added", "error"}, m \in Messages \cup {NoMessage} :
           /\ running /\ task \in Tasks /\ task.unit \in Units /\ Waits(Work, task.unit) /\ said[task.unit] = "none"
           /\ 1 \in 1 .. Len(Work) /\ Work[1] = task
           /\ Work' = Tail(Work) /\ Apart(Work')
           /\ \A u \in Units : Waits(Work', u) <=> Waits(Work, u) /\ u # task.unit
           /\ \A u \in Units : said'[u] = IF u = task.unit THEN how ELSE said[u]
           /\ UNCHANGED <<asked, answer, confirms, added, started>>
           /\ SetStatusMsg(m, TRUE) /\ m.kind # "adding"
           /\ m.notice => how = "added" /\ task.notice /\ m.of = task.unit
           /\ how = "added" => task.unit \in started /\ (task.notice => m.notice)
<1>1. PICK how \in {"added", "error"}, m \in Messages \cup {NoMessage} :
        /\ pc # "idle" /\ Report(how, m) /\ started' = started /\ startAsked' = startAsked
        /\ m.kind # "adding"
        /\ m.notice => how = "added" /\ task.notice /\ m.of = task.unit
        /\ how = "added" => task.unit \in started /\ (task.notice => m.notice)
  BY DEF Reports
<1>2. /\ running /\ task \in Tasks /\ task.unit \in Units
      /\ Work # <<>> /\ Head(Work) = task /\ Work' = Tail(Work)
      /\ said' = [said EXCEPT ![task.unit] = how] /\ SetStatusMsg(m, TRUE)
      /\ UNCHANGED <<asked, answer, confirms, added, started>>
  BY <1>1, ReportIs
<1>3. Work \in Seq(Tasks) BY WorkIs
<1>4. /\ Apart(Tail(Work)) /\ Waits(Work, task.unit)
      /\ \A u : Waits(Tail(Work), u) <=> Waits(Work, u) /\ u # task.unit
  BY <1>2, <1>3, AfterTheHead DEF PlaceInv
<1>5. said[task.unit] = "none" BY <1>2, <1>4 DEF PlaceInv
<1>6. \A u \in Units : said'[u] = IF u = task.unit THEN how ELSE said[u] BY <1>2 DEF TypeOK
<1>7. 1 \in 1 .. Len(Work) /\ Work[1] = task BY <1>2, <1>3
<1>8. Apart(Work') BY <1>2, <1>4
<1> QED BY <1>1, <1>2, <1>4, <1>5, <1>6, <1>7, <1>8

\* What sorting adds.
LEMMA SortLeaves ==
  ASSUME TypeOK, DrainInv, SortInv, NEW s \in Selections, NEW a \in Answers, SortsAs(s, a)
  PROVE  /\ ~Sorted(s) /\ Sorted(s)' /\ answer'[s] = a
         /\ \A t \in Selections : t # s => answer'[t] = answer[t]
         /\ \A u \in Units : u[1] = s => ~Own(answer, u) /\ ~Large(answer, u)
         /\ \A u \in Units : u[1] # s => (Own(answer', u) <=> Own(answer, u)) /\ (Large(answer', u) <=> Large(answer, u))
                                      /\ (LastOwn(answer', u) <=> LastOwn(answer, u))
         /\ \A u \in Units : u[1] = s => (Own(answer', u) <=> FirstUnit(a) <= u[2] /\ u[2] <= a.small)
                                      /\ (Large(answer', u) <=> a.small < u[2] /\ u[2] <= a.small + a.big)
<1>1. /\ asked[s] = "sorting" /\ answer' = [answer EXCEPT ![s] = a] /\ a # NoAnswer
  BY AnswerIs DEF SortsAs
<1>2. ~Sorted(s) BY <1>1 DEF SortInv
<1>3. answer'[s] = a /\ \A t \in Selections : t # s => answer'[t] = answer[t] BY <1>1 DEF TypeOK
<1>4. Sorted(s)' BY <1>1, <1>3 DEF Sorted
<1>5. \A u \in Units : u[1] = s => ~Own(answer, u) /\ ~Large(answer, u)
  BY <1>2 DEF Own, Large, Sorted
<1>6. ASSUME NEW u \in Units, u[1] # s
      PROVE  (Own(answer', u) <=> Own(answer, u)) /\ (Large(answer', u) <=> Large(answer, u))
          /\ (LastOwn(answer', u) <=> LastOwn(answer, u))
  <2>1. answer'[u[1]] = answer[u[1]] BY <1>3, <1>6, UnitIs
  <2> QED BY <2>1 DEF Own, Large, LastOwn, Sorted
<1>7. ASSUME NEW u \in Units, u[1] = s
      PROVE  /\ (Own(answer', u) <=> FirstUnit(a) <= u[2] /\ u[2] <= a.small)
             /\ (Large(answer', u) <=> a.small < u[2] /\ u[2] <= a.small + a.big)
  BY <1>3, <1>4, <1>7 DEF Own, Large, Sorted
<1> QED BY <1>2, <1>3, <1>4, <1>5, <1>6, <1>7

\* A unit moves from place to place: prompt, work, said.
LEMMA PlacePreserved ==
  ASSUME TypeOK, DrainInv, SortInv, PlaceInv, [Next]_vars
  PROVE  PlaceInv'
<1>0. Work \in Seq(Tasks) /\ confirms \in Seq(Tasks) BY WorkIs DEF TypeOK
<1>1. CASE Quiet
  BY <1>1 DEF Quiet, PlaceInv, Own, Large, Sorted
<1>2. CASE Reports
  <2>1. PICK how \in {"added", "error"} :
           /\ task.unit \in Units /\ Waits(Work, task.unit) /\ Apart(Work')
           /\ \A u \in Units : Waits(Work', u) <=> Waits(Work, u) /\ u # task.unit
           /\ \A u \in Units : said'[u] = IF u = task.unit THEN how ELSE said[u]
           /\ UNCHANGED <<answer, confirms>>
    BY <1>2, ReportLeaves
  <2>2. \A u \in Units : (Own(answer', u) <=> Own(answer, u)) /\ (Large(answer', u) <=> Large(answer, u))
    BY <2>1 DEF Own, Large, Sorted
  <2>3. \A u \in Units : Waits(confirms', u) <=> Waits(confirms, u) BY <2>1
  <2>4. Apart(confirms') BY <2>1 DEF PlaceInv
  <2> HIDE DEF Waits, Apart
  <2> QED BY <2>1, <2>2, <2>3, <2>4 DEF PlaceInv
<1>3. CASE OnAdd
  <2>1. /\ confirms # <<>> /\ confirms' = Tail(confirms) /\ Work' = Work \o <<Head(confirms)>>
        /\ UNCHANGED <<answer, said>>
    BY <1>3, AddIs
  <2> DEFINE h == Head(confirms)
  <2>2. /\ Apart(Tail(confirms)) /\ h \in Tasks /\ Waits(confirms, h.unit)
        /\ \A u : Waits(Tail(confirms), u) <=> Waits(confirms, u) /\ u # h.unit
    BY <1>0, <2>1, AfterTheHead DEF PlaceInv
  <2>3. <<h>> \in Seq(Tasks) /\ Apart(<<h>>) /\ \A u : Waits(<<h>>, u) <=> u = h.unit
    BY <2>2 DEF Apart, Waits
  <2>4. h.unit \in Units BY <2>2 DEF Tasks
  <2> HIDE DEF h
  <2>5. /\ Apart(Work \o <<h>>)
        /\ \A u \in Units : Waits(Work \o <<h>>, u) <=> Waits(Work, u) \/ u = h.unit
    <3>1. \A u \in Units : ~(Waits(Work, u) /\ Waits(<<h>>, u)) BY <2>2, <2>3 DEF PlaceInv
    <3> QED BY <1>0, <2>3, <3>1, ApartInBoth, WaitsInBoth DEF PlaceInv
  <2>6. \A u \in Units : /\ Waits(Work', u) <=> Waits(Work, u) \/ u = h.unit
                         /\ Waits(confirms', u) <=> Waits(confirms, u) /\ u # h.unit
    BY <2>1, <2>2, <2>5 DEF h
  <2>7. Apart(Work') /\ Apart(confirms') BY <2>1, <2>2, <2>5 DEF h
  <2>8. \A u \in Units : (Own(answer', u) <=> Own(answer, u)) /\ (Large(answer', u) <=> Large(answer, u))
    BY <2>1 DEF Own, Large, Sorted
  <2> QED BY <2>1, <2>2, <2>4, <2>6, <2>7, <2>8 DEF PlaceInv
<1>4. CASE OnSkip
  <2>1. /\ confirms # <<>> /\ confirms' = Tail(confirms) /\ Work' = Work /\ Head(confirms).unit \in Units
        /\ said' = [said EXCEPT ![Head(confirms).unit] = "skipped"] /\ answer' = answer
    BY <1>4, SkipIs
  <2> DEFINE h == Head(confirms)
  <2>2. /\ Apart(Tail(confirms)) /\ Waits(confirms, h.unit) /\ h.unit \in Units
        /\ \A u : Waits(Tail(confirms), u) <=> Waits(confirms, u) /\ u # h.unit
    BY <1>0, <2>1, AfterTheHead DEF PlaceInv
  <2> HIDE DEF h
  <2>3. \A u \in Units : /\ Waits(Work', u) <=> Waits(Work, u)
                         /\ Waits(confirms', u) <=> Waits(confirms, u) /\ u # h.unit
                         /\ said'[u] = IF u = h.unit THEN "skipped" ELSE said[u]
    BY <2>1, <2>2 DEF h, TypeOK
  <2>4. Apart(Work') /\ Apart(confirms') BY <2>1, <2>2 DEF h, PlaceInv
  <2>5. \A u \in Units : (Own(answer', u) <=> Own(answer, u)) /\ (Large(answer', u) <=> Large(answer, u))
    BY <2>1 DEF Own, Large, Sorted
  <2> QED BY <2>2, <2>3, <2>4, <2>5 DEF PlaceInv
<1>5. ASSUME NEW s \in Selections, NEW a \in Answers, SortsAs(s, a) PROVE PlaceInv'
  <2> DEFINE new == Carry(BigUnits(s, a), Short(a) /\ AutoUnits(s, a) = <<>>)
             ts  == Carry(AutoUnits(s, a), Short(a))
  <2>1. confirms' = confirms \o new /\ Work' = Work \o ts /\ said' = said BY <1>5 DEF SortsAs
  <2>2. /\ ts \in Seq(Tasks) /\ Apart(ts)
        /\ \A u \in Units : Waits(ts, u) <=> u[1] = s /\ FirstUnit(a) <= u[2] /\ u[2] <= a.small
    BY AutoTasks
  <2>3. /\ new \in Seq(Tasks) /\ Apart(new)
        /\ \A u \in Units : Waits(new, u) <=> u[1] = s /\ a.small < u[2] /\ u[2] <= a.small + a.big
    BY BigTasks
  <2> HIDE DEF new, ts
  <2>4. /\ \A u \in Units : u[1] = s => ~Own(answer, u) /\ ~Large(answer, u)
        /\ \A u \in Units : u[1] # s => (Own(answer', u) <=> Own(answer, u)) /\ (Large(answer', u) <=> Large(answer, u))
        /\ \A u \in Units : u[1] = s => (Own(answer', u) <=> FirstUnit(a) <= u[2] /\ u[2] <= a.small)
                                      /\ (Large(answer', u) <=> a.small < u[2] /\ u[2] <= a.small + a.big)
    BY <1>5, SortLeaves
  <2>5. \A u \in Units : u[1] = s => ~Waits(confirms, u) /\ ~Waits(Work, u) /\ said[u] = "none"
    BY <2>4 DEF PlaceInv, TypeOK
  <2>6. Apart(confirms \o new) /\ Apart(Work \o ts)
    BY <1>0, <2>2, <2>3, <2>5, ApartInBoth DEF PlaceInv
  <2>7. \A u \in Units : /\ Waits(confirms \o new, u) <=> Waits(confirms, u) \/ Waits(new, u)
                         /\ Waits(Work \o ts, u) <=> Waits(Work, u) \/ Waits(ts, u)
    BY <1>0, <2>2, <2>3, WaitsInBoth
  <2>8. Apart(confirms') /\ Apart(Work') BY <2>1, <2>6
  <2>9. \A u \in Units : /\ Waits(confirms', u) <=> Waits(confirms, u) \/ Waits(new, u)
                         /\ Waits(Work', u) <=> Waits(Work, u) \/ Waits(ts, u)
    BY <2>1, <2>7
  <2>10. ASSUME NEW u \in Units, u[1] # s
         PROVE  /\ ~(Waits(confirms', u) /\ Waits(Work', u))
                /\ Waits(confirms', u) \/ Waits(Work', u) <=> (Own(answer', u) \/ Large(answer', u)) /\ said'[u] = "none"
                /\ said'[u] # "none" => Own(answer', u) \/ Large(answer', u)
                /\ Waits(confirms', u) => Large(answer', u)
    BY <2>1, <2>2, <2>3, <2>4, <2>9, <2>10 DEF PlaceInv
  <2>11. ASSUME NEW u \in Units, u[1] = s
         PROVE  /\ ~(Waits(confirms', u) /\ Waits(Work', u))
                /\ Waits(confirms', u) \/ Waits(Work', u) <=> (Own(answer', u) \/ Large(answer', u)) /\ said'[u] = "none"
                /\ said'[u] # "none" => Own(answer', u) \/ Large(answer', u)
                /\ Waits(confirms', u) => Large(answer', u)
    <3>1. u[2] \in Nat /\ a.small \in Nat BY AnswerIs, UnitIs
    <3> QED BY <2>1, <2>2, <2>3, <2>4, <2>5, <2>9, <2>11, <3>1
  <2> QED BY <2>8, <2>10, <2>11 DEF PlaceInv
<1> QED BY <1>1, <1>2, <1>3, <1>4, <1>5, StepIs

-----------------------------------------------------------------------------
(* The order of the work, and the notices it carries.                      *)

\* A unit is added by itself or asked for, not both.
LEMMA OwnIsNotLarge == ASSUME TypeOK, NEW u \in Units PROVE ~(Own(answer, u) /\ Large(answer, u))
<1> SUFFICES ASSUME Own(answer, u), Large(answer, u) PROVE FALSE OBVIOUS
<1>1. answer[u[1]] \in Answers BY UnitIs DEF Own, Sorted, TypeOK
<1>2. answer[u[1]].small \in Nat /\ u[2] \in Nat BY <1>1, AnswerIs, UnitIs
<1> QED BY <1>2 DEF Own, Large

\* A task that waits is a unit some sorted selection holds.
LEMMA InWork == ASSUME TypeOK, DrainInv, PlaceInv, NEW i \in 1 .. Len(Work)
                PROVE  Work[i] \in Tasks /\ Work[i].unit \in Units /\
                       /\ (Own(answer, Work[i].unit) \/ Large(answer, Work[i].unit))
                       /\ Waits(Work, Work[i].unit)
<1>1. Work \in Seq(Tasks) BY WorkIs
<1>2. Work[i] \in Tasks /\ Work[i].unit \in Units BY <1>1, UnitOfPlace
<1>3. Waits(Work, Work[i].unit) BY DEF Waits
<1> QED BY <1>2, <1>3 DEF PlaceInv

\* What waits for an answer is asked for.
LEMMA InConfirms == ASSUME TypeOK, PlaceInv, NEW i \in 1 .. Len(confirms)
                    PROVE  confirms[i] \in Tasks /\ confirms[i].unit \in Units /\ Large(answer, confirms[i].unit)
                           /\ Waits(confirms, confirms[i].unit)
<1>1. confirms \in Seq(Tasks) BY DEF TypeOK
<1>2. confirms[i] \in Tasks /\ confirms[i].unit \in Units BY <1>1, UnitOfPlace
<1>3. Waits(confirms, confirms[i].unit) BY DEF Waits
<1> QED BY <1>2, <1>3 DEF PlaceInv

\* The work is served from its head and grows at its end; what is asked for comes in between.
LEMMA OrderPreserved ==
  ASSUME TypeOK, DrainInv, SortInv, PlaceInv, OrderInv, [Next]_vars
  PROVE  OrderInv'
<1>0. Work \in Seq(Tasks) /\ confirms \in Seq(Tasks) BY WorkIs DEF TypeOK
<1>1. CASE Quiet \/ OnSkip
  <2>1. Work' = Work /\ answer' = answer BY <1>1, SkipIs DEF Quiet
  <2> QED BY <2>1 DEF OrderInv, Own, Sorted
<1>2. CASE Reports
  <2>1. Work' = Tail(Work) /\ answer' = answer /\ 1 \in 1 .. Len(Work) BY <1>2, ReportLeaves
  <2>2. /\ Len(Work') \in Nat
        /\ \A i \in 1 .. Len(Work') : i + 1 \in 1 .. Len(Work) /\ Work'[i] = Work[i + 1]
    BY <1>0, <2>1
  <2>3. \A u : Own(answer', u) <=> Own(answer, u) BY <2>1 DEF Own, Sorted
  <2> SUFFICES ASSUME NEW i \in 1 .. Len(Work'), NEW j \in 1 .. Len(Work'),
                      Work'[i].unit[1] = Work'[j].unit[1], i < j,
                      Own(answer', Work'[i].unit), Own(answer', Work'[j].unit)
               PROVE  Work'[i].unit[2] < Work'[j].unit[2]
    BY DEF OrderInv
  <2>4. i + 1 < j + 1 BY <2>2
  <2>5. Own(answer, Work[i + 1].unit) /\ Own(answer, Work[j + 1].unit) BY <2>2, <2>3
  <2> QED BY <2>2, <2>4, <2>5 DEF OrderInv
<1>3. CASE OnAdd
  <2> DEFINE h == Head(confirms)
  <2>1. confirms # <<>> /\ Work' = Work \o <<h>> /\ answer' = answer BY <1>3, AddIs
  <2>2. 1 \in 1 .. Len(confirms) /\ h = confirms[1] BY <1>0, <2>1
  <2>3. h \in Tasks /\ ~Own(answer, h.unit) BY <2>2, InConfirms, OwnIsNotLarge
  <2> HIDE DEF h
  <2>4. /\ Len(Work') = Len(Work) + 1 /\ Len(Work) \in Nat
        /\ \A i \in 1 .. Len(Work) : Work'[i] = Work[i]
        /\ Work'[Len(Work) + 1] = h
    BY <1>0, <2>1, <2>3
  <2>5. \A u : Own(answer', u) <=> Own(answer, u) BY <2>1 DEF Own, Sorted
  <2> SUFFICES ASSUME NEW i \in 1 .. Len(Work'), NEW j \in 1 .. Len(Work'),
                      Work'[i].unit[1] = Work'[j].unit[1], i < j,
                      Own(answer', Work'[i].unit), Own(answer', Work'[j].unit)
               PROVE  Work'[i].unit[2] < Work'[j].unit[2]
    BY DEF OrderInv
  <2>6. i \in 1 .. Len(Work) BY <2>4
  <2>7. j # Len(Work) + 1 BY <2>3, <2>4, <2>5
  <2>8. j \in 1 .. Len(Work) BY <2>4, <2>7
  <2> QED BY <2>4, <2>5, <2>6, <2>8 DEF OrderInv
<1>4. ASSUME NEW s \in Selections, NEW a \in Answers, SortsAs(s, a) PROVE OrderInv'
  <2> DEFINE ts == Carry(AutoUnits(s, a), Short(a))
             n  == Len(Work)
  <2>1. Work' = Work \o ts BY <1>4 DEF SortsAs
  <2>2. ts \in Seq(Tasks) /\ \A i \in 1 .. Len(ts) : ts[i].unit = <<s, FirstUnit(a) + i - 1>>
    BY AutoTasks
  <2> HIDE DEF ts
  <2>3. /\ n \in Nat /\ Len(Work') = n + Len(ts) /\ Len(ts) \in Nat
        /\ \A i \in 1 .. n : Work'[i] = Work[i]
        /\ \A i \in 1 .. Len(Work') : i \notin 1 .. n => i - n \in 1 .. Len(ts) /\ Work'[i] = ts[i - n]
    BY <1>0, <2>1, <2>2
  <2> HIDE DEF n
  <2>4. \A i \in 1 .. n : /\ Work[i].unit \in Units /\ Work[i].unit[1] # s
                          /\ Own(answer', Work[i].unit) <=> Own(answer, Work[i].unit)
    BY <1>4, InWork, SortLeaves DEF n
  <2>5. \A i \in 1 .. Len(Work') : i \notin 1 .. n =>
           Work'[i].unit[1] = s /\ Work'[i].unit[2] = FirstUnit(a) + (i - n) - 1
    BY <2>2, <2>3
  <2> SUFFICES ASSUME NEW i \in 1 .. Len(Work'), NEW j \in 1 .. Len(Work'),
                      Work'[i].unit[1] = Work'[j].unit[1], i < j,
                      Own(answer', Work'[i].unit), Own(answer', Work'[j].unit)
               PROVE  Work'[i].unit[2] < Work'[j].unit[2]
    BY DEF OrderInv
  <2>6. CASE j \in 1 .. n
    <3>1. i \in 1 .. n BY <2>3, <2>6
    <3> QED BY <2>3, <2>4, <2>6, <3>1 DEF OrderInv, n
  <2>7. CASE j \notin 1 .. n
    <3>1. i \notin 1 .. n BY <2>3, <2>4, <2>5, <2>7
    <3>2. FirstUnit(a) \in Nat BY FirstSaysFiles
    <3> QED BY <2>3, <2>5, <2>7, <3>1, <3>2
  <2> QED BY <2>6, <2>7
<1> QED BY <1>1, <1>2, <1>3, <1>4, StepIs

\* While the answers stay, so does what a task has to carry.
LEMMA CarriesStays ==
  ASSUME NEW t \in Tasks, answer' = answer, Carries(answer, t) PROVE Carries(answer', t)
BY DEF Carries, OwnsNone, LastOwn, Own, Sorted

\* No task loses its notice on the way from a prompt to the work.
LEMMA NoticePreserved ==
  ASSUME TypeOK, DrainInv, SortInv, PlaceInv, NoticeInv, [Next]_vars
  PROVE  NoticeInv'
<1>0. Work \in Seq(Tasks) /\ confirms \in Seq(Tasks) BY WorkIs DEF TypeOK
<1>a. /\ \A i \in 1 .. Len(Work) : Work[i] \in Tasks
      /\ \A i \in 1 .. Len(confirms) : confirms[i] \in Tasks
  BY <1>0
<1>1. CASE Quiet \/ OnSkip
  <2>1. /\ Work' = Work /\ answer' = answer
        /\ confirms' = confirms \/ (confirms # <<>> /\ confirms' = Tail(confirms))
    BY <1>1, SkipIs DEF Quiet
  <2>2. \A i \in 1 .. Len(confirms') : \E j \in 1 .. Len(confirms) : confirms'[i] = confirms[j]
    <3>1. CASE confirms' = confirms BY <3>1
    <3>2. CASE confirms # <<>> /\ confirms' = Tail(confirms)
      <4>1. \A i \in 1 .. Len(confirms') : i + 1 \in 1 .. Len(confirms) /\ confirms'[i] = confirms[i + 1]
        BY <1>0, <3>2
      <4> QED BY <4>1
    <3> QED BY <2>1, <3>1, <3>2
  <2>3. \A i \in 1 .. Len(confirms') : Carries(answer', confirms'[i])
    BY <1>a, <2>1, <2>2, CarriesStays DEF NoticeInv
  <2>4. \A i \in 1 .. Len(Work') : Carries(answer', Work'[i])
    BY <1>a, <2>1, CarriesStays DEF NoticeInv
  <2> QED BY <2>3, <2>4 DEF NoticeInv
<1>2. CASE Reports
  <2>1. Work' = Tail(Work) /\ answer' = answer /\ 1 \in 1 .. Len(Work) /\ confirms' = confirms
    BY <1>2, ReportLeaves
  <2>2. \A i \in 1 .. Len(Work') : i + 1 \in 1 .. Len(Work) /\ Work'[i] = Work[i + 1] BY <1>0, <2>1
  <2>3. \A i \in 1 .. Len(Work') : Carries(answer', Work'[i])
    BY <1>a, <2>1, <2>2, CarriesStays DEF NoticeInv
  <2>4. \A i \in 1 .. Len(confirms') : Carries(answer', confirms'[i])
    BY <1>a, <2>1, CarriesStays DEF NoticeInv
  <2> QED BY <2>3, <2>4 DEF NoticeInv
<1>3. CASE OnAdd
  <2>1. confirms # <<>> /\ Work' = Work \o <<Head(confirms)>> /\ answer' = answer /\ confirms' = Tail(confirms)
    BY <1>3, AddIs
  <2>2. 1 \in 1 .. Len(confirms) /\ Head(confirms) = confirms[1]
        /\ \A i \in 1 .. Len(confirms') : i + 1 \in 1 .. Len(confirms) /\ confirms'[i] = confirms[i + 1]
    BY <1>0, <2>1
  <2>3. /\ Len(Work') = Len(Work) + 1 /\ Len(Work) \in Nat
        /\ \A i \in 1 .. Len(Work) : Work'[i] = Work[i]
        /\ Work'[Len(Work) + 1] = confirms[1]
    BY <1>0, <2>1, <2>2
  <2>4. \A i \in 1 .. Len(Work') : i \in 1 .. Len(Work) \/ i = Len(Work) + 1 BY <2>3
  <2>5. \A i \in 1 .. Len(Work') : Carries(answer', Work'[i])
    BY <1>a, <2>1, <2>2, <2>3, <2>4, CarriesStays DEF NoticeInv
  <2>6. \A i \in 1 .. Len(confirms') : Carries(answer', confirms'[i])
    BY <1>a, <2>1, <2>2, CarriesStays DEF NoticeInv
  <2> QED BY <2>5, <2>6 DEF NoticeInv
<1>4. ASSUME NEW s \in Selections, NEW a \in Answers, SortsAs(s, a) PROVE NoticeInv'
  <2> DEFINE ts  == Carry(AutoUnits(s, a), Short(a))
             new == Carry(BigUnits(s, a), Short(a) /\ AutoUnits(s, a) = <<>>)
  <2>1. Work' = Work \o ts /\ confirms' = confirms \o new BY <1>4 DEF SortsAs
  <2>2. /\ ts \in Seq(Tasks)
        /\ \A i \in 1 .. Len(ts) : ts[i].unit = <<s, FirstUnit(a) + i - 1>>
        /\ \A i \in 1 .. Len(ts) : ts[i].notice <=> Short(a) /\ ts[i].unit[2] = a.small
        /\ \A u \in Units : Waits(ts, u) <=> u[1] = s /\ FirstUnit(a) <= u[2] /\ u[2] <= a.small
    BY AutoTasks
  <2>3. /\ new \in Seq(Tasks)
        /\ \A i \in 1 .. Len(new) : new[i].unit[1] = s /\ a.small < new[i].unit[2]
        /\ \A i \in 1 .. Len(new) : new[i].notice => a.small < FirstUnit(a)
    BY BigTasks
  <2> HIDE DEF ts, new
  <2>4. /\ answer'[s] = a /\ \A t \in Selections : t # s => answer'[t] = answer[t]
        /\ \A u \in Units : u[1] = s => ~Own(answer, u) /\ ~Large(answer, u)
        /\ \A u \in Units : u[1] # s => (LastOwn(answer', u) <=> LastOwn(answer, u))
        /\ \A u \in Units : u[1] = s => (Own(answer', u) <=> FirstUnit(a) <= u[2] /\ u[2] <= a.small)
    BY <1>4, SortLeaves
  <2>5. a.small \in Nat BY AnswerIs
  <2>6. ASSUME NEW t \in Tasks, t.unit[1] # s, Carries(answer, t) PROVE Carries(answer', t)
    <3>1. t.unit \in Units BY DEF Tasks
    <3>2. answer'[t.unit[1]] = answer[t.unit[1]] BY <2>4, <2>6, <3>1, UnitIs
    <3> QED BY <2>4, <2>6, <3>1, <3>2 DEF Carries, OwnsNone
  <2>7. ASSUME NEW i \in 1 .. Len(ts) PROVE Carries(answer', ts[i])
    <3>1. ts[i].unit \in Units /\ ts[i].unit[1] = s BY <2>2, UnitOfPlace
    <3>2. Waits(ts, ts[i].unit) BY DEF Waits
    <3>3. Own(answer', ts[i].unit) BY <2>2, <2>4, <3>1, <3>2
    <3>4. LastOwn(answer', ts[i].unit) <=> ts[i].unit[2] = a.small BY <2>4, <3>1, <3>3 DEF LastOwn
    <3> QED BY <2>2, <2>4, <3>1, <3>4 DEF Carries
  <2>8. ASSUME NEW i \in 1 .. Len(new) PROVE Carries(answer', new[i])
    <3>1. new[i].unit \in Units /\ new[i].unit[1] = s BY <2>3, UnitOfPlace
    <3>2. new[i].unit[2] \in Nat BY <3>1, UnitIs
    <3>3. ~LastOwn(answer', new[i].unit) BY <2>3, <2>4, <2>5, <3>1, <3>2 DEF LastOwn
    <3> QED BY <2>3, <2>4, <3>1, <3>3 DEF Carries, OwnsNone
  <2>9. \A i \in 1 .. Len(Work) : Carries(answer', Work[i]) BY <2>4, <2>6, InWork DEF NoticeInv
  <2>10. \A i \in 1 .. Len(confirms) : Carries(answer', confirms[i])
    BY <2>4, <2>6, InConfirms DEF NoticeInv
  <2>11. \A i \in 1 .. Len(Work') : (i \in 1 .. Len(Work) /\ Work'[i] = Work[i])
                                   \/ \E j \in 1 .. Len(ts) : Work'[i] = ts[j]
    <3>1. \A i \in 1 .. Len(Work') : i \in 1 .. Len(Work) \/ i - Len(Work) \in 1 .. Len(ts)
      BY <1>0, <2>1, <2>2
    <3>2. /\ \A i \in 1 .. Len(Work) : Work'[i] = Work[i]
          /\ \A i \in 1 .. Len(Work') : i - Len(Work) \in 1 .. Len(ts) => Work'[i] = ts[i - Len(Work)]
      BY <1>0, <2>1, <2>2
    <3> QED BY <3>1, <3>2
  <2>12. \A i \in 1 .. Len(confirms') : (i \in 1 .. Len(confirms) /\ confirms'[i] = confirms[i])
                                   \/ \E j \in 1 .. Len(new) : confirms'[i] = new[j]
    <3>1. \A i \in 1 .. Len(confirms') : i \in 1 .. Len(confirms) \/ i - Len(confirms) \in 1 .. Len(new)
      BY <1>0, <2>1, <2>3
    <3>2. /\ \A i \in 1 .. Len(confirms) : confirms'[i] = confirms[i]
          /\ \A i \in 1 .. Len(confirms') : i - Len(confirms) \in 1 .. Len(new) =>
               confirms'[i] = new[i - Len(confirms)]
      BY <1>0, <2>1, <2>3
    <3> QED BY <3>1, <3>2
  <2>13. \A i \in 1 .. Len(Work') : Carries(answer', Work'[i]) BY <2>7, <2>9, <2>11
  <2>14. \A i \in 1 .. Len(confirms') : Carries(answer', confirms'[i]) BY <2>8, <2>10, <2>12
  <2> QED BY <2>13, <2>14 DEF NoticeInv
<1> QED BY <1>1, <1>2, <1>3, <1>4, StepIs

-----------------------------------------------------------------------------
(* What is told.                                                           *)

\* A selection with a unit that is added by itself has some.
LEMMA OwnsNoneIs ==
  ASSUME TypeOK, NEW u \in Units, Own(answer, u) PROVE ~OwnsNone(answer, u[1])
<1>1. answer[u[1]] \in Answers BY UnitIs DEF Own, TypeOK
<1>2. answer[u[1]].small \in Nat /\ FirstUnit(answer[u[1]]) \in Nat /\ u[2] \in Nat
  BY <1>1, AnswerIs, UnitIs
<1> QED BY <1>2 DEF Own, OwnsNone

\* The last of what a selection adds by itself is the last to be reported.
LEMMA LastIsLast ==
  ASSUME TypeOK, DrainInv, PlaceInv, OrderInv, 1 \in 1 .. Len(Work), LastOwn(answer, Work[1].unit),
         NEW u \in Units, u[1] = Work[1].unit[1], u # Work[1].unit, Own(answer, u)
  PROVE  said[u] # "none"
<1> SUFFICES ASSUME said[u] = "none" PROVE FALSE OBVIOUS
<1> DEFINE h == Work[1].unit
<1>1. h \in Units BY InWork
<1>2. Waits(Work, u) BY OwnIsNotLarge DEF PlaceInv
<1>3. PICK j \in 1 .. Len(Work) : Work[j].unit = u BY <1>2 DEF Waits
<1>4. 1 < j BY <1>3
<1>5. h[2] < u[2] BY <1>3, <1>4 DEF OrderInv, LastOwn
<1>6. h[2] = answer[u[1]].small /\ u[2] <= answer[u[1]].small BY DEF LastOwn, Own
<1>7. h[2] \in Nat /\ u[2] \in Nat BY <1>1, UnitIs
<1> QED BY <1>5, <1>6, <1>7

\* The report that tells a shortfall is that of the last unit.
LEMMA ToldPreserved ==
  ASSUME TypeOK, DrainInv, SortInv, PlaceInv, OrderInv, NoticeInv, ToldInv, [Next]_vars
  PROVE  ToldInv'
<1>1. CASE Quiet \/ OnAdd
  <2>1. answer' = answer /\ said' = said /\ told' = told BY <1>1, AddIs DEF Quiet
  <2> QED BY <2>1 DEF ToldInv, Sorted
<1>2. CASE OnSkip
  <2>1. /\ answer' = answer /\ told' = told
        /\ \A u \in Units : said'[u] = said[u] \/ said'[u] = "skipped"
    BY <1>2, SkipIs DEF TypeOK
  <2> QED BY <2>1 DEF ToldInv, Sorted
<1>3. CASE Reports
  <2>1. PICK how \in {"added", "error"}, m \in Messages \cup {NoMessage} :
           /\ task \in Tasks /\ task.unit \in Units /\ Waits(Work, task.unit)
           /\ 1 \in 1 .. Len(Work) /\ Work[1] = task
           /\ \A u \in Units : said'[u] = IF u = task.unit THEN how ELSE said[u]
           /\ answer' = answer /\ SetStatusMsg(m, TRUE)
           /\ m.notice => how = "added" /\ task.notice /\ m.of = task.unit
           /\ how = "added" => (task.notice => m.notice)
    BY <1>3, ReportLeaves
  <2>2. Carries(answer, task) BY <2>1 DEF NoticeInv
  <2>3. told \subseteq told' /\ told' \subseteq told \cup {task.unit[1]}
        /\ (m.notice => task.unit[1] \in told')
        /\ (task.unit[1] \in told' => task.unit[1] \in told \/ m.notice)
    BY <2>1 DEF SetStatusMsg
  <2> SUFFICES ASSUME NEW s \in Selections, Sorted(s)
               PROVE  /\ Short(answer[s]) /\ OwnsNone(answer, s) => s \in told'
                      /\ Short(answer[s]) =>
                           \A u \in Units : u[1] = s /\ LastOwn(answer, u) /\ said'[u] = "added" => s \in told'
                      /\ s \in told' => \A u \in Units : u[1] = s /\ Own(answer, u) => said'[u] # "none"
    BY <2>1 DEF ToldInv, Sorted
  <2>4. Short(answer[s]) /\ OwnsNone(answer, s) => s \in told' BY <2>3 DEF ToldInv
  <2>5. ASSUME Short(answer[s]), NEW u \in Units, u[1] = s, LastOwn(answer, u), said'[u] = "added"
        PROVE  s \in told'
    <3>1. CASE u = task.unit
      <4>1. how = "added" /\ task.notice BY <2>1, <2>2, <2>5, <3>1 DEF Carries
      <4> QED BY <2>1, <2>3, <2>5, <3>1, <4>1
    <3>2. CASE u # task.unit
      <4>1. said[u] = "added" BY <2>1, <2>5, <3>2
      <4> QED BY <2>3, <2>5, <4>1 DEF ToldInv
    <3> QED BY <3>1, <3>2
  <2>6. ASSUME s \in told', NEW u \in Units, u[1] = s, Own(answer, u) PROVE said'[u] # "none"
    <3>1. CASE u = task.unit BY <2>1, <3>1
    <3>2. CASE u # task.unit /\ s \in told
      <4>1. said[u] # "none" BY <2>6, <3>2 DEF ToldInv
      <4> QED BY <2>1, <3>2, <4>1
    <3>3. CASE u # task.unit /\ s \notin told
      <4>1. s = task.unit[1] /\ m.notice BY <2>3, <2>6, <3>3
      <4>2. task.notice BY <2>1, <4>1
      <4>3. LastOwn(answer, task.unit) BY <2>2, <2>6, <4>1, <4>2, OwnsNoneIs DEF Carries
      <4>4. said[u] # "none" BY <2>1, <2>6, <3>3, <4>1, <4>3, LastIsLast
      <4> QED BY <2>1, <3>3, <4>4
    <3> QED BY <3>1, <3>2, <3>3
  <2> QED BY <2>4, <2>5, <2>6
<1>4. ASSUME NEW s \in Selections, NEW a \in Answers, SortsAs(s, a) PROVE ToldInv'
  <2>1. /\ ~Sorted(s) /\ answer'[s] = a /\ a # NoAnswer
        /\ \A t \in Selections : t # s => answer'[t] = answer[t]
        /\ \A u \in Units : u[1] = s => ~Own(answer, u) /\ ~Large(answer, u)
    BY <1>4, SortLeaves, AnswerIs
  <2>2. said' = said /\ SetStatusMsg(Outcome(s, a), AutoUnits(s, a) = <<>>) BY <1>4 DEF SortsAs
  <2>3. AutoUnits(s, a) = <<>> <=> a.small < FirstUnit(a)
    <3>1. Len(AutoUnits(s, a)) = a.small + 1 - FirstUnit(a) /\ AutoUnits(s, a) \in Seq(Units)
      BY AutoIs
    <3>2. a.small \in Nat /\ FirstUnit(a) \in {0, 1} BY AnswerIs
    <3> QED BY <3>1, <3>2
  <2>4. /\ told \subseteq told' /\ told' \subseteq told \cup {s} /\ s \notin told
        /\ s \in told' <=> AutoUnits(s, a) = <<>> /\ Short(a)
    BY <2>1, <2>2, OutcomeIs DEF SetStatusMsg, SortInv
  <2>5. \A u \in Units : u[1] = s => said[u] = "none" BY <2>1 DEF PlaceInv, TypeOK
  <2> SUFFICES ASSUME NEW t \in Selections, answer'[t] # NoAnswer
               PROVE  /\ Short(answer'[t]) /\ OwnsNone(answer', t) => t \in told'
                      /\ Short(answer'[t]) =>
                           \A u \in Units : u[1] = t /\ LastOwn(answer', u) /\ said'[u] = "added" => t \in told'
                      /\ t \in told' => \A u \in Units : u[1] = t /\ Own(answer', u) => said'[u] # "none"
    BY DEF ToldInv, Sorted
  <2>6. CASE t = s
    <3>1. Short(answer'[t]) /\ OwnsNone(answer', t) => t \in told'
      BY <2>1, <2>3, <2>4, <2>6 DEF OwnsNone
    <3>2. \A u \in Units : u[1] = t => said'[u] = "none" BY <2>2, <2>5, <2>6
    <3>3. ASSUME t \in told', NEW u \in Units, u[1] = t, Own(answer', u) PROVE FALSE
      <4>1. a.small < FirstUnit(a) /\ FirstUnit(a) <= u[2] /\ u[2] <= a.small
        BY <2>1, <2>3, <2>4, <2>6, <3>3 DEF Own
      <4>2. a.small \in Nat /\ FirstUnit(a) \in Nat /\ u[2] \in Nat BY AnswerIs, UnitIs
      <4> QED BY <4>1, <4>2
    <3> QED BY <3>1, <3>2, <3>3
  <2>7. CASE t # s
    <3>1. answer'[t] = answer[t] /\ (t \in told' <=> t \in told) /\ Sorted(t)
      BY <2>1, <2>4, <2>7 DEF Sorted
    <3>2. /\ OwnsNone(answer', t) <=> OwnsNone(answer, t)
          /\ \A u \in Units : u[1] = t => (Own(answer', u) <=> Own(answer, u))
                                       /\ (LastOwn(answer', u) <=> LastOwn(answer, u))
      BY <3>1 DEF OwnsNone, Own, LastOwn
    <3> QED BY <2>2, <3>1, <3>2 DEF ToldInv
  <2> QED BY <2>6, <2>7
<1> QED BY <1>1, <1>2, <1>3, <1>4, StepIs

-----------------------------------------------------------------------------
(* The line, the starts, and the theorems.                                 *)

\* The line shows nothing stale.
LEMMA LinePreserved ==
  ASSUME TypeOK, DrainInv, PlaceInv, TimerIsItsOwn, AddingIsTrue, [Next]_vars
  PROVE  TimerIsItsOwn' /\ AddingIsTrue'
<1>1. ASSUME NEW m, NEW brief, SetStatusMsg(m, brief) PROVE TimerIsItsOwn' /\ status' = m
  BY <1>1 DEF SetStatusMsg, TimerFor, TimerIsItsOwn
<1>2. ASSUME NEW s \in Selections, Pick(s) PROVE TimerIsItsOwn' /\ AddingIsTrue'
  <2>1. asked'[s] = "sorting" BY <1>2 DEF Pick, TypeOK
  <2>2. TimerIsItsOwn' BY <1>1, <1>2 DEF Pick
  <2> QED BY <2>1, <2>2 DEF AddingIsTrue
<1>3. ASSUME NEW s \in Selections, SortFails(s) PROVE TimerIsItsOwn' /\ AddingIsTrue'
  <2> DEFINE m == Message("failed", <<s, 0>>, FALSE)
  <2>1. SetStatusMsg(m, TRUE) /\ m.kind = "failed" BY <1>3 DEF SortFails, Message
  <2> HIDE DEF m
  <2>2. TimerIsItsOwn' /\ status'.kind = "failed" BY <1>1, <2>1
  <2> QED BY <2>2 DEF AddingIsTrue
<1>4. ASSUME NEW s \in Selections, NEW a \in Answers, SortsAs(s, a) PROVE TimerIsItsOwn' /\ AddingIsTrue'
  BY <1>1, <1>4, OutcomeIs DEF SortsAs, AddingIsTrue
<1>5. CASE Reports
  <2>1. PICK m : SetStatusMsg(m, TRUE) /\ m.kind # "adding" BY <1>5, ReportLeaves
  <2> QED BY <1>1, <2>1 DEF AddingIsTrue
<1>6. CASE TimerFires
  <2>1. status' = NoMessage /\ timers' = {}
    BY <1>6 DEF TimerFires, TimerIsItsOwn
  <2> QED BY <2>1 DEF TimerIsItsOwn, AddingIsTrue, NoMessage, Message
<1>7. CASE UNCHANGED <<asked, status, timers>>
  BY <1>7 DEF TimerIsItsOwn, AddingIsTrue
<1>8. ASSUME NEW s \in Selections, SortAnswers(s) PROVE TimerIsItsOwn' /\ AddingIsTrue'
  BY <1>4, <1>8, SortIs
<1>9. CASE StartAnswers \/ CallFails BY <1>5, <1>9, StartReports, FailReports
<1>10. CASE \/ AddAnswers \/ BackendStarts \/ OnAdd \/ OnSkip \/ UNCHANGED vars
            \/ \E u \in Units : BackendAdds(u)
  BY <1>7, <1>10 DEF AddAnswers, BackendStarts, BackendAdds, OnAdd, OnSkip, vars, line
<1> QED BY <1>2, <1>3, <1>6, <1>8, <1>9, <1>10 DEF Next, Drain, Sort

\* What is inserted is started, or its start is to come, or the add was reported as failed.
LEMMA StartedPreserved ==
  ASSUME TypeOK, DrainInv, PlaceInv, NothingWaitsUnstarted, [Next]_vars
  PROVE  NothingWaitsUnstarted'
<1>1. CASE Reports
  <2>1. PICK how \in {"added", "error"} :
          /\ task.unit \in Units
          /\ \A u \in Units : said'[u] = IF u = task.unit THEN how ELSE said[u]
          /\ UNCHANGED <<added, started>>
          /\ how = "added" => task.unit \in started
    BY <1>1, ReportLeaves
  <2>2. ASSUME NEW u \in added' \ started' PROVE said'[u] = "error"
    <3>1. u \in Units /\ u \in added \ started BY <2>1, <2>2 DEF TypeOK
    <3> QED BY <2>1, <3>1 DEF NothingWaitsUnstarted
  <2> QED BY <2>2 DEF NothingWaitsUnstarted
<1>2. ASSUME NEW s \in Selections, NEW a \in Answers, SortsAs(s, a) PROVE NothingWaitsUnstarted'
  BY <1>2 DEF SortsAs, NothingWaitsUnstarted
<1>3. CASE OnAdd
  BY <1>3, AddIs DEF NothingWaitsUnstarted
<1>4. CASE OnSkip
  <2>1. /\ Head(confirms).unit \in Units /\ confirms # <<>>
        /\ said' = [said EXCEPT ![Head(confirms).unit] = "skipped"]
        /\ UNCHANGED <<running, task, added, started>>
    BY <1>4, SkipIs
  <2>2. 1 \in 1 .. Len(confirms) /\ Head(confirms) = confirms[1]
    <3>1. confirms \in Seq(Tasks) BY DEF TypeOK
    <3> QED BY <2>1, <3>1
  <2>3. said[Head(confirms).unit] = "none" BY <2>2, InConfirms DEF PlaceInv
  <2>4. ASSUME NEW u \in added' \ started' PROVE said'[u] = "error" \/ (running /\ task.unit = u)
    <3>1. u \in Units /\ u \in added \ started BY <2>1, <2>4 DEF TypeOK
    <3>2. said[u] = "error" => said'[u] = "error" BY <2>1, <2>3, <3>1 DEF TypeOK
    <3> QED BY <3>1, <3>2 DEF NothingWaitsUnstarted
  <2> QED BY <2>1, <2>4 DEF NothingWaitsUnstarted
<1>5. ASSUME NEW u \in Units, BackendAdds(u) PROVE NothingWaitsUnstarted'
  <2>1. /\ said[u] = "error" \/ (running /\ task.unit = u)
        /\ added' = added \cup {u}
        /\ UNCHANGED <<running, task, said, started>>
    BY <1>5 DEF BackendAdds, DrainInv, drain
  <2> QED BY <2>1 DEF NothingWaitsUnstarted
<1>6. CASE BackendStarts
  BY <1>6 DEF BackendStarts, NothingWaitsUnstarted
<1>7. CASE UNCHANGED <<running, task, said, added, started>>
  BY <1>7 DEF NothingWaitsUnstarted
<1>8. ASSUME NEW s \in Selections, Pick(s) \/ SortFails(s) PROVE NothingWaitsUnstarted'
  BY <1>7, <1>8 DEF Pick, SortFails, drain, backend
<1>9. ASSUME NEW s \in Selections, SortAnswers(s) PROVE NothingWaitsUnstarted'
  BY <1>2, <1>9, SortIs
<1>10. CASE StartAnswers \/ CallFails BY <1>1, <1>10, StartReports, FailReports
<1>11. CASE AddAnswers \/ TimerFires \/ UNCHANGED vars
  BY <1>7, <1>11 DEF AddAnswers, TimerFires, vars, drain, backend
<1> QED BY <1>3, <1>4, <1>5, <1>6, <1>8, <1>9, <1>10, <1>11 DEF Next, Drain, Sort

\* At first nothing is picked.
LEMMA StartsFine == Init => IInv
<1> SUFFICES ASSUME Init PROVE IInv OBVIOUS
<1> USE DEF Init
<1>1. TypeOK
  <2>1. confirms \in Seq(Tasks) /\ tasks \in Seq(Tasks) OBVIOUS
  <2>2. task \in Tasks \cup {NoTask} /\ status \in Messages \cup {NoMessage} OBVIOUS
  <2> QED BY <2>1, <2>2 DEF TypeOK
<1>2. DrainInv BY DEF DrainInv
<1>3. Work = <<>> /\ confirms = <<>> BY DEF Work
<1>4. \A q : q = <<>> => Apart(q) /\ \A u : ~Waits(q, u) BY DEF Apart, Waits
<1>5. \A u \in Units : ~Own(answer, u) /\ ~Large(answer, u) BY UnitIs DEF Own, Large
<1>6. PlaceInv BY <1>3, <1>4, <1>5 DEF PlaceInv
<1>7. OrderInv /\ NoticeInv BY <1>3 DEF OrderInv, NoticeInv
<1>8. SortInv /\ ToldInv BY DEF SortInv, ToldInv, Sorted
<1>9. NothingWaitsUnstarted /\ AddingIsTrue /\ TimerIsItsOwn
  BY DEF NothingWaitsUnstarted, AddingIsTrue, TimerIsItsOwn, NoMessage, Message
<1> QED BY <1>1, <1>2, <1>6, <1>7, <1>8, <1>9 DEF IInv

\* The invariant holds.
LEMMA InvHolds == Spec => []IInv
<1>1. IInv /\ [Next]_vars => IInv'

    BY StepIs, SortPreserved, PlacePreserved, OrderPreserved, NoticePreserved,
     ToldPreserved, LinePreserved, StartedPreserved
     DEF IInv
<1> QED BY StartsFine, <1>1, PTL DEF Spec

\* The invariant says where each unit is.
LEMMA PlacesHold == ASSUME TypeOK, DrainInv, PlaceInv PROVE NothingIsStranded
<1> DEFINE waiting == confirms \o Work
           units   == [i \in 1 .. Len(waiting) |-> waiting[i].unit]
           held(s) == ToSet(AutoUnits(s, answer[s])) \cup ToSet(BigUnits(s, answer[s]))
           all     == UNION {held(s) : s \in {t \in Selections : Sorted(t)}}
<1>1. confirms \in Seq(Tasks) /\ Work \in Seq(Tasks) /\ waiting \in Seq(Tasks) BY WorkIs DEF TypeOK
<1>2. Apart(waiting) BY <1>1, ApartInBoth DEF PlaceInv
<1>3. \A u \in Units : Waits(waiting, u) <=> (Own(answer, u) \/ Large(answer, u)) /\ said[u] = "none"
  BY <1>1, WaitsInBoth DEF PlaceInv
<1>4. IsInjective(units) BY <1>2 DEF IsInjective, Apart
<1>5. \A u : u \in ToSet(units) <=> Waits(waiting, u) BY DEF ToSet, Waits
<1>6. ToSet(units) \subseteq Units
  <2> HIDE DEF waiting, units
  <2>1. \A u : Waits(waiting, u) => u \in Units BY <1>1, UnitOfPlace DEF Waits
  <2> QED BY <1>5, <2>1
<1>7. ASSUME NEW s \in Selections, Sorted(s)
      PROVE  /\ held(s) \subseteq Units
             /\ \A u \in Units : u \in held(s) <=> u[1] = s /\ (Own(answer, u) \/ Large(answer, u))
  <2> DEFINE a  == answer[s]
             ts == AutoUnits(s, a)
             bs == BigUnits(s, a)
  <2>1. a \in Answers BY <1>7 DEF Sorted, TypeOK
  <2>2. /\ ts \in Seq(Units) /\ Len(ts) = a.small + 1 - FirstUnit(a)
        /\ \A i \in 1 .. Len(ts) : ts[i] = <<s, FirstUnit(a) + i - 1>>
    BY <2>1, AutoIs
  <2>3. bs \in Seq(Units) /\ Len(bs) = a.big /\ \A i \in 1 .. Len(bs) : bs[i] = <<s, a.small + i>>
    BY <2>1, BigIs
  <2>4. a.small \in Nat /\ a.big \in Nat /\ FirstUnit(a) \in {0, 1} BY <2>1, AnswerIs
  <2>5. \A u \in Units : /\ u[1] = s => (Own(answer, u) <=> FirstUnit(a) <= u[2] /\ u[2] <= a.small)
                         /\ u[1] = s => (Large(answer, u) <=> a.small < u[2] /\ u[2] <= a.small + a.big)
    BY <1>7 DEF Own, Large, Sorted
  <2> HIDE DEF ts, bs, a
  <2>6. ASSUME NEW u \in Units, u \in ToSet(ts) PROVE u[1] = s /\ FirstUnit(a) <= u[2] /\ u[2] <= a.small
    <3>1. PICK i \in 1 .. Len(ts) : u = ts[i] BY <2>2, <2>6 DEF ToSet
    <3>2. u[1] = s /\ u[2] = FirstUnit(a) + i - 1 BY <2>2, <3>1
    <3> QED BY <2>2, <2>4, <3>2
  <2>7. ASSUME NEW u \in Units, u[1] = s, FirstUnit(a) <= u[2], u[2] <= a.small PROVE u \in ToSet(ts)
    <3> DEFINE i == u[2] - FirstUnit(a) + 1
    <3>1. i \in 1 .. Len(ts) /\ FirstUnit(a) + i - 1 = u[2] BY <2>2, <2>4, <2>7, UnitIs
    <3>2. ts[i] = u BY <2>2, <2>7, <3>1, UnitIs
    <3> QED BY <2>2, <3>1, <3>2 DEF ToSet
  <2>8. ASSUME NEW u \in Units, u \in ToSet(bs) PROVE u[1] = s /\ a.small < u[2] /\ u[2] <= a.small + a.big
    <3>1. PICK i \in 1 .. Len(bs) : u = bs[i] BY <2>3, <2>8 DEF ToSet
    <3>2. u[1] = s /\ u[2] = a.small + i BY <2>3, <3>1
    <3> QED BY <2>3, <2>4, <3>2
  <2>9. ASSUME NEW u \in Units, u[1] = s, a.small < u[2], u[2] <= a.small + a.big PROVE u \in ToSet(bs)
    <3> DEFINE i == u[2] - a.small
    <3>1. i \in 1 .. Len(bs) /\ a.small + i = u[2] BY <2>3, <2>4, <2>9, UnitIs
    <3>2. bs[i] = u BY <2>3, <2>9, <3>1, UnitIs
    <3> QED BY <2>3, <3>1, <3>2 DEF ToSet
  <2>10. ToSet(ts) \subseteq Units /\ ToSet(bs) \subseteq Units BY <2>2, <2>3 DEF ToSet
  <2>11. held(s) = ToSet(ts) \cup ToSet(bs) BY DEF ts, bs, a
  <2> HIDE DEF held
  <2> QED BY <2>5, <2>6, <2>7, <2>8, <2>9, <2>10, <2>11
<1>8. \A u : u \in all <=> \E s \in Selections : Sorted(s) /\ u \in held(s)
  <2> HIDE DEF held
  <2> QED OBVIOUS
<1> HIDE DEF held
<1>9. \A u \in Units : u \in all <=> Own(answer, u) \/ Large(answer, u)
  <2>1. \A u \in Units : Own(answer, u) \/ Large(answer, u) => Sorted(u[1]) /\ u[1] \in Selections
    BY UnitIs DEF Own, Large, Sorted
  <2> QED BY <1>7, <1>8, <2>1
<1>10. all \subseteq Units BY <1>7, <1>8
<1> HIDE DEF all, units, waiting
<1>11. ToSet(units) = {u \in all : said[u] = "none"}
  BY <1>3, <1>5, <1>6, <1>9, <1>10
<1>12. tasks # <<>> => running BY DEF DrainInv
<1> QED BY <1>4, <1>11, <1>12 DEF NothingIsStranded, units, waiting, all, held

\* The invariant says when a shortfall is told.
LEMMA ShortfallHolds == ASSUME TypeOK, PlaceInv, ToldInv PROVE ShortfallIsTold
<1> SUFFICES ASSUME NEW s \in Selections, Sorted(s), Short(answer[s])
             PROVE  LET own == ToSet(AutoUnits(s, answer[s])) IN
                      /\ s \in told => \A u \in own : said[u] # "none"
                      /\ (\A u \in own : said[u] = "added") => s \in told
  BY DEF ShortfallIsTold
<1> DEFINE a  == answer[s]
           ts == AutoUnits(s, a)
<1>1. a \in Answers BY DEF Sorted, TypeOK
<1>2. /\ ts \in Seq(Units) /\ Len(ts) = a.small + 1 - FirstUnit(a)
      /\ \A i \in 1 .. Len(ts) : ts[i] = <<s, FirstUnit(a) + i - 1>>
  BY <1>1, AutoIs
<1>3. a.small \in Nat /\ FirstUnit(a) \in {0, 1} BY <1>1, AnswerIs
<1>4. OwnsNone(answer, s) <=> a.small < FirstUnit(a) BY DEF OwnsNone
<1>5. \A u \in Units : u[1] = s => (Own(answer, u) <=> FirstUnit(a) <= u[2] /\ u[2] <= a.small)
                                /\ (LastOwn(answer, u) <=> FirstUnit(a) <= u[2] /\ u[2] = a.small)
  <2>1. \A u \in Units : u[1] = s => (Own(answer, u) <=> FirstUnit(a) <= u[2] /\ u[2] <= a.small)
    BY DEF Own, Sorted
  <2> QED BY <1>3, <2>1, UnitIs DEF LastOwn
<1> HIDE DEF ts, a
<1>6. ASSUME s \in told, NEW u \in ToSet(ts) PROVE said[u] # "none"
  <2>1. PICK i \in 1 .. Len(ts) : u = ts[i] BY <1>2 DEF ToSet
  <2>2. u \in Units /\ u[1] = s /\ u[2] = FirstUnit(a) + i - 1 BY <1>2, <2>1
  <2>3. FirstUnit(a) <= u[2] /\ u[2] <= a.small BY <1>2, <1>3, <2>2
  <2> QED BY <1>5, <1>6, <2>2, <2>3 DEF ToldInv
<1>7. ASSUME \A u \in ToSet(ts) : said[u] = "added" PROVE s \in told
  <2>1. CASE a.small < FirstUnit(a) BY <1>4, <2>1 DEF ToldInv, a
  <2>2. CASE FirstUnit(a) <= a.small
    <3> DEFINE n == a.small + 1 - FirstUnit(a)
               u == <<s, a.small>>
    <3>1. n \in 1 .. Len(ts) /\ FirstUnit(a) + n - 1 = a.small BY <1>2, <1>3, <2>2
    <3>2. ts[n] = u /\ u \in Units /\ u \in ToSet(ts)
      <4>1. ts[n] = u BY <1>2, <3>1
      <4> QED BY <1>2, <3>1, <4>1 DEF ToSet
    <3>3. u[1] = s /\ LastOwn(answer, u) /\ said[u] = "added" BY <1>5, <1>7, <2>2, <3>2
    <3> HIDE DEF u
    <3> QED BY <3>2, <3>3 DEF ToldInv, a
  <2> QED BY <1>3, <2>1, <2>2
<1> QED BY <1>6, <1>7 DEF ts, a

\* Every variable of the page's intake keeps its type, whatever is picked and answered
\* (useFileIntake.ts).
THEOREM FileIntakeTypeCorrect == Spec => []TypeOK
<1>1. IInv => TypeOK BY DEF IInv
<1> QED BY InvHolds, <1>1, PTL

\* Whatever is dropped, answered and given up in whatever order, a unit a sorted selection holds waits
\* in one place until the page has spoken of it, what waits has a drain that comes to it, and what was
\* inserted is started unless the page called the add failed.
THEOREM NothingGoesAstray == Spec => []NothingIsLost
<1>1. IInv => NothingIsLost BY PlacesHold DEF IInv, NothingIsLost
<1> QED BY InvHolds, <1>1, PTL

\* "Adding..." stands only during a sort, no message is wiped by an older timer, and a selection's
\* shortfall is told with the last of its own adds, not before.
THEOREM LineTellsTheTruth == Spec => []LineIsTrue
<1>1. IInv => LineIsTrue BY ShortfallHolds DEF IInv, LineIsTrue
<1> QED BY InvHolds, <1>1, PTL

-----------------------------------------------------------------------------
(* The folder watcher.                                                     *)

\* The reaper's slot holds what is on its way from the reaper, never a scan.
SlotInv ==
  /\ batch \in [Slots -> [at : Lists \cup {"idle", "watched", "marked", "offer"}, files : SUBSET Files]]
  /\ batch["reaper"].at \notin Lists

\* What is watched, and what a command carries, is a mode.
ModesInv ==
  /\ db \in Modes /\ configs \in Modes
  /\ call \in [Callers -> [at : {"idle", "read", "configs", "arm"}, mode : Modes, scan : Modes]]

\* While a pending file is as it was seen, the watcher takes it to be older than it is by the lag at
\* most.
AgeInv ==
  /\ version \in [Files -> Nat] /\ quiet \in [Files -> Nat]
  /\ pending \in [Files -> [seen : Nat, age : Nat]]
  /\ \A f \in Files : pending[f].seen <= version[f]
  /\ \A f \in Files : pending[f].seen = version[f] => pending[f].age <= quiet[f] + MaxLag
  /\ \A f \in Files : quiet[f] <= Delay /\ pending[f].age <= Delay + MaxLag

\* Pending entries, and slots.
LEMMA EntryTypes ==
  /\ Delay \in Nat /\ MaxLag \in Nat /\ "reaper" \in Slots /\ "reaper" \notin Scanners
  /\ Unseen \in [seen : Nat, age : Nat] /\ Unseen.seen = 0 /\ Unseen.age = 0
  /\ \A v, n \in Nat : /\ [seen |-> v, age |-> n] \in [seen : Nat, age : Nat]
                      /\ [seen |-> v, age |-> n].seen = v /\ [seen |-> v, age |-> n].age = n
BY FolderWatchAssumption DEF Slots, Unseen

\* What a step may do to the slots.
LEMMA SlotKept ==
  ASSUME SlotInv, NEW s \in Slots,
         NEW b \in [at : Lists \cup {"idle", "watched", "marked", "offer"}, files : SUBSET Files],
         batch' = [batch EXCEPT ![s] = b], s = "reaper" => b.at \notin Lists
  PROVE  SlotInv'
BY EntryTypes DEF SlotInv

\* A scan starts in a slot of a scanner.
LEMMA ScanKeeps ==
  ASSUME SlotInv, NEW list \in Lists, ScanStarts(list)
  PROVE  SlotInv' /\ batch'["reaper"] = batch["reaper"]
<1>1. PICK s \in Scanners : batch' = [batch EXCEPT ![s] = [IdleSlot EXCEPT !.at = list]]
  BY DEF ScanStarts
<1>2. s \in Slots /\ s # "reaper" BY EntryTypes DEF Slots
<1> DEFINE b == [IdleSlot EXCEPT !.at = list]
<1>3. b \in [at : Lists \cup {"idle", "watched", "marked", "offer"}, files : SUBSET Files]
  BY DEF IdleSlot
<1> HIDE DEF b
<1>4. batch' = [batch EXCEPT ![s] = b] BY <1>1 DEF b
<1> QED BY <1>2, <1>3, <1>4, SlotKept DEF SlotInv

\* A step of what is on its way to the queue: the reaper's files become fewer.
LEMMA TakeKeeps ==
  ASSUME SlotInv, NEW s \in Slots, TakeFiles(s)
  PROVE  SlotInv' /\ batch'["reaper"].files \subseteq batch["reaper"].files
<1> DEFINE Slot == [at : Lists \cup {"idle", "watched", "marked", "offer"}, files : SUBSET Files]
<1>1. ASSUME NEW at \in {"idle", "watched", "marked", "offer"}, NEW S \in SUBSET Files, Goes(s, at, S),
             s = "reaper" => S \subseteq batch["reaper"].files
      PROVE  SlotInv' /\ batch'["reaper"].files \subseteq batch["reaper"].files
  <2> DEFINE b == IF S = {} THEN IdleSlot ELSE [at |-> at, files |-> S]
  <2>1. b \in Slot /\ b.at \notin Lists /\ b.files = S BY DEF IdleSlot, Lists
  <2> HIDE DEF b
  <2>2. batch' = [batch EXCEPT ![s] = b] BY <1>1 DEF Goes, b
  <2>3. SlotInv' BY <2>1, <2>2, SlotKept
  <2> QED BY <1>1, <2>1, <2>2, <2>3, EntryTypes DEF SlotInv
<1>2. batch[s] \in Slot BY DEF SlotInv
<1>3. CASE ListFiles(s)
  <2>1. s # "reaper" BY <1>3 DEF ListFiles, SlotInv
  <2>2. PICK S \in SUBSET Files : Goes(s, "watched", S) BY <1>3 DEF ListFiles
  <2> QED BY <1>1, <2>1, <2>2
<1>4. CASE FilterWatched(s)
  <2>1. PICK S \in SUBSET batch[s].files : Goes(s, "marked", S) BY <1>4 DEF FilterWatched
  <2> QED BY <1>1, <1>2, <2>1
<1>5. CASE FilterMarked(s)
  <2>1. PICK S \in SUBSET batch[s].files : Goes(s, "offer", S) BY <1>5 DEF FilterMarked
  <2> QED BY <1>1, <1>2, <2>1
<1>6. CASE Offer(s)
  <2>1. Goes(s, "idle", {}) BY <1>6 DEF Offer
  <2> QED BY <1>1, <2>1
<1> QED BY <1>3, <1>4, <1>5, <1>6 DEF TakeFiles

\* A mode stays one, whatever step is taken.
LEMMA ModesKept ==
  ASSUME ModesInv, [WatchNext]_watchVars
  PROVE  ModesInv'
<1> DEFINE Call == [at : {"idle", "read", "configs", "arm"}, mode : Modes, scan : Modes]
<1>1. /\ "off" \in Modes /\ IdleCall \in Call
      /\ \A m, n \in Modes : [at |-> "read", mode |-> m, scan |-> n] \in Call
  BY DEF Modes, IdleCall
<1>2. ASSUME NEW c \in Callers, NEW mode \in Modes, SetMode(c, mode) PROVE ModesInv'
  <2>1. /\ db' = mode /\ configs' = configs
        /\ call' = [call EXCEPT ![c] = [at |-> "read", mode |-> mode, scan |-> IF db = "off" THEN mode ELSE "off"]]
    BY <1>2 DEF SetMode
  <2>2. [at |-> "read", mode |-> mode, scan |-> IF db = "off" THEN mode ELSE "off"] \in Call BY <1>1
  <2> QED BY <2>1, <2>2 DEF ModesInv
<1>3. ASSUME NEW c \in Callers, ReadEnabledConfigs(c) PROVE ModesInv'
  <2>1. /\ db' = db /\ configs' = configs
        /\ call' = [call EXCEPT ![c].at = "configs", ![c].mode = db]
    BY <1>3 DEF ReadEnabledConfigs
  <2> QED BY <2>1 DEF ModesInv
<1>4. ASSUME NEW c \in Callers, SetConfigs(c) PROVE ModesInv'
  <2>1. /\ db' = db /\ configs' = call[c].mode /\ call' = [call EXCEPT ![c].at = "arm"]
    BY <1>4 DEF SetConfigs
  <2> QED BY <2>1 DEF ModesInv
<1>5. ASSUME NEW c \in Callers, ArmWatches(c) PROVE ModesInv'
  <2>1. db' = db /\ configs' = configs /\ call' = [call EXCEPT ![c] = IdleCall]
    BY <1>5 DEF ArmWatches
  <2> QED BY <1>1, <2>1 DEF ModesInv
<1>6. CASE Relaunch
  <2>1. db' = db /\ configs' = db /\ call' = [c \in Callers |-> IdleCall]
    BY <1>6 DEF Relaunch, AtLaunch
  <2> QED BY <1>1, <2>1 DEF ModesInv
<1>7. CASE \/ \E f \in Files : \/ Write(f) \/ Condemn(f) \/ Acquit(f) \/ EventOfFile(f)
           \/ \E d \in {"top", "sub"} : Mark(d) \/ Unmark(d) \/ EventOfMarker(d)
           \/ Tick \/ Reap
           \/ \E s \in Slots : TakeFiles(s)
           \/ UNCHANGED watchVars
  <2>1. db' = db /\ configs' = configs /\ call' = call
    BY <1>7 DEF Write, Condemn, Acquit, EventOfFile, Mark, Unmark, EventOfMarker, Tick, Reap,
                TakeFiles, ListFiles, FilterWatched, FilterMarked, Offer, watchVars, memory
  <2> QED BY <2>1 DEF ModesInv
<1> QED BY <1>2, <1>3, <1>4, <1>5, <1>6, <1>7 DEF WatchNext, Handler, Reconcile

\* What is pending and the files it is about are left alone.
Untouched == UNCHANGED <<version, quiet, pending>>

\* Every step but the reaper's keeps what is said of slots and ages, and gives the reaper nothing new.
LEMMA OtherSteps ==
  ASSUME ModesInv, SlotInv, AgeInv, [WatchNext]_watchVars, ~Reap
  PROVE  SlotInv' /\ AgeInv' /\ batch'["reaper"].files \subseteq batch["reaper"].files
<1> DEFINE Fine == SlotInv' /\ AgeInv' /\ batch'["reaper"].files \subseteq batch["reaper"].files
           Same == batch' = batch
<1>1. ASSUME Untouched PROVE AgeInv'
  BY <1>1 DEF Untouched, AgeInv
<1>2. ASSUME Same PROVE SlotInv' /\ batch'["reaper"].files \subseteq batch["reaper"].files
  BY <1>2 DEF SlotInv
<1>3. ASSUME NEW f \in Files, Write(f) PROVE Fine
  <2>1. /\ version' = [version EXCEPT ![f] = @ + 1] /\ quiet' = [quiet EXCEPT ![f] = 0] /\ pending' = pending
        /\ Same
    BY <1>3 DEF Write, memory
  <2>2. AgeInv'
    <3>1. version' \in [Files -> Nat] /\ quiet' \in [Files -> Nat] BY <2>1 DEF AgeInv
    <3>2. ASSUME NEW g \in Files
          PROVE  /\ pending'[g].seen <= version'[g]
                 /\ pending'[g].seen = version'[g] => pending'[g].age <= quiet'[g] + MaxLag
                 /\ quiet'[g] <= Delay /\ pending'[g].age <= Delay + MaxLag
      <4>1. pending[g].seen \in Nat /\ pending[g].age \in Nat /\ version[g] \in Nat BY DEF AgeInv
      <4>2. CASE g = f
        <5>1. version'[g] = version[g] + 1 /\ quiet'[g] = 0 BY <2>1, <4>2 DEF AgeInv
        <5> QED BY <2>1, <4>1, <5>1, EntryTypes DEF AgeInv
      <4>3. CASE g # f
        <5>1. version'[g] = version[g] /\ quiet'[g] = quiet[g] BY <2>1, <4>3 DEF AgeInv
        <5> QED BY <2>1, <5>1 DEF AgeInv
      <4> QED BY <4>2, <4>3
    <3> QED BY <2>1, <3>1, <3>2 DEF AgeInv
  <2> QED BY <1>2, <2>1, <2>2
<1>4. CASE Tick
  <2>1. /\ version' = version /\ quiet' = [f \in Files |-> Later(quiet[f], Delay)]
        /\ pending' = [f \in Files |-> IF pending[f].seen = 0 THEN Unseen
                                 ELSE [pending[f] EXCEPT !.age = Later(@, Delay + MaxLag)]]
        /\ Same
    BY <1>4 DEF Tick, Oldest
  <2>2. ASSUME NEW g \in Files
        PROVE  /\ quiet'[g] \in Nat /\ pending'[g] \in [seen : Nat, age : Nat]
               /\ pending'[g].seen <= version'[g]
               /\ pending'[g].seen = version'[g] => pending'[g].age <= quiet'[g] + MaxLag
               /\ quiet'[g] <= Delay /\ pending'[g].age <= Delay + MaxLag
    <3>1. /\ pending[g] \in [seen : Nat, age : Nat] /\ pending[g].seen \in Nat /\ pending[g].age \in Nat
          /\ version[g] \in Nat /\ quiet[g] \in Nat
          /\ pending[g].seen <= version[g]
          /\ pending[g].seen = version[g] => pending[g].age <= quiet[g] + MaxLag
          /\ quiet[g] <= Delay /\ pending[g].age <= Delay + MaxLag
      BY DEF AgeInv
    <3>2. quiet'[g] = IF quiet[g] < Delay THEN quiet[g] + 1 ELSE Delay
      BY <2>1 DEF Later
    <3>3. CASE pending[g].seen = 0
      <4>1. pending'[g] = Unseen BY <2>1, <3>3
      <4> QED BY <2>1, <3>1, <3>2, <4>1, EntryTypes
    <3>4. CASE pending[g].seen # 0
      <4>1. pending'[g] = [pending[g] EXCEPT !.age = Later(@, Delay + MaxLag)] BY <2>1, <3>4
      <4>2. /\ pending'[g] \in [seen : Nat, age : Nat] /\ pending'[g].seen = pending[g].seen
            /\ pending'[g].age = IF pending[g].age < Delay + MaxLag THEN pending[g].age + 1 ELSE Delay + MaxLag
        BY <3>1, <4>1, EntryTypes DEF Later
      <4> QED BY <2>1, <3>1, <3>2, <4>2, EntryTypes
    <3> QED BY <3>3, <3>4
  <2>3. quiet' \in [Files -> Nat] /\ pending' \in [Files -> [seen : Nat, age : Nat]]
    <3>1. \A g \in Files : quiet'[g] \in Nat /\ pending'[g] \in [seen : Nat, age : Nat] BY <2>2
    <3> QED BY <2>1, <3>1
  <2>4. AgeInv' BY <2>1, <2>2, <2>3 DEF AgeInv
  <2> QED BY <1>2, <2>1, <2>4
<1>5. ASSUME NEW f \in Files, EventOfFile(f) PROVE Fine
  <2>1. Same /\ version' = version /\ quiet' = quiet
    BY <1>5 DEF EventOfFile, disk
  <2>2. CASE pending' = pending BY <1>1, <1>2, <2>1, <2>2 DEF Untouched
  <2>3. ASSUME NEW lag \in 0 .. MaxLag, pending' = [pending EXCEPT ![f] = [seen |-> version[f], age |-> lag]]
        PROVE  Fine
    <3>1. pending' \in [Files -> [seen : Nat, age : Nat]]
      BY <2>3, EntryTypes DEF AgeInv
    <3>2. ASSUME NEW g \in Files
          PROVE  /\ pending'[g].seen <= version[g]
                 /\ pending'[g].seen = version[g] => pending'[g].age <= quiet[g] + MaxLag
                 /\ pending'[g].age <= Delay + MaxLag
      <4>1. CASE g = f
        <5>1. pending'[g].seen = version[g] /\ pending'[g].age = lag BY <2>3, <4>1 DEF AgeInv
        <5>2. version[g] \in Nat /\ quiet[g] \in Nat BY DEF AgeInv
        <5> QED BY <5>1, <5>2, EntryTypes
      <4>2. CASE g # f
        <5>1. pending'[g] = pending[g] BY <2>3, <4>2 DEF AgeInv
        <5> QED BY <5>1 DEF AgeInv
      <4> QED BY <4>1, <4>2
    <3>3. AgeInv' BY <2>1, <3>1, <3>2 DEF AgeInv
    <3> QED BY <1>2, <2>1, <3>3
  <2> QED BY <1>5, <2>2, <2>3 DEF EventOfFile
<1>6. ASSUME NEW c \in Callers, ArmWatches(c) PROVE Fine
  <2>1. /\ version' = version /\ quiet' = quiet
        /\ pending' = [f \in Files |-> IF Covers(call[c].mode, f) THEN pending[f] ELSE Unseen]
    BY <1>6 DEF ArmWatches, disk
  <2>2. pending' \in [Files -> [seen : Nat, age : Nat]]
    BY <2>1, EntryTypes DEF AgeInv
  <2>3. ASSUME NEW g \in Files
        PROVE  /\ pending'[g].seen <= version[g]
               /\ pending'[g].seen = version[g] => pending'[g].age <= quiet[g] + MaxLag
               /\ pending'[g].age <= Delay + MaxLag
    <3>1. pending'[g] = pending[g] \/ pending'[g] = Unseen BY <2>1
    <3>2. version[g] \in Nat /\ quiet[g] \in Nat BY DEF AgeInv
    <3> QED BY <3>1, <3>2, EntryTypes DEF AgeInv
  <2>4. AgeInv' BY <2>1, <2>2, <2>3 DEF AgeInv
  <2>5. Same \/ \E list \in Lists : ScanStarts(list)
    <3>1. CASE call[c].scan = "off" BY <1>6, <3>1 DEF ArmWatches
    <3>2. CASE call[c].scan # "off"
      <4>1. call[c].scan \in Lists BY <3>2 DEF ModesInv, Modes, Lists
      <4>2. ScanStarts(call[c].scan) BY <1>6, <3>2 DEF ArmWatches
      <4> QED BY <4>1, <4>2
    <3> QED BY <3>1, <3>2
  <2> QED BY <1>2, <2>4, <2>5, ScanKeeps
<1>7. ASSUME NEW d \in {"top", "sub"}, EventOfMarker(d) PROVE Fine
  <2>1. Untouched BY <1>7 DEF EventOfMarker, disk, Untouched
  <2>2. Same \/ \E list \in Lists : ScanStarts(list)
    <3>1. CASE MarkerRemovedDir(d) = "off" BY <1>7, <3>1 DEF EventOfMarker
    <3>2. CASE MarkerRemovedDir(d) # "off"
      <4>1. MarkerRemovedDir(d) \in Lists
        BY <3>2 DEF ModesInv, MarkerRemovedDir, Modes, Lists
      <4>2. ScanStarts(MarkerRemovedDir(d)) BY <1>7, <3>2 DEF EventOfMarker
      <4> QED BY <4>1, <4>2
    <3> QED BY <3>1, <3>2
  <2> QED BY <1>1, <1>2, <2>1, <2>2, ScanKeeps
<1>8. ASSUME NEW s \in Slots, TakeFiles(s) PROVE Fine
  <2>1. Untouched
    BY <1>8 DEF TakeFiles, ListFiles, FilterWatched, FilterMarked, Offer, disk, Untouched
  <2> QED BY <1>1, <1>8, <2>1, TakeKeeps
<1>9. CASE Relaunch
  <2>1. version' = version /\ quiet' = quiet /\ pending' = [f \in Files |-> Unseen]
    BY <1>9 DEF Relaunch, AtLaunch, disk
  <2>2. AgeInv'
    <3>1. pending' \in [Files -> [seen : Nat, age : Nat]] BY <2>1, EntryTypes
    <3> QED BY <2>1, <3>1, EntryTypes DEF AgeInv
  <2>3. PICK s \in Scanners :
          batch' = [t \in Slots |-> IF t = s THEN [IdleSlot EXCEPT !.at = "launch"] ELSE IdleSlot]
    BY <1>9 DEF Relaunch, AtLaunch
  <2>4. SlotInv' /\ batch'["reaper"].files = {}
    BY <2>3, EntryTypes DEF SlotInv, IdleSlot, Lists
  <2> QED BY <2>2, <2>4
<1>10. CASE \/ \E f \in Files : Condemn(f) \/ Acquit(f)
            \/ \E d \in {"top", "sub"} : Mark(d) \/ Unmark(d)
            \/ \E c \in Callers : \/ ReadEnabledConfigs(c) \/ SetConfigs(c)
                                  \/ \E mode \in Modes : SetMode(c, mode)
            \/ UNCHANGED watchVars
  <2>1. Untouched /\ Same
    BY <1>10 DEF Condemn, Acquit, Mark, Unmark, ReadEnabledConfigs, SetConfigs, SetMode, watchVars,
                 disk, memory, Untouched
  <2> QED BY <1>1, <1>2, <2>1
<1> QED
  BY <1>3, <1>4, <1>5, <1>6, <1>7, <1>8, <1>9, <1>10 DEF WatchNext, Handler, Reconcile

\* What the reaper takes has not changed since it was seen, and was seen long enough ago.
LEMMA ReapKeeps ==
  ASSUME SlotInv, AgeInv, Reap
  PROVE  /\ SlotInv' /\ AgeInv'
         /\ \A f \in batch'["reaper"].files \ batch["reaper"].files : quiet[f] >= Delay - MaxLag
<1>1. PICK lag \in 0 .. MaxLag :
        /\ pending' = [f \in Files |->
             IF pending[f].seen = 0 \/ ~IsThere(f) \/ f \in Settled(lag) THEN Unseen
             ELSE Observe(pending[f], version[f], lag)]
        /\ batch' = IF Settled(lag) = {} THEN batch
                    ELSE [batch EXCEPT !["reaper"] = [at |-> "watched", files |-> Settled(lag)]]
  BY DEF Reap
<1>2. version' = version /\ quiet' = quiet BY DEF Reap, disk
<1>3. lag \in Nat /\ lag <= MaxLag BY EntryTypes
<1>4. ASSUME NEW f \in Files
      PROVE  /\ pending'[f] \in [seen : Nat, age : Nat] /\ pending'[f].seen <= version[f]
             /\ pending'[f].seen = version[f] => pending'[f].age <= quiet[f] + MaxLag
             /\ pending'[f].age <= Delay + MaxLag
  <2>1. /\ pending[f] \in [seen : Nat, age : Nat] /\ pending[f].seen \in Nat /\ pending[f].age \in Nat
        /\ version[f] \in Nat /\ quiet[f] \in Nat
        /\ pending[f].seen <= version[f] /\ pending[f].age <= Delay + MaxLag
        /\ pending[f].seen = version[f] => pending[f].age <= quiet[f] + MaxLag
    BY DEF AgeInv
  <2>2. \/ pending'[f] = Unseen
        \/ pending'[f] = [seen |-> version[f], age |-> lag]
        \/ pending'[f] = pending[f]
    BY <1>1 DEF Observe
  <2> QED BY <1>3, <2>1, <2>2, EntryTypes
<1>5. AgeInv'
  <2>1. pending' \in [Files -> [seen : Nat, age : Nat]]
    <3>1. pending' = [f \in Files |-> pending'[f]] BY <1>1
    <3> QED BY <1>4, <3>1
  <2> QED BY <1>2, <1>4, <2>1 DEF AgeInv
<1>6. SlotInv'
  <2>1. [at |-> "watched", files |-> Settled(lag)]
          \in [at : Lists \cup {"idle", "watched", "marked", "offer"}, files : SUBSET Files]
    BY DEF Settled
  <2>2. "watched" \notin Lists BY DEF Lists
  <2>3. CASE Settled(lag) = {} BY <1>1, <2>3 DEF SlotInv
  <2>4. CASE Settled(lag) # {}
    <3>1. batch' = [batch EXCEPT !["reaper"] = [at |-> "watched", files |-> Settled(lag)]]
      BY <1>1, <2>4
    <3> QED BY <2>1, <2>2, <3>1, EntryTypes, SlotKept
  <2> QED BY <2>3, <2>4
<1>7. ASSUME NEW f \in batch'["reaper"].files \ batch["reaper"].files
      PROVE  quiet[f] >= Delay - MaxLag
  <2>1. f \in Settled(lag)
    <3>1. CASE Settled(lag) = {} BY <1>1, <1>7, <3>1
    <3>2. CASE Settled(lag) # {}
      <4>1. batch' = [batch EXCEPT !["reaper"] = [at |-> "watched", files |-> Settled(lag)]]
        BY <1>1, <3>2
      <4>2. batch'["reaper"] = [at |-> "watched", files |-> Settled(lag)]
        BY <4>1, EntryTypes DEF SlotInv
      <4> QED BY <1>7, <4>2
    <3> QED BY <3>1, <3>2
  <2>2. f \in Files /\ pending[f].seen = version[f] /\ pending[f].age - lag >= Delay
    BY <2>1 DEF Settled, IsStable
  <2>3. pending[f].age <= quiet[f] + MaxLag /\ pending[f].age \in Nat /\ quiet[f] \in Nat
    BY <2>2 DEF AgeInv
  <2> QED BY <1>3, <2>2, <2>3, EntryTypes
<1> QED BY <1>5, <1>6, <1>7

\* What the watcher starts with.
LEMMA WatchStarts ==
  ASSUME WatchInit
  PROVE  ModesInv /\ SlotInv /\ AgeInv
<1>1. /\ version \in [Files -> {0, 1}] /\ quiet = [f \in Files |-> 0] /\ db \in Modes /\ configs = db
      /\ pending = [f \in Files |-> Unseen] /\ call = [c \in Callers |-> IdleCall]
  BY DEF WatchInit
<1>2. ModesInv BY <1>1 DEF ModesInv, IdleCall, Modes
<1>3. SlotInv
  <2>1. PICK s \in Scanners :
          batch = [t \in Slots |-> IF t = s THEN [IdleSlot EXCEPT !.at = "launch"] ELSE IdleSlot]
    BY DEF WatchInit
  <2> QED BY <2>1, EntryTypes DEF SlotInv, IdleSlot, Lists
<1>4. AgeInv
  <2>1. /\ version \in [Files -> Nat] /\ quiet \in [Files -> Nat]
        /\ pending \in [Files -> [seen : Nat, age : Nat]]
    BY <1>1, EntryTypes
  <2>2. \A f \in Files : version[f] \in Nat /\ quiet[f] = 0 /\ pending[f] = Unseen BY <1>1
  <2> QED BY <2>1, <2>2, EntryTypes DEF AgeInv
<1> QED BY <1>2, <1>3, <1>4

\* Whatever the watcher is given to do, the reaper takes a file out only after it has not changed for
\* the delay, less the lag between its clock and its stat.
THEOREM ReapedWasQuiet ==
  WatchSpec => ReapedIsQuiet
<1> DEFINE WatchInv == ModesInv /\ SlotInv /\ AgeInv
           WasQuiet == \A f \in batch'["reaper"].files \ batch["reaper"].files : quiet[f] >= Delay - MaxLag
<1>1. WatchInit => WatchInv BY WatchStarts
<1>2. WatchInv /\ [WatchNext]_watchVars => WatchInv' BY ModesKept, OtherSteps, ReapKeeps
<1>3. WatchInv /\ [WatchNext]_watchVars => [WasQuiet]_watchVars BY OtherSteps, ReapKeeps
<1> QED BY <1>1, <1>2, <1>3, PTL DEF WatchSpec, ReapedIsQuiet

=============================================================================
