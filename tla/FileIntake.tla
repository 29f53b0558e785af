------------------------------ MODULE FileIntake ------------------------------
(***************************************************************************)
(* The page's intake of dropped or picked paths: each selection is sorted  *)
(* by the backend, its files and small folders are added one after the     *)
(* other, a large folder waits for the user's answer, and one status line  *)
(* reports it all.                                                         *)
(*                                                                         *)
(* A unit <<s, k>> is what one call adds: k = 0 the files of selection s,  *)
(* then its small folders, then its large ones, each in the order of the   *)
(* answer.  A call of the backend may fail at any time, at the latest at   *)
(* its deadline, and the backend may go on with it then.                   *)
(* What an add inserts is modelled by Intake; here the unit is `added`.    *)
(***************************************************************************)
EXTENDS Naturals, FiniteSets, Sequences, SequencesExt

CONSTANTS
  Selections, MaxFolders,
  Answers,      \* what sorting may find: files, folders (small: up to AUTO_ADD_MAX), whether one
                \* is empty of videos, whether a path is missing
  NoAnswer, NoUnit

Units == Selections \X (0 .. MaxFolders)

ASSUME FileIntakeAssumption ==
  /\ MaxFolders \in Nat
  /\ Answers \subseteq [files : BOOLEAN, small : Nat, big : Nat, empty : BOOLEAN, missing : BOOLEAN]
  /\ \A a \in Answers : a.small + a.big <= MaxFolders
  /\ NoAnswer \notin Answers /\ NoUnit \notin Units

VARIABLES
  asked, answer,    \* the selections: whether picked, and what sorting found
  confirms, tasks,  \* confirmQueueRef and taskQueueRef: [unit, notice]
  running,          \* runningRef
  pc, task,         \* the drain: the call it awaits, and for which task
  status, timers,   \* the status line, and the messages a pending timer was set for
  added, startAsked, started,   \* the backend: units inserted, and those a start came after
  said, told        \* what the page has said of a unit; the selections whose shortfall it has shown

drain   == <<tasks, running, pc, task>>
line    == <<status, timers, told>>
backend == <<added, startAsked, started>>
vars    == <<asked, answer, confirms, drain, line, backend, said>>

\* What is added by itself, in order: the files, if any, and the small folders; and what the user
\* is asked for.
FirstUnit(a)    == IF a.files THEN 0 ELSE 1
AutoUnits(s, a) == [i \in 1 .. (a.small + 1 - FirstUnit(a)) |-> <<s, FirstUnit(a) + i - 1>>]
BigUnits(s, a)  == [i \in 1 .. a.big |-> <<s, a.small + i>>]
Short(a)  == a.missing \/ a.empty
Sorted(s) == answer[s] # NoAnswer

NoTask == [unit |-> NoUnit, notice |-> FALSE]
Message(kind, u, notice) == [kind |-> kind, of |-> u, notice |-> notice]
NoMessage == Message("none", NoUnit, FALSE)
Tasks == [unit : Units, notice : BOOLEAN]
Messages ==
  [kind : {"adding", "failed", "skipped", "nothing", "summary", "error"}, of : Units, notice : BOOLEAN]

TypeOK ==
  /\ asked \in [Selections -> {"no", "sorting", "sorted", "failed"}]
  /\ answer \in [Selections -> Answers \cup {NoAnswer}]
  /\ confirms \in Seq(Tasks) /\ tasks \in Seq(Tasks)
  /\ running \in BOOLEAN /\ pc \in {"idle", "add", "start"} /\ task \in Tasks \cup {NoTask}
  /\ status \in Messages \cup {NoMessage} /\ timers \subseteq Messages
  /\ added \subseteq Units /\ startAsked \in BOOLEAN /\ started \subseteq added
  /\ said \in [Units -> {"none", "added", "error", "skipped"}] /\ told \subseteq Selections

Init ==
  /\ asked = [s \in Selections |-> "no"] /\ answer = [s \in Selections |-> NoAnswer]
  /\ confirms = <<>> /\ tasks = <<>> /\ running = FALSE /\ pc = "idle" /\ task = NoTask
  /\ status = NoMessage /\ timers = {}
  /\ added = {} /\ startAsked = FALSE /\ started = {}
  /\ said = [u \in Units |-> "none"] /\ told = {}

-----------------------------------------------------------------------------
(* The status line.                                                        *)

\* As changed: an earlier message's timer is left running.
TimerFor_LeavesOld(m, brief) == timers \cup (IF brief /\ m # NoMessage THEN {m} ELSE {})

TimerFor(m, brief) == IF brief /\ m # NoMessage THEN {m} ELSE {}

\* setStatusMsg: the earlier timer is cleared first.
SetStatusMsg(m, brief) ==
  /\ status' = m /\ timers' = TimerFor(m, brief)
  /\ told' = IF m.notice THEN told \cup {m.of[1]} ELSE told

TimerFires ==
  /\ \E m \in timers : timers' = timers \ {m}
  /\ status' = NoMessage
  /\ UNCHANGED <<asked, answer, confirms, drain, told, backend, said>>

-----------------------------------------------------------------------------
(* The drain: one task after the other.                                    *)

Take(q) ==
  /\ running' = TRUE /\ pc' = "add" /\ task' = Head(q) /\ tasks' = Tail(q)

\* What it is at, and what waits for it.
Work == (IF running THEN <<task>> ELSE <<>>) \o tasks

\* What the drain does when it comes round: the next task, or it ends.
\* As changed: a drain adds one task, and waits for the next enqueue.
ComesRound_Once(q) == running' = FALSE /\ pc' = "idle" /\ task' = NoTask /\ tasks' = q

ComesRound(q) ==
  IF q = <<>> THEN running' = FALSE /\ pc' = "idle" /\ task' = NoTask /\ tasks' = <<>>
              ELSE Take(q)

\* enqueue, for each task of ts: a drain under way comes to it, or one starts.
Enqueue(ts) ==
  IF running THEN tasks' = tasks \o ts /\ UNCHANGED <<running, pc, task>>
             ELSE ComesRound(tasks \o ts)

\* The drain's loop body ends in a report.
Report(how, m) ==
  /\ SetStatusMsg(m, TRUE)
  /\ said' = [said EXCEPT ![task.unit] = how]
  /\ ComesRound(tasks)
  /\ UNCHANGED <<asked, answer, confirms, added>>

\* As changed: the summary does not wait for the start.
AddAnswers_NoStart ==
  /\ pc = "add" /\ task.unit \in added
  /\ Report("added", Message("summary", task.unit, task.notice)) /\ UNCHANGED <<startAsked, started>>

AddAnswers ==
  /\ pc = "add" /\ task.unit \in added
  /\ pc' = "start" /\ startAsked' = TRUE
  /\ UNCHANGED <<asked, answer, confirms, tasks, running, task, line, added, started, said>>

\* A summary may have nothing to say: the folder is empty by now.
StartAnswers ==
  /\ pc = "start" /\ task.unit \in started
  /\ \E blank \in BOOLEAN :
       Report("added", IF blank /\ ~task.notice THEN NoMessage
                                ELSE Message("summary", task.unit, task.notice))
  /\ UNCHANGED <<startAsked, started>>

\* Either call fails, or is given up at its deadline; the backend may still come to it.
CallFails ==
  /\ pc \in {"add", "start"}
  /\ Report("error", Message("error", task.unit, FALSE))
  /\ UNCHANGED <<startAsked, started>>

-----------------------------------------------------------------------------
(* Selections.                                                             *)

Pick(s) ==
  /\ asked[s] = "no" /\ asked' = [asked EXCEPT ![s] = "sorting"]
  /\ SetStatusMsg(Message("adding", <<s, 0>>, FALSE), FALSE)
  /\ UNCHANGED <<answer, confirms, drain, backend, said>>

SortFails(s) ==
  /\ asked[s] = "sorting" /\ asked' = [asked EXCEPT ![s] = "failed"]
  /\ SetStatusMsg(Message("failed", <<s, 0>>, FALSE), TRUE)
  /\ UNCHANGED <<answer, confirms, drain, backend, said>>

\* As changed: the notice rides on the first.
Carry_First(us, notice) == [i \in 1 .. Len(us) |-> [unit |-> us[i], notice |-> notice /\ i = 1]]

\* The notice rides on the last.
Carry(us, notice) == [i \in 1 .. Len(us) |-> [unit |-> us[i], notice |-> notice /\ i = Len(us)]]

\* As changed: a selection that holds nothing to add says nothing.
Outcome_Silent(s, a) ==
  IF AutoUnits(s, a) # <<>> THEN NoMessage
  ELSE IF BigUnits(s, a) # <<>>
    THEN IF Short(a) THEN Message("skipped", <<s, 0>>, TRUE) ELSE NoMessage
    ELSE status

\* What the line says when a selection is sorted.
Outcome(s, a) ==
  IF AutoUnits(s, a) # <<>> THEN NoMessage
  ELSE IF BigUnits(s, a) # <<>>
    THEN IF Short(a) THEN Message("skipped", <<s, 0>>, TRUE) ELSE NoMessage
    ELSE Message("nothing", <<s, 0>>, Short(a))

\* As changed: a selection's prompts take the place of those that wait.
Prompts_Replaced(new) == IF new = <<>> THEN confirms ELSE new

Prompts(new) == confirms \o new

\* handlePaths, from the answer on, in one go.
SortAnswers(s) == \E a \in Answers :
  /\ asked[s] = "sorting" /\ asked' = [asked EXCEPT ![s] = "sorted"]
  /\ answer' = [answer EXCEPT ![s] = a]
  /\ confirms' = Prompts(Carry(BigUnits(s, a), Short(a) /\ AutoUnits(s, a) = <<>>))
  /\ Enqueue(Carry(AutoUnits(s, a), Short(a)))
  /\ SetStatusMsg(Outcome(s, a), AutoUnits(s, a) = <<>>)
  /\ UNCHANGED <<backend, said>>

OnAdd ==
  /\ confirms # <<>> /\ confirms' = Tail(confirms)
  /\ Enqueue(<<Head(confirms)>>)
  /\ UNCHANGED <<asked, answer, line, backend, said>>

OnSkip ==
  /\ confirms # <<>> /\ confirms' = Tail(confirms)
  /\ said' = [said EXCEPT ![Head(confirms).unit] = "skipped"]
  /\ UNCHANGED <<asked, answer, drain, line, backend>>

-----------------------------------------------------------------------------
(* The backend.                                                            *)

\* An add that was sent: it is awaited, or was given up.
BackendAdds(u) ==
  /\ u \notin added
  /\ said[u] = "error" \/ (pc = "add" /\ task.unit = u)
  /\ added' = added \cup {u}
  /\ UNCHANGED <<asked, answer, confirms, drain, line, startAsked, started, said>>

BackendStarts ==
  /\ startAsked /\ startAsked' = FALSE /\ started' = added
  /\ UNCHANGED <<asked, answer, confirms, drain, line, added, said>>

Drain == AddAnswers \/ StartAnswers \/ CallFails
Sort(s) == SortAnswers(s) \/ SortFails(s)

Next ==
  \/ \E s \in Selections : Pick(s) \/ Sort(s)
  \/ Drain \/ TimerFires \/ OnAdd \/ OnSkip
  \/ (\E u \in Units : BackendAdds(u)) \/ BackendStarts

Spec == Init /\ [][Next]_vars

\* Every call is answered or given up at its deadline (api).
FairSpec == Spec /\ WF_vars(Drain) /\ \A s \in Selections : WF_vars(Sort(s))

-----------------------------------------------------------------------------
(* What is claimed.                                                        *)

\* Whatever is dropped while adds run and prompts wait, each unit a selection holds is in one place:
\* waiting for the user's answer, for its turn, being added, or reported; and what waits for its
\* turn has a drain that comes to it (handlePaths pushes, never replaces; enqueue and runNext).
NothingIsStranded ==
  LET waiting == confirms \o Work
      units   == [i \in 1 .. Len(waiting) |-> waiting[i].unit]
      held(s) == ToSet(AutoUnits(s, answer[s])) \cup ToSet(BigUnits(s, answer[s]))
  IN /\ IsInjective(units) /\ (tasks # <<>> => running)
     /\ ToSet(units) = {u \in UNION {held(s) : s \in {t \in Selections : Sorted(t)}} : said[u] = "none"}

\* "Adding..." stands only while a selection is being sorted, whatever the order in which
\* selections are sorted, fail, and their adds report.
AddingIsTrue == status.kind = "adding" => \E s \in Selections : asked[s] = "sorting"

\* An earlier message's timer never wipes a later one (setStatusMsg).
TimerIsItsOwn == timers \subseteq {status}

\* A selection's shortfall is reported, and not before the last of the adds it started by itself:
\* none of their summaries replaces it.  A failed add may take it along.
ShortfallIsTold ==
  \A s \in Selections : Sorted(s) /\ Short(answer[s]) =>
    LET own == ToSet(AutoUnits(s, answer[s])) IN
      /\ s \in told => \A u \in own : said[u] # "none"
      /\ (\A u \in own : said[u] = "added") => s \in told

\* What the backend has inserted is started, or its start is to come, unless the page has said that
\* the add failed (runNext; a call given up at its deadline goes on).
NothingWaitsUnstarted ==
  \A u \in added \ started : said[u] = "error" \/ (running /\ task.unit = u)

\* Nothing picked is lost, added twice or left unstarted behind the page's back.
NothingIsLost == NothingIsStranded /\ NothingWaitsUnstarted

\* The status line shows nothing stale and tells what a selection lacked.
LineIsTrue == AddingIsTrue /\ TimerIsItsOwn /\ ShortfallIsTold

\* A task that waits comes to be reported, however slow the backend is.
TasksAreReported ==
  \A u \in Units : (\E i \in DOMAIN tasks : tasks[i].unit = u) ~> said[u] # "none"

-----------------------------------------------------------------------------
(* A promise the code does not keep.                                       *)

\* useFileIntake.ts, handlePaths: the notice is on the task whose summary lands last and stays on
\* screen.  A large folder of the selection that the user confirms in the meantime lands after it.
NoticeStays ==
  [][\A s \in Selections : status.notice /\ status.of[1] = s /\ status.kind = "summary" =>
       status'.kind = "none" \/ status'.of[1] # s \/ status'.notice]_vars
=============================================================================
