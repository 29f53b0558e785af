---------------------------- MODULE QueueService ----------------------------
(***************************************************************************)
(* What the queue promises to those who put work in it, without threads,   *)
(* flags or locks: one job is worked on at a time, only while the service  *)
(* is open, and a service that closes of its own accord leaves behind no   *)
(* job whose owner was told it would run.  A job is cut off only by a stop *)
(* or the end of the process, and waits again after the next launch.       *)
(***************************************************************************)
CONSTANT Jobs

VARIABLES
  waiting,   \* the jobs in the queue
  active,    \* the jobs being worked on
  cutOff,    \* the jobs nobody works on any more, which do not wait either
  promised,  \* the jobs whose owner was told they would run
  open,      \* somebody works through the queue
  stopped,   \* the last run was stopped (pause, low disk, outage, quit, panic, failed update)
  excused    \* the process is gone, or about to be: its next launch starts the queue

vars == <<waiting, active, cutOff, promised, open, stopped, excused>>

Init ==
  /\ waiting = {} /\ active = {} /\ cutOff = {} /\ promised = {}
  /\ open = FALSE /\ stopped = FALSE /\ excused = FALSE

Outstanding == promised \cap waiting

\* A job is put in the queue; nobody has been told anything yet.
Submit(j) ==
  /\ j \notin waiting \cup active \cup cutOff \cup promised
  /\ waiting' = waiting \cup {j}
  /\ UNCHANGED <<active, cutOff, promised, open, excused>>

\* An owner is told that it will run.  A closed service opens in the same step, unless it is
\* excused; an open one need only take note.
Promise ==
  /\ \E S \in SUBSET Jobs : promised' = promised \cup S
  /\ open' \in {open, TRUE}
  /\ open' \/ excused
  /\ UNCHANGED <<waiting, active, cutOff, excused>>

\* A job whose host was lost comes back when the service is started again.
Return(j) ==
  /\ open /\ j \notin waiting \cup active \cup cutOff
  /\ waiting' = waiting \cup {j}
  /\ promised' = promised \cup {j}
  /\ UNCHANGED <<active, cutOff, open, excused>>

Take(j) ==
  /\ open /\ active = {} /\ j \in waiting
  /\ waiting' = waiting \ {j}
  /\ active' = {j}
  /\ UNCHANGED <<cutOff, promised, open, excused>>

Finish ==
  /\ open /\ active # {}
  /\ active' = {}
  /\ UNCHANGED <<waiting, cutOff, promised, open, excused>>

\* Whoever worked on it fell over, and the service stops.
FallOver ==
  /\ open /\ active # {} /\ stopped'
  /\ active' = {}
  /\ cutOff' = cutOff \cup active
  /\ UNCHANGED <<waiting, promised, open, excused>>

\* Jobs leave the queue without running: removed, cleared, or refused by a gate.
Withdraw ==
  /\ \E S \in SUBSET waiting : waiting' = waiting \ S
  /\ UNCHANGED <<active, cutOff, promised, open, excused>>

\* The service closes: stopped, or with no promise outstanding.
Close ==
  /\ open /\ active = {}
  /\ stopped \/ Outstanding = {}
  /\ open' = FALSE
  /\ UNCHANGED <<waiting, active, cutOff, promised, excused>>

\* An update keeps the service closed until the process restarts.
Excuse ==
  /\ ~open
  /\ excused' = TRUE
  /\ UNCHANGED <<waiting, active, cutOff, promised, open>>

\* It fails, and nobody opens the service in its stead: whoever it turned away sees it stopped.
UpdateFails ==
  /\ excused /\ ~open
  /\ excused' = FALSE /\ stopped'
  /\ UNCHANGED <<waiting, active, cutOff, promised, open>>

\* The process dies and takes every promise with it.
Die ==
  /\ promised' = {} /\ open' = FALSE /\ excused' = TRUE
  /\ active' = {} /\ cutOff' = cutOff \cup active
  /\ UNCHANGED waiting

\* It comes back: interrupted work waits again, and all that waits is promised once more.
Revive ==
  /\ excused /\ ~open
  /\ waiting' = waiting \cup cutOff
  /\ cutOff' = {} /\ UNCHANGED active
  /\ promised' = waiting'
  /\ open' = (waiting' # {} /\ ~stopped')
  /\ excused' = FALSE

\* A stop is forgotten only by somebody who runs the queue, or when nothing waits for it.
StopsAreNotForgotten ==
  /\ stopped' \in BOOLEAN
  /\ stopped /\ ~stopped' => open' \/ excused' \/ Outstanding' = {}

Next ==
  /\ \/ \E j \in Jobs : Submit(j) \/ Take(j) \/ Return(j)
     \/ Promise \/ Finish \/ FallOver \/ Withdraw \/ Close \/ Excuse \/ UpdateFails \/ Die \/ Revive
  /\ StopsAreNotForgotten

Spec == Init /\ [][Next]_vars
=============================================================================
