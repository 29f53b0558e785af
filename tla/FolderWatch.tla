------------------------------ MODULE FolderWatch ------------------------------
(***************************************************************************)
(* The folder watcher: changes of the files of a watched directory reach   *)
(* the event handler, the handler notes them as pending, and the reaper    *)
(* offers them to the queue once they have stayed as they are for the      *)
(* delay.  What was there before the watch, or behind a skip marker, is    *)
(* found by scans.  Reconcile brings the handler's configuration, the      *)
(* pending files and the armed watch to the settings.                      *)
(*                                                                         *)
(* One directory and one below it; each change of a file is a new version  *)
(* of it.  What becomes of an offered file is module Intake's.             *)
(***************************************************************************)
EXTENDS Integers, FiniteSets

CONSTANTS
  Files,
  Below,       \* the files in the directory below
  Callers,     \* of the watched-directory commands: one on the desktop, any number on a server
  Scanners,    \* background scans that may be under way at a time
  Delay,       \* the stability delay, in ticks
  MaxLag,      \* ticks that the handler or the reaper may take between the clock and the stat
  MaxWrites, MaxCalls, MaxMarks, MaxRelaunches

ASSUME FolderWatchAssumption ==
  /\ Below \subseteq Files /\ "reaper" \notin Scanners
  /\ {Delay, MaxLag, MaxWrites, MaxCalls, MaxMarks, MaxRelaunches} \subseteq Nat /\ Delay > 0

VARIABLES
  version, quiet,  \* a file's version, 0 for none, and the ticks since it last changed
  marked,          \* the directories with a skip marker: "top", "sub"
  db,              \* the directory's setting: "off", "flat" or "deep" for recursive
  configs,         \* what the event handler and the filters go by
  watched,         \* what the OS watch is armed for
  events,          \* changes the OS has not told yet: files, and directories that lost their marker
  pending,         \* pending[f]: the version seen and the age of last_change; seen 0 is not pending
  call,            \* call[c]: a command, with what its reconcile read
  batch,           \* batch[s]: what a scan or the reaper is taking to the queue
  offered,         \* the version of a file last handed to add_files_inner
  condemned,       \* files with an unpurged bad-source row
  passed,          \* files the code leaves to their next change or the next launch
  writes, calls, marks, relaunches

disk    == <<version, quiet, marked>>
budgets == <<writes, calls, marks, relaunches>>
memory  == <<configs, watched, pending, call, batch>>
watchVars == <<disk, db, memory, events, offered, condemned, passed, budgets>>

Modes    == {"off", "flat", "deep"}
Slots    == Scanners \cup {"reaper"}
Lists    == {"launch", "flat", "deep", "sub"}   \* what a scan lists: see ListFiles
Unseen   == [seen |-> 0, age |-> 0]
IdleCall == [at |-> "idle", mode |-> "off", scan |-> "off"]
IdleSlot == [at |-> "idle", files |-> {}]
Oldest   == Delay + MaxLag

WatchTypeOK ==
  /\ version \in [Files -> 0..MaxWrites + 1] /\ quiet \in [Files -> 0..Delay]
  /\ marked \in SUBSET {"top", "sub"}
  /\ {db, configs, watched} \subseteq Modes
  /\ events \in SUBSET (Files \cup {"top", "sub"})
  /\ pending \in [Files -> [seen : 0..MaxWrites + 1, age : 0..Oldest]]
  /\ call \in [Callers -> [at : {"idle", "read", "configs", "arm"}, mode : Modes, scan : Modes]]
  /\ batch \in [Slots -> [at : Lists \cup {"idle", "watched", "marked", "offer"}, files : SUBSET Files]]
  /\ offered \in [Files -> 0..MaxWrites + 1]
  /\ condemned \in SUBSET Files /\ passed \in SUBSET Files

Covers(mode, f) == mode = "deep" \/ (mode = "flat" /\ f \notin Below)
\* has_active_marker: in the file's directory or above it, up to the watched one.
IsMarked(f)     == "top" \in marked \/ (f \in Below /\ "sub" \in marked)
IsThere(f)      == version[f] # 0

\* The process starts on a watched directory with files in it, as on a first launch or a later one.
AtLaunch ==
  /\ configs' = db /\ watched' = db /\ events' = {}
  /\ pending' = [f \in Files |-> Unseen] /\ call' = [c \in Callers |-> IdleCall]
  /\ \E s \in Scanners :
       batch' = [t \in Slots |-> IF t = s THEN [IdleSlot EXCEPT !.at = "launch"] ELSE IdleSlot]

WatchInit ==
  /\ version \in [Files -> {0, 1}] /\ quiet = [f \in Files |-> 0] /\ marked \in SUBSET {"top", "sub"}
  /\ db \in Modes /\ configs = db /\ watched = db /\ events = {}
  /\ pending = [f \in Files |-> Unseen] /\ call = [c \in Callers |-> IdleCall]
  /\ \E s \in Scanners :
       batch = [t \in Slots |-> IF t = s THEN [IdleSlot EXCEPT !.at = "launch"] ELSE IdleSlot]
  /\ offered = [f \in Files |-> 0] /\ condemned = {} /\ passed = {}
  /\ writes = 0 /\ calls = 0 /\ marks = 0 /\ relaunches = 0

-----------------------------------------------------------------------------
(* The files, the time and the OS watch.                                   *)

\* scan_existing_background.
ScanStarts(list) ==
  \E s \in Scanners :
    batch[s].at = "idle" /\ batch' = [batch EXCEPT ![s] = [IdleSlot EXCEPT !.at = list]]

Told(S) == events' = events \cup S

Write(f) ==
  /\ writes < MaxWrites /\ writes' = writes + 1
  /\ version' = [version EXCEPT ![f] = @ + 1] /\ quiet' = [quiet EXCEPT ![f] = 0]
  /\ Told(IF Covers(watched, f) THEN {f} ELSE {})
  /\ passed' = IF Covers(watched, f) THEN passed \ {f} ELSE passed
  /\ UNCHANGED <<marked, db, memory, offered, condemned, calls, marks, relaunches>>

Mark(d) ==
  /\ d \notin marked /\ marks < MaxMarks /\ marks' = marks + 1 /\ marked' = marked \cup {d}
  /\ UNCHANGED <<version, quiet, db, memory, events, offered, condemned, passed, writes, calls, relaunches>>

Unmark(d) ==
  /\ d \in marked /\ marked' = marked \ {d}
  /\ Told(IF watched = "deep" \/ (watched = "flat" /\ d = "top") THEN {d} ELSE {})
  /\ UNCHANGED <<version, quiet, db, memory, offered, condemned, passed, budgets>>

Later(n, top) == IF n < top THEN n + 1 ELSE top

Tick ==
  /\ \E f \in Files : pending[f].seen # 0
  /\ quiet' = [f \in Files |-> Later(quiet[f], Delay)]
  /\ pending' = [f \in Files |-> IF pending[f].seen = 0 THEN Unseen
                                 ELSE [pending[f] EXCEPT !.age = Later(@, Oldest)]]
  /\ UNCHANGED <<version, marked, db, configs, watched, call, batch, events, offered, condemned,
                 passed, budgets>>

\* An encode finds no video in a file that was offered; later its row is purged or deleted.
Condemn(f) ==
  /\ offered[f] # 0 /\ f \notin condemned /\ marks < MaxMarks /\ marks' = marks + 1
  /\ condemned' = condemned \cup {f}
  /\ UNCHANGED <<disk, db, memory, events, offered, passed, writes, calls, relaunches>>

Acquit(f) ==
  /\ f \in condemned /\ condemned' = condemned \ {f}
  /\ UNCHANGED <<disk, db, memory, events, offered, passed, budgets>>

-----------------------------------------------------------------------------
(* The event handler and the reaper.                                       *)

\* A change of a file starts its time anew.  The clock is read before the stat.
EventOfFile(f) ==
  /\ f \in events /\ events' = events \ {f}
  /\ IF Covers(configs, f) /\ IsThere(f)
     THEN \E lag \in 0..MaxLag : pending' = [pending EXCEPT ![f] = [seen |-> version[f], age |-> lag]]
     ELSE UNCHANGED pending
  /\ UNCHANGED <<disk, db, configs, watched, call, batch, offered, condemned, passed, budgets>>

\* As changed: only the watched directory's own marker is looked for.
RootMarkerRemoved(d) == IF d \in marked \/ d # "top" THEN "off" ELSE configs
\* marker_removed_dir: what is to be scanned again when d's marker is gone.
MarkerRemovedDir(d) ==
  IF d \in marked \/ configs = "off" \/ (configs = "flat" /\ d = "sub") THEN "off"
  ELSE IF d = "sub" THEN "sub" ELSE configs

\* What a marker hid is scanned for in a thread of its own once the marker is gone.
EventOfMarker(d) ==
  /\ d \in events /\ events' = events \ {d}
  /\ IF MarkerRemovedDir(d) # "off" THEN ScanStarts(MarkerRemovedDir(d)) ELSE UNCHANGED batch
  /\ UNCHANGED <<disk, db, configs, watched, pending, call, offered, condemned, passed, budgets>>

\* As changed: the new size and mtime are noted, the time runs on.
ObserveKeepsTime(p, v, lag) == IF v # p.seen THEN [seen |-> v, age |-> p.age] ELSE p
\* PendingEntry::observe: a change starts the time anew.
Observe(p, v, lag) == IF v # p.seen THEN [seen |-> v, age |-> lag] ELSE p
IsStable(p, v, lag) == p.seen = v /\ p.age - lag >= Delay

\* reap_pending_once: what is gone is dropped, what has settled is taken out.
Settled(lag) == {f \in Files : pending[f].seen # 0 /\ IsThere(f) /\ IsStable(pending[f], version[f], lag)}
Reap ==
  /\ batch["reaper"].at = "idle"
  /\ \E lag \in 0..MaxLag :
       /\ pending' = [f \in Files |->
            IF pending[f].seen = 0 \/ ~IsThere(f) \/ f \in Settled(lag) THEN Unseen
            ELSE Observe(pending[f], version[f], lag)]
       /\ batch' = IF Settled(lag) = {} THEN batch
                   ELSE [batch EXCEPT !["reaper"] = [at |-> "watched", files |-> Settled(lag)]]
  /\ UNCHANGED <<disk, db, configs, watched, call, events, offered, condemned, passed, budgets>>

-----------------------------------------------------------------------------
(* Taking files to the queue: enqueue_and_start.                           *)

Goes(s, at, S) == batch' = [batch EXCEPT ![s] = IF S = {} THEN IdleSlot ELSE [at |-> at, files |-> S]]

\* collect_video_paths: a launch asks the settings for the mode; "sub" is the directory below alone.
ListFiles(s) ==
  /\ batch[s].at \in Lists
  /\ Goes(s, "watched",
       {f \in Files : /\ IsThere(f)
                      /\ CASE batch[s].at = "launch" -> Covers(db, f)
                           [] batch[s].at = "sub"    -> f \in Below
                           [] OTHER                  -> Covers(batch[s].at, f)})
  /\ UNCHANGED <<disk, db, configs, watched, pending, call, events, offered, condemned, passed, budgets>>

FilterWatched(s) ==
  /\ batch[s].at = "watched" /\ Goes(s, "marked", {f \in batch[s].files : Covers(configs, f)})
  /\ UNCHANGED <<disk, db, configs, watched, pending, call, events, offered, condemned, passed, budgets>>

FilterMarked(s) ==
  /\ batch[s].at = "marked" /\ Goes(s, "offer", {f \in batch[s].files : ~IsMarked(f)})
  /\ UNCHANGED <<disk, db, configs, watched, pending, call, events, offered, condemned, passed, budgets>>

\* filter_known_bad_sources, and what is left is added: a file that has a verdict is not looked at
\* again when the verdict goes.
Offer(s) ==
  /\ batch[s].at = "offer" /\ Goes(s, "idle", {})
  /\ offered' = [f \in Files |-> IF f \in batch[s].files \ condemned /\ IsThere(f) THEN version[f]
                                 ELSE offered[f]]
  /\ passed' = (passed \cup (batch[s].files \cap condemned)) \ (batch[s].files \ condemned)
  /\ UNCHANGED <<disk, db, configs, watched, pending, call, events, condemned, budgets>>

-----------------------------------------------------------------------------
(* The commands: add, update, enable, disable and remove, then reconcile.  *)

SetMode(c, mode) ==
  /\ call[c].at = "idle" /\ mode # db /\ calls < MaxCalls /\ calls' = calls + 1
  /\ db' = mode
  /\ call' = [call EXCEPT ![c] = [at |-> "read", mode |-> mode, scan |-> IF db = "off" THEN mode ELSE "off"]]
  /\ UNCHANGED <<disk, configs, watched, pending, batch, events, offered, condemned, passed,
                 writes, marks, relaunches>>

ReadEnabledConfigs(c) ==
  /\ call[c].at = "read" /\ call' = [call EXCEPT ![c].at = "configs", ![c].mode = db]
  /\ UNCHANGED <<disk, db, configs, watched, pending, batch, events, offered, condemned, passed, budgets>>

SetConfigs(c) ==
  /\ call[c].at = "configs" /\ configs' = call[c].mode
  /\ call' = [call EXCEPT ![c].at = "arm"]
  /\ UNCHANGED <<disk, db, watched, pending, batch, events, offered, condemned, passed, budgets>>

\* Pending files no configuration covers any more are dropped, the watch is armed, and a directory
\* that was off is scanned.  One made recursive is not: what was below it by then is passed.
ArmWatches(c) ==
  /\ call[c].at = "arm" /\ watched' = call[c].mode
  /\ pending' = [f \in Files |-> IF Covers(call[c].mode, f) THEN pending[f] ELSE Unseen]
  /\ call' = [call EXCEPT ![c] = IdleCall]
  /\ IF call[c].scan # "off"
     THEN ScanStarts(call[c].scan) /\ UNCHANGED passed
     ELSE /\ passed' = passed \cup {f \in Files : Covers(call[c].mode, f) /\ ~Covers(watched, f)}
          /\ UNCHANGED batch
  /\ UNCHANGED <<disk, db, configs, events, offered, condemned, budgets>>

\* The process ends; what was pending is forgotten, and the next launch scans what is watched.
Relaunch ==
  /\ relaunches < MaxRelaunches /\ relaunches' = relaunches + 1
  /\ AtLaunch /\ passed' = {}
  /\ UNCHANGED <<disk, db, offered, condemned, writes, calls, marks>>

Handler == (\E f \in Files : EventOfFile(f)) \/ (\E d \in {"top", "sub"} : EventOfMarker(d))
TakeFiles(s) == ListFiles(s) \/ FilterWatched(s) \/ FilterMarked(s) \/ Offer(s)
Reconcile(c) == ReadEnabledConfigs(c) \/ SetConfigs(c) \/ ArmWatches(c)

WatchNext ==
  \/ (\E f \in Files : Write(f) \/ Condemn(f) \/ Acquit(f))
  \/ (\E d \in {"top", "sub"} : Mark(d) \/ Unmark(d))
  \/ Tick \/ Reap \/ Handler
  \/ (\E s \in Slots : TakeFiles(s))
  \/ (\E c \in Callers : Reconcile(c) \/ \E mode \in Modes : SetMode(c, mode))
  \/ Relaunch

WatchSpec == WatchInit /\ [][WatchNext]_watchVars

\* The OS tells what it saw, time passes, and every thread goes on.
WatchFairSpec ==
  /\ WatchSpec /\ WF_watchVars(Tick) /\ WF_watchVars(Reap)
  /\ \A f \in Files : WF_watchVars(EventOfFile(f))
  /\ \A d \in {"top", "sub"} : WF_watchVars(EventOfMarker(d))
  /\ \A s \in Slots : WF_watchVars(TakeFiles(s))
  /\ \A c \in Callers : WF_watchVars(Reconcile(c))

-----------------------------------------------------------------------------
(* Properties.                                                             *)

Wanted(f) ==
  /\ IsThere(f) /\ Covers(db, f) /\ ~IsMarked(f)
  /\ f \notin condemned /\ f \notin passed

\* A file that stays in a watched directory, behind no marker and without a verdict, comes to the
\* queue as it is, whatever events, reconciles, scans, markers and relaunches it met on
\* its way; passed holds what the code leaves to a later change or launch.
SettledIsOffered == \A f \in Files : []<>(~Wanted(f) \/ offered[f] = version[f])

\* The reaper takes a file out only after it has not changed for the delay, less what its handling
\* may lag behind the clock.
ReapedIsQuiet ==
  [][\A f \in batch'["reaper"].files \ batch["reaper"].files : quiet[f] >= Delay - MaxLag]_watchVars

=============================================================================
