------------------------------ MODULE ScanWindow ------------------------------
(***************************************************************************)
(* Demo8's window (ui_main.py) above the scanner.  Opening a folder        *)
(* cancels the scan under way without waiting for it, starts another one,  *)
(* and shows the result of the newest.  A timer polls the event queue as   *)
(* long as it finds events or the newest scan's thread is alive.  Progress *)
(* events are left out: they come before the last merge of a scan, and all *)
(* they do here is make a poll that found them go on.                      *)
(***************************************************************************)
EXTENDS DiskScan

VARIABLES active_scan_id,  \* 0 before the first scan
          scanning,        \* the window says so, and disables its buttons
          polling,         \* _poll_scan_events: off, due (timer set), or under way
          keep_polling,
          shown            \* history: the result on display and the scan's id

window == <<active_scan_id, scanning, polling, keep_polling, shown>>
vars == <<scan, cancelled, events, window>>

Nothing == [id |-> 0, dirs |-> {}]

Init ==
  /\ ScanInit
  /\ active_scan_id = 0 /\ scanning = FALSE
  /\ polling = "off" /\ keep_polling = FALSE /\ shown = Nothing

Alive(i) == i \in Scans /\ scan[i].pc \notin {"off", "dead"}

\* open_folder and rescan: _scan_and_render.  The GUI thread does one thing at
\* a time, so not in the middle of a poll.
OpenFolder ==
  /\ polling \in {"off", "due"} /\ active_scan_id + 1 \in Scans
  /\ active_scan_id' = active_scan_id + 1
  /\ cancelled' = cancelled \cup ({active_scan_id} \ {0})
  /\ scan' = [scan EXCEPT ![active_scan_id + 1].pc = "begin"]
  /\ scanning' = TRUE /\ polling' = "due"
  /\ UNCHANGED <<events, keep_polling, shown>>

BeginPoll ==
  /\ polling = "due"
  /\ polling' = "draining" /\ keep_polling' = FALSE
  /\ UNCHANGED <<scan, cancelled, events, active_scan_id, scanning, shown>>

\* Mutant: the events of a scan that was replaced are handled too.
Bug_Stale(event) == FALSE

\* Mutant: the number has been taken already, so the newest scan counts as replaced.
Bug_StaleToo(event) == event.id <= active_scan_id

Stale(event) == event.id # active_scan_id

HandleEvent ==
  LET event == Head(events)
  IN  /\ polling = "draining" /\ events # <<>>
      /\ events' = Tail(events) /\ keep_polling' = TRUE
      /\ IF Stale(event) \/ event.type = "scan_started" THEN UNCHANGED <<scanning, shown>>
         ELSE /\ scanning' = FALSE
              /\ shown' = IF event.type = "scan_complete"
                          THEN [id |-> event.id, dirs |-> event.dirs] ELSE shown
      /\ UNCHANGED <<scan, cancelled, active_scan_id, polling>>

QueueEmpty ==
  /\ polling = "draining" /\ events = <<>>
  /\ polling' = "drained"
  /\ UNCHANGED <<scan, cancelled, events, active_scan_id, scanning, keep_polling, shown>>

EndPoll ==
  /\ polling = "drained"
  /\ polling' = IF keep_polling \/ Alive(active_scan_id) THEN "due" ELSE "off"
  /\ UNCHANGED <<scan, cancelled, events, active_scan_id, scanning, keep_polling, shown>>

Poll == BeginPoll \/ HandleEvent \/ QueueEmpty \/ EndPoll

ScanThreads == \E i \in Scans : Coordinator(i) \/ WorkerVisit(i)

WindowQuiet == UNCHANGED window
Next == OpenFolder \/ Poll \/ (ScanThreads /\ WindowQuiet)

\* The GUI loop runs on, and so does some scan thread as long as one can;
\* nobody has to open a folder.
Fairness == WF_vars(Poll) /\ WF_vars(ScanThreads /\ WindowQuiet)

Spec == Init /\ [][Next]_vars /\ Fairness
---------------------------------------------------------------------------
(* Properties. *)

\* The directories some part of scan s still answers for, one set each.
Shares(s) ==
  {s.tree} \cup {below[{d}] : d \in s.backlog \cup s.discovered \cup s.later}
  \cup {j.got \cup UNION {below[{d}] : d \in j.todo \cup j.deferred} :
          j \in {k \in s.active \cup {s.inline} : k.got \cup k.todo # {}}}

\* The types, and the limits of ScanConfig: never more jobs at work than
\* workers, never more jobs outstanding than max_outstanding_tasks.
TypeOK ==
  /\ cancelled \subseteq 1..active_scan_id
  /\ polling \in {"off", "due", "draining", "drained"}
  /\ \A i \in Scans :
       /\ UNION {scan[i].tree, scan[i].backlog, scan[i].discovered, scan[i].later} \subseteq Dirs
       /\ Cardinality(scan[i].active) <= MaxWorkers
       /\ Outstanding(scan[i]) <= MaxOutstanding

\* While jobs are split, queued, run and merged, every directory a serial scan
\* finds is in exactly one place: in the tree, or in one job that will bring it.
EachDirOnce ==
  \A i \in Scans \ cancelled :
    scan[i].pc \in {"loop", "wait", "merge", "split", "inline"} =>
      LET shares == Shares(scan[i])
      IN UNION shares = Serial /\ \A S, T \in shares : S = T \/ S \cap T = {}

\* No subtree is attached before the directory it belongs to, however the jobs
\* overtake each other: a scan never fails.
NeverFails == \A i \in Scans : ~At(i, "fail")

\* What the window shows is what a serial scan of the newest folder finds, or
\* of an earlier one that was complete: never the torn tree of a cancelled scan,
\* although such a scan can report scan_complete.
ShownIsWhole == shown # Nothing => shown.dirs = Serial

\* Polling goes on as long as the thread of the newest scan does (_poll_scan_events).
PollsOn == polling = "off" /\ scanning => ~Alive(active_scan_id)

ScanWhole == EachDirOnce /\ NeverFails /\ ShownIsWhole /\ PollsOn

\* The shown result is never replaced by that of an older scan.
NewestWins == shown'.id >= shown.id

\* Every scan ends, cancelled or not, so that no thread is left sooner or later:
\* no job waits for another, and the scheduling loop does not spin.  And the
\* window leaves the scanning state, unless that thread put its last event
\* and ended between the last look at the queue and the is_alive() of a poll
\* that had found nothing: then polling stops with the event in the queue.
AnyAlive == \E i \in Scans : Alive(i)
Scanning == scanning /\ ~(polling = "off" /\ events # <<>>)
=============================================================================
