------------------------------- MODULE DiskScan -------------------------------
(***************************************************************************)
(* Demo8's parallel disk scanner (scanner.py).  A coordinator thread scans *)
(* the root directory, hands its subdirectories to a pool of workers, and  *)
(* attaches the subtrees they return.  A worker may put off some of the    *)
(* subdirectories it meets: the coordinator makes them jobs of their own,  *)
(* or scans them itself when too many jobs are outstanding.  A scan is     *)
(* cancelled by an event that every thread polls.                          *)
(*                                                                         *)
(* Only directories are kept: the files of a directory come with it.  Jobs *)
(* and entries are taken in any order, which covers the sorted order of    *)
(* the code.  Links, sizes and progress counts are left out, and so are    *)
(* errors other than a directory that cannot be read.                      *)
(***************************************************************************)
EXTENDS Integers, FiniteSets, Sequences

CONSTANTS Scans,           \* ids of the scans, 1..k
          Dirs, Root,
          Parent,          \* of every directory but Root
          Unreadable,      \* directories scandir raises for
          MaxWorkers, MaxOutstanding,      \* ScanConfig
          MaxDepth, Threshold, MaxSplits   \* ScanConfig: when subtrees are put off

VARIABLES scan,       \* the coordinator of each scan and its jobs
          cancelled,  \* scans whose cancel_event is set
          events      \* the event queue the scans share with the window

Children(d) == {c \in Dirs \ {Root} : Parent[c] = d}

depth[d \in Dirs] == IF d = Root THEN 0 ELSE 1 + depth[Parent[d]]

\* What scan_path_serial finds below the directories of a set: with a directory that can be read, all its
\* subdirectories, and no others.
Closed(S) == \A d \in S \ Unreadable : Children(d) \subseteq S
below == [ds \in SUBSET Dirs |-> CHOOSE S \in SUBSET Dirs :
  ds \subseteq S /\ (\A d \in S \ ds : d # Root /\ Parent[d] \in S \ Unreadable) /\ Closed(S)]

Serial == below[{Root}]
\* Every directory is below the root, and none below itself; the scans are numbered from 1.
IsTree ==
  /\ IsFiniteSet(Dirs) /\ Root \in Dirs /\ Parent \in [Dirs \ {Root} -> Dirs]
  /\ \A S \in SUBSET (Dirs \ {Root}) : S # {} => \E d \in S : Parent[d] \notin S
ScanConstants == IsTree /\ Scans \subseteq Nat \ {0} /\ {MaxWorkers, MaxOutstanding, MaxSplits} \subseteq Nat
---------------------------------------------------------------------------
(* Jobs: _scan_job, by a worker or inline. *)

Job(d, budget) == [dir |-> d, todo |-> {d}, got |-> {}, deferred |-> {}, budget |-> budget]
Done(job) == job.todo = {}
Smaller(m, n) == IF m < n THEN m ELSE n
OfSize(n, S) == {T \in SUBSET S : Cardinality(T) = Smaller(n, Cardinality(S))}

\* A cancelled scan may break off after any entry.
Entries(i, d) ==
  IF d \in Unreadable THEN {{}}
  ELSE IF i \in cancelled THEN SUBSET Children(d) ELSE {Children(d)}

\* _choose_deferred_paths
PutOff(job, d, dirs) ==
  IF depth[d] >= MaxDepth \/ Cardinality(dirs) < Threshold \/ job.budget <= 0 THEN {{}}
  ELSE OfSize(Smaller(job.budget, MaxSplits), dirs)

\* One directory of _scan_dir_adaptive.
Visited(i, job) ==
  UNION {UNION {{[job EXCEPT !.todo = (@ \ {d}) \cup (dirs \ off), !.got = @ \cup {d},
                             !.deferred = @ \cup off, !.budget = @ - Cardinality(off)] :
                  off \in PutOff(job, d, dirs)} : dirs \in Entries(i, d)} : d \in job.todo}
---------------------------------------------------------------------------
(* The coordinator. *)

NoJob == [dir |-> Root, todo |-> {}, got |-> {}, deferred |-> {}, budget |-> 0]
Unborn == [pc |-> "off", tree |-> {}, backlog |-> {}, discovered |-> {}, active |-> {},
           batch |-> {}, later |-> {}, inline |-> NoJob]

ScanInit ==
  /\ scan = [i \in Scans |-> Unborn]
  /\ cancelled = {} /\ events = <<>>

Set(i, s) == scan' = [scan EXCEPT ![i] = s] /\ UNCHANGED cancelled
Quiet == UNCHANGED events
Put(i, type) == events' = Append(events, [id |-> i, type |-> type, dirs |-> scan[i].tree])

At(i, pc) == scan[i].pc = pc
Outstanding(s) == Cardinality(s.active) + Cardinality(s.discovered)

Begin(i) ==
  /\ At(i, "begin")
  /\ Set(i, [scan[i] EXCEPT !.pc = IF i \in cancelled THEN "cancel" ELSE "root"])
  /\ Put(i, "scan_started")

ScanRoot(i) ==
  /\ At(i, "root") /\ Quiet
  /\ Set(i, IF Root \in Unreadable THEN [scan[i] EXCEPT !.pc = "complete", !.tree = {Root}]
            ELSE IF i \in cancelled THEN [scan[i] EXCEPT !.pc = "cancel"]
            ELSE [scan[i] EXCEPT !.pc = "loop", !.tree = {Root}, !.backlog = Children(Root)])

\* The head of the scheduling loop: nothing is left, or the scan is cancelled.
LeaveLoop(i) ==
  LET s == scan[i]
      idle == s.backlog = {} /\ s.discovered = {} /\ s.active = {}
  IN  /\ At(i, "loop") /\ (idle \/ i \in cancelled)
      /\ Set(i, [s EXCEPT !.pc = IF idle THEN "complete" ELSE "cancel"]) /\ Quiet

Room(s) == MaxOutstanding - Outstanding(s)

Schedule(i) ==
  LET s == scan[i]
  IN  /\ At(i, "loop") /\ i \notin cancelled
      /\ s.backlog \cup s.discovered # {} \/ s.active # {}
      /\ \E new \in OfSize(IF Room(s) > 0 THEN Room(s) ELSE 0, s.backlog) :
         \E jobs \in OfSize(MaxWorkers - Cardinality(s.active), s.discovered \cup new) :
           LET active == s.active \cup {Job(d, MaxSplits) : d \in jobs}
           IN  Set(i, [s EXCEPT !.backlog = @ \ new,
                                !.discovered = (@ \cup new) \ jobs,
                                !.active = active,
                                !.pc = IF active = {} THEN "loop" ELSE "wait"])
      /\ Quiet

\* wait(..., FIRST_COMPLETED) returns all jobs that are done by then.
Collect(i) ==
  LET done == {j \in scan[i].active : Done(j)}
  IN  /\ At(i, "wait") /\ done # {}
      /\ Set(i, [scan[i] EXCEPT !.pc = "merge", !.batch = done]) /\ Quiet

\* Mutant: _register_paths leaves out the subtree's own directory.
Bug_Attached(s, job) ==
  IF Parent[job.dir] \in s.tree
  THEN [s EXCEPT !.tree = @ \cup (job.got \ {job.dir}), !.pc = "split"]
  ELSE [s EXCEPT !.pc = "fail"]

\* _attach_subtree looks its parent up in path_index, and raises without one.
Attached(s, job) ==
  IF Parent[job.dir] \in s.tree THEN [s EXCEPT !.tree = @ \cup job.got, !.pc = "split"]
  ELSE [s EXCEPT !.pc = "fail"]

TakeResult(i) ==
  LET s == scan[i]
  IN  /\ At(i, "merge") /\ Quiet
      /\ IF s.batch = {} THEN Set(i, [s EXCEPT !.pc = "loop"])
         ELSE IF i \in cancelled THEN Set(i, [s EXCEPT !.pc = "cancel"])
         ELSE \E job \in s.batch :
                Set(i, Attached([s EXCEPT !.batch = @ \ {job}, !.active = @ \ {job},
                                          !.later = job.deferred], job))

\* Mutant: one job more than the limit.
Bug_IsRoom(s) == Outstanding(s) <= MaxOutstanding

IsRoom(s) == Outstanding(s) < MaxOutstanding

\* Mutant: a subtree that finds no room is left out.
Bug_SplitDeferred(i) ==
  LET s == scan[i]
  IN  /\ At(i, "split") /\ Quiet
      /\ IF s.later = {} \/ i \in cancelled
         THEN Set(i, [s EXCEPT !.later = {}, !.pc = "merge"])
         ELSE \E d \in s.later :
                Set(i, IF IsRoom(s) THEN [s EXCEPT !.later = @ \ {d}, !.discovered = @ \cup {d}]
                       ELSE [s EXCEPT !.later = @ \ {d}])

\* _schedule_or_inline_deferred_jobs
SplitDeferred(i) ==
  LET s == scan[i]
  IN  /\ At(i, "split") /\ Quiet
      /\ IF s.later = {} \/ i \in cancelled
         THEN Set(i, [s EXCEPT !.later = {}, !.pc = "merge"])
         ELSE \E d \in s.later :
                Set(i, IF IsRoom(s) THEN [s EXCEPT !.later = @ \ {d}, !.discovered = @ \cup {d}]
                       ELSE [s EXCEPT !.later = @ \ {d}, !.inline = Job(d, 0), !.pc = "inline"])

InlineVisit(i) ==
  /\ At(i, "inline") /\ ~Done(scan[i].inline) /\ Quiet
  /\ \E job \in Visited(i, scan[i].inline) : Set(i, [scan[i] EXCEPT !.inline = job])

AttachInline(i) ==
  /\ At(i, "inline") /\ Done(scan[i].inline) /\ Quiet
  /\ Set(i, Attached([scan[i] EXCEPT !.inline = NoJob], scan[i].inline))

\* The executor is left only when its workers are done; then the terminal
\* event is put and the thread ends.
Report(i) ==
  /\ scan[i].pc \in {"complete", "cancel", "fail"} /\ \A j \in scan[i].active : Done(j)
  /\ Put(i, CASE At(i, "complete") -> "scan_complete"
              [] At(i, "cancel") -> "scan_cancelled"
              [] At(i, "fail") -> "scan_failed")
  /\ Set(i, [Unborn EXCEPT !.pc = "ending"])

ExitThread(i) == At(i, "ending") /\ Set(i, [scan[i] EXCEPT !.pc = "dead"]) /\ Quiet

Coordinator(i) ==
  \/ Begin(i) \/ ScanRoot(i) \/ LeaveLoop(i) \/ Schedule(i) \/ Collect(i) \/ TakeResult(i)
  \/ SplitDeferred(i) \/ InlineVisit(i) \/ AttachInline(i) \/ Report(i) \/ ExitThread(i)

WorkerVisit(i) ==
  /\ \E job \in scan[i].active : \E after \in Visited(i, job) :
       Set(i, [scan[i] EXCEPT !.active = (@ \ {job}) \cup {after}])
  /\ Quiet
=============================================================================
