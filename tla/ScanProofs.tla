------------------------------- MODULE ScanProofs -------------------------------
(***************************************************************************)
(* Demo8's scanner finds every directory once and never fails, and its     *)
(* window shows the newest result, and that one whole: for every tree of   *)
(* directories, any number of workers, jobs and splits, and any number of  *)
(* scans that cut each other short.                                        *)
(***************************************************************************)
EXTENDS ScanWindow, FiniteSetTheorems, TLAPS

Inner == Dirs \ {Root}
BelowAll(S) == UNION {below[{d}] : d \in S}
Stages == {"off", "begin", "root", "loop", "wait", "merge", "split", "inline", "complete", "cancel", "fail", "ending", "dead"}
Resting == {"off", "begin", "root", "ending", "dead"}
Working == {"loop", "wait", "merge", "split", "inline"}
ScanJob == [dir : Dirs, todo : SUBSET Dirs, got : SUBSET Dirs, deferred : SUBSET Dirs, budget : Int]
ScanState == [pc : Stages, tree : SUBSET Dirs, backlog : SUBSET Dirs, discovered : SUBSET Dirs, active : SUBSET ScanJob,
              batch : SUBSET ScanJob, later : SUBSET Dirs, inline : ScanJob]

\* The directories a job has before it, one by one; and what a scan's jobs are to bring.
Ahead(job) == job.todo \union job.deferred
Open(s) == s.backlog \union s.discovered \union s.later
JobsOf(s) == s.active \union IF s.pc = "inline" THEN {s.inline} ELSE {}
Claims(s) == Open(s) \union {job.dir : job \in JobsOf(s)}

\* A job keeps its own directory, and what it puts off stands right below what it has got.
Proper(job) ==
  /\ job \in ScanJob /\ job.dir \in job.got \union job.todo
  /\ \A d \in job.deferred : d \in Inner /\ Parent[d] \in job.got

\* All below a job's directory is got or ahead, once.
Whole(job) ==
  /\ job.got \union BelowAll(Ahead(job)) = below[{job.dir}]
  /\ job.todo \intersect job.deferred = {}
  /\ \A d \in Ahead(job) : job.got \intersect below[{d}] = {}
  /\ \A d, e \in Ahead(job) : d # e => below[{d}] \intersect below[{e}] = {}

\* Every directory a serial scan finds is in the tree or claimed, once.
Shared(s) ==
  /\ s.backlog \intersect s.discovered = {} /\ (s.backlog \union s.discovered) \intersect s.later = {}
  /\ \A job \in JobsOf(s) : job.dir \notin Open(s)
  /\ \A job, other \in JobsOf(s) : job.dir = other.dir => job = other
  /\ s.pc = "inline" => \A job \in s.active : job.dir # s.inline.dir
  /\ \A job \in JobsOf(s) : Whole(job)
  /\ s.tree \union BelowAll(Claims(s)) = Serial
  /\ \A d \in Claims(s) : s.tree \intersect below[{d}] = {}
  /\ \A d, e \in Claims(s) : d # e => below[{d}] \intersect below[{e}] = {}

\* A scan, cancelled or not: what is claimed stands right below the tree.
Sound(s) ==
  /\ s \in ScanState /\ s.pc # "fail"
  /\ s.pc # "inline" => s.inline = NoJob
  /\ s.pc = "inline" => Proper(s.inline) /\ s.inline.deferred = {} /\ s.inline.budget = 0
  /\ s.pc \notin {"split", "inline"} => s.later = {}
  /\ \A job \in s.active : Proper(job)
  /\ \A d \in Claims(s) : d \in Inner /\ Parent[d] \in s.tree
  /\ s.batch \subseteq {job \in s.active : Done(job)}
  /\ s.pc \in Resting => s = [Unborn EXCEPT !.pc = s.pc]

\* A scan that is not cancelled.
Complete(s) ==
  /\ s.pc \in Working => Shared(s)
  /\ s.pc = "complete" => s.tree = Serial

Event == [id : Scans, type : {"scan_started", "scan_complete", "scan_cancelled", "scan_failed"}, dirs : SUBSET Dirs]
Reported(event) ==
  event.id <= active_scan_id /\ (event.type = "scan_complete" /\ event.id \notin cancelled => event.dirs = Serial)

\* The window: what it shows came from a scan that was the newest, and it goes on polling while the newest one lives.
WindowInv ==
  /\ active_scan_id \in Scans \union {0} /\ cancelled \subseteq 1..active_scan_id - 1
  /\ \A i \in Scans : i > active_scan_id => scan[i] = Unborn
  /\ events \in Seq(Event) /\ \A n \in 1..Len(events) : Reported(events[n])
  /\ polling \in {"off", "due", "draining", "drained"}
  /\ polling = "off" => ~Alive(active_scan_id)
  /\ shown.id \in Nat /\ shown.id <= active_scan_id
  /\ shown # Nothing => shown.dirs = Serial

ScansInv == scan \in [Scans -> ScanState] /\ \A i \in Scans : Sound(scan[i]) /\ (i \notin cancelled => Complete(scan[i]))

ScanInv == ScansInv /\ WindowInv

-----------------------------------------------------------------------------
(* What stands below a directory.                                          *)

LeastBelow(ds, S) == ds \subseteq S /\ (\A d \in S \ ds : d # Root /\ Parent[d] \in S \ Unreadable) /\ Closed(S)

LEMMA BelowExists == ASSUME NEW ds \in SUBSET Dirs PROVE \E S \in SUBSET Dirs : LeastBelow(ds, S)
<1> DEFINE S == {d \in Dirs : \A T \in SUBSET Dirs : ds \subseteq T /\ Closed(T) => d \in T}
<1>1. ds \subseteq S /\ S \in SUBSET Dirs
  OBVIOUS
<1>2. Closed(S)
  BY DEF Closed, Children
<1>3. ASSUME NEW d \in S \ ds, ~(d # Root /\ Parent[d] \in S \ Unreadable) PROVE FALSE
  <2>1. Closed(S \ {d}) /\ ds \subseteq S \ {d}
    BY <1>1, <1>2, <1>3 DEF Closed, Children
  <2> QED BY <2>1, <1>3
<1> HIDE DEF S
<1> QED BY <1>1, <1>2, <1>3 DEF LeastBelow

LEMMA BelowIs == ASSUME NEW ds \in SUBSET Dirs PROVE below[ds] \in SUBSET Dirs /\ LeastBelow(ds, below[ds])
<1>1. below[ds] = CHOOSE S \in SUBSET Dirs : LeastBelow(ds, S)
  BY DEF below, LeastBelow
<1> QED BY <1>1, BelowExists

\* It is the least of the closed sets.
LEMMA BelowLeast ==
  ASSUME IsTree, NEW ds \in SUBSET Dirs, NEW T, ds \subseteq T, Closed(T)
  PROVE  below[ds] \subseteq T
<1> DEFINE S == below[ds] \ T
<1>1. ASSUME NEW d \in S PROVE d # Root /\ Parent[d] \in S
  BY BelowIs DEF LeastBelow, Closed, Children
<1>2. S \in SUBSET (Dirs \ {Root})
  BY <1>1, BelowIs
<1> QED BY <1>1, <1>2 DEF IsTree

\* What is below two sets of directories, or below one directory.
LEMMA BelowSplit == ASSUME NEW P, NEW Q PROVE BelowAll(P \union Q) = BelowAll(P) \union BelowAll(Q)
<1>1. ASSUME NEW z, NEW S PROVE z \in BelowAll(S) <=> \E x \in S : z \in below[{x}]
  BY DEF BelowAll
<1>2. ASSUME NEW z PROVE z \in BelowAll(P \union Q) <=> z \in BelowAll(P) \/ z \in BelowAll(Q)
  <2>1. (\E x \in P \union Q : z \in below[{x}]) <=> (\E x \in P : z \in below[{x}]) \/ (\E x \in Q : z \in below[{x}])
    OBVIOUS
  <2> QED BY <1>1, <2>1
<1> QED BY <1>2

LEMMA BelowSingle == ASSUME NEW d PROVE BelowAll({d}) = below[{d}] /\ BelowAll({}) = {}
<1>1. BelowAll({d}) = UNION {below[{d}]}
  BY DEF BelowAll
<1> QED BY <1>1 DEF BelowAll

LEMMA BelowUnion == ASSUME IsTree, NEW ds \in SUBSET Dirs PROVE below[ds] = BelowAll(ds)
<1>1. \A d \in ds : {d} \in SUBSET Dirs /\ below[{d}] \in SUBSET Dirs /\ LeastBelow({d}, below[{d}])
  BY BelowIs
<1>2. below[ds] \subseteq BelowAll(ds)
  <2> DEFINE T == UNION {below[{d}] : d \in ds}
  <2>1. ds \subseteq T
    BY <1>1 DEF LeastBelow
  <2>2. ASSUME NEW x \in T \ Unreadable PROVE Children(x) \subseteq T
    <3>1. PICK d \in ds : x \in below[{d}]
      OBVIOUS
    <3>2. Closed(below[{d}])
      BY <1>1 DEF LeastBelow
    <3> QED BY <3>1, <3>2 DEF Closed
  <2>3. Closed(T)
    BY <2>2 DEF Closed
  <2> HIDE DEF T
  <2>4. below[ds] \subseteq T
    BY <2>1, <2>3, BelowLeast
  <2> QED BY <2>4 DEF T, BelowAll
<1>3. ASSUME NEW d \in ds PROVE below[{d}] \subseteq below[ds]
  <2>1. {d} \subseteq below[ds] /\ Closed(below[ds])
    BY BelowIs DEF LeastBelow
  <2> QED BY <2>1, <1>1, BelowLeast
<1>4. BelowAll(ds) \subseteq below[ds]
  BY <1>3 DEF BelowAll
<1> QED BY <1>2, <1>4

\* Below a directory is itself and, when it can be read, what is below its subdirectories.
LEMMA BelowOne ==
  ASSUME IsTree, NEW d \in Dirs
  PROVE  /\ d \in below[{d}] /\ below[{d}] \subseteq Dirs
         /\ d \in Unreadable => below[{d}] = {d}
         /\ d \notin Unreadable => below[{d}] = {d} \union BelowAll(Children(d))
<1>1. below[{d}] \in SUBSET Dirs /\ LeastBelow({d}, below[{d}])
  BY BelowIs
<1>2. d \in Unreadable => below[{d}] \subseteq {d}
  <2>1. ASSUME d \in Unreadable PROVE Closed({d})
    BY <2>1 DEF Closed
  <2> QED BY <2>1, BelowLeast
<1>3. Children(d) \in SUBSET Dirs /\ \A c \in Children(d) : {c} \in SUBSET Dirs
  BY DEF Children
<1>4. ASSUME d \notin Unreadable PROVE below[{d}] = {d} \union BelowAll(Children(d))
  <2> DEFINE T == {d} \union BelowAll(Children(d))
  <2>5. \A x : x \in BelowAll(Children(d)) <=> \E c \in Children(d) : x \in below[{c}]
    BY DEF BelowAll
  <2>1. \A c \in Children(d) : LeastBelow({c}, below[{c}]) /\ below[{c}] \in SUBSET Dirs
    BY <1>3, BelowIs
  <2>2. Closed(T)
    <3> SUFFICES ASSUME NEW x \in T \ Unreadable PROVE Children(x) \subseteq T
      BY DEF Closed
    <3>1. CASE x = d
      BY <3>1, <2>1, <2>5 DEF LeastBelow
    <3>2. ASSUME NEW c \in Children(d), x \in below[{c}] PROVE Children(x) \subseteq T
      <4>1. Closed(below[{c}])
        BY <2>1 DEF LeastBelow
      <4> QED BY <3>2, <4>1, <2>5 DEF Closed
    <3> QED BY <3>1, <3>2, <2>5
  <2>3. below[{d}] \subseteq T
    <3>1. {d} \subseteq T
      OBVIOUS
    <3> HIDE DEF T
    <3> QED BY <2>2, <3>1, BelowLeast
  <2>4. ASSUME NEW c \in Children(d) PROVE below[{c}] \subseteq below[{d}]
    <3>1. {c} \subseteq below[{d}] /\ Closed(below[{d}])
      BY <1>1, <1>4 DEF LeastBelow, Closed
    <3> QED BY <3>1, <1>3, BelowLeast
  <2> QED BY <2>3, <2>4, <2>5, <1>1 DEF LeastBelow
<1> QED BY <1>1, <1>2, <1>4 DEF LeastBelow

\* No directory is below one of its subdirectories, and nothing is below two of them.
LEMMA BelowApart ==
  ASSUME IsTree, NEW d \in Dirs
  PROVE  /\ \A c \in Children(d) : d \notin below[{c}]
         /\ \A c, e \in Children(d) : c # e => below[{c}] \intersect below[{e}] = {}
<1>1. ASSUME NEW c \in Children(d)
      PROVE  /\ c \in Dirs /\ c # Root /\ Parent[c] = d
             /\ below[{c}] \in SUBSET (Dirs \ {Root}) /\ c \in below[{c}]
             /\ \A x \in below[{c}] : x # c => Parent[x] \in below[{c}]
  <2>1. c \in Dirs /\ c # Root /\ Parent[c] = d
    BY DEF Children
  <2>2. below[{c}] \in SUBSET Dirs /\ LeastBelow({c}, below[{c}])
    BY <2>1, BelowIs
  <2> QED BY <2>1, <2>2 DEF LeastBelow
<1>2. ASSUME NEW c \in Children(d), d \in below[{c}] PROVE FALSE
  <2>1. \A x \in below[{c}] : Parent[x] \in below[{c}]
    BY <1>1, <1>2
  <2> QED BY <1>1, <2>1 DEF IsTree
<1>3. ASSUME NEW c \in Children(d), NEW e \in Children(d), c # e, below[{c}] \intersect below[{e}] # {} PROVE FALSE
  <2> DEFINE S == below[{c}] \intersect below[{e}]
  <2>1. ASSUME NEW x \in S PROVE Parent[x] \in S
    <3>1. x = c => Parent[x] \in below[{e}]
      BY <1>1, <1>3
    <3>2. x = e => Parent[x] \in below[{c}]
      BY <1>1, <1>3
    <3>3. x # c /\ x # e
      BY <1>1, <1>2, <3>1, <3>2
    <3> QED BY <1>1, <3>3
  <2>2. S \in SUBSET (Dirs \ {Root})
    BY <1>1
  <2> QED BY <2>1, <2>2, <1>3 DEF IsTree
<1> QED BY <1>2, <1>3

-----------------------------------------------------------------------------
(* A job.                                                                  *)

\* What a visit of one directory does to a job.
LEMMA VisitStep ==
  ASSUME NEW i, NEW job, Proper(job), NEW after \in Visited(i, job)
  PROVE  \E d \in job.todo, dirs \in SUBSET Dirs, off \in SUBSET Dirs :
           /\ dirs \in Entries(i, d) /\ dirs \subseteq Children(d) /\ off \subseteq dirs /\ (job.budget = 0 => off = {})
           /\ after = [dir |-> job.dir, todo |-> (job.todo \ {d}) \union (dirs \ off), got |-> job.got \union {d},
                       deferred |-> job.deferred \union off, budget |-> job.budget - Cardinality(off)]
<1> DEFINE New(d, dirs, off) == [job EXCEPT !.todo = (@ \ {d}) \cup (dirs \ off), !.got = @ \cup {d},
                                           !.deferred = @ \cup off, !.budget = @ - Cardinality(off)]
<1>1. after \in UNION {UNION {{New(d, dirs, off) : off \in PutOff(job, d, dirs)} : dirs \in Entries(i, d)} : d \in job.todo}
  BY DEF Visited
<1>2. PICK d, dirs, off :
        d \in job.todo /\ dirs \in Entries(i, d) /\ off \in PutOff(job, d, dirs) /\ after = New(d, dirs, off)
  <2> HIDE DEF New
  <2>1. PICK d \in job.todo : after \in UNION {{New(d, dirs, off) : off \in PutOff(job, d, dirs)} : dirs \in Entries(i, d)}
    BY <1>1
  <2>2. PICK dirs \in Entries(i, d) : after \in {New(d, dirs, off) : off \in PutOff(job, d, dirs)}
    BY <2>1
  <2> QED BY <2>2
<1>3. dirs \subseteq Children(d) /\ dirs \subseteq Dirs
  BY <1>2 DEF Entries, Children
<1>4. off \subseteq dirs
  BY <1>2 DEF PutOff, OfSize
<1>5. job.budget = 0 => off = {}
  BY <1>2 DEF PutOff
<1>6. job = [dir |-> job.dir, todo |-> job.todo, got |-> job.got, deferred |-> job.deferred, budget |-> job.budget]
  BY DEF Proper, ScanJob
<1>7. after = [dir |-> job.dir, todo |-> (job.todo \ {d}) \union (dirs \ off), got |-> job.got \union {d},
               deferred |-> job.deferred \union off, budget |-> job.budget - Cardinality(off)]
  BY <1>2, <1>6
<1>8. off \in SUBSET Dirs /\ dirs \in SUBSET Dirs
  BY <1>3, <1>4
<1> HIDE DEF New
<1> QED BY <1>2, <1>3, <1>4, <1>5, <1>7, <1>8

LEMMA VisitProper ==
  ASSUME ScanConstants, NEW i, NEW job, Proper(job), NEW after \in Visited(i, job)
  PROVE  /\ Proper(after) /\ after.dir = job.dir /\ ~Done(job)
         /\ job.budget = 0 => after.budget = 0 /\ after.deferred = job.deferred
<1>1. PICK d \in job.todo, dirs \in SUBSET Dirs, off \in SUBSET Dirs :
        /\ dirs \in Entries(i, d) /\ dirs \subseteq Children(d) /\ off \subseteq dirs /\ (job.budget = 0 => off = {})
        /\ after = [dir |-> job.dir, todo |-> (job.todo \ {d}) \union (dirs \ off), got |-> job.got \union {d},
                    deferred |-> job.deferred \union off, budget |-> job.budget - Cardinality(off)]
  BY VisitStep
<1>2. /\ job.dir \in Dirs /\ job.todo \in SUBSET Dirs /\ job.got \in SUBSET Dirs /\ job.deferred \in SUBSET Dirs /\ job.budget \in Int
      /\ job.dir \in job.got \union job.todo /\ \A x \in job.deferred : x \in Inner /\ Parent[x] \in job.got
  BY DEF Proper, ScanJob
<1>3. Cardinality(off) \in Nat /\ Cardinality({}) = 0
  BY FS_Subset, FS_CardinalityType, FS_EmptySet DEF ScanConstants, IsTree
<1>4. job.budget - Cardinality(off) \in Int
  BY <1>2, <1>3
<1>5. after \in ScanJob
  BY <1>1, <1>2, <1>4 DEF ScanJob
<1>6. \A x \in off : x \in Inner /\ Parent[x] = d
  BY <1>1 DEF Children, Inner
<1>7. Proper(after)
  BY <1>1, <1>2, <1>5, <1>6 DEF Proper
<1>8. ASSUME job.budget = 0 PROVE after.budget = 0 /\ after.deferred = job.deferred
  <2>1. off = {} /\ after.budget = job.budget - Cardinality(off) /\ after.deferred = job.deferred \union off
    BY <1>1, <1>8
  <2> QED BY <2>1, <1>3, <1>8
<1> QED BY <1>1, <1>7, <1>8 DEF Done

\* A visit takes one directory from what is ahead and puts what is right below it there.
LEMMA VisitWhole ==
  ASSUME ScanConstants, NEW i, i \notin cancelled, NEW job, Proper(job), Whole(job), NEW after \in Visited(i, job)
  PROVE  Whole(after)
<1>1. PICK d \in job.todo, dirs \in SUBSET Dirs, off \in SUBSET Dirs :
        /\ dirs \in Entries(i, d) /\ dirs \subseteq Children(d) /\ off \subseteq dirs
        /\ after = [dir |-> job.dir, todo |-> (job.todo \ {d}) \union (dirs \ off), got |-> job.got \union {d},
                    deferred |-> job.deferred \union off, budget |-> job.budget - Cardinality(off)]
  BY VisitStep
<1>2. job.todo \subseteq Dirs /\ d \in Dirs /\ IsTree
  BY <1>1 DEF Proper, ScanJob, ScanConstants
<1> DEFINE B(x) == below[{x}]
<1>3. B(d) = {d} \union BelowAll(dirs)
  <2>1. d \in Unreadable => dirs = {}
    BY <1>1 DEF Entries
  <2>2. d \notin Unreadable => dirs = Children(d)
    BY <1>1 DEF Entries
  <2> QED BY <2>1, <2>2, <1>2, BelowOne, BelowSingle
<1>4. \A c \in dirs : c \in B(c) /\ B(c) \subseteq B(d) /\ d \notin B(c) /\ c # d
  <2>1. \A c \in dirs : c \in B(c)
    BY <1>2, BelowOne
  <2>2. \A c \in dirs : d \notin B(c)
    BY <1>1, <1>2, BelowApart
  <2>3. \A c \in dirs : B(c) \subseteq B(d)
    BY <1>3 DEF BelowAll
  <2> QED BY <2>1, <2>2, <2>3
<1>5. \A c, e \in dirs : c # e => B(c) \intersect B(e) = {}
  BY <1>1, <1>2, BelowApart
<1>6. /\ job.got \union BelowAll(Ahead(job)) = B(job.dir)
      /\ job.todo \intersect job.deferred = {} /\ d \in Ahead(job)
      /\ \A x \in Ahead(job) : job.got \intersect B(x) = {}
      /\ \A x, y \in Ahead(job) : x # y => B(x) \intersect B(y) = {}
  BY <1>1 DEF Whole, Ahead
<1>7. \A x \in Ahead(job) : x # d => x \notin dirs /\ \A c \in dirs : B(x) \intersect B(c) = {}
  BY <1>4, <1>6
<1>8. /\ Ahead(after) = (Ahead(job) \ {d}) \union dirs /\ after.dir = job.dir /\ after.got = job.got \union {d}
      /\ after.todo = (job.todo \ {d}) \union (dirs \ off) /\ after.deferred = job.deferred \union off
  BY <1>1, <1>6 DEF Ahead
<1> HIDE DEF B
<1>9. d \in B(d) /\ B(d) \subseteq B(job.dir)
  <2>1. B(d) \subseteq BelowAll(Ahead(job))
    BY <1>6 DEF BelowAll, B
  <2> QED BY <1>3, <1>6, <2>1
<1>10. after.got \union BelowAll(Ahead(after)) = B(after.dir)
  <2>1. BelowAll(Ahead(job)) = B(d) \union BelowAll(Ahead(job) \ {d})
    <3>1. Ahead(job) = {d} \union (Ahead(job) \ {d})
      BY <1>6
    <3>2. BelowAll({d} \union (Ahead(job) \ {d})) = BelowAll({d}) \union BelowAll(Ahead(job) \ {d})
      BY BelowSplit
    <3>3. BelowAll({d}) = B(d)
      BY BelowSingle DEF B
    <3> QED BY <3>1, <3>2, <3>3
  <2>2. BelowAll(Ahead(after)) = BelowAll(Ahead(job) \ {d}) \union BelowAll(dirs)
    BY <1>8, BelowSplit
  <2> QED BY <2>1, <2>2, <1>3, <1>6, <1>8
<1>11. after.todo \intersect after.deferred = {}
  <2>1. \A x \in off : x \notin job.todo /\ x \notin job.deferred
    BY <1>1, <1>4, <1>7 DEF Ahead
  <2>2. \A x \in dirs : x \notin job.deferred
    BY <1>4, <1>7 DEF Ahead
  <2> QED BY <2>1, <2>2, <1>6, <1>8
<1>12. ASSUME NEW x \in Ahead(after) PROVE after.got \intersect B(x) = {}
  <2>1. CASE x \in Ahead(job) \ {d}
    BY <2>1, <1>6, <1>8, <1>9
  <2>2. CASE x \in dirs
    BY <2>2, <1>4, <1>6, <1>8
  <2> QED BY <2>1, <2>2, <1>8
<1>13. ASSUME NEW x \in Ahead(after), NEW y \in Ahead(after), x # y PROVE B(x) \intersect B(y) = {}
  BY <1>5, <1>6, <1>7, <1>8, <1>13
<1> QED BY <1>10, <1>11, <1>12, <1>13 DEF Whole, B
-----------------------------------------------------------------------------
(* A scan.                                                                 *)

SoundStep(i, s) == Sound(s) /\ (i \notin cancelled => Complete(s))

\* A scan that has just been started, has ended, or is about to look at the root.
LEMMA RestingSound ==
  ASSUME ScanConstants, NEW i, NEW pc \in Resting
  PROVE  SoundStep(i, [Unborn EXCEPT !.pc = pc])
<1> DEFINE s == [Unborn EXCEPT !.pc = pc]
<1>1. s = [pc |-> pc, tree |-> {}, backlog |-> {}, discovered |-> {}, active |-> {},
           batch |-> {}, later |-> {}, inline |-> NoJob]
  BY DEF Unborn
<1>2. NoJob \in ScanJob
  BY DEF NoJob, ScanJob, ScanConstants, IsTree
<1>3. pc \in Stages /\ pc \notin Working /\ pc \notin {"inline", "complete", "fail"}
  BY DEF Resting, Stages, Working
<1>4. s \in ScanState
  BY <1>1, <1>2, <1>3 DEF ScanState
<1>5. Claims(s) = {}
  BY <1>1, <1>3 DEF Claims, Open, JobsOf
<1>6. s.pc = pc /\ s.inline = NoJob /\ s.later = {} /\ s.active = {} /\ s.batch = {}
  BY <1>1
<1> HIDE DEF s
<1>7. s = [Unborn EXCEPT !.pc = s.pc]
  BY <1>6 DEF s
<1> QED BY <1>3, <1>4, <1>5, <1>6, <1>7 DEF SoundStep, Sound, Complete, s

\* What the rest of a step leaves alone.
LEMMA Fields ==
  ASSUME NEW s \in ScanState
  PROVE  /\ s.pc \in Stages /\ s.tree \subseteq Dirs /\ s.backlog \subseteq Dirs /\ s.discovered \subseteq Dirs /\ s.later \subseteq Dirs
         /\ s.active \subseteq ScanJob /\ s.batch \subseteq ScanJob /\ s.inline \in ScanJob
         /\ s = [pc |-> s.pc, tree |-> s.tree, backlog |-> s.backlog, discovered |-> s.discovered, active |-> s.active,
                 batch |-> s.batch, later |-> s.later, inline |-> s.inline]
BY DEF ScanState

LEMMA ScanRootSound ==
  ASSUME ScanConstants, NEW i \in Scans, SoundStep(i, scan[i]), ScanRoot(i), scan \in [Scans -> ScanState]
  PROVE  SoundStep(i, scan'[i])
<1> DEFINE s == scan[i]
<1>1. s = [Unborn EXCEPT !.pc = "root"]
  BY DEF ScanRoot, At, SoundStep, Sound, Resting
<1>2. /\ s = [pc |-> "root", tree |-> {}, backlog |-> {}, discovered |-> {}, active |-> {},
              batch |-> {}, later |-> {}, inline |-> NoJob]
  BY <1>1 DEF Unborn
<1> HIDE DEF s
<1>3. NoJob \in ScanJob /\ Root \in Dirs /\ IsTree
  BY DEF NoJob, ScanJob, ScanConstants, IsTree
<1>4. Serial = below[{Root}]
  BY DEF Serial
<1>5. CASE Root \in Unreadable
  <2> DEFINE s2 == [pc |-> "complete", tree |-> {Root}, backlog |-> {}, discovered |-> {}, active |-> {},
              batch |-> {}, later |-> {}, inline |-> NoJob]
  <2>1. scan'[i] = s2
    <3>1. scan'[i] = [s EXCEPT !.pc = "complete", !.tree = {Root}]
      BY <1>5 DEF ScanRoot, Set, s
    <3> QED BY <3>1, <1>2
  <2>2. Serial = {Root}
    BY <1>3, <1>4, <1>5, BelowOne
  <2>3. s2 \in ScanState
    BY <1>3 DEF ScanState, Stages
  <2>4. Claims(s2) = {}
    BY DEF Claims, Open, JobsOf
  <2>5. s2.pc = "complete" /\ s2.inline = NoJob /\ s2.later = {} /\ s2.active = {} /\ s2.batch = {} /\ s2.tree = {Root}
    OBVIOUS
  <2> HIDE DEF s2
  <2> QED BY <2>1, <2>2, <2>3, <2>4, <2>5 DEF SoundStep, Sound, Complete, Resting, Working
<1>6. CASE Root \notin Unreadable /\ i \in cancelled
  <2> DEFINE s2 == [pc |-> "cancel", tree |-> {}, backlog |-> {}, discovered |-> {}, active |-> {},
              batch |-> {}, later |-> {}, inline |-> NoJob]
  <2>1. scan'[i] = s2
    BY <1>2, <1>6 DEF ScanRoot, Set, s
  <2>3. s2 \in ScanState
    BY <1>3 DEF ScanState, Stages
  <2>4. Claims(s2) = {}
    BY DEF Claims, Open, JobsOf
  <2>5. s2.pc = "cancel" /\ s2.inline = NoJob /\ s2.later = {} /\ s2.active = {} /\ s2.batch = {}
    OBVIOUS
  <2> HIDE DEF s2
  <2> QED BY <2>1, <2>3, <2>4, <2>5, <1>6 DEF SoundStep, Sound, Complete, Resting, Working
<1>7. CASE Root \notin Unreadable /\ i \notin cancelled
  <2> DEFINE s2 == [pc |-> "loop", tree |-> {Root}, backlog |-> Children(Root), discovered |-> {}, active |-> {},
              batch |-> {}, later |-> {}, inline |-> NoJob]
  <2>1. scan'[i] = s2
    <3>1. scan'[i] = [s EXCEPT !.pc = "loop", !.tree = {Root}, !.backlog = Children(Root)]
      BY <1>7 DEF ScanRoot, Set, s
    <3> QED BY <3>1, <1>2
  <2>2. Serial = {Root} \union BelowAll(Children(Root))
    BY <1>3, <1>4, <1>7, BelowOne
  <2>3. s2 \in ScanState
    BY <1>3 DEF ScanState, Stages, Children
  <2>4. Claims(s2) = Children(Root) /\ JobsOf(s2) = {} /\ Open(s2) = Children(Root)
    BY DEF Claims, Open, JobsOf
  <2>5. \A d \in Children(Root) : d \in Inner /\ Parent[d] \in {Root}
    BY DEF Children, Inner
  <2>6. /\ \A d \in Children(Root) : {Root} \intersect below[{d}] = {}
        /\ \A d, e \in Children(Root) : d # e => below[{d}] \intersect below[{e}] = {}
    BY <1>3, BelowApart
  <2>7. /\ s2.pc = "loop" /\ s2.inline = NoJob /\ s2.later = {} /\ s2.active = {} /\ s2.batch = {} /\ s2.tree = {Root}
        /\ s2.discovered = {}
    OBVIOUS
  <2> HIDE DEF s2
  <2>8. Shared(s2)
    BY <2>2, <2>4, <2>6, <2>7 DEF Shared
  <2> QED BY <2>1, <2>3, <2>4, <2>5, <2>7, <2>8 DEF SoundStep, Sound, Complete, Resting
<1> QED BY <1>5, <1>6, <1>7
LEMMA LeaveLoopSound ==
  ASSUME NEW i \in Scans, SoundStep(i, scan[i]), LeaveLoop(i), scan \in [Scans -> ScanState]
  PROVE  SoundStep(i, scan'[i])
<1> DEFINE s == scan[i]
           s2 == scan'[i]
<1>1. s \in ScanState /\ s.pc = "loop" /\ Sound(s) /\ (i \notin cancelled => Complete(s))
  BY DEF LeaveLoop, At, SoundStep
<1>2. PICK pc \in {"complete", "cancel"} :
        /\ s2 = [s EXCEPT !.pc = pc] /\ (pc = "cancel" => i \in cancelled)
        /\ pc = "complete" => s.backlog = {} /\ s.discovered = {} /\ s.active = {}
  BY DEF LeaveLoop, Set
<1>3. /\ s2.pc = pc /\ s2.tree = s.tree /\ s2.backlog = s.backlog /\ s2.discovered = s.discovered /\ s2.active = s.active
      /\ s2.batch = s.batch /\ s2.later = s.later /\ s2.inline = s.inline /\ s2 \in ScanState
  BY <1>1, <1>2 DEF ScanState, Stages
<1>4. Claims(s2) = Claims(s)
  BY <1>1, <1>2, <1>3 DEF Claims, Open, JobsOf
<1> HIDE DEF s, s2
<1>5. pc = "complete" /\ i \notin cancelled => s2.tree = Serial
  <2> SUFFICES ASSUME pc = "complete", i \notin cancelled PROVE s2.tree = Serial
    OBVIOUS
  <2>1. s.later = {} /\ Shared(s)
    BY <1>1 DEF Sound, Complete, Working
  <2>2. Claims(s) = {}
    BY <1>1, <1>2, <2>1 DEF Claims, Open, JobsOf
  <2>3. BelowAll({}) = {}
    BY BelowSingle
  <2> QED BY <2>1, <2>2, <2>3, <1>3 DEF Shared
<1>6. Sound(s2)
  BY <1>1, <1>2, <1>3, <1>4 DEF Sound, Resting
<1>7. i \notin cancelled => Complete(s2)
  BY <1>2, <1>3, <1>5 DEF Complete, Working
<1> QED BY <1>6, <1>7 DEF SoundStep, s2

\* New jobs take over what they were made for.
LEMMA ScheduleSound ==
  ASSUME ScanConstants, NEW i \in Scans, SoundStep(i, scan[i]), Schedule(i), scan \in [Scans -> ScanState]
  PROVE  SoundStep(i, scan'[i])
<1> DEFINE s == scan[i]
           s2 == scan'[i]
<1>1. s \in ScanState /\ s.pc = "loop" /\ Sound(s) /\ i \notin cancelled /\ Complete(s)
  BY DEF Schedule, At, SoundStep
<1> DEFINE Then(new, jobs) ==
             LET active == s.active \union {Job(d, MaxSplits) : d \in jobs}
             IN [s EXCEPT !.backlog = @ \ new, !.discovered = (@ \union new) \ jobs, !.active = active,
                          !.pc = IF active = {} THEN "loop" ELSE "wait"]
<1>2. PICK new, jobs : new \subseteq s.backlog /\ jobs \subseteq s.discovered \union new /\ s2 = Then(new, jobs)
  <2>1. PICK new \in OfSize(IF Room(s) > 0 THEN Room(s) ELSE 0, s.backlog) :
          \E jobs \in OfSize(MaxWorkers - Cardinality(s.active), s.discovered \union new) : Set(i, Then(new, jobs))
    BY DEF Schedule
  <2>2. PICK jobs \in OfSize(MaxWorkers - Cardinality(s.active), s.discovered \union new) : Set(i, Then(new, jobs))
    BY <2>1
  <2>3. s2 = Then(new, jobs)
    BY <2>2 DEF Set
  <2> QED BY <2>1, <2>2, <2>3 DEF OfSize
<1> DEFINE fresh == {Job(d, MaxSplits) : d \in jobs}
<1>3. PICK pc \in {"loop", "wait"} :
        /\ s2.pc = pc /\ s2.tree = s.tree /\ s2.backlog = s.backlog \ new /\ s2.discovered = (s.discovered \union new) \ jobs
        /\ s2.active = s.active \union fresh /\ s2.batch = s.batch /\ s2.later = s.later /\ s2.inline = s.inline
        /\ DOMAIN s2 = DOMAIN s
        /\ s2 = [pc |-> pc, tree |-> s.tree, backlog |-> s.backlog \ new, discovered |-> (s.discovered \union new) \ jobs,
                 active |-> s.active \union fresh, batch |-> s.batch, later |-> s.later, inline |-> s.inline]
  BY <1>1, <1>2, Fields
<1>4. s.later = {} /\ s.inline = NoJob /\ Shared(s) /\ s.batch \subseteq {job \in s.active : Done(job)}
  BY <1>1 DEF Sound, Complete, Working
<1>5. s.backlog \subseteq Dirs /\ s.discovered \subseteq Dirs /\ jobs \subseteq Claims(s) /\ Claims(s) \subseteq Inner
  BY <1>1, <1>2, Fields DEF Sound, Claims, Open
<1>6. \A d \in jobs : /\ Job(d, MaxSplits).dir = d /\ Job(d, MaxSplits).todo = {d} /\ Job(d, MaxSplits).got = {}
                      /\ Job(d, MaxSplits).deferred = {} /\ Proper(Job(d, MaxSplits))
  <2>1. MaxSplits \in Int
    BY DEF ScanConstants
  <2>2. \A d \in jobs : d \in Dirs
    BY <1>5 DEF Inner
  <2> QED BY <2>1, <2>2 DEF Job, Proper, ScanJob
<1>7. \A d \in jobs : Whole(Job(d, MaxSplits))
  <2> SUFFICES ASSUME NEW d \in jobs PROVE Whole(Job(d, MaxSplits))
    OBVIOUS
  <2> DEFINE job == Job(d, MaxSplits)
  <2>1. job.dir = d /\ job.got = {} /\ job.todo = {d} /\ job.deferred = {}
    BY <1>6
  <2> HIDE DEF job
  <2>2. Ahead(job) = {d}
    BY <2>1 DEF Ahead
  <2> QED BY <2>1, <2>2, BelowSingle DEF Whole, job
<1>8. fresh \subseteq ScanJob /\ \A job \in fresh : Proper(job) /\ Whole(job) /\ job.dir \in jobs
  BY <1>6, <1>7 DEF Proper
<1>9. \A job, other \in fresh : job.dir = other.dir => job = other
  BY <1>6
<1>10. {job.dir : job \in fresh} = jobs
  BY <1>6
<1> HIDE DEF fresh, s, s2
<1>11. s2 \in ScanState
  <2>1. /\ pc \in Stages /\ s.tree \subseteq Dirs /\ s.backlog \ new \subseteq Dirs /\ (s.discovered \union new) \ jobs \subseteq Dirs
        /\ s.active \union fresh \subseteq ScanJob /\ s.batch \subseteq ScanJob /\ s.later \subseteq Dirs /\ s.inline \in ScanJob
    BY <1>1, <1>2, <1>3, <1>8, Fields DEF Stages
  <2> QED BY <2>1, <1>3 DEF ScanState
<1>12. JobsOf(s2) = s.active \union fresh /\ JobsOf(s) = s.active
  BY <1>1, <1>3 DEF JobsOf
<1>13. Open(s2) = Open(s) \ jobs /\ jobs \subseteq Open(s)
  BY <1>2, <1>3, <1>4 DEF Open, Shared
<1>14. Claims(s2) = Claims(s)
  BY <1>10, <1>12, <1>13 DEF Claims
<1>15. Shared(s2)
  <2>1. /\ s2.backlog \intersect s2.discovered = {} /\ (s2.backlog \union s2.discovered) \intersect s2.later = {}
    BY <1>3, <1>4, <1>2 DEF Shared
  <2>2. \A job \in JobsOf(s2) : job.dir \notin Open(s2) /\ Whole(job)
    BY <1>4, <1>8, <1>12, <1>13 DEF Shared
  <2>3. \A job, other \in JobsOf(s2) : job.dir = other.dir => job = other
    BY <1>4, <1>8, <1>9, <1>12, <1>13 DEF Shared
  <2> QED BY <2>1, <2>2, <2>3, <1>3, <1>4, <1>14 DEF Shared
<1>16. Sound(s2)
  BY <1>1, <1>3, <1>4, <1>8, <1>11, <1>14 DEF Sound, Resting
<1> QED BY <1>3, <1>15, <1>16 DEF SoundStep, Complete, s2
\* A job that was attached leaves what it put off, in its own directory's place.
LEMMA MergedShared ==
  ASSUME IsTree, NEW s, NEW s2, NEW job \in JobsOf(s), Proper(job), Done(job), Shared(s), Claims(s) \subseteq Inner,
         JobsOf(s2) = JobsOf(s) \ {job}, s2.pc # "inline",
         s2.backlog = s.backlog, s2.discovered = s.discovered, s2.later = s.later \union job.deferred,
         s2.tree = s.tree \union job.got
  PROVE  Shared(s2)
<1> DEFINE B(x) == below[{x}]
           C == Claims(s) \ {job.dir}
<1>1. /\ \A x \in Inner : x \in B(x)
      /\ job.deferred \subseteq Inner /\ job.dir \in Claims(s) /\ job.dir \notin Open(s)
  <2>1. \A x \in Inner : x \in B(x)
    BY BelowOne DEF Inner
  <2> QED BY <2>1 DEF Proper, Claims, Shared
<1>2. /\ Ahead(job) = job.deferred /\ job.got \union BelowAll(job.deferred) = B(job.dir)
      /\ \A x \in job.deferred : job.got \intersect B(x) = {}
      /\ \A x, y \in job.deferred : x # y => B(x) \intersect B(y) = {}
  <2>1. Ahead(job) = job.deferred
    BY DEF Ahead, Done
  <2>2. Whole(job)
    BY DEF Shared
  <2>3. /\ job.got \union BelowAll(Ahead(job)) = B(job.dir)
        /\ \A x \in Ahead(job) : job.got \intersect B(x) = {}
        /\ \A x, y \in Ahead(job) : x # y => B(x) \intersect B(y) = {}
    BY <2>2 DEF Whole
  <2> HIDE DEF B
  <2> QED BY <2>1, <2>3
<1>3. \A x \in job.deferred : B(x) \subseteq B(job.dir)
  <2>1. \A x \in job.deferred : B(x) \subseteq BelowAll(job.deferred)
    BY DEF BelowAll
  <2>2. BelowAll(job.deferred) \subseteq B(job.dir)
    BY <1>2
  <2> HIDE DEF B
  <2> QED BY <2>1, <2>2
<1>4. /\ \A x, y \in Claims(s) : x # y => B(x) \intersect B(y) = {}
      /\ \A x \in Claims(s) : s.tree \intersect B(x) = {}
      /\ s.tree \union BelowAll(Claims(s)) = Serial
  BY DEF Shared
<1> HIDE DEF B
<1>5. \A x \in job.deferred, y \in C : B(x) \intersect B(y) = {} /\ x # y
  BY <1>1, <1>3, <1>4
<1>6. Open(s2) = Open(s) \union job.deferred /\ Open(s) \subseteq C
  BY <1>1 DEF Open, Claims
<1>7. Claims(s2) = C \union job.deferred
  <2>1. \A other \in JobsOf(s) : other # job => other.dir # job.dir
    BY DEF Shared
  <2>2. {other.dir : other \in JobsOf(s2)} = {other.dir : other \in JobsOf(s)} \ {job.dir}
    BY <2>1
  <2> QED BY <2>2, <1>1, <1>6 DEF Claims
<1>8. s2.tree \union BelowAll(Claims(s2)) = Serial
  <2>1. BelowAll(Claims(s)) = B(job.dir) \union BelowAll(C)
    <3>1. Claims(s) = {job.dir} \union C
      BY <1>1
    <3>2. BelowAll({job.dir} \union C) = BelowAll({job.dir}) \union BelowAll(C)
      BY BelowSplit
    <3>3. BelowAll({job.dir}) = B(job.dir)
      BY BelowSingle DEF B
    <3> QED BY <3>1, <3>2, <3>3
  <2>2. BelowAll(Claims(s2)) = BelowAll(C) \union BelowAll(job.deferred)
    BY <1>7, BelowSplit
  <2> QED BY <2>1, <2>2, <1>2, <1>4
<1>9. ASSUME NEW x \in Claims(s2) PROVE s2.tree \intersect B(x) = {}
  <2>1. CASE x \in C
    <3>1. job.got \subseteq B(job.dir) /\ B(job.dir) \intersect B(x) = {}
      BY <2>1, <1>1, <1>2, <1>4
    <3> QED BY <3>1, <2>1, <1>4
  <2>2. CASE x \in job.deferred
    BY <2>2, <1>1, <1>2, <1>3, <1>4
  <2> QED BY <2>1, <2>2, <1>7
<1>10. ASSUME NEW x \in Claims(s2), NEW y \in Claims(s2), x # y PROVE B(x) \intersect B(y) = {}
  BY <1>2, <1>4, <1>5, <1>7, <1>10
<1>11. \A other \in JobsOf(s2) : other.dir \notin Open(s2) /\ Whole(other)
  <2>1. \A other \in JobsOf(s2) : other.dir \in C /\ other.dir \notin Open(s) /\ Whole(other)
    BY DEF Claims, Shared
  <2> QED BY <2>1, <1>5, <1>6
<1>12. \A x, y \in JobsOf(s2) : x.dir = y.dir => x = y
  BY DEF Shared
<1>13. s2.backlog \intersect s2.discovered = {} /\ (s2.backlog \union s2.discovered) \intersect s2.later = {}
  <2>1. s.backlog \union s.discovered \subseteq C
    BY <1>6 DEF Open
  <2> QED BY <2>1, <1>5 DEF Shared
<1> QED BY <1>8, <1>9, <1>10, <1>11, <1>12, <1>13 DEF Shared, B

\* A job that went on keeps its place.
LEMMA VisitedShared ==
  ASSUME NEW s, NEW s2, NEW job \in JobsOf(s), NEW after, after.dir = job.dir, Whole(after), Shared(s),
         JobsOf(s2) = (JobsOf(s) \ {job}) \union {after}, s2.pc = s.pc,
         s2.backlog = s.backlog, s2.discovered = s.discovered, s2.later = s.later, s2.tree = s.tree,
         s.pc = "inline" => \A other \in s2.active : other.dir # s2.inline.dir
  PROVE  Shared(s2)
<1>1. Open(s2) = Open(s) /\ {other.dir : other \in JobsOf(s2)} = {other.dir : other \in JobsOf(s)}
  BY DEF Open
<1>2. Claims(s2) = Claims(s)
  BY <1>1 DEF Claims
<1>3. \A other \in JobsOf(s2) : other.dir \notin Open(s2) /\ Whole(other)
  BY <1>1 DEF Shared
<1>4. \A x, y \in JobsOf(s2) : x.dir = y.dir => x = y
  BY DEF Shared
<1> QED BY <1>2, <1>3, <1>4 DEF Shared
LEMMA CollectSound ==
  ASSUME NEW i \in Scans, SoundStep(i, scan[i]), Collect(i), scan \in [Scans -> ScanState]
  PROVE  SoundStep(i, scan'[i])
<1> DEFINE s == scan[i]
           s2 == scan'[i]
           done == {j \in s.active : Done(j)}
<1>1. s \in ScanState /\ s.pc = "wait" /\ Sound(s) /\ (i \notin cancelled => Complete(s))
  BY DEF Collect, At, SoundStep
<1>2. s2 = [s EXCEPT !.pc = "merge", !.batch = done]
  BY DEF Collect, Set
<1>3. done \subseteq s.active /\ \A job \in done : Done(job)
  OBVIOUS
<1> HIDE DEF s, s2, done
<1>4. /\ s2.pc = "merge" /\ s2.tree = s.tree /\ s2.backlog = s.backlog /\ s2.discovered = s.discovered /\ s2.active = s.active
      /\ s2.batch = done /\ s2.later = s.later /\ s2.inline = s.inline
  BY <1>1, <1>2 DEF ScanState
<1>5. s2 \in ScanState
  <2>1. done \in SUBSET ScanJob /\ "merge" \in Stages
    BY <1>1, <1>3, Fields DEF Stages
  <2> QED BY <2>1, <1>1, <1>2 DEF ScanState
<1>6. Claims(s2) = Claims(s) /\ Open(s2) = Open(s) /\ JobsOf(s2) = JobsOf(s)
  BY <1>1, <1>4 DEF Claims, Open, JobsOf
<1>7. Sound(s2)
  BY <1>1, <1>3, <1>4, <1>5, <1>6 DEF Sound, Resting
<1>8. i \notin cancelled => Complete(s2)
  BY <1>1, <1>4, <1>6 DEF Complete, Shared, Working
<1> QED BY <1>7, <1>8 DEF SoundStep, s2

\* No directory is attached before the one it belongs to.
LEMMA TakeResultSound ==
  ASSUME ScanConstants, NEW i \in Scans, SoundStep(i, scan[i]), TakeResult(i), scan \in [Scans -> ScanState]
  PROVE  SoundStep(i, scan'[i])
<1> DEFINE s == scan[i]
           s2 == scan'[i]
<1>1. s \in ScanState /\ s.pc = "merge" /\ Sound(s) /\ (i \notin cancelled => Complete(s))
  BY DEF TakeResult, At, SoundStep
<1>2. s.later = {} /\ s.inline = NoJob /\ JobsOf(s) = s.active
  BY <1>1 DEF Sound, JobsOf
<1>3. CASE s.batch = {} \/ i \in cancelled
  <2>1. PICK pc \in {"loop", "cancel"} : s2 = [s EXCEPT !.pc = pc] /\ (pc = "cancel" => i \in cancelled)
    BY <1>3 DEF TakeResult, Set
  <2> HIDE DEF s, s2
  <2>2. /\ s2.pc = pc /\ s2.tree = s.tree /\ s2.backlog = s.backlog /\ s2.discovered = s.discovered /\ s2.active = s.active
        /\ s2.batch = s.batch /\ s2.later = s.later /\ s2.inline = s.inline /\ s2 \in ScanState
    BY <1>1, <2>1 DEF ScanState, Stages
  <2>3. Claims(s2) = Claims(s) /\ Open(s2) = Open(s) /\ JobsOf(s2) = JobsOf(s)
    BY <1>1, <2>2 DEF Claims, Open, JobsOf
  <2>4. Sound(s2)
    BY <1>1, <2>2, <2>3 DEF Sound, Resting
  <2>5. i \notin cancelled => Complete(s2)
    BY <1>1, <2>1, <2>2, <2>3 DEF Complete, Shared, Working
  <2> QED BY <2>4, <2>5 DEF SoundStep, s2
<1>4. CASE s.batch # {} /\ i \notin cancelled
  <2> DEFINE rest(job) == [s EXCEPT !.batch = @ \ {job}, !.active = @ \ {job}, !.later = job.deferred]
  <2>1. PICK job \in s.batch : s2 = Attached(rest(job), job)
    BY <1>4 DEF TakeResult, Set
  <2> HIDE DEF s, s2
  <2>2. job \in s.active /\ Done(job) /\ Proper(job) /\ job.dir \in Claims(s)
    BY <1>1, <1>2, <2>1 DEF Sound, Claims
  <2>3. Parent[job.dir] \in s.tree /\ Claims(s) \subseteq Inner
    BY <1>1, <2>2 DEF Sound
  <2>4. job.got \subseteq Dirs /\ job.deferred \subseteq Dirs
    BY <2>2 DEF Proper, ScanJob
  <2>5. /\ rest(job) \in ScanState /\ rest(job).tree = s.tree /\ rest(job).backlog = s.backlog
        /\ rest(job).discovered = s.discovered /\ rest(job).active = s.active \ {job}
        /\ rest(job).batch = s.batch \ {job} /\ rest(job).later = job.deferred /\ rest(job).inline = s.inline
    BY <1>1, <2>4 DEF ScanState
  <2> HIDE DEF rest
  <2>6. s2 = [rest(job) EXCEPT !.tree = @ \union job.got, !.pc = "split"]
    BY <2>1, <2>3, <2>5 DEF Attached
  <2>7. /\ s2.pc = "split" /\ s2.tree = s.tree \union job.got /\ s2.backlog = s.backlog /\ s2.discovered = s.discovered
        /\ s2.active = s.active \ {job} /\ s2.batch = s.batch \ {job} /\ s2.later = job.deferred /\ s2.inline = s.inline
    BY <2>5, <2>6 DEF ScanState
  <2>8. s2 \in ScanState
    <3>1. s.tree \union job.got \in SUBSET Dirs /\ "split" \in Stages
      BY <1>1, <2>4, Fields DEF Stages
    <3> QED BY <3>1, <2>5, <2>6 DEF ScanState
  <2>9. JobsOf(s2) = JobsOf(s) \ {job} /\ Open(s2) = Open(s) \union job.deferred
    BY <1>2, <2>7 DEF JobsOf, Open
  <2>10. Claims(s2) \subseteq Claims(s) \union job.deferred
    BY <2>9 DEF Claims
  <2>11. \A d \in Claims(s2) : d \in Inner /\ Parent[d] \in s2.tree
    BY <1>1, <2>2, <2>7, <2>10 DEF Sound, Proper
  <2>12. Sound(s2)
    BY <1>1, <1>2, <2>7, <2>8, <2>11 DEF Sound, Resting
  <2>13. Shared(s)
    BY <1>1, <1>4 DEF Complete, Working
  <2>14. Shared(s2)
    BY <1>2, <2>2, <2>3, <2>7, <2>9, <2>13, MergedShared DEF ScanConstants
  <2> QED BY <2>7, <2>12, <2>14 DEF SoundStep, Complete, s2
<1> QED BY <1>3, <1>4
\* What was put off becomes a job, or the coordinator's own.
LEMMA SplitDeferredSound ==
  ASSUME ScanConstants, NEW i \in Scans, SoundStep(i, scan[i]), SplitDeferred(i), scan \in [Scans -> ScanState]
  PROVE  SoundStep(i, scan'[i])
<1> DEFINE s == scan[i]
           s2 == scan'[i]
<1>1. s \in ScanState /\ s.pc = "split" /\ Sound(s) /\ (i \notin cancelled => Complete(s))
  BY DEF SplitDeferred, At, SoundStep
<1>2. s.inline = NoJob /\ JobsOf(s) = s.active /\ (i \notin cancelled => Shared(s))
  BY <1>1 DEF Sound, JobsOf, Complete, Working
<1>3. CASE s.later = {} \/ i \in cancelled
  <2>1. s2 = [s EXCEPT !.later = {}, !.pc = "merge"]
    BY <1>3 DEF SplitDeferred, Set
  <2> HIDE DEF s, s2
  <2>2. /\ s2.pc = "merge" /\ s2.tree = s.tree /\ s2.backlog = s.backlog /\ s2.discovered = s.discovered /\ s2.active = s.active
        /\ s2.batch = s.batch /\ s2.later = {} /\ s2.inline = s.inline /\ s2 \in ScanState
    BY <1>1, <2>1 DEF ScanState, Stages
  <2>3. Claims(s2) \subseteq Claims(s) /\ JobsOf(s2) = JobsOf(s)
    BY <1>1, <2>2 DEF Claims, Open, JobsOf
  <2>4. Sound(s2)
    BY <1>1, <2>2, <2>3 DEF Sound, Resting
  <2>5. ASSUME i \notin cancelled PROVE Shared(s2)
    <3>1. Claims(s2) = Claims(s) /\ Open(s2) = Open(s) /\ s2.later = s.later
      BY <1>3, <2>2, <2>3, <2>5 DEF Claims, Open
    <3> QED BY <1>2, <2>2, <2>3, <2>5, <3>1 DEF Shared
  <2> QED BY <2>2, <2>4, <2>5 DEF SoundStep, Complete, s2
<1>4. CASE s.later # {} /\ i \notin cancelled
  <2>1. PICK d \in s.later :
          s2 = IF IsRoom(s) THEN [s EXCEPT !.later = @ \ {d}, !.discovered = @ \union {d}]
               ELSE [s EXCEPT !.later = @ \ {d}, !.inline = Job(d, 0), !.pc = "inline"]
    BY <1>4 DEF SplitDeferred, Set
  <2> HIDE DEF s, s2
  <2>2. d \in Claims(s) /\ d \in Inner /\ d \in Dirs /\ Claims(s) \subseteq Inner
    BY <1>1, <2>1 DEF Sound, Claims, Open, Inner
  <2>3. s.later \ {d} \subseteq Dirs /\ s.discovered \union {d} \subseteq Dirs
    BY <1>1, <2>2, Fields
  <2>4. d \notin s.backlog \union s.discovered /\ \A job \in s.active : job.dir # d
    BY <1>2, <1>4, <2>1 DEF Shared, Open
  <2>5. CASE IsRoom(s)
    <3>1. /\ s2.pc = "split" /\ s2.tree = s.tree /\ s2.backlog = s.backlog /\ s2.discovered = s.discovered \union {d}
          /\ s2.active = s.active /\ s2.batch = s.batch /\ s2.later = s.later \ {d} /\ s2.inline = s.inline /\ s2 \in ScanState
      BY <1>1, <2>1, <2>3, <2>5 DEF ScanState, Stages
    <3>2. Open(s2) = Open(s) /\ JobsOf(s2) = JobsOf(s)
      BY <1>1, <2>1, <3>1 DEF Open, JobsOf
    <3>3. Claims(s2) = Claims(s)
      BY <3>2 DEF Claims
    <3>4. Sound(s2)
      BY <1>1, <3>1, <3>3 DEF Sound, Resting
    <3>5. Shared(s2)
      BY <1>2, <1>4, <2>4, <3>1, <3>2, <3>3 DEF Shared
    <3> QED BY <3>1, <3>4, <3>5 DEF SoundStep, Complete, s2
  <2>6. CASE ~IsRoom(s)
    <3> DEFINE job == Job(d, 0)
    <3>1. job \in ScanJob /\ job.dir = d /\ job.todo = {d} /\ job.got = {} /\ job.deferred = {} /\ job.budget = 0
      BY <2>2 DEF Job, ScanJob
    <3> HIDE DEF job
    <3>2. s2 = [s EXCEPT !.later = @ \ {d}, !.inline = job, !.pc = "inline"]
      BY <2>1, <2>6 DEF job
    <3>3. /\ s2.pc = "inline" /\ s2.tree = s.tree /\ s2.backlog = s.backlog /\ s2.discovered = s.discovered
          /\ s2.active = s.active /\ s2.batch = s.batch /\ s2.later = s.later \ {d} /\ s2.inline = job /\ s2 \in ScanState
      BY <1>1, <2>3, <3>1, <3>2 DEF ScanState, Stages
    <3>4. Open(s2) = Open(s) \ {d} /\ JobsOf(s2) = JobsOf(s) \union {job}
      BY <1>2, <2>4, <3>3 DEF Open, JobsOf
    <3>5. Claims(s2) = Claims(s)
      <4>1. {other.dir : other \in JobsOf(s2)} = {other.dir : other \in JobsOf(s)} \union {d}
        BY <3>1, <3>4
      <4>2. d \in Open(s)
        BY <2>1 DEF Open
      <4> QED BY <3>4, <4>1, <4>2 DEF Claims
    <3>6. Proper(job)
      BY <3>1 DEF Proper
    <3>7. Whole(job)
      <4>1. Ahead(job) = {d}
        BY <3>1 DEF Ahead
      <4> QED BY <3>1, <4>1, BelowSingle DEF Whole
    <3>8. Sound(s2)
      BY <1>1, <3>1, <3>3, <3>5, <3>6 DEF Sound, Resting
    <3>9. Shared(s2)
      <4>1. \A other \in JobsOf(s2) : other.dir \notin Open(s2) /\ Whole(other)
        BY <1>2, <1>4, <3>1, <3>4, <3>7 DEF Shared
      <4>2. \A x, y \in JobsOf(s2) : x.dir = y.dir => x = y
        BY <1>2, <1>4, <2>4, <3>1, <3>4 DEF Shared
      <4>3. /\ s2.backlog \intersect s2.discovered = {} /\ (s2.backlog \union s2.discovered) \intersect s2.later = {}
            /\ \A other \in s2.active : other.dir # s2.inline.dir
        BY <1>2, <1>4, <2>4, <3>1, <3>3 DEF Shared
      <4> QED BY <1>2, <1>4, <3>3, <3>5, <4>1, <4>2, <4>3 DEF Shared
    <3> QED BY <3>3, <3>8, <3>9 DEF SoundStep, Complete, s2
  <2> QED BY <2>5, <2>6
<1> QED BY <1>3, <1>4

LEMMA InlineVisitSound ==
  ASSUME ScanConstants, NEW i \in Scans, SoundStep(i, scan[i]), InlineVisit(i), scan \in [Scans -> ScanState]
  PROVE  SoundStep(i, scan'[i])
<1> DEFINE s == scan[i]
           s2 == scan'[i]
<1>1. s \in ScanState /\ s.pc = "inline" /\ Sound(s) /\ (i \notin cancelled => Complete(s))
  BY DEF InlineVisit, At, SoundStep
<1>2. PICK after \in Visited(i, s.inline) : s2 = [s EXCEPT !.inline = after]
  BY DEF InlineVisit, Set
<1> HIDE DEF s, s2
<1>3. Proper(s.inline) /\ s.inline.deferred = {} /\ s.inline.budget = 0 /\ s.inline \in JobsOf(s)
  BY <1>1 DEF Sound, JobsOf
<1>4. Proper(after) /\ after.dir = s.inline.dir /\ after.deferred = {} /\ after.budget = 0
  BY <1>2, <1>3, VisitProper
<1>5. /\ s2.pc = s.pc /\ s2.tree = s.tree /\ s2.backlog = s.backlog /\ s2.discovered = s.discovered /\ s2.active = s.active
      /\ s2.batch = s.batch /\ s2.later = s.later /\ s2.inline = after /\ s2 \in ScanState
  BY <1>1, <1>2, <1>4 DEF ScanState, Proper
<1>6. Claims(s2) = Claims(s)
  BY <1>1, <1>4, <1>5 DEF Claims, Open, JobsOf
<1>7. Sound(s2)
  BY <1>1, <1>4, <1>5, <1>6 DEF Sound, Resting
<1>8. ASSUME i \notin cancelled PROVE Shared(s2)
  <2>1. Shared(s)
    BY <1>1, <1>8 DEF Complete, Working
  <2>2. Whole(s.inline) /\ s.inline \notin s.active /\ \A other \in s2.active : other.dir # s2.inline.dir
    BY <1>1, <1>3, <1>4, <1>5, <2>1 DEF Shared
  <2>3. Whole(after)
    BY <1>2, <1>3, <1>8, <2>2, VisitWhole
  <2>4. JobsOf(s2) = (JobsOf(s) \ {s.inline}) \union {after}
    BY <1>1, <1>5, <2>2 DEF JobsOf
  <2> QED BY <1>3, <1>4, <1>5, <2>1, <2>2, <2>3, <2>4, VisitedShared
<1> QED BY <1>1, <1>5, <1>7, <1>8 DEF SoundStep, Complete, s2

LEMMA WorkerVisitSound ==
  ASSUME ScanConstants, NEW i \in Scans, SoundStep(i, scan[i]), WorkerVisit(i), scan \in [Scans -> ScanState]
  PROVE  SoundStep(i, scan'[i])
<1> DEFINE s == scan[i]
           s2 == scan'[i]
<1>1. s \in ScanState /\ Sound(s) /\ (i \notin cancelled => Complete(s))
  BY DEF SoundStep
<1>2. PICK job \in s.active : \E after \in Visited(i, job) : s2 = [s EXCEPT !.active = (@ \ {job}) \union {after}]
  BY DEF WorkerVisit, Set
<1>3. PICK after \in Visited(i, job) : s2 = [s EXCEPT !.active = (@ \ {job}) \union {after}]
  BY <1>2
<1> HIDE DEF s, s2
<1>4. Proper(job) /\ job \in JobsOf(s) /\ s.pc \notin Resting
  <2>1. \A pc \in Resting : [Unborn EXCEPT !.pc = pc].active = {}
    BY DEF Unborn
  <2> QED BY <1>1, <1>2, <2>1 DEF Sound, JobsOf
<1>5. Proper(after) /\ after.dir = job.dir /\ ~Done(job)
  BY <1>3, <1>4, VisitProper
<1>6. /\ s2.pc = s.pc /\ s2.tree = s.tree /\ s2.backlog = s.backlog /\ s2.discovered = s.discovered
      /\ s2.active = (s.active \ {job}) \union {after}
      /\ s2.batch = s.batch /\ s2.later = s.later /\ s2.inline = s.inline
  BY <1>1, <1>3 DEF ScanState
<1>7. s2 \in ScanState
  <2>1. (s.active \ {job}) \union {after} \in SUBSET ScanJob
    BY <1>1, <1>5, Fields DEF Proper
  <2> QED BY <2>1, <1>1, <1>3 DEF ScanState
<1>8. {other.dir : other \in JobsOf(s2)} \subseteq {other.dir : other \in JobsOf(s)}
  BY <1>4, <1>5, <1>6 DEF JobsOf
<1>9. Claims(s2) \subseteq Claims(s)
  BY <1>6, <1>8 DEF Claims, Open
<1>10. s2.batch \subseteq {other \in s2.active : Done(other)}
  BY <1>1, <1>5, <1>6 DEF Sound
<1>11. \A other \in s2.active : Proper(other)
  BY <1>1, <1>5, <1>6 DEF Sound
<1>12. Sound(s2)
  BY <1>1, <1>4, <1>6, <1>7, <1>9, <1>10, <1>11 DEF Sound
<1>13. ASSUME i \notin cancelled, s.pc \in Working PROVE Shared(s2)
  <2>1. Shared(s)
    BY <1>1, <1>13 DEF Complete
  <2>2. Whole(job) /\ (s.pc = "inline" => s.inline # job /\ \A other \in s2.active : other.dir # s2.inline.dir)
    BY <1>2, <1>4, <1>5, <1>6, <2>1 DEF Shared
  <2>3. Whole(after)
    BY <1>3, <1>4, <1>13, <2>2, VisitWhole
  <2>4. JobsOf(s2) = (JobsOf(s) \ {job}) \union {after}
    BY <1>6, <2>2 DEF JobsOf
  <2> QED BY <1>4, <1>5, <1>6, <2>1, <2>2, <2>3, <2>4, VisitedShared
<1>14. i \notin cancelled /\ s.pc = "complete" => s2.tree = Serial
  BY <1>1, <1>6 DEF Complete
<1> QED BY <1>6, <1>12, <1>13, <1>14 DEF SoundStep, Complete, s2
LEMMA AttachInlineSound ==
  ASSUME ScanConstants, NEW i \in Scans, SoundStep(i, scan[i]), AttachInline(i), scan \in [Scans -> ScanState]
  PROVE  SoundStep(i, scan'[i])
<1> DEFINE s == scan[i]
           s2 == scan'[i]
           job == s.inline
           rest == [s EXCEPT !.inline = NoJob]
<1>1. s \in ScanState /\ s.pc = "inline" /\ Sound(s) /\ (i \notin cancelled => Complete(s)) /\ Done(job)
  BY DEF AttachInline, At, SoundStep
<1>2. s2 = Attached(rest, job)
  BY DEF AttachInline, Set
<1> HIDE DEF s, s2
<1>3. Proper(job) /\ job.deferred = {} /\ job \in JobsOf(s) /\ job.dir \in Claims(s)
  BY <1>1 DEF Sound, JobsOf, Claims
<1>4. Parent[job.dir] \in s.tree /\ Claims(s) \subseteq Inner
  BY <1>1, <1>3 DEF Sound
<1>5. job.got \subseteq Dirs
  BY <1>3 DEF Proper, ScanJob
<1>6. NoJob \in ScanJob
  BY DEF NoJob, ScanJob, ScanConstants, IsTree
<1>7. /\ rest \in ScanState /\ rest.tree = s.tree /\ rest.backlog = s.backlog /\ rest.discovered = s.discovered
      /\ rest.active = s.active /\ rest.batch = s.batch /\ rest.later = s.later /\ rest.inline = NoJob
  BY <1>1, <1>6 DEF ScanState
<1> HIDE DEF rest, job
<1>8. s2 = [rest EXCEPT !.tree = @ \union job.got, !.pc = "split"]
  BY <1>2, <1>4, <1>7 DEF Attached
<1>9. /\ s2.pc = "split" /\ s2.tree = s.tree \union job.got /\ s2.backlog = s.backlog /\ s2.discovered = s.discovered
      /\ s2.active = s.active /\ s2.batch = s.batch /\ s2.later = s.later /\ s2.inline = NoJob
  BY <1>7, <1>8 DEF ScanState
<1>10. s2 \in ScanState
  <2>1. s.tree \union job.got \in SUBSET Dirs /\ "split" \in Stages
    BY <1>1, <1>5, Fields DEF Stages
  <2> QED BY <2>1, <1>7, <1>8 DEF ScanState
<1>11. Claims(s2) \subseteq Claims(s)
  BY <1>1, <1>9 DEF Claims, Open, JobsOf
<1>12. Sound(s2)
  BY <1>1, <1>9, <1>10, <1>11 DEF Sound, Resting
<1>13. ASSUME i \notin cancelled PROVE Shared(s2)
  <2>1. Shared(s)
    BY <1>1, <1>13 DEF Complete, Working
  <2>2. JobsOf(s2) = JobsOf(s) \ {job}
    BY <1>1, <1>9, <2>1 DEF JobsOf, Shared, job
  <2> QED BY <1>1, <1>3, <1>4, <1>9, <2>1, <2>2, MergedShared DEF ScanConstants
<1> QED BY <1>9, <1>12, <1>13 DEF SoundStep, Complete, s2

\* What a step of a scan's threads does to the scan.
LEMMA ThreadsSound ==
  ASSUME ScanConstants, NEW i \in Scans, SoundStep(i, scan[i]), Coordinator(i) \/ WorkerVisit(i), scan \in [Scans -> ScanState]
  PROVE  SoundStep(i, scan'[i])
<1>1. CASE Begin(i)
  <2>1. scan[i] = [Unborn EXCEPT !.pc = "begin"]
    BY <1>1 DEF Begin, At, SoundStep, Sound, Resting
  <2>2. CASE i \notin cancelled
    <3>1. scan'[i] = [scan[i] EXCEPT !.pc = "root"]
      BY <1>1, <2>2 DEF Begin, Set
    <3>2. scan'[i] = [Unborn EXCEPT !.pc = "root"] /\ "root" \in Resting
      BY <2>1, <3>1 DEF Unborn, Resting
    <3> QED BY <3>2, RestingSound
  <2>3. CASE i \in cancelled
    <3>1. scan'[i] = [scan[i] EXCEPT !.pc = "cancel"]
      BY <1>1, <2>3 DEF Begin, Set
    <3> DEFINE s == scan'[i]
               s1 == [Unborn EXCEPT !.pc = "root"]
    <3>2. SoundStep(i, s1) /\ s1.pc = "root"
      BY RestingSound DEF Resting, Unborn
    <3>3. s = [s1 EXCEPT !.pc = "cancel"]
      BY <2>1, <3>1 DEF Unborn
    <3>4. s1.active = {} /\ s1.later = {} /\ s1.inline = NoJob /\ Claims(s1) = {} /\ s1.batch = {}
      BY DEF Unborn, Claims, Open, JobsOf
    <3> HIDE DEF s, s1
    <3>5. /\ s.pc = "cancel" /\ s.active = {} /\ s.later = {} /\ s.inline = NoJob /\ s.batch = {}
          /\ s.backlog = s1.backlog /\ s.discovered = s1.discovered /\ s \in ScanState
      BY <3>2, <3>3, <3>4 DEF SoundStep, Sound, ScanState, Stages
    <3>6. Claims(s) = {}
      BY <3>4, <3>5 DEF Claims, Open, JobsOf
    <3> QED BY <2>3, <3>5, <3>6 DEF SoundStep, Sound, Complete, Resting, Working, s
  <2> QED BY <2>2, <2>3
<1>2. CASE Report(i)
  <2>1. scan'[i] = [Unborn EXCEPT !.pc = "ending"] /\ "ending" \in Resting
    BY <1>2 DEF Report, Set, Resting
  <2> QED BY <2>1, RestingSound
<1>3. CASE ExitThread(i)
  <2>1. scan[i] = [Unborn EXCEPT !.pc = "ending"]
    BY <1>3 DEF ExitThread, At, SoundStep, Sound, Resting
  <2>2. scan'[i] = [scan[i] EXCEPT !.pc = "dead"]
    BY <1>3 DEF ExitThread, Set
  <2>3. scan'[i] = [Unborn EXCEPT !.pc = "dead"] /\ "dead" \in Resting
    BY <2>1, <2>2 DEF Unborn, Resting
  <2> QED BY <2>3, RestingSound
<1> QED BY <1>1, <1>2, <1>3, ScanRootSound, LeaveLoopSound, ScheduleSound, CollectSound, TakeResultSound, SplitDeferredSound,
           InlineVisitSound, AttachInlineSound, WorkerVisitSound DEF Coordinator

\* They touch no other scan, put only their own events, and bring no scan to life.
LEMMA ThreadsElse ==
  ASSUME NEW i \in Scans, Coordinator(i) \/ WorkerVisit(i), scan \in [Scans -> ScanState], SoundStep(i, scan[i])
  PROVE  /\ \A k \in Scans \ {i} : scan'[k] = scan[k]
         /\ cancelled' = cancelled /\ DOMAIN scan' = Scans
         /\ scan[i].pc \notin {"off", "dead"}
         /\ \/ events' = events
            \/ \E type \in {"scan_started", "scan_complete", "scan_cancelled", "scan_failed"} :
                 /\ events' = Append(events, [id |-> i, type |-> type, dirs |-> scan[i].tree])
                 /\ type = "scan_complete" => scan[i].pc = "complete"
<1>1. PICK s : Set(i, s)
  BY DEF Coordinator, Begin, ScanRoot, LeaveLoop, Schedule, Collect, TakeResult, SplitDeferred, InlineVisit, AttachInline,
         Report, ExitThread, WorkerVisit
<1>2. scan[i].pc \notin {"off", "dead"}
  <2>1. WorkerVisit(i) => scan[i].active # {}
    BY DEF WorkerVisit
  <2>2. \A pc \in Resting : [Unborn EXCEPT !.pc = pc].active = {}
    BY DEF Unborn
  <2>3. WorkerVisit(i) => scan[i].pc \notin Resting
    BY <2>1, <2>2 DEF SoundStep, Sound
  <2> QED BY <2>3 DEF Coordinator, Begin, ScanRoot, LeaveLoop, Schedule, Collect, TakeResult, SplitDeferred, InlineVisit,
                      AttachInline, Report, ExitThread, At, Resting
<1>3. \/ events' = events
      \/ \E type \in {"scan_started", "scan_complete", "scan_cancelled", "scan_failed"} :
           /\ events' = Append(events, [id |-> i, type |-> type, dirs |-> scan[i].tree])
           /\ type = "scan_complete" => scan[i].pc = "complete"
  <2>1. CASE Begin(i)
    BY <2>1 DEF Begin, Put
  <2>2. CASE Report(i)
    BY <2>2 DEF Report, Put, At
  <2> QED BY <2>1, <2>2 DEF Coordinator, ScanRoot, LeaveLoop, Schedule, Collect, TakeResult, SplitDeferred, InlineVisit,
                            AttachInline, ExitThread, WorkerVisit, Quiet
<1> QED BY <1>1, <1>2, <1>3 DEF Set
-----------------------------------------------------------------------------
(* The scans and their window.                                             *)

LEMMA ScanInitInv == ScanConstants /\ Init => ScanInv
<1> SUFFICES ASSUME ScanConstants, Init PROVE ScanInv
  OBVIOUS
<1>1. \A i \in Scans : scan[i] = Unborn
  BY DEF Init, ScanInit
<1>2. Unborn = [Unborn EXCEPT !.pc = "off"] /\ "off" \in Resting /\ Unborn.pc = "off"
  BY DEF Unborn, Resting
<1>3. \A i \in Scans : SoundStep(i, scan[i])
  BY <1>1, <1>2, RestingSound
<1>4. scan \in [Scans -> ScanState]
  BY <1>3 DEF Init, ScanInit, SoundStep, Sound
<1>5. ScansInv
  BY <1>3, <1>4 DEF ScansInv, SoundStep
<1>6. 0 \notin Scans /\ Nothing.id = 0
  BY DEF ScanConstants, Nothing
<1>7. WindowInv
  BY <1>1, <1>6 DEF WindowInv, Init, ScanInit, Alive
<1> QED BY <1>5, <1>7 DEF ScanInv

LEMMA ThreadsInv == ASSUME ScanConstants, ScanInv, ScanThreads, WindowQuiet PROVE ScanInv'
<1>1. PICK i \in Scans : Coordinator(i) \/ WorkerVisit(i)
  BY DEF ScanThreads
<1>2. scan \in [Scans -> ScanState] /\ \A k \in Scans : SoundStep(k, scan[k])
  BY DEF ScanInv, ScansInv, SoundStep
<1>3. SoundStep(i, scan'[i])
  BY <1>1, <1>2, ThreadsSound
<1>4. /\ \A k \in Scans \ {i} : scan'[k] = scan[k]
      /\ cancelled' = cancelled /\ scan[i].pc \notin {"off", "dead"}
      /\ \/ events' = events
         \/ \E type \in {"scan_started", "scan_complete", "scan_cancelled", "scan_failed"} :
              /\ events' = Append(events, [id |-> i, type |-> type, dirs |-> scan[i].tree])
              /\ type = "scan_complete" => scan[i].pc = "complete"
  BY <1>1, <1>2, ThreadsElse
<1>5. \A k \in Scans : SoundStep(k, scan'[k])
  BY <1>2, <1>3, <1>4
<1>6. scan' \in [Scans -> ScanState]
  <2>1. PICK s : scan' = [scan EXCEPT ![i] = s]
    BY <1>1 DEF Coordinator, Begin, ScanRoot, LeaveLoop, Schedule, Collect, TakeResult, SplitDeferred, InlineVisit,
           AttachInline, Report, ExitThread, WorkerVisit, Set
  <2>2. \A k \in Scans : scan'[k] \in ScanState
    BY <1>5 DEF SoundStep, Sound
  <2> QED BY <2>1, <2>2, <1>2
<1>7. ScansInv'
  BY <1>4, <1>5, <1>6 DEF ScansInv, SoundStep
<1>8. i \in Nat /\ i <= active_scan_id /\ active_scan_id \in Int
  <2>1. active_scan_id \in Int /\ i \in Nat
    BY DEF ScanInv, WindowInv, ScanConstants
  <2>2. i > active_scan_id => scan[i].pc = "off"
    BY DEF ScanInv, WindowInv, Unborn
  <2> QED BY <1>4, <2>1, <2>2
<1>9. events' \in Seq(Event) /\ \A n \in 1..Len(events') : Reported(events'[n])
  <2>1. events \in Seq(Event) /\ \A n \in 1..Len(events) : Reported(events[n])
    BY DEF ScanInv, WindowInv
  <2>2. ASSUME NEW type \in {"scan_started", "scan_complete", "scan_cancelled", "scan_failed"},
               type = "scan_complete" => scan[i].pc = "complete",
               events' = Append(events, [id |-> i, type |-> type, dirs |-> scan[i].tree])
        PROVE  events' \in Seq(Event) /\ \A n \in 1..Len(events') : Reported(events'[n])
    <3> DEFINE event == [id |-> i, type |-> type, dirs |-> scan[i].tree]
    <3>1. scan[i].tree \subseteq Dirs
      BY <1>2, Fields
    <3>2. event \in Event
      BY <3>1 DEF Event
    <3>3. event.type = "scan_complete" /\ event.id \notin cancelled => event.dirs = Serial
      BY <1>2, <2>2 DEF SoundStep, Complete
    <3>4. Reported(event)
      BY <1>8, <3>3 DEF Reported
    <3> HIDE DEF event
    <3>5. events' = Append(events, event)
      BY <2>2 DEF event
    <3>6. events' \in Seq(Event)
      BY <2>1, <3>2, <3>5
    <3>7. ASSUME NEW n \in 1..Len(events') PROVE Reported(events'[n])
      <4>1. events'[n] = IF n <= Len(events) THEN events[n] ELSE event
        BY <2>1, <3>2, <3>5, <3>7
      <4>2. n \in 1..Len(events) \/ events'[n] = event
        BY <2>1, <3>2, <3>5, <3>7, <4>1
      <4> QED BY <2>1, <3>4, <4>1, <4>2
    <3> QED BY <3>6, <3>7
  <2> QED BY <1>4, <2>1, <2>2
<1>10. polling' = "off" => ~Alive(active_scan_id)'
  <2>1. polling' = polling /\ active_scan_id' = active_scan_id /\ shown' = shown
    BY DEF WindowQuiet, window
  <2>2. polling = "off" => ~Alive(active_scan_id)
    BY DEF ScanInv, WindowInv
  <2>3. Alive(i)
    BY <1>4 DEF Alive
  <2>4. polling = "off" => i # active_scan_id
    BY <2>2, <2>3
  <2> QED BY <1>4, <2>1, <2>2, <2>4 DEF Alive
<1>11. \A k \in Scans : k > active_scan_id => scan'[k] = Unborn
  BY <1>4, <1>8 DEF ScanInv, WindowInv
<1>12. WindowInv'
  <2>1. UNCHANGED <<active_scan_id, polling, shown>>
    BY DEF WindowQuiet, window
  <2> QED BY <1>4, <1>9, <1>10, <1>11, <2>1 DEF ScanInv, WindowInv, Reported
<1> QED BY <1>7, <1>12 DEF ScanInv

\* Opening a folder cancels the newest scan, whatever it has put in the queue by then.
LEMMA OpenFolderInv == ASSUME ScanConstants, ScanInv, OpenFolder PROVE ScanInv'
<1> DEFINE i == active_scan_id + 1
<1>1. /\ i \in Scans /\ i \in Nat /\ active_scan_id \in Nat /\ active_scan_id' = i /\ scan[i] = Unborn
      /\ scan' = [scan EXCEPT ![i].pc = "begin"]
      /\ cancelled' = cancelled \union ({active_scan_id} \ {0})
      /\ polling' = "due" /\ UNCHANGED <<events, keep_polling, shown>>
  BY DEF OpenFolder, ScanInv, WindowInv, ScanConstants
<1>2. scan \in [Scans -> ScanState] /\ \A k \in Scans : SoundStep(k, scan[k])
  BY DEF ScanInv, ScansInv, SoundStep
<1>3. cancelled \subseteq 1..active_scan_id - 1
  BY DEF ScanInv, WindowInv
<1> HIDE DEF i
<1>4. scan'[i] = [Unborn EXCEPT !.pc = "begin"] /\ \A k \in Scans \ {i} : scan'[k] = scan[k]
  BY <1>1, <1>2
<1>5. "begin" \in Resting
  BY DEF Resting
<1>6. \A k \in Scans : SoundStep(k, scan'[k])
  BY <1>2, <1>4, <1>5, RestingSound
<1>7. scan' \in [Scans -> ScanState]
  <2>1. \A k \in Scans : scan'[k] \in ScanState
    BY <1>6 DEF SoundStep, Sound
  <2> QED BY <2>1, <1>1, <1>2
<1>8. ScansInv'
  BY <1>1, <1>6, <1>7 DEF ScansInv, SoundStep
<1>9. cancelled' \subseteq 1..i - 1 /\ i = active_scan_id + 1
  BY <1>1, <1>3 DEF i
<1>10. \A k \in Scans : k > i => scan'[k] = Unborn
  <2>1. \A k \in Scans : k \in Nat
    BY DEF ScanConstants
  <2> QED BY <1>1, <1>4, <1>9, <2>1 DEF ScanInv, WindowInv
<1>11. events \in Seq(Event) /\ \A n \in 1..Len(events) : Reported(events[n]) /\ events[n].id \in Nat
  <2>1. events \in Seq(Event) /\ \A n \in 1..Len(events) : Reported(events[n]) /\ events[n] \in Event
    BY DEF ScanInv, WindowInv
  <2>2. \A event \in Event : event.id \in Nat
    BY DEF Event, ScanConstants
  <2> QED BY <2>1, <2>2
<1>12. ASSUME NEW n \in 1..Len(events) PROVE Reported(events[n])'
  BY <1>1, <1>9, <1>11 DEF Reported
<1>13. WindowInv'
  BY <1>1, <1>9, <1>10, <1>11, <1>12 DEF ScanInv, WindowInv
<1> QED BY <1>8, <1>13 DEF ScanInv

LEMMA PollInv == ASSUME ScanConstants, ScanInv, Poll PROVE ScanInv' /\ shown'.id >= shown.id
<1>1. UNCHANGED <<scan, cancelled, active_scan_id>>
  BY DEF Poll, BeginPoll, HandleEvent, QueueEmpty, EndPoll
<1>2. ScansInv'
  BY <1>1 DEF ScanInv, ScansInv, Sound, Complete
<1>3. CASE HandleEvent
  <2> DEFINE event == Head(events)
  <2>1. /\ events \in Seq(Event) /\ events # <<>> /\ events' = Tail(events) /\ \A n \in 1..Len(events) : Reported(events[n])
    BY <1>3 DEF HandleEvent, ScanInv, WindowInv
  <2>2. event \in Event /\ event = events[1] /\ Reported(event)
    <3>1. event = events[1] /\ 1 \in 1..Len(events)
      BY <2>1
    <3> QED BY <2>1, <3>1
  <2>3. events' \in Seq(Event) /\ \A n \in 1..Len(events') : Reported(events'[n])
    <3>1. events' \in Seq(Event) /\ Len(events') = Len(events) - 1 /\ \A n \in 1..Len(events') : events'[n] = events[n + 1]
      BY <2>1
    <3>2. \A n \in 1..Len(events') : n + 1 \in 1..Len(events)
      BY <2>1, <3>1
    <3> QED BY <2>1, <3>1, <3>2
  <2>4. CASE shown' = shown
    <3>1. polling' = polling /\ polling = "draining"
      BY <1>3 DEF HandleEvent
    <3> QED BY <1>1, <1>2, <2>3, <2>4, <3>1 DEF ScanInv, WindowInv, Reported, Alive
  <2>5. CASE shown' # shown
    <3>1. /\ event.id = active_scan_id /\ event.type = "scan_complete" /\ shown' = [id |-> event.id, dirs |-> event.dirs]
          /\ polling' = polling /\ polling = "draining"
      BY <1>3, <2>5 DEF HandleEvent, Stale
    <3>2. active_scan_id \notin cancelled /\ active_scan_id \in Nat /\ shown.id <= active_scan_id /\ shown.id \in Nat
      BY <2>2, <3>1 DEF ScanInv, WindowInv, ScanConstants, Event
    <3>3. event.dirs = Serial
      BY <2>2, <3>1, <3>2 DEF Reported
    <3>4. shown'.dirs = Serial /\ shown'.id = active_scan_id
      BY <3>1, <3>3
    <3> QED BY <1>1, <1>2, <2>3, <3>1, <3>2, <3>4 DEF ScanInv, WindowInv, Reported, Alive
  <2> QED BY <2>4, <2>5
<1>4. CASE BeginPoll \/ QueueEmpty \/ EndPoll
  <2>1. UNCHANGED <<events, shown>> /\ polling' \in {"off", "due", "draining", "drained"}
        /\ (polling' = "off" => ~Alive(active_scan_id))
    BY <1>4 DEF BeginPoll, QueueEmpty, EndPoll
  <2> QED BY <1>1, <1>2, <2>1 DEF ScanInv, WindowInv, Reported, Alive
<1> QED BY <1>3, <1>4 DEF Poll

LEMMA ScanStepInv == ASSUME ScanConstants, ScanInv, [Next]_vars PROVE ScanInv' /\ NewestWins
<1>0. shown.id \in Nat
  BY DEF ScanInv, WindowInv
<1>1. CASE OpenFolder
  BY <1>0, <1>1, OpenFolderInv DEF NewestWins, OpenFolder
<1>2. CASE Poll
  BY <1>2, PollInv DEF NewestWins
<1>3. CASE ScanThreads /\ WindowQuiet
  BY <1>0, <1>3, ThreadsInv DEF NewestWins, WindowQuiet, window
<1>4. CASE UNCHANGED vars
  BY <1>0, <1>4 DEF vars, window, NewestWins, ScanInv, ScansInv, WindowInv, Sound, Complete, Reported, Alive
<1> QED BY <1>1, <1>2, <1>3, <1>4 DEF Next
LEMMA ScanInvHolds == ASSUME ScanConstants PROVE Spec => []ScanInv
<1>1. Init => ScanInv
  BY ScanInitInv
<1>2. ScanInv /\ [Next]_vars => ScanInv'
  BY ScanStepInv
<1> QED BY <1>1, <1>2, PTL DEF Spec

\* What some part of a scan answers for is the tree, or what is below a directory it claims.
LEMMA SharesAre ==
  ASSUME NEW s, Sound(s), Shared(s)
  PROVE  Shares(s) = {s.tree} \union {below[{d}] : d \in Claims(s)}
<1> DEFINE busy == {k \in s.active \union {s.inline} : k.got \union k.todo # {}}
<1>1. busy = JobsOf(s)
  <2>1. NoJob.got \union NoJob.todo = {}
    BY DEF NoJob
  <2>2. \A job \in JobsOf(s) : job.got \union job.todo # {}
    BY DEF Sound, Proper, JobsOf
  <2>3. s.pc # "inline" => s.inline.got \union s.inline.todo = {}
    BY <2>1 DEF Sound
  <2> QED BY <2>2, <2>3 DEF JobsOf
<1>2. \A job \in busy : job.got \union UNION {below[{d}] : d \in job.todo \union job.deferred} = below[{job.dir}]
  BY <1>1 DEF Shared, Whole, Ahead, BelowAll
<1>3. Shares(s) = {s.tree} \union {below[{d}] : d \in Open(s)}
                   \union {job.got \union UNION {below[{d}] : d \in job.todo \union job.deferred} : job \in busy}
  BY DEF Shares, Open
<1>4. {job.got \union UNION {below[{d}] : d \in job.todo \union job.deferred} : job \in busy} = {below[{job.dir}] : job \in busy}
  BY <1>2
<1> HIDE DEF busy
<1>5. {below[{d}] : d \in Claims(s)} = {below[{d}] : d \in Open(s)} \union {below[{job.dir}] : job \in busy}
  BY <1>1 DEF Claims
<1> QED BY <1>3, <1>4, <1>5

LEMMA InvGivesWhole == ASSUME ScanConstants, ScanInv PROVE ScanWhole
<1>1. \A i \in Scans : Sound(scan[i]) /\ (i \notin cancelled => Complete(scan[i]))
  BY DEF ScanInv, ScansInv
<1>2. ASSUME NEW s, Sound(s), Shared(s)
      PROVE  UNION Shares(s) = Serial /\ \A S, T \in Shares(s) : S = T \/ S \intersect T = {}
  <2>1. Shares(s) = {s.tree} \union {below[{d}] : d \in Claims(s)}
    BY <1>2, SharesAre
  <2>2. UNION Shares(s) = s.tree \union BelowAll(Claims(s))
    BY <2>1 DEF BelowAll
  <2>3. /\ s.tree \union BelowAll(Claims(s)) = Serial
        /\ \A d \in Claims(s) : s.tree \intersect below[{d}] = {}
        /\ \A d, e \in Claims(s) : d # e => below[{d}] \intersect below[{e}] = {}
    BY <1>2 DEF Shared
  <2>4. ASSUME NEW S \in Shares(s), NEW T \in Shares(s), S # T PROVE S \intersect T = {}
    <3>1. S = s.tree \/ \E d \in Claims(s) : S = below[{d}]
      BY <2>1
    <3>2. T = s.tree \/ \E d \in Claims(s) : T = below[{d}]
      BY <2>1
    <3> QED BY <2>3, <2>4, <3>1, <3>2
  <2> QED BY <2>2, <2>3, <2>4
<1>3. EachDirOnce
  BY <1>1, <1>2 DEF EachDirOnce, Complete, Working
<1>4. NeverFails
  BY <1>1 DEF NeverFails, At, Sound
<1>5. ShownIsWhole /\ PollsOn
  BY DEF ShownIsWhole, PollsOn, ScanInv, WindowInv
<1> QED BY <1>3, <1>4, <1>5 DEF ScanWhole

\* A directory a serial scan finds is found once, however the jobs are split, overtake each other or are done inline, and no
\* job comes back before its parent is known; the window shows a whole result, and polls as long as the newest scan's thread
\* lives (scanner.py, ui_main.py): for every tree and all limits.
THEOREM ScansAreWhole == ASSUME ScanConstants PROVE Spec => []ScanWhole
<1>1. ScanInv => ScanWhole
  BY InvGivesWhole
<1> QED BY <1>1, ScanInvHolds, PTL

\* A result on display gives way to a newer one only (_handle_scan_event).
THEOREM NewestResultWins == ASSUME ScanConstants PROVE Spec => [][NewestWins]_vars
<1>1. ScanInv /\ [Next]_vars => [NewestWins]_vars
  BY ScanStepInv
<1> QED BY <1>1, ScanInvHolds, PTL DEF Spec
-----------------------------------------------------------------------------
(* The limits of ScanConfig.                                               *)

Limited(s) == IsFiniteSet(s.active) /\ Cardinality(s.active) <= MaxWorkers /\ Outstanding(s) <= MaxOutstanding
LimitsInv == ScanInv /\ \A i \in Scans : Limited(scan[i])

\* A choice of n out of a set.
LEMMA OfSizeCounts ==
  ASSUME NEW S, IsFiniteSet(S), NEW n \in Nat, NEW T \in OfSize(n, S)
  PROVE  IsFiniteSet(T) /\ T \subseteq S /\ Cardinality(T) \in Nat /\ Cardinality(T) <= n
<1>1. T \subseteq S /\ Cardinality(T) = Smaller(n, Cardinality(S)) /\ Cardinality(S) \in Nat
  BY FS_CardinalityType DEF OfSize
<1>2. IsFiniteSet(T) /\ Cardinality(T) \in Nat
  BY <1>1, FS_Subset, FS_CardinalityType
<1> QED BY <1>1, <1>2 DEF Smaller

\* Room is counted in jobs at work and jobs that wait; a job that is taken up moves from the one to the other.
LEMMA ScheduleLimited ==
  ASSUME ScanConstants, NEW i \in Scans, SoundStep(i, scan[i]), Limited(scan[i]), Schedule(i), scan \in [Scans -> ScanState]
  PROVE  Limited(scan'[i])
<1> DEFINE s == scan[i]
           s2 == scan'[i]
           Then(new, jobs) ==
             LET active == s.active \union {Job(d, MaxSplits) : d \in jobs}
             IN [s EXCEPT !.backlog = @ \ new, !.discovered = (@ \union new) \ jobs, !.active = active,
                          !.pc = IF active = {} THEN "loop" ELSE "wait"]
<1>1. s \in ScanState /\ Limited(s) /\ {MaxWorkers, MaxOutstanding} \subseteq Nat
  BY DEF SoundStep, Sound, ScanConstants
<1>2. PICK new \in OfSize(IF Room(s) > 0 THEN Room(s) ELSE 0, s.backlog) :
        \E jobs \in OfSize(MaxWorkers - Cardinality(s.active), s.discovered \union new) : Set(i, Then(new, jobs))
  BY DEF Schedule
<1>3. PICK jobs \in OfSize(MaxWorkers - Cardinality(s.active), s.discovered \union new) : s2 = Then(new, jobs)
  BY <1>2 DEF Set
<1> DEFINE fresh == {Job(d, MaxSplits) : d \in jobs}
<1>4. s2.active = s.active \union fresh /\ s2.discovered = (s.discovered \union new) \ jobs
  BY <1>1, <1>3, Fields
<1> HIDE DEF s, s2
<1>5. /\ IsFiniteSet(s.backlog) /\ IsFiniteSet(s.discovered) /\ IsFiniteSet(s.active)
      /\ Cardinality(s.discovered) \in Nat /\ Cardinality(s.active) \in Nat
  BY <1>1, Fields, FS_Subset, FS_CardinalityType DEF Limited, ScanConstants, IsTree
<1>6. /\ Room(s) \in Int /\ MaxWorkers - Cardinality(s.active) \in Nat /\ (IF Room(s) > 0 THEN Room(s) ELSE 0) \in Nat
      /\ Room(s) >= 0 /\ Room(s) = MaxOutstanding - (Cardinality(s.active) + Cardinality(s.discovered))
  BY <1>1, <1>5 DEF Room, Outstanding, Limited
<1>7. IsFiniteSet(new) /\ Cardinality(new) \in Nat /\ Cardinality(new) <= Room(s)
  BY <1>2, <1>5, <1>6, OfSizeCounts
<1>8. /\ IsFiniteSet(s.discovered \union new) /\ Cardinality(s.discovered \union new) \in Nat
      /\ Cardinality(s.discovered \union new) <= Cardinality(s.discovered) + Cardinality(new)
  <2>1. IsFiniteSet(s.discovered \union new) /\ IsFiniteSet(s.discovered \intersect new)
    BY <1>5, <1>7, FS_Union, FS_Intersection
  <2>2. Cardinality(s.discovered \union new)
          = Cardinality(s.discovered) + Cardinality(new) - Cardinality(s.discovered \intersect new)
    BY <1>5, <1>7, FS_Union
  <2>3. Cardinality(s.discovered \intersect new) \in Nat /\ Cardinality(s.discovered \union new) \in Nat
    BY <2>1, FS_CardinalityType
  <2> QED BY <1>5, <1>7, <2>1, <2>2, <2>3
<1>9. /\ IsFiniteSet(jobs) /\ jobs \subseteq s.discovered \union new /\ Cardinality(jobs) \in Nat
      /\ Cardinality(jobs) <= MaxWorkers - Cardinality(s.active)
  BY <1>3, <1>6, <1>8, OfSizeCounts
<1>10. Cardinality(s2.discovered) = Cardinality(s.discovered \union new) - Cardinality(jobs)
  <2>1. jobs = (s.discovered \union new) \intersect jobs
    BY <1>9
  <2>2. Cardinality((s.discovered \union new) \ jobs)
          = Cardinality(s.discovered \union new) - Cardinality((s.discovered \union new) \intersect jobs)
    BY <1>8, FS_Difference
  <2> QED BY <1>4, <2>1, <2>2
<1>11. IsFiniteSet(fresh) /\ Cardinality(fresh) \in Nat /\ Cardinality(fresh) <= Cardinality(jobs)
  <2> DEFINE F == [d \in jobs |-> Job(d, MaxSplits)]
  <2>1. F \in Surjection(jobs, fresh)
    BY DEF Surjection
  <2> HIDE DEF F
  <2>2. IsFiniteSet(fresh) /\ Cardinality(fresh) <= Cardinality(jobs)
    BY <1>9, <2>1, FS_Surjection
  <2> QED BY <2>2, FS_CardinalityType
<1>12. /\ IsFiniteSet(s2.active) /\ Cardinality(s2.active) \in Nat
       /\ Cardinality(s2.active) <= Cardinality(s.active) + Cardinality(jobs)
  <2> HIDE DEF fresh
  <2>1. IsFiniteSet(s.active \union fresh) /\ IsFiniteSet(s.active \intersect fresh)
    BY <1>5, <1>11, FS_Union, FS_Intersection
  <2>2. Cardinality(s.active \union fresh) = Cardinality(s.active) + Cardinality(fresh) - Cardinality(s.active \intersect fresh)
    BY <1>5, <1>11, FS_Union
  <2>3. Cardinality(s.active \intersect fresh) \in Nat /\ Cardinality(s.active \union fresh) \in Nat
    BY <2>1, FS_CardinalityType
  <2> QED BY <1>4, <1>5, <1>9, <1>11, <2>1, <2>2, <2>3
<1>13. Cardinality(s2.active) <= MaxWorkers
  BY <1>1, <1>5, <1>9, <1>12
<1>14. Cardinality(s2.active) + Cardinality(s2.discovered) <= MaxOutstanding
  BY <1>1, <1>5, <1>6, <1>7, <1>8, <1>9, <1>10, <1>12
<1> QED BY <1>12, <1>13, <1>14 DEF Limited, Outstanding, s2

\* A job that goes on or ends makes no more of them; one that was put off joins the others only where there is room.
LEMMA Fewer ==
  ASSUME ScanConstants, NEW s \in ScanState, NEW s2, Limited(s),
         \/ s2.active \subseteq s.active
         \/ \E job \in s.active : \E after : s2.active = (s.active \ {job}) \union {after}
  PROVE  /\ IsFiniteSet(s2.active) /\ Cardinality(s2.active) \in Nat
         /\ Cardinality(s.active) \in Nat /\ Cardinality(s2.active) <= Cardinality(s.active)
<1>1. IsFiniteSet(s.active) /\ Cardinality(s.active) \in Nat
  BY FS_CardinalityType DEF Limited
<1>2. CASE s2.active \subseteq s.active
  BY <1>1, <1>2, FS_Subset, FS_CardinalityType
<1>3. CASE \E job \in s.active : \E after : s2.active = (s.active \ {job}) \union {after}
  <2>0. PICK job \in s.active : \E after : s2.active = (s.active \ {job}) \union {after}
    BY <1>3
  <2>1. PICK after : s2.active = (s.active \ {job}) \union {after}
    BY <2>0
  <2>2. /\ IsFiniteSet(s.active \ {job}) /\ Cardinality(s.active \ {job}) = Cardinality(s.active) - 1
    BY <1>1, FS_RemoveElement
  <2>3. /\ IsFiniteSet((s.active \ {job}) \union {after}) /\ Cardinality((s.active \ {job}) \union {after}) \in Nat
        /\ Cardinality((s.active \ {job}) \union {after}) <= Cardinality(s.active \ {job}) + 1
    <3> DEFINE others == s.active \ {job}
    <3>1. IsFiniteSet(others) /\ Cardinality(others) \in Nat
      BY <2>2, FS_CardinalityType
    <3> HIDE DEF others
    <3>2. IsFiniteSet(others \union {after}) /\ Cardinality(others \union {after}) \in {Cardinality(others), Cardinality(others) + 1}
      BY <3>1, FS_AddElement
    <3>3. Cardinality(others \union {after}) \in Nat /\ Cardinality(others \union {after}) <= Cardinality(others) + 1
      BY <3>1, <3>2
    <3> QED BY <3>2, <3>3 DEF others
  <2> QED BY <1>1, <2>1, <2>2, <2>3
<1> QED BY <1>2, <1>3
LEMMA LimitedStep ==
  ASSUME ScanConstants, NEW s \in ScanState, NEW s2, Limited(s),
         \/ s2.active \subseteq s.active
         \/ \E job \in s.active : \E after : s2.active = (s.active \ {job}) \union {after},
         s2.discovered = s.discovered \/ (IsRoom(s) /\ \E d \in Dirs : s2.discovered = s.discovered \union {d})
  PROVE  Limited(s2)
<1>1. /\ IsFiniteSet(s2.active) /\ Cardinality(s2.active) \in Nat
      /\ Cardinality(s.active) \in Nat /\ Cardinality(s2.active) <= Cardinality(s.active)
  BY Fewer
<1>2. /\ IsFiniteSet(s.discovered) /\ Cardinality(s.discovered) \in Nat /\ MaxWorkers \in Nat /\ MaxOutstanding \in Nat
  BY Fields, FS_Subset, FS_CardinalityType DEF ScanConstants, IsTree
<1>3. CASE s2.discovered = s.discovered
  BY <1>1, <1>2, <1>3 DEF Limited, Outstanding
<1>4. CASE IsRoom(s) /\ \E d \in Dirs : s2.discovered = s.discovered \union {d}
  <2>1. Cardinality(s2.discovered) \in {Cardinality(s.discovered), Cardinality(s.discovered) + 1}
    BY <1>2, <1>4, FS_AddElement
  <2> QED BY <1>1, <1>2, <1>4, <2>1 DEF Limited, Outstanding, IsRoom
<1> QED BY <1>3, <1>4

LEMMA ThreadsLimited ==
  ASSUME ScanConstants, NEW i \in Scans, SoundStep(i, scan[i]), Limited(scan[i]), Coordinator(i) \/ WorkerVisit(i),
         scan \in [Scans -> ScanState]
  PROVE  Limited(scan'[i])
<1> DEFINE s == scan[i]
           s2 == scan'[i]
<1>1. s \in ScanState
  OBVIOUS
<1>2. CASE Schedule(i)
  BY <1>2, ScheduleLimited
<1>3. CASE Report(i)
  <2>1. s2 = [Unborn EXCEPT !.pc = "ending"]
    BY <1>3 DEF Report, Set
  <2>2. s2.active = {} /\ s2.discovered = {}
    BY <2>1 DEF Unborn
  <2> QED BY <2>2, FS_EmptySet DEF Limited, Outstanding, ScanConstants
<1>4. CASE Begin(i) \/ ScanRoot(i) \/ LeaveLoop(i) \/ Collect(i) \/ InlineVisit(i) \/ ExitThread(i)
  <2>1. s2.active = s.active /\ s2.discovered = s.discovered
    BY <1>1, <1>4 DEF Begin, ScanRoot, LeaveLoop, Collect, InlineVisit, ExitThread, Set, ScanState
  <2> QED BY <1>1, <2>1, LimitedStep
<1>5. CASE AttachInline(i)
  <2>1. s2.active = s.active /\ s2.discovered = s.discovered
    BY <1>1, <1>5 DEF AttachInline, Attached, Set, ScanState
  <2> QED BY <1>1, <2>1, LimitedStep
<1>6. CASE TakeResult(i)
  <2>1. s2.active \subseteq s.active /\ s2.discovered = s.discovered
    <3>1. CASE s.batch = {} \/ i \in cancelled
      BY <1>1, <1>6, <3>1 DEF TakeResult, Set, ScanState
    <3>2. CASE s.batch # {} /\ i \notin cancelled
      <4>1. PICK job \in s.batch :
              s2 = Attached([s EXCEPT !.batch = @ \ {job}, !.active = @ \ {job}, !.later = job.deferred], job)
        BY <1>6, <3>2 DEF TakeResult, Set
      <4> QED BY <1>1, <4>1 DEF Attached, ScanState
    <3> QED BY <3>1, <3>2
  <2> QED BY <1>1, <2>1, LimitedStep
<1>7. CASE SplitDeferred(i)
  <2>1. s2.active = s.active /\ (s2.discovered = s.discovered \/ (IsRoom(s) /\ \E d \in s.later : s2.discovered = s.discovered \union {d}))
    <3>1. CASE s.later = {} \/ i \in cancelled
      BY <1>1, <1>7, <3>1 DEF SplitDeferred, Set, ScanState
    <3>2. CASE s.later # {} /\ i \notin cancelled
      <4>1. PICK d \in s.later :
              s2 = IF IsRoom(s) THEN [s EXCEPT !.later = @ \ {d}, !.discovered = @ \union {d}]
                   ELSE [s EXCEPT !.later = @ \ {d}, !.inline = Job(d, 0), !.pc = "inline"]
        BY <1>7, <3>2 DEF SplitDeferred, Set
      <4> QED BY <1>1, <4>1 DEF ScanState
    <3> QED BY <3>1, <3>2
  <2>2. s.later \subseteq Dirs
    BY <1>1, Fields
  <2> QED BY <1>1, <2>1, <2>2, LimitedStep
<1>8. CASE WorkerVisit(i)
  <2>1. (\E job \in s.active : \E after : s2.active = (s.active \ {job}) \union {after}) /\ s2.discovered = s.discovered
    BY <1>1, <1>8 DEF WorkerVisit, Set, ScanState
  <2> QED BY <1>1, <2>1, LimitedStep
<1> QED BY <1>2, <1>3, <1>4, <1>5, <1>6, <1>7, <1>8 DEF Coordinator

LEMMA LimitsStart == ScanConstants /\ Init => LimitsInv
<1>1. ScanConstants /\ Init => Limited(Unborn)
  BY FS_EmptySet DEF Limited, Outstanding, Unborn, ScanConstants
<1> QED BY <1>1, ScanInitInv DEF LimitsInv, Init, ScanInit

LEMMA LimitsStep == ASSUME ScanConstants, LimitsInv, [Next]_vars PROVE LimitsInv'
<1>1. ScanInv' /\ scan \in [Scans -> ScanState] /\ \A i \in Scans : SoundStep(i, scan[i]) /\ Limited(scan[i])
  BY ScanStepInv DEF LimitsInv, ScanInv, ScansInv, SoundStep
<1>2. CASE ScanThreads
  <2>1. PICK i \in Scans : Coordinator(i) \/ WorkerVisit(i)
    BY <1>2 DEF ScanThreads
  <2>2. Limited(scan'[i]) /\ \A k \in Scans \ {i} : scan'[k] = scan[k]
    BY <1>1, <2>1, ThreadsLimited, ThreadsElse
  <2>3. \A k \in Scans : Limited(scan'[k])
    BY <1>1, <2>2
  <2> QED BY <1>1, <2>3 DEF LimitsInv, Limited
<1>3. CASE OpenFolder
  <2>1. \A k \in Scans : scan'[k].active = scan[k].active /\ scan'[k].discovered = scan[k].discovered
    BY <1>1, <1>3 DEF OpenFolder, ScanState
  <2> QED BY <1>1, <2>1 DEF LimitsInv, Limited, Outstanding
<1>4. CASE Poll \/ UNCHANGED vars
  <2>1. scan' = scan
    BY <1>4 DEF Poll, BeginPoll, HandleEvent, QueueEmpty, EndPoll, vars
  <2> QED BY <1>1, <2>1 DEF LimitsInv, Limited, Outstanding
<1> QED BY <1>2, <1>3, <1>4 DEF Next

LEMMA LimitsSuffice == ASSUME ScanConstants, LimitsInv PROVE TypeOK
<1>1. cancelled \subseteq 1..active_scan_id /\ polling \in {"off", "due", "draining", "drained"}
  BY DEF LimitsInv, ScanInv, WindowInv, ScanConstants
<1>2. ASSUME NEW i \in Scans PROVE UNION {scan[i].tree, scan[i].backlog, scan[i].discovered, scan[i].later} \subseteq Dirs
  BY Fields DEF LimitsInv, ScanInv, ScansInv
<1> QED BY <1>1, <1>2 DEF TypeOK, LimitsInv, Limited

\* Never more jobs are at work than there are workers, nor more outstanding than allowed, whatever is put off (TypeOK).
THEOREM ScanTypeCorrect == ASSUME ScanConstants PROVE Spec => []TypeOK
BY LimitsStart, LimitsStep, LimitsSuffice, PTL DEF Spec
=================================================================================
