------------------------------ MODULE RunLedger ------------------------------
(***************************************************************************)
(* The durable stores of Demo10 (services/run_ledger): the store of runs   *)
(* current_runs.json, which every update rewrites through one shared       *)
(* temporary file, the event log events.jsonl with its sequence numbers,   *)
(* and the queue definition with its index.  Two threads write them: the   *)
(* UI thread (startup recovery, starting the queue, replaying a run) and   *)
(* the queue worker.  Neither the ledger service nor its callers hold a    *)
(* lock, so each access of a file and of the counter is a step of its own. *)
(* A crash ends the process between any two steps, or in the middle of a   *)
(* line of the log; what was written to a file stays.                      *)
(***************************************************************************)
EXTENDS Integers, Sequences, FiniteSets

CONSTANTS SlotRuns,      \* run ids the worker executes
          ReplayRuns,    \* run ids of replays
          MaxEvents, MaxCrashes  \* bounds: events in the log, crashes

ASSUME LedgerConstants ==
  /\ SlotRuns \cap ReplayRuns = {} /\ IsFiniteSet(SlotRuns \cup ReplayRuns)
  /\ {"queue", "cut", "spoilt"} \cap (SlotRuns \cup ReplayRuns) = {}
  /\ MaxEvents \in Nat /\ MaxCrashes \in Nat

Runs == SlotRuns \cup ReplayRuns
Threads == {"ui", "worker"}
Other(t) == IF t = "ui" THEN "worker" ELSE "ui"

VARIABLES store, tmp,    \* current_runs.json and its .tmp
          log,           \* events.jsonl
          queue,         \* the queue definition file and whether it is indexed
          seqNo,         \* LedgerService._seq_no
          thread,        \* the ledger call each thread is in
          phase,         \* down, recovering, ready or running (the worker is)
          todo,          \* runs startup recovery still has to mark
          job,           \* the run the worker executes and its next entry
          crashes,
          committed,     \* history: what each completed update left behind
          overlapped     \* history: both threads were in the ledger at once

disk == <<store, tmp, log, queue>>
app == <<phase, todo, job>>
history == <<crashes, committed, overlapped>>
vars == <<disk, seqNo, thread, app, history>>

States == {"CREATED", "SNAPSHOT_READY", "EXECUTING", "COMPLETED", "INTERRUPTED"}
Terminal == {"COMPLETED"}
Kinds == {"transition", "snapshot", "report", "interrupt", "replay", "queue"}

NoEntry == [state |-> "none", ws |-> FALSE]
Entry == [state : States, ws : BOOLEAN] \cup {NoEntry}
Empty == [r \in Runs |-> NoEntry]
Missing == [kind |-> "missing", runs |-> Empty]
Torn == [kind |-> "torn", runs |-> Empty]
Whole(runs) == [kind |-> "whole", runs |-> runs]

\* load_current_runs: a missing or unreadable file counts as no runs.
Load(file) == file.runs
Known(r) == Load(store)[r] # NoEntry
---------------------------------------------------------------------------
Idle == [pc |-> "idle", kind |-> "none", run |-> "none", from |-> "none", state |-> "none",
         entry |-> NoEntry, base |-> Empty, fd |-> "none", mixed |-> FALSE, stamp |-> 0]
NoJob == [run |-> "none", next |-> 1]
AllIdle == \A t \in Threads : thread[t].pc = "idle"

Init ==
  /\ store = Missing /\ tmp = Missing /\ log = <<>>
  /\ queue = [file |-> "none", indexed |-> FALSE]
  /\ seqNo = 0 /\ thread = [t \in Threads |-> Idle]
  /\ phase = "ready" /\ todo = {} /\ job = NoJob
  /\ crashes = 0 /\ committed = Empty /\ overlapped = FALSE

\* Bound: every call that is under way has room for its event.
RoomInLog == Len(log) + Cardinality({t \in Threads : thread[t].pc # "idle"}) < MaxEvents

\* A thread calls the ledger; From is the run get_run_metadata is asked for.
Begin(t, kind, r, from, s, pc) ==
  /\ thread[t].pc = "idle" /\ RoomInLog
  /\ thread' = [thread EXCEPT ![t] = [Idle EXCEPT !.pc = pc, !.kind = kind, !.run = r,
                                                  !.from = from, !.state = s]]
  /\ overlapped' = (overlapped \/ thread[Other(t)].pc # "idle")

Goto(t, pc) == thread' = [thread EXCEPT ![t].pc = pc]
Return(t) == thread' = [thread EXCEPT ![t] = Idle]
---------------------------------------------------------------------------
(* One update: get_run_metadata, update_run_metadata, record_event. *)

\* Mutant: the workspace is registered without the new state.
Bug_Changed(op, old) ==
  CASE op.kind = "transition" -> IF old = NoEntry THEN [state |-> op.state, ws |-> FALSE]
                                 ELSE [old EXCEPT !.state = op.state]
    [] op.kind = "snapshot"   -> [old EXCEPT !.ws = TRUE]
    [] op.kind = "report"     -> old
    [] op.kind = "interrupt"  -> [old EXCEPT !.state = op.state]
    [] op.kind = "replay"     -> [state |-> op.state, ws |-> FALSE]

\* What the caller makes of the metadata it read.
Changed(op, old) ==
  CASE op.kind = "transition" -> IF old = NoEntry THEN [state |-> op.state, ws |-> FALSE]
                                 ELSE [old EXCEPT !.state = op.state]
    [] op.kind = "snapshot"   -> [state |-> op.state, ws |-> TRUE]
    [] op.kind = "report"     -> old
    [] op.kind = "interrupt"  -> [old EXCEPT !.state = op.state]
    [] op.kind = "replay"     -> [state |-> op.state, ws |-> FALSE]

\* Every caller but _record_run_transition does nothing about an unknown run.
ReadRun(t) ==
  LET op  == thread[t]
      old == Load(store)[op.from]
  IN /\ op.pc = "read"
     /\ IF old = NoEntry /\ op.kind # "transition"
        THEN /\ Return(t)
             /\ todo' = todo \ {op.run}
        ELSE /\ thread' = [thread EXCEPT ![t].pc = "load", ![t].entry = Changed(op, old)]
             /\ UNCHANGED todo
     /\ UNCHANGED <<disk, seqNo, phase, job, history>>

\* Mutants: the update starts from nothing; it writes its own run only.
Bug_NoBase(op) == [Empty EXCEPT ![op.run] = op.entry]
Bug_OnlyRun(op) == [r \in {op.run} |-> op.entry]

NewRuns(op) == [Load(store) EXCEPT ![op.run] = op.entry]

LoadRuns(t) ==
  /\ thread[t].pc = "load"
  /\ thread' = [thread EXCEPT ![t].pc = "open", ![t].base = NewRuns(thread[t])]
  /\ UNCHANGED <<disk, seqNo, app, history>>

\* Mutant: the store is opened for writing as well.
Bug_OpenStore(t) ==
  LET shared == thread[Other(t)].fd = "tmp"
  IN /\ thread[t].pc = "open"
     /\ tmp' = Torn /\ store' = Torn
     /\ thread' = [thread EXCEPT ![t].pc = "write", ![t].fd = "tmp", ![t].mixed = shared,
                                 ![Other(t)].mixed = @ \/ shared]
     /\ UNCHANGED <<log, queue, seqNo, app, history>>

\* open("w") empties the file; two writers of one file mix what they write.
OpenTemp(t) ==
  LET shared == thread[Other(t)].fd = "tmp"
  IN /\ thread[t].pc = "open"
     /\ tmp' = Torn
     /\ thread' = [thread EXCEPT ![t].pc = "write", ![t].fd = "tmp", ![t].mixed = shared,
                                 ![Other(t)].mixed = @ \/ shared]
     /\ UNCHANGED <<store, log, queue, seqNo, app, history>>

\* dump, flush, fsync and close; the file may have become the store meanwhile.
WriteTemp(t) ==
  LET op == thread[t]
  IN /\ op.pc = "write"
     /\ \E content \in {Whole(op.base)} \cup (IF op.mixed THEN {Torn} ELSE {}) :
          /\ tmp' = IF op.fd = "tmp" THEN content ELSE tmp
          /\ store' = IF op.fd = "store" THEN content ELSE store
     /\ thread' = [thread EXCEPT ![t].pc = "replace", ![t].fd = "none"]
     /\ UNCHANGED <<log, queue, seqNo, app, history>>

\* What becomes of the other thread's open file when the store is replaced.
Renamed(fd) == CASE fd = "tmp" -> "store" [] fd = "store" -> "gone" [] OTHER -> fd

\* Mutant: the registration of the workspace is not logged.
Bug_ReplaceStore(t) ==
  /\ thread[t].pc = "replace" /\ tmp # Missing
  /\ store' = tmp /\ tmp' = Missing
  /\ thread' = [thread EXCEPT ![t] = IF @.kind = "snapshot" THEN Idle ELSE [@ EXCEPT !.pc = "count"],
                              ![Other(t)].fd = Renamed(@)]
  /\ committed' = [committed EXCEPT ![thread[t].run] = thread[t].entry]
  /\ UNCHANGED <<log, queue, seqNo, app, crashes, overlapped>>

ReplaceStore(t) ==
  /\ thread[t].pc = "replace" /\ tmp # Missing
  /\ store' = tmp /\ tmp' = Missing
  /\ thread' = [thread EXCEPT ![t].pc = "count", ![Other(t)].fd = Renamed(@)]
  /\ committed' = [committed EXCEPT ![thread[t].run] = thread[t].entry]
  /\ UNCHANGED <<log, queue, seqNo, app, crashes, overlapped>>

\* The temporary file is gone, or (on Windows) open in the other thread: the
\* exception ends a slot of the worker or a callback of the UI.
ReplaceRaises(t) ==
  /\ thread[t].pc = "replace"
  /\ tmp = Missing \/ thread[Other(t)].fd # "none"
  /\ Return(t)
  /\ job' = IF t = "worker" THEN NoJob ELSE job
  /\ UNCHANGED <<disk, seqNo, phase, todo, history>>
---------------------------------------------------------------------------
(* record_event. *)

CountEvent(t) ==
  /\ thread[t].pc = "count"
  /\ seqNo' = seqNo + 1
  /\ Goto(t, "stamp")
  /\ UNCHANGED <<disk, app, history>>

StampEvent(t) ==
  /\ thread[t].pc = "stamp"
  /\ thread' = [thread EXCEPT ![t].pc = "append", ![t].stamp = seqNo]
  /\ UNCHANGED <<disk, seqNo, app, history>>

\* A line a crash has cut, before and after another was written behind it.
Cut == [seq |-> 0, run |-> "cut", state |-> "none"]
Spoilt == [Cut EXCEPT !.run = "spoilt"]

\* Only a whole line has its end: what follows a cut one is lost with it.
WithLine(line) ==
  IF log # <<>> /\ log[Len(log)] = Cut THEN [log EXCEPT ![Len(log)] = Spoilt] ELSE Append(log, line)

\* The call returns to the program once its line is in the log.
AppendEvent(t) ==
  LET op == thread[t]
  IN /\ op.pc = "append"
     /\ log' = WithLine([seq |-> op.stamp, run |-> op.run, state |-> op.state])
     /\ Return(t)
     /\ todo' = IF op.kind = "interrupt" THEN todo \ {op.run} ELSE todo
     /\ phase' = CASE op.kind = "queue" /\ op.state = "RUNNING" -> "running"
                   [] op.kind = "queue" /\ op.state # "RUNNING" -> "ready"
                   [] OTHER -> phase
     /\ UNCHANGED <<store, tmp, queue, seqNo, job, history>>
---------------------------------------------------------------------------
(* save_queue_definition: the file, then its index; then the event. *)

SaveDefinition(t) ==
  /\ thread[t].pc = "definition"
  /\ queue' = [queue EXCEPT !.file = thread[t].state]
  /\ Goto(t, "index")
  /\ UNCHANGED <<store, tmp, log, seqNo, app, history>>

SaveIndex(t) ==
  /\ thread[t].pc = "index"
  /\ queue' = [queue EXCEPT !.indexed = TRUE]
  /\ Goto(t, "count")
  /\ UNCHANGED <<store, tmp, log, seqNo, app, history>>

ThreadStep(t) ==
  \/ ReadRun(t) \/ LoadRuns(t) \/ OpenTemp(t) \/ WriteTemp(t)
  \/ ReplaceStore(t) \/ ReplaceRaises(t)
  \/ CountEvent(t) \/ StampEvent(t) \/ AppendEvent(t)
  \/ SaveDefinition(t) \/ SaveIndex(t)
---------------------------------------------------------------------------
(* The worker.  Of the stages, which SpecQueue has, four that differ in    *)
(* what they do to an entry are kept.                                      *)

WorkerCalls ==
  << [kind |-> "transition", state |-> "CREATED"],
     [kind |-> "snapshot",   state |-> "SNAPSHOT_READY"],
     [kind |-> "transition", state |-> "EXECUTING"],
     [kind |-> "transition", state |-> "COMPLETED"],
     [kind |-> "report",     state |-> "COMPLETED"] >>

TakeSlot ==
  /\ phase = "running" /\ thread["worker"].pc = "idle" /\ job = NoJob
  /\ \E r \in SlotRuns : job' = [run |-> r, next |-> 1]
  /\ UNCHANGED <<disk, seqNo, thread, phase, todo, history>>

RecordStage ==
  /\ phase = "running" /\ job # NoJob /\ job.next <= Len(WorkerCalls)
  /\ LET call == WorkerCalls[job.next]
     IN Begin("worker", call.kind, job.run, job.run, call.state, "read")
  /\ job' = [job EXCEPT !.next = @ + 1]
  /\ UNCHANGED <<disk, seqNo, phase, todo, crashes, committed>>

\* A slot is over after its last stage, or when a stage fails or is stopped.
LeaveSlot ==
  /\ phase = "running" /\ thread["worker"].pc = "idle" /\ job # NoJob
  /\ job' = NoJob
  /\ UNCHANGED <<disk, seqNo, thread, phase, todo, history>>

FinishQueue ==
  /\ phase = "running" /\ job = NoJob
  /\ \E state \in {"COMPLETED", "INTERRUPTED"} :
       Begin("worker", "queue", "queue", "queue", state, "definition")
  /\ UNCHANGED <<disk, seqNo, app, crashes, committed>>
---------------------------------------------------------------------------
(* The UI thread. *)

\* Mutant: the worker runs while the definition is still being saved.
Bug_StartQueue ==
  /\ phase = "ready"
  /\ Begin("ui", "queue", "queue", "queue", "RUNNING", "definition")
  /\ phase' = "running"
  /\ UNCHANGED <<disk, seqNo, todo, job, crashes, committed>>

StartQueue ==
  /\ phase = "ready"
  /\ Begin("ui", "queue", "queue", "queue", "RUNNING", "definition")
  /\ UNCHANGED <<disk, seqNo, app, crashes, committed>>

\* The id of a replay is a fresh one.
ReplayRun ==
  /\ phase \in {"ready", "running"}
  /\ \E original \in Runs, r \in ReplayRuns :
       /\ committed[r] = NoEntry
       /\ Begin("ui", "replay", r, original, "CREATED", "read")
  /\ UNCHANGED <<disk, seqNo, app, crashes, committed>>
---------------------------------------------------------------------------
(* A crash, and the start of the program after it. *)

Crash ==
  /\ phase # "down" /\ crashes < MaxCrashes
  /\ phase' = "down" /\ crashes' = crashes + 1
  /\ thread' = [t \in Threads |-> Idle]
  /\ seqNo' = 0 /\ todo' = {} /\ job' = NoJob
  /\ \/ log' = log
     \/ \E t \in Threads : thread[t].pc = "append" /\ log' = WithLine(Cut)
  /\ UNCHANGED <<store, tmp, queue, committed, overlapped>>

\* Mutant: the first line of the log, not its last.
Bug_LastSeqNo == IF log = <<>> THEN 0 ELSE log[1].seq

\* A last line that does not parse counts as an empty log: Cut has number 0.
LastSeqNo == IF log = <<>> THEN 0 ELSE log[Len(log)].seq

\* Mutant: only a run that was executing counts as interrupted.
Bug_NotSettled(entry) == entry.state = "EXECUTING"

\* scan_for_interrupted_runs.
NotSettled(entry) == entry # NoEntry /\ entry.state \notin Terminal \cup {"INTERRUPTED"}

\* A queue that is not in the index is not found again: the program goes on
\* with a new one.
Restart ==
  /\ phase = "down"
  /\ phase' = "recovering"
  /\ seqNo' = LastSeqNo
  /\ todo' = {r \in Runs : NotSettled(Load(store)[r])}
  /\ queue' = IF queue.indexed THEN queue ELSE [file |-> "none", indexed |-> FALSE]
  /\ UNCHANGED <<store, tmp, log, thread, job, history>>

MarkInterrupted ==
  /\ phase = "recovering"
  /\ \E r \in todo : Begin("ui", "interrupt", r, r, "INTERRUPTED", "read")
  /\ UNCHANGED <<disk, seqNo, app, crashes, committed>>

EndRecovery ==
  /\ phase = "recovering" /\ todo = {} /\ thread["ui"].pc = "idle"
  /\ phase' = "ready"
  /\ UNCHANGED <<disk, seqNo, thread, todo, job, history>>

Next ==
  \/ \E t \in Threads : ThreadStep(t)
  \/ TakeSlot \/ RecordStage \/ LeaveSlot \/ FinishQueue
  \/ StartQueue \/ ReplayRun
  \/ Crash \/ Restart \/ MarkInterrupted \/ EndRecovery

Spec == Init /\ [][Next]_vars

---------------------------------------------------------------------------
(* Properties.  Most hold as long as the two threads have not been in the  *)
(* ledger at the same time; UpdatesKept is also what the comment in        *)
(* update_run_metadata promises without that condition.                    *)

File == [kind : {"missing", "torn", "whole"}, runs : [Runs -> Entry]]
Event == [seq : Nat, run : Runs \cup {"queue"}, state : States \cup {"RUNNING"}] \cup {Cut, Spoilt}

\* Types: the files, the log and the local state of a ledger call.
TypeOK ==
  /\ {store, tmp} \subseteq File
  /\ Len(log) <= MaxEvents /\ \A i \in DOMAIN log : log[i] \in Event
  /\ queue \in [file : {"none", "RUNNING", "COMPLETED", "INTERRUPTED"}, indexed : BOOLEAN]
  /\ seqNo \in Nat /\ crashes \in 0..MaxCrashes /\ overlapped \in BOOLEAN
  /\ \A t \in Threads :
       /\ thread[t].entry \in Entry /\ thread[t].base \in [Runs -> Entry]
       /\ thread[t].kind \in Kinds \cup {"none"} /\ thread[t].stamp \in Nat
       /\ thread[t].run \in Runs \cup {"none", "queue"}
       /\ thread[t].fd \in {"none", "tmp", "store", "gone"} /\ thread[t].mixed \in BOOLEAN
  /\ phase \in {"down", "recovering", "ready", "running"} /\ todo \subseteq Runs
  /\ job \in [run : SlotRuns \cup {"none"}, next : 1..(Len(WorkerCalls) + 1)]
  /\ committed \in [Runs -> Entry]

\* The store can be read at any moment, whenever the process dies: a run is
\* written to the temporary file first (update_run_metadata).
StoreReadable == ~overlapped => store.kind # "torn"

\* When no update is under way the store holds, for every run, what the last
\* completed update of that run wrote ("Atomic update of current state store").
UpdatesKept == AllIdle => Load(store) = committed

\* The same, while the threads take turns.
SoloUpdatesKept == ~overlapped => UpdatesKept

Unread == {i \in DOMAIN log : log[i] \in {Cut, Spoilt}}

\* The sequence numbers of the log grow, across restarts too
\* (_get_last_seq_no reads the last line), until a crash cuts a line: the
\* numbers then start from 1 again.
SeqNoGrows ==
  ~overlapped =>
    \A i, j \in DOMAIN log : i < j /\ (\A k \in Unread : k > j) => log[i].seq < log[j].seq

\* An event of a run is logged when the store already has the state it
\* reports, so the log never runs ahead of the store.
LogFollowsStore ==
  ~overlapped /\ log' # log =>
    LET event == log'[Len(log')]
    IN event.run \in Runs => Load(store')[event.run].state = event.state

LastLogged(r) ==
  LET of == {i \in DOMAIN log : log[i].run = r}
  IN IF of = {} THEN "none" ELSE log[CHOOSE i \in of : \A j \in of : j <= i].state

\* The log misses at most the transition that is being recorded, one for every
\* crash, which falls between the store and the log once, and one for every
\* line lost because it follows a cut one.
LogKeepsUp ==
  ~overlapped =>
    Cardinality({r \in Runs : LastLogged(r) # Load(store)[r].state})
      <= crashes + Cardinality({t \in Threads : thread[t].pc # "idle"}) + Cardinality(Unread)

\* The event log is numbered upwards, never behind the store, and never ahead of it.
LogKept == [][SeqNoGrows' /\ LogKeepsUp' /\ LogFollowsStore]_vars

\* Startup recovery leaves no run behind that looks as if it were executing,
\* also when an earlier recovery was itself cut by a crash.
RecoverySettles ==
  [][phase = "recovering" /\ phase' = "ready" =>
       \A r \in Runs : Load(store')[r].state \in {"none", "COMPLETED", "INTERRUPTED"}]_vars

\* A run the ledger knows belongs to a queue the next start will find:
\* start_queue saves and indexes the queue before it starts the worker.
QueueBeforeRuns ==
  (\E r \in Runs : Known(r)) => queue.indexed /\ queue.file # "none"

\* The store can always be read and no update of a lone thread is lost; a queue is on disk before the runs it names.
StoreKept == StoreReadable /\ SoloUpdatesKept /\ QueueBeforeRuns
=============================================================================
