------------------------------ MODULE DiskProofs ------------------------------
(***************************************************************************)
(* What is kept on disk, in two parts.  The store of runs, startup         *)
(* recovery and the event log, for any number of runs, replays and crashes *)
(* and a log of any length; then what a promotion does to the user's       *)
(* files, for any set of files and any number of edits, runs and restores, *)
(* and what the regression suite that runs its cases in such copies says   *)
(* of them.                                                                *)
(***************************************************************************)
EXTENDS MCDisk, RegressionRunner, TLAPS, FiniteSetTheorems

(***************************************************************************)
(* The store of runs.                                                      *)
(***************************************************************************)

Updating == {"read", "load", "open", "write", "replace"}
Logging == {"count", "stamp", "append"}
Saving == {"definition", "index"}
Pcs == {"idle"} \union Updating \union Logging \union Saving

\* Nobody shares the ledger: the threads have taken turns so far, or the program has just been started again.
Solo == ~overlapped \/ phase = "recovering"

Call == [pc : Pcs, kind : Kinds \union {"none"}, run : Runs \union {"none", "queue"}, from : Runs \union {"none", "queue"},
         state : States \union {"none", "RUNNING"}, entry : Entry, base : [Runs -> Entry],
         fd : {"none", "tmp", "store", "gone"}, mixed : BOOLEAN, stamp : Int]

Line == [seq : Int, run : Runs \union {"none", "queue", "cut", "spoilt"}, state : States \union {"none", "RUNNING"}]

Types ==
  /\ store \in File /\ tmp \in File /\ committed \in [Runs -> Entry]
  /\ queue \in [file : {"none", "RUNNING", "COMPLETED", "INTERRUPTED"}, indexed : BOOLEAN]
  /\ thread \in [Threads -> Call] /\ seqNo \in Int /\ overlapped \in BOOLEAN
  /\ phase \in {"down", "recovering", "ready", "running"} /\ todo \subseteq Runs
  /\ log \in Seq(Line)
  /\ job = NoJob \/ job \in [run : SlotRuns, next : Nat \ {0}]

\* What a call may be, wherever it has come to.
CallOK(op) ==
  /\ op.pc # "write" => op.fd = "none"
  /\ op.pc \in Updating => op.kind \in Kinds \ {"queue"} /\ op.run \in Runs /\ op.from \in Runs /\ op.state \in States
  /\ op.pc \in Saving => op.kind = "queue" /\ op.state \in {"RUNNING", "COMPLETED", "INTERRUPTED"}
Calls == \A t \in Threads : CallOK(thread[t])

IndexLast == \A t \in Threads : thread[t].pc = "index" => queue.file # "none"
DownIsIdle == phase = "down" => AllIdle

Base == Types /\ Calls /\ IndexLast /\ DownIsIdle

\* The other thread is the other one of two.
LEMMA TwoThreads == \A t \in Threads : Other(t) \in Threads /\ Other(t) # t /\ Other(Other(t)) = t /\ Threads = {t, Other(t)}
BY DEF Threads, Other

\* The special values are of their types.
LEMMA Constants ==
  /\ NoEntry \in Entry /\ Empty \in [Runs -> Entry] /\ Missing \in File /\ Torn \in File /\ Idle \in Call
  /\ \A b \in [Runs -> Entry] : Whole(b) \in File /\ Whole(b).runs = b /\ Whole(b).kind = "whole"
  /\ Missing.runs = Empty /\ Torn.runs = Empty /\ Missing.kind = "missing" /\ Idle.pc = "idle" /\ Idle.fd = "none"
<1>1. NoEntry \in Entry
  BY DEF Entry
<1>2. Empty \in [Runs -> Entry]
  BY <1>1 DEF Empty
<1>3. Idle \in Call
  BY <1>1, <1>2 DEF Idle, Call, Pcs
<1>4. QED
  BY <1>1, <1>2, <1>3 DEF Missing, Torn, Whole, File, Idle

\* What a file holds, whatever became of it, is an entry for every run.
LEMMA RunsOfFile == ASSUME NEW f \in File PROVE Load(f) \in [Runs -> Entry]
BY DEF File, Load

\* What a caller makes of an entry is an entry.
LEMMA ChangedEntry ==
    ASSUME NEW op \in Call, op.kind \in Kinds \ {"queue"}, op.state \in States, NEW old \in Entry,
           old # NoEntry \/ op.kind = "transition"
    PROVE  /\ Changed(op, old) \in Entry
           /\ op.kind = "interrupt" => Changed(op, old).state = op.state
<1>1. op.kind \in {"transition", "snapshot", "report", "interrupt", "replay"}
  BY DEF Kinds
<1>2. old # NoEntry => old \in [state : States, ws : BOOLEAN] /\ [old EXCEPT !.state = op.state] \in [state : States, ws : BOOLEAN]
                       /\ [old EXCEPT !.state = op.state].state = op.state
  BY DEF Entry
<1>3. CASE op.kind = "transition"
  BY <1>2, <1>3 DEF Changed, Entry
<1>4. CASE op.kind \in {"snapshot", "report", "replay"}
  BY <1>4 DEF Changed, Entry
<1>5. CASE op.kind = "interrupt"
  BY <1>2, <1>5 DEF Changed, Entry
<1>6. QED
  BY <1>1, <1>3, <1>4, <1>5

\* A call begins where its kind begins, from nothing.
LEMMA BeginCall ==
    ASSUME Types, NEW t \in Threads, NEW kind, NEW r, NEW from, NEW s, NEW pc, Begin(t, kind, r, from, s, pc),
           kind \in Kinds, r \in Runs \union {"queue"}, from \in Runs \union {"queue"}, s \in States \union {"RUNNING"}, pc \in Pcs
    PROVE  /\ thread' \in [Threads -> Call] /\ thread'[Other(t)] = thread[Other(t)]
           /\ thread[t].pc = "idle" /\ thread'[t].fd = "none"
           /\ thread'[t].pc = pc /\ thread'[t].kind = kind /\ thread'[t].run = r
           /\ thread'[t].from = from /\ thread'[t].state = s
           /\ overlapped' = (overlapped \/ thread[Other(t)].pc # "idle")
<1> DEFINE new == [Idle EXCEPT !.pc = pc, !.kind = kind, !.run = r, !.from = from, !.state = s]
<1>1. new \in Call /\ new.fd = "none" /\ new.pc = pc /\ new.kind = kind /\ new.run = r /\ new.from = from /\ new.state = s
  BY Constants DEF Call, Idle
<1>2. thread' = [thread EXCEPT ![t] = new]
  BY DEF Begin
<1>3. thread[t].pc = "idle" /\ overlapped' = (overlapped \/ thread[Other(t)].pc # "idle")
  BY DEF Begin
<1> HIDE DEF new
<1>4. QED
  BY <1>1, <1>2, <1>3, TwoThreads DEF Types

\* Of a call: what it is about stays as it is.
Same(op, now) == now.kind = op.kind /\ now.run = op.run /\ now.from = op.from /\ now.state = op.state

\* The updates of a call the steps make: each changes what it names, and no more.
AtEntry(op, pc, e) == [op EXCEPT !.pc = pc, !.entry = e]
AtBase(op, pc, b) == [op EXCEPT !.pc = pc, !.base = b]
AtFile(op, pc, m) == [op EXCEPT !.pc = pc, !.fd = "tmp", !.mixed = m]
AtClosed(op, pc) == [op EXCEPT !.pc = pc, !.fd = "none"]
AtStamp(op, pc, n) == [op EXCEPT !.pc = pc, !.stamp = n]
AtPc(op, pc) == [op EXCEPT !.pc = pc]

\* What each of these updates changes.
LEMMA AtEntryIs ==
    ASSUME NEW op \in Call, NEW pc \in Pcs, NEW e \in Entry
    PROVE  LET now == AtEntry(op, pc, e) IN now \in Call /\ Same(op, now) /\ now.pc = pc /\ now.fd = op.fd /\ now.entry = e
<1>1. AtEntry(op, pc, e) \in Call
  BY DEF Call, AtEntry
<1>2. QED
  BY <1>1 DEF Call, Same, AtEntry

\* The same of the runs it is to write,
LEMMA AtBaseIs ==
    ASSUME NEW op \in Call, NEW pc \in Pcs, NEW b \in [Runs -> Entry]
    PROVE  LET now == AtBase(op, pc, b) IN now \in Call /\ Same(op, now) /\ now.pc = pc /\ now.fd = op.fd /\ now.entry = op.entry /\ now.base = b
<1>1. AtBase(op, pc, b) \in Call
  BY DEF Call, AtBase
<1>2. QED
  BY <1>1 DEF Call, Same, AtBase

\* of the file it has opened,
LEMMA AtFileIs ==
    ASSUME NEW op \in Call, NEW pc \in Pcs, NEW m \in BOOLEAN
    PROVE  LET now == AtFile(op, pc, m) IN /\ now \in Call /\ Same(op, now) /\ now.pc = pc /\ now.fd = "tmp" /\ now.mixed = m
           /\ now.entry = op.entry /\ now.base = op.base
<1>1. AtFile(op, pc, m) \in Call
  BY DEF Call, AtFile
<1>2. QED
  BY <1>1 DEF Call, Same, AtFile

\* of the file it has closed,
LEMMA AtClosedIs ==
    ASSUME NEW op \in Call, NEW pc \in Pcs
    PROVE  LET now == AtClosed(op, pc) IN now \in Call /\ Same(op, now) /\ now.pc = pc /\ now.fd = "none" /\ now.entry = op.entry /\ now.base = op.base
<1>1. AtClosed(op, pc) \in Call
  BY DEF Call, AtClosed
<1>2. QED
  BY <1>1 DEF Call, Same, AtClosed

\* of its number,
LEMMA AtStampIs ==
    ASSUME NEW op \in Call, NEW pc \in Pcs, NEW n \in Int
    PROVE  LET now == AtStamp(op, pc, n) IN now \in Call /\ Same(op, now) /\ now.pc = pc /\ now.fd = op.fd
<1>1. AtStamp(op, pc, n) \in Call
  BY DEF Call, AtStamp
<1>2. QED
  BY <1>1 DEF Call, Same, AtStamp

\* and of nothing.
LEMMA AtPcIs ==
    ASSUME NEW op \in Call, NEW pc \in Pcs
    PROVE  LET now == AtPc(op, pc) IN now \in Call /\ Same(op, now) /\ now.pc = pc /\ now.fd = op.fd /\ now.entry = op.entry /\ now.base = op.base
<1>1. AtPc(op, pc) \in Call
  BY DEF Call, AtPc
<1>2. QED
  BY <1>1 DEF Call, Same, AtPc

\* The other thread's call is where it was: at most the file it writes has become the store.
Untouched(op, now) ==
  /\ now.pc = op.pc /\ now.kind = op.kind /\ now.run = op.run /\ now.from = op.from
  /\ now.state = op.state /\ now.entry = op.entry /\ now.base = op.base

\* A mark on the other call is no more than that.
LEMMA MixedOnly ==
    ASSUME NEW o \in Call, NEW m \in BOOLEAN, NEW now, now = [o EXCEPT !.mixed = @ \/ m]
    PROVE  now \in Call /\ Untouched(o, now) /\ now.fd = o.fd
<1>1. now \in Call
  BY DEF Call
<1>2. QED
  BY DEF Call, Untouched

\* A step of a call, from what it does to the two records.
LEMMA StepCall ==
    ASSUME Types, Calls, NEW t \in Threads, NEW own \in Call, NEW other \in Call,
           thread' = [thread EXCEPT ![t] = own, ![Other(t)] = other],
           CallOK(own), Untouched(thread[Other(t)], other), other.pc # "write" => other.fd = "none"
    PROVE  thread' \in [Threads -> Call] /\ Calls' /\ thread'[t] = own /\ thread'[Other(t)] = other
<1>1. thread' \in [Threads -> Call] /\ thread'[t] = own /\ thread'[Other(t)] = other
  BY TwoThreads DEF Types
<1>2. CallOK(other)
  BY TwoThreads DEF Calls, CallOK, Untouched
<1>3. QED
  BY <1>1, <1>2, TwoThreads DEF Calls

\* Where a step brings its own call, and what it leaves in it.
Advance(op, o, now) ==
  \/ now.pc = "idle"
  \/ /\ Same(op, now)
     /\ \/ /\ op.pc = "read" /\ now.pc = "load" /\ now.entry = Changed(op, Load(store)[op.from])
           /\ op.kind # "transition" => Load(store)[op.from] # NoEntry
        \/ op.pc = "load" /\ now.pc = "open" /\ now.base = NewRuns(op) /\ now.entry = op.entry
        \/ /\ op.pc = "open" /\ now.pc = "write" /\ now.fd = "tmp" /\ now.mixed = (o.fd = "tmp")
           /\ now.base = op.base /\ now.entry = op.entry
        \/ op.pc = "write" /\ now.pc = "replace" /\ now.base = op.base /\ now.entry = op.entry
        \/ op.pc = "replace" /\ now.pc = "count"
        \/ op.pc = "count" /\ now.pc = "stamp"
        \/ op.pc = "stamp" /\ now.pc = "append"
        \/ op.pc = "definition" /\ now.pc = "index"
        \/ op.pc = "index" /\ now.pc = "count"

\* A step of a call leaves calls, moves its own on by one, and hardly touches the other.
LEMMA StepKeeps ==
    ASSUME Types, Calls, NEW t \in Threads, ThreadStep(t)
    PROVE  /\ thread' \in [Threads -> Call] /\ Calls'
           /\ Untouched(thread[Other(t)], thread'[Other(t)])
           /\ thread[t].pc # "idle" /\ Advance(thread[t], thread[Other(t)], thread'[t])
<1>p. PICK op, o : op = thread[t] /\ o = thread[Other(t)]
  OBVIOUS
<1>r. SUFFICES thread' \in [Threads -> Call] /\ Calls' /\ Untouched(o, thread'[Other(t)]) /\ Advance(op, o, thread'[t])
  BY <1>p DEF ThreadStep, ReadRun, LoadRuns, OpenTemp, WriteTemp, ReplaceStore, ReplaceRaises, CountEvent, StampEvent, AppendEvent,
     SaveDefinition, SaveIndex
<1>q. Pcs = {"idle", "read", "load", "open", "write", "replace", "count", "stamp", "append", "definition", "index"}
  BY DEF Pcs, Updating, Saving, Logging
<1>0. op \in Call /\ o \in Call /\ CallOK(op) /\ CallOK(o) /\ Untouched(o, o) /\ Idle \in Call /\ CallOK(Idle)
  BY <1>p, TwoThreads, Constants DEF Types, Calls, Untouched, CallOK, Idle, Updating, Saving
<1>1. ASSUME op.pc # "idle", NEW own \in Call, CallOK(own), Advance(op, o, own), thread' = [thread EXCEPT ![t] = own]
      PROVE  thread' \in [Threads -> Call] /\ Calls' /\ Untouched(o, thread'[Other(t)]) /\ Advance(op, o, thread'[t])
  <2>1. thread' = [thread EXCEPT ![t] = own, ![Other(t)] = o]
    BY <1>1, <1>p, TwoThreads DEF Types
  <2>2. o.pc # "write" => o.fd = "none"
    BY <1>0 DEF CallOK
  <2>3. QED
    BY <1>0, <1>1, <1>p, <2>1, <2>2, StepCall
<1>2. CASE ReadRun(t)
  <2>1. CASE Load(store)[op.from] = NoEntry /\ op.kind # "transition"
    BY <1>p, <1>0, <1>1, <1>2, <2>1 DEF ReadRun, Return, Advance, Idle
  <2>2. CASE ~(Load(store)[op.from] = NoEntry /\ op.kind # "transition")
    <3> DEFINE e == Changed(op, Load(store)[op.from])
    <3>1. op.pc = "read" /\ thread' = [thread EXCEPT ![t] = AtEntry(op, "load", e)]
      BY <1>p, <1>2, <2>2 DEF ReadRun, Types, AtEntry
    <3>2. op.kind \in Kinds \ {"queue"} /\ op.state \in States /\ Load(store)[op.from] \in Entry
      BY <1>0, <3>1, RunsOfFile DEF CallOK, Updating, Types
    <3>3. e \in Entry
      BY <1>0, <2>2, <3>2, ChangedEntry
    <3> HIDE DEF e
    <3>4. PICK own : own = AtEntry(op, "load", e)
      OBVIOUS
    <3>5. own \in Call /\ Same(op, own) /\ own.pc = "load" /\ own.fd = op.fd /\ own.entry = e
      <4>1. "load" \in Pcs
        BY <1>q
      <4>2. QED
        BY <1>0, <4>1, <3>3, <3>4, AtEntryIs
    <3>6. CallOK(own)
      BY <1>0, <3>1, <3>5 DEF CallOK, Same, Updating, Saving
    <3>7. Advance(op, o, own)
      BY <2>2, <3>1, <3>5 DEF Advance, e
    <3>8. QED
      BY <1>1, <3>1, <3>4, <3>5, <3>6, <3>7
  <2> QED BY <2>1, <2>2
<1>3. CASE LoadRuns(t)
  <2>1. op.pc = "load" /\ thread' = [thread EXCEPT ![t] = AtBase(op, "open", NewRuns(op))]
    BY <1>p, <1>3 DEF LoadRuns, Types, AtBase
  <2>2. NewRuns(op) \in [Runs -> Entry]
    BY <1>0, RunsOfFile DEF NewRuns, Types, Call
  <2>3. PICK own : own = AtBase(op, "open", NewRuns(op))
    OBVIOUS
  <2>4. own \in Call /\ Same(op, own) /\ own.pc = "open" /\ own.fd = op.fd /\ own.entry = op.entry /\ own.base = NewRuns(op)
    BY <1>0, <1>q, <2>2, <2>3, AtBaseIs
  <2>5. CallOK(own)
    BY <1>0, <2>1, <2>4 DEF CallOK, Same, Updating, Saving
  <2>6. Advance(op, o, own)
    BY <2>1, <2>4 DEF Advance
  <2>7. QED
    BY <1>1, <2>1, <2>3, <2>4, <2>5, <2>6
<1>4. CASE OpenTemp(t)
  <2> DEFINE shared == o.fd = "tmp"
             own == AtFile(op, "write", shared)
             other == [o EXCEPT !.mixed = @ \/ shared]
  <2>1. op.pc = "open" /\ thread' = [thread EXCEPT ![t] = own, ![Other(t)] = other]
    BY <1>p, <1>4, TwoThreads DEF OpenTemp, Types, AtFile
  <2>2. /\ own \in Call /\ Same(op, own) /\ own.pc = "write" /\ own.fd = "tmp" /\ own.mixed = shared
        /\ own.entry = op.entry /\ own.base = op.base
    <3>1. "write" \in Pcs /\ shared \in BOOLEAN
      BY <1>q
    <3> HIDE DEF shared
    <3>2. QED
      BY <1>0, <3>1, AtFileIs
  <2>3. other \in Call /\ Untouched(o, other) /\ other.fd = o.fd
    BY <1>0, MixedOnly
  <2> HIDE DEF own, other
  <2>4. CallOK(own)
    BY <1>0, <2>1, <2>2 DEF CallOK, Same, Updating, Saving
  <2>5. other.pc # "write" => other.fd = "none"
    BY <1>0, <2>3 DEF CallOK, Untouched
  <2>6. Advance(op, o, own)
    BY <2>1, <2>2 DEF Advance
  <2>7. QED
    BY <1>0, <1>p, <2>1, <2>2, <2>3, <2>4, <2>5, <2>6, StepCall
<1>5. CASE WriteTemp(t)
  <2>1. op.pc = "write" /\ thread' = [thread EXCEPT ![t] = AtClosed(op, "replace")]
    BY <1>p, <1>5 DEF WriteTemp, Types, AtClosed
  <2>2. PICK own : own = AtClosed(op, "replace")
    OBVIOUS
  <2>3. own \in Call /\ Same(op, own) /\ own.pc = "replace" /\ own.fd = "none" /\ own.entry = op.entry /\ own.base = op.base
    BY <1>0, <1>q, <2>2, AtClosedIs
  <2>4. CallOK(own)
    BY <1>0, <2>1, <2>3 DEF CallOK, Same, Updating, Saving
  <2>5. Advance(op, o, own)
    BY <2>1, <2>3 DEF Advance
  <2>6. QED
    BY <1>1, <2>1, <2>2, <2>3, <2>4, <2>5
<1>6. CASE ReplaceStore(t)
  <2> DEFINE own == AtPc(op, "count")
             other == [o EXCEPT !.fd = Renamed(@)]
  <2>1. op.pc = "replace" /\ thread' = [thread EXCEPT ![t] = own, ![Other(t)] = other]
    BY <1>p, <1>6, TwoThreads DEF ReplaceStore, Types, AtPc
  <2>2. own \in Call /\ CallOK(own)
    BY <1>0, <1>q, <2>1, AtPcIs DEF CallOK, Same, Updating, Saving
  <2>3. o.fd \in {"none", "tmp", "store", "gone"} /\ Renamed(o.fd) \in {"none", "tmp", "store", "gone"}
        /\ (o.fd = "none" => Renamed(o.fd) = "none")
    BY <1>0 DEF Call, Renamed
  <2>4. other \in Call /\ Untouched(o, other) /\ (other.pc # "write" => other.fd = "none")
    BY <1>0, <2>3 DEF Call, CallOK, Untouched
  <2> HIDE DEF own, other
  <2>5. Advance(op, o, own)
    BY <1>0, <1>q, <2>1, AtPcIs DEF Advance, own
  <2>6. QED
    BY <1>0, <1>p, <2>1, <2>2, <2>4, <2>5, StepCall
<1>7. CASE ReplaceRaises(t)
  BY <1>p, <1>0, <1>1, <1>7 DEF ReplaceRaises, Return, Advance, Idle
<1>8. CASE CountEvent(t) \/ SaveDefinition(t) \/ SaveIndex(t)
  <2>1. PICK pc \in Pcs : /\ thread' = [thread EXCEPT ![t].pc = pc] /\ op.pc # "idle"
                          /\ pc \in Saving => op.pc \in Saving
                          /\ pc \notin Updating /\ op.pc # "write"
                          /\ <<op.pc, pc>> \in {<<"count", "stamp">>, <<"definition", "index">>, <<"index", "count">>}
    BY <1>p, <1>q, <1>8 DEF CountEvent, SaveDefinition, SaveIndex, Goto, Updating, Saving
  <2>2. PICK own : own = AtPc(op, pc)
    OBVIOUS
  <2>3. own \in Call /\ Same(op, own) /\ own.pc = pc /\ own.fd = op.fd
    BY <1>0, <2>2, AtPcIs
  <2>4. CallOK(own)
    BY <1>0, <2>1, <2>3 DEF CallOK, Same
  <2>5. Advance(op, o, own)
    BY <2>1, <2>3 DEF Advance
  <2>6. QED
    BY <1>1, <1>p, <2>1, <2>2, <2>3, <2>4, <2>5 DEF Types, AtPc
<1>9. CASE StampEvent(t)
  <2>1. op.pc = "stamp" /\ thread' = [thread EXCEPT ![t] = AtStamp(op, "append", seqNo)]
    BY <1>p, <1>9 DEF StampEvent, Types, AtStamp
  <2>2. PICK own : own = AtStamp(op, "append", seqNo)
    OBVIOUS
  <2>3. own \in Call /\ Same(op, own) /\ own.pc = "append" /\ own.fd = op.fd
    <3>1. "append" \in Pcs /\ seqNo \in Int
      BY <1>q DEF Types
    <3>2. QED
      BY <1>0, <2>2, <3>1, AtStampIs
  <2>4. CallOK(own)
    BY <1>0, <2>1, <2>3 DEF CallOK, Same, Updating, Saving
  <2>5. Advance(op, o, own)
    BY <2>1, <2>3 DEF Advance
  <2>6. QED
    BY <1>1, <2>1, <2>2, <2>3, <2>4, <2>5
<1>10. CASE AppendEvent(t)
  BY <1>p, <1>0, <1>1, <1>10 DEF AppendEvent, Return, Advance, Idle
<1> QED
  BY <1>2, <1>3, <1>4, <1>5, <1>6, <1>7, <1>8, <1>9, <1>10 DEF ThreadStep

\* The log stays a sequence of lines, whatever is written behind what.
LEMMA LineWritten == ASSUME Types, NEW line \in Line PROVE WithLine(line) \in Seq(Line) /\ Cut \in Line /\ Cut.seq = 0
<1>1. Cut \in Line /\ Spoilt \in Line /\ Cut.seq = 0
  BY DEF Cut, Spoilt, Line
<1>2. QED
  BY <1>1 DEF WithLine, Types

\* The five ways a call begins.
Beginning == RecordStage \/ FinishQueue \/ StartQueue \/ ReplayRun \/ MarkInterrupted

Legal(t, kind, r, from, s, pc) ==
  /\ t \in Threads /\ r \in Runs \union {"queue"} /\ from \in Runs \union {"queue"}
  /\ \/ pc = "read" /\ kind \in Kinds \ {"queue"} /\ r \in Runs /\ from \in Runs /\ s \in States
     \/ pc = "definition" /\ kind = "queue" /\ s \in {"RUNNING", "COMPLETED", "INTERRUPTED"}
  /\ phase \in {"ready", "running", "recovering"}
  /\ phase # "running" => t = "ui" /\ kind \in {"queue", "replay", "interrupt"}
  /\ phase = "recovering" => kind = "interrupt" /\ s = "INTERRUPTED" /\ from = r

\* The stages of a slot record transitions, the workspace or a report.
LEMMA StageCalls == \A n \in 1..Len(WorkerCalls) :
                      WorkerCalls[n].kind \in {"transition", "snapshot", "report"} /\ WorkerCalls[n].state \in States
BY DEF WorkerCalls, States

\* Each of the five begins one call, of a kind its thread and the phase of the program allow.
LEMMA BeginsLegally ==
    ASSUME Types, Beginning
    PROVE  /\ \E t, kind, r, from, s, pc : Begin(t, kind, r, from, s, pc) /\ Legal(t, kind, r, from, s, pc)
           /\ UNCHANGED <<store, tmp, log, queue, seqNo, phase, todo, committed>>
           /\ job' = NoJob \/ job' \in [run : SlotRuns, next : Nat \ {0}]
<1>1. CASE RecordStage
  <2>1. phase = "running" /\ job \in [run : SlotRuns, next : Nat \ {0}] /\ job.next \in 1..Len(WorkerCalls)
    BY <1>1 DEF RecordStage, Types, WorkerCalls
  <2>2. PICK call : /\ call = WorkerCalls[job.next] /\ Begin("worker", call.kind, job.run, job.run, call.state, "read")
    BY <1>1 DEF RecordStage
  <2>3. call.kind \in {"transition", "snapshot", "report"} /\ call.state \in States
    BY <2>1, <2>2, StageCalls
  <2>4. Legal("worker", call.kind, job.run, job.run, call.state, "read")
    BY <2>1, <2>3 DEF Legal, Threads, Runs, Kinds
  <2>5. job' = [job EXCEPT !.next = @ + 1] /\ UNCHANGED <<store, tmp, log, queue, seqNo, phase, todo, committed>>
    BY <1>1 DEF RecordStage, disk
  <2>6. job' \in [run : SlotRuns, next : Nat \ {0}]
    BY <2>1, <2>5
  <2>7. QED
    BY <2>2, <2>4, <2>5, <2>6
<1>2. CASE FinishQueue
  <2>1. PICK s \in {"COMPLETED", "INTERRUPTED"} : Begin("worker", "queue", "queue", "queue", s, "definition")
    BY <1>2 DEF FinishQueue
  <2>2. phase = "running" /\ UNCHANGED <<store, tmp, log, queue, seqNo, phase, todo, job, committed>>
    BY <1>2 DEF FinishQueue, disk, app
  <2>3. Legal("worker", "queue", "queue", "queue", s, "definition")
    BY <2>1, <2>2 DEF Legal, Threads, Kinds
  <2>4. QED
    BY <2>1, <2>2, <2>3 DEF Types
<1>3. CASE StartQueue
  <2>1. Begin("ui", "queue", "queue", "queue", "RUNNING", "definition")
    BY <1>3 DEF StartQueue
  <2>2. phase = "ready" /\ UNCHANGED <<store, tmp, log, queue, seqNo, phase, todo, job, committed>>
    BY <1>3 DEF StartQueue, disk, app
  <2>3. Legal("ui", "queue", "queue", "queue", "RUNNING", "definition")
    BY <2>2 DEF Legal, Threads, Kinds
  <2>4. QED
    BY <2>1, <2>2, <2>3 DEF Types
<1>4. CASE ReplayRun
  <2>1. PICK original \in Runs, r \in Runs : Begin("ui", "replay", r, original, "CREATED", "read")
    BY <1>4 DEF ReplayRun, Runs
  <2>2. phase \in {"ready", "running"} /\ UNCHANGED <<store, tmp, log, queue, seqNo, phase, todo, job, committed>>
    BY <1>4 DEF ReplayRun, disk, app
  <2>3. Legal("ui", "replay", r, original, "CREATED", "read")
    BY <2>1, <2>2 DEF Legal, Threads, Kinds, States
  <2>4. QED
    BY <2>1, <2>2, <2>3 DEF Types
<1>5. CASE MarkInterrupted
  <2>1. PICK r \in todo : Begin("ui", "interrupt", r, r, "INTERRUPTED", "read")
    BY <1>5 DEF MarkInterrupted
  <2>2. phase = "recovering" /\ UNCHANGED <<store, tmp, log, queue, seqNo, phase, todo, job, committed>>
    BY <1>5 DEF MarkInterrupted, disk, app
  <2>3. Legal("ui", "interrupt", r, r, "INTERRUPTED", "read")
    BY <2>1, <2>2 DEF Legal, Threads, Kinds, States, Types
  <2>4. QED
    BY <2>1, <2>2, <2>3 DEF Types
<1>6. QED
  BY <1>1, <1>2, <1>3, <1>4, <1>5 DEF Beginning

\* A call that begins legally is a call, and the other thread's goes on.
LEMMA BeginKeeps ==
    ASSUME Types, Calls, NEW t, NEW kind, NEW r, NEW from, NEW s, NEW pc,
           Begin(t, kind, r, from, s, pc), Legal(t, kind, r, from, s, pc)
    PROVE  /\ t \in Threads /\ thread' \in [Threads -> Call] /\ Calls' /\ thread'[Other(t)] = thread[Other(t)]
           /\ thread[t].pc = "idle" /\ thread'[t].fd = "none"
           /\ thread'[t].pc = pc /\ thread'[t].kind = kind /\ thread'[t].run = r
           /\ thread'[t].from = from /\ thread'[t].state = s
           /\ overlapped' = (overlapped \/ thread[Other(t)].pc # "idle")
<1>1. t \in Threads /\ kind \in Kinds /\ s \in States \union {"RUNNING"} /\ pc \in Pcs
      /\ r \in Runs \union {"queue"} /\ from \in Runs \union {"queue"}
  BY DEF Legal, Kinds, States, Pcs, Updating, Saving
<1>2. /\ thread' \in [Threads -> Call] /\ thread'[Other(t)] = thread[Other(t)]
      /\ thread[t].pc = "idle" /\ thread'[t].fd = "none"
      /\ thread'[t].pc = pc /\ thread'[t].kind = kind /\ thread'[t].run = r
      /\ thread'[t].from = from /\ thread'[t].state = s
      /\ overlapped' = (overlapped \/ thread[Other(t)].pc # "idle")
  BY <1>1, BeginCall
<1>3. CallOK(thread'[t])
  BY <1>2 DEF Legal, CallOK, Updating, Saving
<1>4. Calls'
  BY <1>1, <1>2, <1>3, TwoThreads DEF Calls
<1>5. QED
  BY <1>1, <1>2, <1>4

\* Types and the places of the calls are kept.
LEMMA BaseStep == Base /\ [Next]_vars => Base'
<1> SUFFICES ASSUME Base, [Next]_vars PROVE Base'
  OBVIOUS
<1> USE DEF Base
<1>1. CASE \E t \in Threads : ThreadStep(t)
  <2>1. PICK t \in Threads : ThreadStep(t)
    BY <1>1
  <2>p. PICK op : op = thread[t]
    OBVIOUS
  <2>2. /\ thread' \in [Threads -> Call] /\ Calls' /\ Untouched(thread[Other(t)], thread'[Other(t)])
        /\ op.pc # "idle" /\ Advance(op, thread[Other(t)], thread'[t])
        /\ op \in Call /\ CallOK(op)
    BY <2>1, <2>p, StepKeeps DEF Types, Calls
  <2>3. phase # "down"
    BY <2>p, <2>2 DEF DownIsIdle, AllIdle
  <2>4. CASE ReadRun(t) \/ LoadRuns(t) \/ OpenTemp(t) \/ WriteTemp(t) \/ ReplaceStore(t) \/ ReplaceRaises(t)
    <3>1. /\ UNCHANGED <<log, queue, seqNo, phase>> /\ todo' \subseteq todo /\ job' \in {job, NoJob} /\ overlapped' = overlapped
      BY <2>4 DEF ReadRun, LoadRuns, OpenTemp, WriteTemp, ReplaceStore, ReplaceRaises, disk, app, history
    <3>2. op.base \in [Runs -> Entry] /\ op.entry \in Entry
      BY <2>2 DEF Call
    <3>3. store' \in File /\ tmp' \in File /\ committed' \in [Runs -> Entry]
      <4>1. CASE WriteTemp(t)
        <5>1. PICK content \in {Whole(op.base), Torn} :
                /\ tmp' \in {content, tmp} /\ store' \in {content, store} /\ committed' = committed
          BY <2>p, <4>1 DEF WriteTemp, history
        <5>2. QED
          BY <3>2, <5>1, Constants DEF Types
      <4>2. CASE ReplaceStore(t)
        BY <2>p, <3>2, <4>2, Constants DEF ReplaceStore, Types
      <4>3. CASE ReadRun(t) \/ LoadRuns(t) \/ OpenTemp(t) \/ ReplaceRaises(t)
        BY <4>3, Constants DEF ReadRun, LoadRuns, OpenTemp, ReplaceRaises, Types, disk, history
      <4>4. QED
        BY <2>4, <4>1, <4>2, <4>3
    <3>4. \A u \in Threads : thread'[u].pc = "index" => thread[u].pc = "index" /\ u # t
      <4>1. op.pc \in Updating /\ thread'[t].pc # "index"
        BY <2>p, <2>2, <2>4 DEF Advance, ReadRun, LoadRuns, OpenTemp, WriteTemp, ReplaceStore, ReplaceRaises, Updating
      <4>2. QED
        BY <2>2, <4>1, TwoThreads DEF Untouched
    <3>5. QED
      BY <2>2, <2>3, <3>1, <3>3, <3>4 DEF Types, IndexLast, DownIsIdle
  <2>5. CASE CountEvent(t) \/ StampEvent(t)
    <3>1. UNCHANGED <<store, tmp, log, queue, phase, todo, job, overlapped, committed>> /\ seqNo' \in Int
      BY <2>5 DEF CountEvent, StampEvent, disk, app, history, Types
    <3>2. thread'[t].pc # "index"
      BY <2>p, <2>2, <2>5 DEF Advance, CountEvent, StampEvent
    <3>3. QED
      BY <2>2, <2>3, <3>1, <3>2, TwoThreads DEF Types, IndexLast, DownIsIdle, Untouched
  <2>6. CASE AppendEvent(t)
    <3>1. /\ UNCHANGED <<store, tmp, queue, seqNo, job, overlapped, committed>> /\ todo' \subseteq todo
          /\ phase' \in {"running", "ready", phase}
          /\ log' = WithLine([seq |-> op.stamp, run |-> op.run, state |-> op.state])
      BY <2>p, <2>6 DEF AppendEvent, history
    <3>2. [seq |-> op.stamp, run |-> op.run, state |-> op.state] \in Line
      BY <2>2 DEF Line, Call
    <3>3. log' \in Seq(Line)
      BY <3>1, <3>2, LineWritten
    <3>4. thread'[t].pc # "index"
      BY <2>p, <2>2, <2>6 DEF Advance, AppendEvent
    <3>5. QED
      BY <2>2, <2>3, <3>1, <3>3, <3>4, TwoThreads DEF Types, IndexLast, DownIsIdle, Untouched
  <2>7. CASE SaveDefinition(t) \/ SaveIndex(t)
    <3>1. UNCHANGED <<store, tmp, log, seqNo, phase, todo, job, overlapped, committed>>
      BY <2>7 DEF SaveDefinition, SaveIndex, app, history
    <3>2. CASE SaveDefinition(t)
      <4>1. queue' = [queue EXCEPT !.file = op.state] /\ op.state \in {"RUNNING", "COMPLETED", "INTERRUPTED"}
        BY <2>p, <2>2, <3>2 DEF SaveDefinition, CallOK, Saving
      <4>2. QED
        BY <2>2, <2>3, <3>1, <4>1 DEF Types, IndexLast, DownIsIdle
    <3>3. CASE SaveIndex(t)
      <4>1. queue' = [queue EXCEPT !.indexed = TRUE] /\ queue.file # "none" /\ op.pc = "index"
        BY <2>p, <3>3 DEF SaveIndex, IndexLast
      <4>2. queue' \in [file : {"none", "RUNNING", "COMPLETED", "INTERRUPTED"}, indexed : BOOLEAN] /\ queue'.file # "none"
        BY <4>1 DEF Types
      <4>3. QED
        BY <2>2, <2>3, <3>1, <4>2 DEF Types, IndexLast, DownIsIdle
    <3>4. QED
      BY <2>7, <3>2, <3>3
  <2>8. QED
    BY <2>1, <2>4, <2>5, <2>6, <2>7 DEF ThreadStep
<1>2. CASE Beginning
  <2>1. PICK t, kind, r, from, s, pc : Begin(t, kind, r, from, s, pc) /\ Legal(t, kind, r, from, s, pc)
    BY <1>2, BeginsLegally
  <2>2. /\ t \in Threads /\ thread' \in [Threads -> Call] /\ Calls' /\ thread'[Other(t)] = thread[Other(t)]
        /\ thread'[t].pc = pc /\ overlapped' = (overlapped \/ thread[Other(t)].pc # "idle")
    BY <2>1, BeginKeeps
  <2>b. overlapped' \in BOOLEAN
    BY <2>2 DEF Types
  <2>3. /\ UNCHANGED <<store, tmp, log, queue, seqNo, phase, todo, committed>>
        /\ job' = NoJob \/ job' \in [run : SlotRuns, next : Nat \ {0}]
    BY <1>2, BeginsLegally
  <2>4. phase # "down" /\ pc # "index"
    BY <2>1 DEF Legal
  <2>5. QED
    BY <2>2, <2>b, <2>3, <2>4, TwoThreads DEF Types, IndexLast, DownIsIdle
<1>3. CASE TakeSlot \/ LeaveSlot \/ EndRecovery \/ UNCHANGED vars
  <2>1. /\ UNCHANGED <<store, tmp, log, queue, seqNo, thread, todo, committed, overlapped>>
        /\ phase' \in {phase, "ready"} /\ (job' \in {job, NoJob} \/ job' \in [run : SlotRuns, next : Nat \ {0}])
    BY <1>3 DEF TakeSlot, LeaveSlot, EndRecovery, vars, disk, app, history
  <2>2. Calls' /\ IndexLast'
    BY <2>1 DEF Calls, IndexLast
  <2>3. QED
    BY <2>1, <2>2 DEF Types, DownIsIdle, AllIdle
<1>4. CASE Crash
  <2>1. /\ UNCHANGED <<store, tmp, queue, committed, overlapped>> /\ phase' = "down"
        /\ thread' = [t \in Threads |-> Idle] /\ seqNo' = 0 /\ todo' = {} /\ job' = NoJob
        /\ log' \in {log, WithLine(Cut)}
    BY <1>4 DEF Crash
  <2>2. log' \in Seq(Line)
    <3>1. Cut \in Line
      BY DEF Cut, Line
    <3>2. WithLine(Cut) \in Seq(Line)
      BY <3>1, LineWritten
    <3>3. QED
      BY <2>1, <3>2 DEF Types
  <2>3. \A t \in Threads : thread'[t] = Idle
    BY <2>1
  <2>4. Calls' /\ IndexLast' /\ DownIsIdle'
    BY <2>3, Constants DEF Calls, CallOK, IndexLast, DownIsIdle, AllIdle, Updating, Saving
  <2>5. QED
    BY <2>1, <2>2, <2>4, Constants DEF Types
<1>5. CASE Restart
  <2>1. /\ UNCHANGED <<store, tmp, log, thread, job, committed, overlapped>> /\ phase' = "recovering"
        /\ seqNo' = LastSeqNo /\ todo' \subseteq Runs /\ phase = "down"
        /\ queue' \in {queue, [file |-> "none", indexed |-> FALSE]}
    BY <1>5 DEF Restart, history
  <2>2. LastSeqNo \in Int
    <3>1. log \in Seq(Line) /\ \A line \in Line : line.seq \in Int
      BY DEF Types, Line
    <3>2. CASE log # <<>>
      <4>1. Len(log) \in 1..Len(log) /\ log[Len(log)] \in Line
        BY <3>1, <3>2
      <4>2. QED
        BY <3>1, <3>2, <4>1 DEF LastSeqNo
    <3>3. QED
      BY <3>2 DEF LastSeqNo
  <2>3. Calls' /\ IndexLast'
    BY <2>1 DEF Calls, IndexLast, DownIsIdle, AllIdle
  <2>4. queue' \in [file : {"none", "RUNNING", "COMPLETED", "INTERRUPTED"}, indexed : BOOLEAN]
    <3>1. [file |-> "none", indexed |-> FALSE] \in [file : {"none", "RUNNING", "COMPLETED", "INTERRUPTED"}, indexed : BOOLEAN]
      OBVIOUS
    <3>2. CASE queue' = queue
      BY <3>2 DEF Types
    <3>3. CASE queue' = [file |-> "none", indexed |-> FALSE]
      BY ONLY <3>1, <3>3
    <3>4. QED
      BY ONLY <2>1, <3>2, <3>3
  <2>5. QED
    BY <2>1, <2>2, <2>3, <2>4 DEF Types, DownIsIdle
<1>6. QED
  BY <1>1, <1>2, <1>3, <1>4, <1>5 DEF Next, Beginning

-----------------------------------------------------------------------------
(* One call at a time.                                                     *)

\* While the program recovers only the UI thread is in the ledger, marking a run.
Marking(op) == /\ op.kind = "interrupt" /\ op.state = "INTERRUPTED" /\ op.from = op.run /\ op.run \in Runs
               /\ op.pc \in Updating \union Logging
Alone == phase = "recovering" => /\ thread["worker"].pc = "idle"
                                 /\ thread["ui"].pc # "idle" => Marking(thread["ui"])

\* Only the event of a queue changes the phase.
LEMMA ThreadPhase ==
    ASSUME NEW t \in Threads, ThreadStep(t)
    PROVE  /\ overlapped' = overlapped
           /\ phase' = phase \/ (thread[t].kind = "queue" /\ AppendEvent(t) /\ phase' # "recovering")
<1>1. CASE AppendEvent(t)
  <2>1. CASE thread[t].kind = "queue"
    BY <1>1, <2>1 DEF AppendEvent, history
  <2>2. CASE thread[t].kind # "queue"
    BY <1>1, <2>2 DEF AppendEvent, history
  <2>3. QED
    BY <2>1, <2>2
<1>2. CASE ~AppendEvent(t)
  BY <1>2 DEF ThreadStep, ReadRun, LoadRuns, OpenTemp, WriteTemp, ReplaceStore, ReplaceRaises, CountEvent, StampEvent,
     SaveDefinition, SaveIndex, app, history
<1>3. QED
  BY <1>1, <1>2

\* The steps, by what they do to who is in the ledger and to the phase.
LEMMA StepKinds ==
    ASSUME Base, [Next]_vars
    PROVE  \/ \E t \in Threads : /\ ThreadStep(t) /\ overlapped' = overlapped
                                 /\ phase' = phase \/ (thread[t].kind = "queue" /\ AppendEvent(t) /\ phase' # "recovering")
           \/ Beginning /\ phase' = phase
           \/ /\ UNCHANGED <<store, tmp, queue, thread, todo, committed, overlapped>>
              /\ phase' = phase \/ (phase = "recovering" /\ phase' = "ready" /\ todo = {})
           \/ Crash
           \/ Restart
<1>2. CASE \E t \in Threads : ThreadStep(t)
  BY <1>2, ThreadPhase
<1>3. CASE Beginning
  BY <1>3, BeginsLegally DEF Base
<1>4. CASE TakeSlot \/ LeaveSlot \/ EndRecovery \/ UNCHANGED vars
  BY <1>4 DEF TakeSlot, LeaveSlot, EndRecovery, vars, disk, app, history
<1>5. QED
  BY <1>2, <1>3, <1>4 DEF Next, Beginning

\* Recovery keeps the ledger to the UI thread.
LEMMA AloneStep == Base /\ Alone /\ [Next]_vars => Alone'
<1> SUFFICES ASSUME Base, Alone, [Next]_vars, phase' = "recovering"
             PROVE  (/\ thread["worker"].pc = "idle"
                     /\ thread["ui"].pc # "idle" => Marking(thread["ui"]))'
  BY DEF Alone
<1>1. ASSUME NEW t \in Threads, ThreadStep(t), phase' = phase
      PROVE  (/\ thread["worker"].pc = "idle"
              /\ thread["ui"].pc # "idle" => Marking(thread["ui"]))'
  <2>1. Untouched(thread[Other(t)], thread'[Other(t)]) /\ thread[t].pc # "idle" /\ Advance(thread[t], thread[Other(t)], thread'[t])
    BY <1>1, StepKeeps DEF Base
  <2>2. t = "ui" /\ Other(t) = "worker" /\ Marking(thread["ui"]) /\ thread["worker"].pc = "idle"
    BY <1>1, <2>1 DEF Alone, Threads, Other
  <2>3. thread'["worker"].pc = "idle"
    BY <2>1, <2>2 DEF Untouched
  <2>4. thread'["ui"].pc # "idle" => Marking(thread'["ui"])
    BY <2>1, <2>2 DEF Advance, Same, Marking, Updating, Logging
  <2>5. QED
    BY <2>3, <2>4 DEF Marking
<1>2. CASE Beginning /\ phase' = phase
  <2>1. PICK t, kind, r, from, s, pc : Begin(t, kind, r, from, s, pc) /\ Legal(t, kind, r, from, s, pc)
    BY <1>2, BeginsLegally DEF Base
  <2>2. t = "ui" /\ kind = "interrupt" /\ s = "INTERRUPTED" /\ from = r /\ r \in Runs /\ pc = "read" /\ thread["worker"].pc = "idle"
    BY <1>2, <2>1 DEF Legal, Alone
  <2>3. /\ thread'["worker"] = thread["worker"] /\ thread'["ui"].pc = pc /\ thread'["ui"].kind = kind
        /\ thread'["ui"].run = r /\ thread'["ui"].from = from /\ thread'["ui"].state = s
    BY <2>1, <2>2, BeginKeeps DEF Base, Other
  <2>4. QED
    BY <2>2, <2>3 DEF Marking, Updating
<1>3. CASE UNCHANGED thread /\ phase' = phase
  BY <1>3 DEF Alone, Marking
<1>4. CASE Restart
  BY <1>4 DEF Restart, Base, DownIsIdle, AllIdle, Threads
<1>5. ~Crash
  BY DEF Crash
<1>6. QED
  BY <1>1, <1>2, <1>3, <1>4, <1>5, StepKinds

\* What the call that is alone is about to write is the store with its own entry.
LoneCall(op) ==
  /\ op.pc \in {"open", "write", "replace"} => op.base = [Load(store) EXCEPT ![op.run] = op.entry]
  /\ op.pc = "write" => op.fd = "tmp" /\ op.mixed = FALSE
  /\ op.pc = "replace" => tmp = Whole(op.base)
Lone == Solo => \A t \in Threads : LoneCall(thread[t]) /\ (thread[t].pc # "idle" => thread[Other(t)].pc = "idle")

\* The step of a call that is alone.
LEMMA LoneThread ==
    ASSUME Base, Lone, Solo, NEW t \in Threads, ThreadStep(t)
    PROVE  /\ LoneCall(thread[t]) /\ thread[Other(t)].pc = "idle" /\ thread[Other(t)].fd = "none"
           /\ ~ReplaceStore(t) => store' = store
           /\ LoneCall(thread[t])'
<1>0. PICK op, o, own : op = thread[t] /\ o = thread[Other(t)] /\ own = thread'[t]
  OBVIOUS
<1>1. /\ thread[t].pc # "idle" /\ Advance(thread[t], thread[Other(t)], thread'[t])
      /\ LoneCall(thread[t]) /\ thread[Other(t)].pc = "idle"
  BY StepKeeps DEF Base, Lone
<1>2. thread[Other(t)].fd = "none"
  BY <1>1, TwoThreads DEF Base, Calls, CallOK
<1>3. ~ReplaceStore(t) => store' = store
  <2>1. CASE WriteTemp(t)
    BY <1>1, <2>1 DEF WriteTemp, LoneCall
  <2>2. CASE ~WriteTemp(t) /\ ~ReplaceStore(t)
    BY <2>2 DEF ThreadStep, ReadRun, LoadRuns, OpenTemp, ReplaceRaises, CountEvent, StampEvent, AppendEvent,
       SaveDefinition, SaveIndex, disk
  <2>3. QED
    BY <2>1, <2>2
<1>4. LoneCall(thread[t])'
  <2>1. own.pc \in {"open", "write", "replace"} => ~ReplaceStore(t)
    BY <1>0, <1>1 DEF ReplaceStore, Advance
  <2>2. CASE own.pc = "open"
    <3>1. own.base = NewRuns(op) /\ own.entry = op.entry /\ own.run = op.run
      BY <1>0, <1>1, <2>2 DEF Advance, Same
    <3>2. QED
      BY <1>0, <1>3, <2>1, <2>2, <3>1 DEF LoneCall, NewRuns
  <2>3. CASE own.pc = "write"
    <3>1. /\ op.pc = "open" /\ own.fd = "tmp" /\ own.mixed = (o.fd = "tmp")
          /\ own.base = op.base /\ own.entry = op.entry /\ own.run = op.run
      BY <1>0, <1>1, <2>3 DEF Advance, Same
    <3>2. own.mixed = FALSE
      BY <1>0, <1>2, <3>1
    <3>3. QED
      BY <1>0, <1>1, <1>3, <2>1, <2>3, <3>1, <3>2 DEF LoneCall
  <2>4. CASE own.pc = "replace"
    <3>1. op.pc = "write" /\ own.base = op.base /\ own.entry = op.entry /\ own.run = op.run
      BY <1>0, <1>1, <2>4 DEF Advance, Same
    <3>2. op.fd = "tmp" /\ op.mixed = FALSE
      BY <1>0, <1>1, <3>1 DEF LoneCall
    <3>3. WriteTemp(t)
      BY <1>0, <3>1 DEF ThreadStep, ReadRun, LoadRuns, OpenTemp, ReplaceStore, ReplaceRaises, CountEvent, StampEvent, AppendEvent,
         SaveDefinition, SaveIndex
    <3>4. tmp' = Whole(op.base)
      BY <1>0, <3>2, <3>3 DEF WriteTemp
    <3>5. QED
      BY <1>0, <1>1, <1>3, <2>1, <2>4, <3>1, <3>4 DEF LoneCall
  <2>5. CASE own.pc \notin {"open", "write", "replace"}
    BY <1>0, <2>5 DEF LoneCall
  <2>6. QED
    BY <2>2, <2>3, <2>4, <2>5
<1>5. QED
  BY <1>1, <1>2, <1>3, <1>4

\* A call that is alone stays so until another begins, and knows what it is to write.
LEMMA LoneStep == Base /\ Alone /\ Lone /\ [Next]_vars => Lone'
<1> SUFFICES ASSUME Base, Alone, Lone, [Next]_vars, Solo'
             PROVE  (\A t \in Threads : LoneCall(thread[t]) /\ (thread[t].pc # "idle" => thread[Other(t)].pc = "idle"))'
  BY DEF Lone
<1>1. ASSUME NEW t \in Threads, ThreadStep(t), overlapped' = overlapped, phase' = phase \/ phase' # "recovering"
      PROVE  (\A u \in Threads : LoneCall(thread[u]) /\ (thread[u].pc # "idle" => thread[Other(u)].pc = "idle"))'
  <2>1. Solo
    BY <1>1 DEF Solo
  <2>2. LoneCall(thread[t])' /\ thread[Other(t)].pc = "idle"
    BY <1>1, <2>1, LoneThread
  <2>3. thread'[Other(t)].pc = "idle"
    BY <1>1, <2>2, StepKeeps DEF Base, Untouched
  <2>4. LoneCall(thread[Other(t)])'
    BY <2>3 DEF LoneCall
  <2>5. QED
    BY <2>2, <2>3, <2>4, TwoThreads
<1>2. CASE Beginning /\ phase' = phase
  <2>1. PICK t, kind, r, from, s, pc : Begin(t, kind, r, from, s, pc) /\ Legal(t, kind, r, from, s, pc)
    BY <1>2, BeginsLegally DEF Base
  <2>2. /\ t \in Threads /\ thread'[Other(t)] = thread[Other(t)] /\ thread'[t].pc = pc
        /\ overlapped' = (overlapped \/ thread[Other(t)].pc # "idle")
    BY <2>1, BeginKeeps DEF Base
  <2>3. thread[Other(t)].pc = "idle" /\ pc \in {"read", "definition"}
    BY <1>2, <2>1, <2>2 DEF Solo, Alone, Legal, Other
  <2>4. LoneCall(thread[t])' /\ LoneCall(thread[Other(t)])'
    BY <2>2, <2>3 DEF LoneCall
  <2>5. QED
    BY <2>2, <2>3, <2>4, TwoThreads
<1>3. CASE UNCHANGED <<store, tmp, thread, overlapped>> /\ (phase' = phase \/ phase' # "recovering")
  BY <1>3 DEF Solo, Lone, LoneCall
<1>4. CASE Crash \/ Restart
  <2>1. \A t \in Threads : thread'[t].pc = "idle"
    BY <1>4, Constants DEF Crash, Restart, Base, DownIsIdle, AllIdle
  <2>2. QED
    BY <2>1, TwoThreads DEF LoneCall
<1>5. QED
  BY <1>1, <1>2, <1>3, <1>4, StepKinds

-----------------------------------------------------------------------------
(* The store.                                                              *)

\* While the threads take turns the store is whole, and what the completed updates made of it.
Kept == ~overlapped => store.kind # "torn" /\ Load(store) = committed

\* No step of a thread that is alone tears the store or loses an update.
LEMMA KeptStep == Base /\ Lone /\ Kept /\ [Next]_vars => Kept'
<1> SUFFICES ASSUME Base, Lone, Kept, [Next]_vars, ~overlapped'
             PROVE  (store.kind # "torn" /\ Load(store) = committed)'
  BY DEF Kept
<1>1. ASSUME NEW t \in Threads, ThreadStep(t), overlapped' = overlapped
      PROVE  (store.kind # "torn" /\ Load(store) = committed)'
  <2>1. Solo /\ store.kind # "torn" /\ Load(store) = committed
    BY <1>1 DEF Solo, Kept
  <2>2. CASE ReplaceStore(t)
    <3>1. PICK op : op = thread[t]
      OBVIOUS
    <3>2. op.base = [committed EXCEPT ![op.run] = op.entry] /\ tmp = Whole(op.base)
      BY <1>1, <2>1, <2>2, <3>1, LoneThread DEF LoneCall, ReplaceStore
    <3>3. store' = tmp /\ committed' = [committed EXCEPT ![op.run] = op.entry]
      BY <2>2, <3>1 DEF ReplaceStore
    <3>4. op.base \in [Runs -> Entry]
      BY <3>1 DEF Base, Types, Call
    <3>5. QED
      BY <3>2, <3>3, <3>4, Constants DEF Load
  <2>3. CASE ~ReplaceStore(t)
    <3>1. store' = store
      BY <1>1, <2>1, <2>3, LoneThread
    <3>2. committed' = committed
      BY <1>1, <2>3 DEF ThreadStep, ReadRun, LoadRuns, OpenTemp, WriteTemp, ReplaceRaises, CountEvent, StampEvent, AppendEvent,
         SaveDefinition, SaveIndex, history
    <3>3. QED
      BY <2>1, <3>1, <3>2
  <2>4. QED
    BY <2>2, <2>3
<1>2. CASE Beginning
  <2>1. UNCHANGED <<store, committed>> /\ \E t, kind, r, from, s, pc : Begin(t, kind, r, from, s, pc)
    BY <1>2, BeginsLegally DEF Base
  <2>2. ~overlapped
    BY <2>1 DEF Begin
  <2>3. QED
    BY <2>1, <2>2 DEF Kept
<1>3. CASE UNCHANGED <<store, committed, overlapped>>
  BY <1>3 DEF Kept
<1>4. CASE Crash \/ Restart
  BY <1>3, <1>4 DEF Crash, Restart, history
<1>5. QED
  BY <1>1, <1>2, <1>3, <1>4, StepKinds

-----------------------------------------------------------------------------
(* Startup recovery.                                                       *)

\* A run that is not settled is still to be marked; the one whose event is being logged is settled.
Settling ==
  phase = "recovering" =>
    /\ thread["ui"].pc \in {"load", "open", "write", "replace"} => thread["ui"].entry.state = "INTERRUPTED"
    /\ thread["ui"].pc \in Logging => ~NotSettled(Load(store)[thread["ui"].run])
    /\ \A r \in Runs : NotSettled(Load(store)[r]) => r \in todo

\* The step of the UI thread while it recovers.
LEMMA MarkStep ==
    ASSUME Base, Alone, Lone, Settling, ThreadStep("ui"), phase = "recovering"
    PROVE  /\ thread'["ui"].pc \in {"load", "open", "write", "replace"} => thread'["ui"].entry.state = "INTERRUPTED"
           /\ thread'["ui"].pc \in Logging => ~NotSettled(Load(store')[thread'["ui"].run])
           /\ \A r \in Runs : NotSettled(Load(store')[r]) => r \in todo'
<1>0. PICK op, own : op = thread["ui"] /\ own = thread'["ui"]
  OBVIOUS
<1>1. "ui" \in Threads /\ Solo
  BY DEF Threads, Solo
<1>2. /\ op.pc # "idle" /\ Advance(op, thread[Other("ui")], own) /\ Marking(op) /\ op \in Call
  BY <1>0, <1>1, StepKeeps DEF Base, Types, Alone
<1>3. CASE ReplaceStore("ui")
  <2>1. /\ op.pc = "replace" /\ store' = Whole(op.base) /\ todo' = todo /\ own.pc = "count" /\ own.run = op.run
        /\ op.base = [Load(store) EXCEPT ![op.run] = op.entry] /\ op.entry.state = "INTERRUPTED"
    <3>1. op.pc = "replace" /\ store' = tmp /\ todo' = todo
      BY <1>0, <1>3 DEF ReplaceStore, app
    <3>2. op.base = [Load(store) EXCEPT ![op.run] = op.entry] /\ tmp = Whole(op.base)
      BY <1>0, <1>1, <3>1, LoneThread DEF LoneCall
    <3>3. own.pc = "count"
      <4>1. thread["ui"].pc = "replace" /\ thread' = [thread EXCEPT !["ui"].pc = "count", ![Other("ui")].fd = Renamed(@)]
        BY <1>3 DEF ReplaceStore
      <4>2. QED
        BY <1>0, <1>1, <4>1, TwoThreads DEF Base, Types, Call
    <3>4. own.run = op.run
      BY <1>2, <3>3 DEF Advance, Same
    <3>5. op.entry.state = "INTERRUPTED"
      BY <1>0, <3>1 DEF Settling
    <3>6. QED
      BY <3>1, <3>2, <3>3, <3>4, <3>5
  <2>2. Load(store') = op.base /\ Load(store) \in [Runs -> Entry] /\ op.run \in Runs
    BY <1>2, <2>1, Constants, RunsOfFile DEF Call, Load, Base, Types, Marking
  <2>3. Load(store')[op.run] = op.entry /\ \A r \in Runs \ {op.run} : Load(store')[r] = Load(store)[r]
    BY <2>1, <2>2
  <2>4. ~NotSettled(op.entry)
    BY <2>1 DEF NotSettled
  <2>5. QED
    BY <1>0, <2>1, <2>3, <2>4 DEF Settling
<1>4. CASE ~ReplaceStore("ui")
  <2>1. store' = store
    BY <1>1, <1>4, LoneThread
  <2>2. CASE ReadRun("ui")
    <3>1. op.pc = "read" /\ op.run \in Runs /\ op.kind = "interrupt" /\ op.state = "INTERRUPTED" /\ op.from = op.run
      BY <1>0, <1>2, <2>2 DEF ReadRun, Marking
    <3>2. CASE Load(store)[op.run] = NoEntry
      <4>1. todo' = todo \ {op.run} /\ own.pc = "idle"
        BY <1>0, <1>1, <2>2, <3>1, <3>2, Constants DEF ReadRun, Return, Base, Types
      <4>2. ~NotSettled(Load(store)[op.run])
        BY <3>2 DEF NotSettled
      <4>3. QED
        BY <1>0, <2>1, <4>1, <4>2 DEF Settling, Logging
    <3>3. CASE Load(store)[op.run] # NoEntry
      <4>1. todo' = todo /\ own.pc \in {"idle", "load"} /\ (own.pc = "load" => own.entry = Changed(op, Load(store)[op.run]))
        BY <1>0, <1>2, <2>2, <3>1, <3>3 DEF ReadRun, Advance
      <4>2. Load(store)[op.run] \in Entry
        BY <3>1, RunsOfFile DEF Base, Types
      <4>3. Changed(op, Load(store)[op.run]).state = "INTERRUPTED"
        BY <1>2, <3>1, <3>3, <4>2, ChangedEntry DEF Kinds, States
      <4>4. QED
        BY <1>0, <2>1, <4>1, <4>3 DEF Settling, Logging
    <3>4. QED
      BY <3>2, <3>3
  <2>3. CASE AppendEvent("ui")
    <3>1. op.pc = "append" /\ todo' = todo \ {op.run} /\ own.pc = "idle"
      BY <1>0, <1>1, <1>2, <2>3, Constants DEF AppendEvent, Marking, Return, Base, Types
    <3>2. QED
      BY <1>0, <2>1, <3>1 DEF Settling, Logging
  <2>4. CASE ~ReadRun("ui") /\ ~AppendEvent("ui")
    <3>1. todo' = todo
      BY <1>4, <2>4 DEF ThreadStep, LoadRuns, OpenTemp, WriteTemp, ReplaceRaises, CountEvent, StampEvent, SaveDefinition, SaveIndex, app
    <3>2. op.pc \notin {"read", "replace"} \/ own.pc = "idle"
      BY <1>0, <1>1, <1>4, <2>4, Constants DEF ThreadStep, LoadRuns, OpenTemp, WriteTemp, ReplaceRaises, CountEvent, StampEvent,
         SaveDefinition, SaveIndex, Return, Base, Types
    <3>3. /\ own.pc \in {"load", "open", "write", "replace"} => op.pc \in {"load", "open", "write"} /\ own.entry = op.entry
          /\ own.pc \in Logging => op.pc \in Logging /\ own.run = op.run
      BY <1>2, <3>2 DEF Advance, Same, Marking, Updating, Logging
    <3>4. QED
      BY <1>0, <2>1, <3>1, <3>3 DEF Settling
  <2>5. QED
    BY <2>2, <2>3, <2>4
<1>5. QED
  BY <1>3, <1>4

\* Whoever moves while the program recovers, no unsettled run is forgotten.
LEMMA SettlingStep == Base /\ Alone /\ Lone /\ Settling /\ [Next]_vars => Settling'
<1> SUFFICES ASSUME Base, Alone, Lone, Settling, [Next]_vars, phase' = "recovering" PROVE Settling'
  BY DEF Settling
<1>1. ASSUME NEW t \in Threads, ThreadStep(t), phase' = phase PROVE Settling'
  <2>1. t = "ui"
    BY <1>1, StepKeeps DEF Base, Alone, Threads
  <2>2. QED
    BY <1>1, <2>1, MarkStep DEF Settling
<1>2. CASE Beginning /\ phase' = phase
  <2>1. PICK t, kind, r, from, s, pc : Begin(t, kind, r, from, s, pc) /\ Legal(t, kind, r, from, s, pc)
    BY <1>2, BeginsLegally DEF Base
  <2>2. t = "ui" /\ kind = "interrupt" /\ pc = "read"
    BY <1>2, <2>1 DEF Legal
  <2>3. thread'["ui"].pc = "read" /\ UNCHANGED <<store, todo>>
    BY <1>2, <2>1, <2>2, BeginKeeps, BeginsLegally DEF Base
  <2>4. QED
    BY <1>2, <2>3 DEF Settling, Logging
<1>3. CASE UNCHANGED <<store, thread, todo, phase>>
  BY <1>3 DEF Settling
<1>4. CASE Restart
  BY <1>4 DEF Restart, Base, DownIsIdle, AllIdle, Threads, Settling, Logging
<1>5. ~Crash
  BY DEF Crash
<1>6. QED
  BY <1>1, <1>2, <1>3, <1>4, <1>5, StepKinds

-----------------------------------------------------------------------------
(* The queue and its runs.                                                 *)

Saved == queue.indexed /\ queue.file # "none"

\* Before the queue is on disk no run is in any file, and no call could put one there.
BareCall(op) == op.pc \in {"idle", "read", "definition", "index"} /\ (op.pc = "read" => op.kind \in {"replay", "interrupt"})
Bare == Load(store) = Empty /\ Load(tmp) = Empty /\ phase # "running" /\ \A t \in Threads : BareCall(thread[t])
Founded == Saved \/ Bare

\* A queue once on disk stays there, and until then no run can come into a file.
LEMMA FoundedStep == Base /\ Founded /\ [Next]_vars => Founded'
<1> SUFFICES ASSUME Base, Founded, [Next]_vars PROVE Founded'
  OBVIOUS
<1>1. CASE Saved
  <2>1. CASE \E t \in Threads : SaveDefinition(t)
    <3>1. PICK t \in Threads : SaveDefinition(t)
      BY <2>1
    <3>2. thread[t].state # "none" /\ queue' = [queue EXCEPT !.file = thread[t].state]
      BY <3>1 DEF SaveDefinition, Base, Calls, CallOK, Saving
    <3>3. QED
      BY <1>1, <3>2 DEF Base, Types, Saved, Founded
  <2>2. CASE \E t \in Threads : SaveIndex(t)
    <3>1. queue' = [queue EXCEPT !.indexed = TRUE]
      BY <2>2 DEF SaveIndex
    <3>2. QED
      BY <1>1, <3>1 DEF Base, Types, Saved, Founded
  <2>3. CASE ~(\E t \in Threads : SaveDefinition(t)) /\ ~(\E t \in Threads : SaveIndex(t))
    <3>1. CASE \E t \in Threads : ThreadStep(t)
      BY <1>1, <2>3, <3>1 DEF ThreadStep, ReadRun, LoadRuns, OpenTemp, WriteTemp, ReplaceStore, ReplaceRaises, CountEvent, StampEvent,
         AppendEvent, disk, Saved, Founded
    <3>2. CASE Beginning \/ UNCHANGED queue
      BY <1>1, <3>2, BeginsLegally DEF Base, Saved, Founded
    <3>3. CASE Crash \/ Restart
      BY <1>1, <3>3 DEF Crash, Restart, Saved, Founded
    <3>4. QED
      BY <3>1, <3>2, <3>3, StepKinds
  <2>4. QED
    BY <2>1, <2>2, <2>3
<1>2. CASE Bare /\ ~Saved
  <2>1. ASSUME NEW t \in Threads, ThreadStep(t),
               phase' = phase \/ (thread[t].kind = "queue" /\ AppendEvent(t))
        PROVE  Founded'
    <3>0. PICK op, own : op = thread[t] /\ own = thread'[t]
      OBVIOUS
    <3>1. /\ op.pc # "idle" /\ Advance(op, thread[Other(t)], own) /\ op \in Call /\ CallOK(op)
          /\ Untouched(thread[Other(t)], thread'[Other(t)]) /\ BareCall(op) /\ BareCall(thread[Other(t)])
      BY <1>2, <2>1, <3>0, StepKeeps, TwoThreads DEF Base, Types, Calls, Bare
    <3>2. BareCall(thread[Other(t)])'
      BY <3>1 DEF Untouched, BareCall
    <3>3. CASE ReadRun(t)
      <4>1. op.pc = "read" /\ op.kind # "transition" /\ Load(store)[op.from] = NoEntry
        BY <1>2, <3>0, <3>1, <3>3 DEF ReadRun, BareCall, CallOK, Updating, Bare, Empty
      <4>2. own.pc = "idle" /\ UNCHANGED <<store, tmp, phase>>
        BY <2>1, <3>0, <3>3, <4>1, Constants DEF ReadRun, Return, disk, Base, Types
      <4>3. BareCall(own)
        BY <4>2 DEF BareCall
      <4>4. QED
        BY <1>2, <3>0, <3>2, <4>2, <4>3, TwoThreads DEF Bare, Founded
    <3>4. CASE SaveDefinition(t)
      <4>1. own.pc \in {"idle", "index"} /\ UNCHANGED <<store, tmp, phase>>
        BY <3>0, <3>1, <3>4 DEF SaveDefinition, Advance, app
      <4>2. BareCall(own)
        BY <4>1 DEF BareCall
      <4>3. QED
        BY <1>2, <3>0, <3>2, <4>1, <4>2, TwoThreads DEF Bare, Founded
    <3>5. CASE SaveIndex(t)
      <4>1. queue.file # "none" /\ queue' = [queue EXCEPT !.indexed = TRUE]
        BY <2>1, <3>5 DEF SaveIndex, Base, IndexLast
      <4>2. QED
        BY <4>1 DEF Base, Types, Saved, Founded
    <3>6. QED
      BY <2>1, <3>0, <3>1, <3>3, <3>4, <3>5 DEF BareCall, ThreadStep, LoadRuns, OpenTemp, WriteTemp, ReplaceStore, ReplaceRaises,
         CountEvent, StampEvent, AppendEvent
  <2>2. CASE Beginning /\ phase' = phase
    <3>1. PICK t, kind, r, from, s, pc : Begin(t, kind, r, from, s, pc) /\ Legal(t, kind, r, from, s, pc)
      BY <2>2, BeginsLegally DEF Base
    <3>2. /\ t \in Threads /\ thread'[Other(t)] = thread[Other(t)] /\ thread'[t].pc = pc /\ thread'[t].kind = kind
      BY <3>1, BeginKeeps DEF Base
    <3>3. BareCall(thread'[t])
      BY <1>2, <3>1, <3>2 DEF Legal, Bare, BareCall
    <3>4. UNCHANGED <<store, tmp>>
      BY <2>2, BeginsLegally DEF Base
    <3>5. QED
      BY <1>2, <2>2, <3>2, <3>3, <3>4, TwoThreads DEF Bare, Founded
  <2>3. CASE UNCHANGED <<store, tmp, thread>> /\ phase' \in {phase, "ready"}
    BY <1>2, <2>3 DEF Bare, Founded
  <2>4. CASE Crash \/ Restart
    <3>1. (\A t \in Threads : thread'[t].pc = "idle") /\ UNCHANGED <<store, tmp>> /\ phase' # "running"
      BY <2>4, Constants DEF Crash, Restart, Base, DownIsIdle, AllIdle
    <3>2. QED
      BY <1>2, <3>1 DEF Bare, BareCall, Founded
  <2>5. QED
    BY <2>1, <2>2, <2>3, <2>4, StepKinds
<1>3. QED
  BY <1>1, <1>2 DEF Founded

-----------------------------------------------------------------------------

LedgerInv == Base /\ Alone /\ Lone /\ Kept /\ Settling /\ Founded

\* What the theorems about the ledger rest on.
LEMMA LedgerInvariant == Spec => []LedgerInv
<1>1. Init => LedgerInv
  <2> SUFFICES ASSUME Init PROVE LedgerInv
    OBVIOUS
  <2>1. \A t \in Threads : thread[t] = Idle
    BY DEF Init
  <2>2. /\ store = Missing /\ tmp = Missing /\ committed = Empty /\ thread \in [Threads -> Call] /\ phase = "ready" /\ ~overlapped
        /\ overlapped = FALSE /\ log = <<>> /\ job = NoJob /\ todo = {} /\ seqNo = 0
    BY Constants DEF Init
  <2>3. queue \in [file : {"none", "RUNNING", "COMPLETED", "INTERRUPTED"}, indexed : BOOLEAN]
    BY DEF Init
  <2>4. Types
    <3>1. <<>> \in Seq(Line) /\ 0 \in Int /\ FALSE \in BOOLEAN /\ {} \subseteq Runs
      OBVIOUS
    <3>2. QED
      BY <2>2, <2>3, <3>1, Constants, Zenon DEF Types
  <2>5. Calls /\ IndexLast /\ DownIsIdle /\ Alone
    BY <2>1, <2>2, Constants DEF Calls, CallOK, Updating, Saving, IndexLast, DownIsIdle, Alone
  <2>6. Lone
    BY <2>1, Constants, TwoThreads DEF Lone, LoneCall
  <2>7. Kept /\ Settling /\ Founded
    BY <2>1, <2>2, Constants DEF Kept, Settling, Founded, Bare, BareCall, Load
  <2>8. QED
    BY <2>4, <2>5, <2>6, <2>7 DEF LedgerInv, Base
<1>2. LedgerInv /\ [Next]_vars => LedgerInv'
  BY BaseStep, AloneStep, LoneStep, KeptStep, SettlingStep, FoundedStep DEF LedgerInv
<1>3. QED
  BY <1>1, <1>2, PTL DEF Spec

\* However many runs, replays and crashes there are: while the threads have taken turns the store can be read and is what
\* the completed updates made of it, and no run is in it whose queue the next start would not find (update_run_metadata,
\* start_queue).
THEOREM StoreIsKept == Spec => []StoreKept
<1>1. LedgerInv => StoreKept
  <2> SUFFICES ASSUME LedgerInv PROVE StoreReadable /\ SoloUpdatesKept /\ QueueBeforeRuns
    BY DEF StoreKept
  <2>1. StoreReadable /\ SoloUpdatesKept
    BY DEF LedgerInv, Kept, StoreReadable, SoloUpdatesKept, UpdatesKept
  <2>2. QueueBeforeRuns
    BY DEF LedgerInv, Founded, Saved, Bare, Empty, Known, QueueBeforeRuns
  <2>3. QED
    BY <2>1, <2>2
<1>2. QED
  BY <1>1, LedgerInvariant, PTL

\* A recovery that is over left every run complete or marked as interrupted, also when earlier ones were cut by a crash
\* (scan_for_interrupted_runs).
THEOREM RecoveryMarksAll == Spec => RecoverySettles
<1>1. LedgerInv /\ LedgerInv' /\ [Next]_vars =>
        [phase = "recovering" /\ phase' = "ready" => \A r \in Runs : Load(store')[r].state \in {"none", "COMPLETED", "INTERRUPTED"}]_vars
  <2> SUFFICES ASSUME LedgerInv, [Next]_vars, phase = "recovering", phase' = "ready", NEW r \in Runs
               PROVE  Load(store')[r].state \in {"none", "COMPLETED", "INTERRUPTED"}
    OBVIOUS
  <2>1. CASE store' = store /\ todo = {}
    <3>1. Load(store)[r] \in Entry /\ ~NotSettled(Load(store)[r])
      BY <2>1, RunsOfFile DEF LedgerInv, Base, Types, Settling
    <3>2. QED
      BY <2>1, <3>1 DEF NotSettled, Terminal, Entry, NoEntry
  <2>2. ASSUME NEW t \in Threads, ThreadStep(t), thread[t].kind = "queue" PROVE FALSE
    <3>1. thread[t].pc # "idle"
      BY <2>2, StepKeeps DEF LedgerInv, Base
    <3>2. QED
      BY <2>2, <3>1 DEF LedgerInv, Alone, Marking, Threads
  <2>3. ~Crash /\ ~Restart
    BY DEF Crash, Restart
  <2>4. QED
    BY <2>1, <2>2, <2>3, StepKinds DEF LedgerInv
<1>2. QED
  BY <1>1, LedgerInvariant, PTL DEF Spec, RecoverySettles

-----------------------------------------------------------------------------
(* Who writes what: the calls of the worker follow its job, those of the   *)
(* UI thread are about the queue, a replay or the recovery.                *)

FollowsJob(op) ==
  /\ job # NoJob /\ job.next - 1 \in 1..Len(WorkerCalls)
  /\ op.kind = WorkerCalls[job.next - 1].kind /\ op.state = WorkerCalls[job.next - 1].state
  /\ op.run = job.run /\ op.from = job.run

WorkerCall(op) == op.pc # "idle" => (op.kind = "queue" /\ op.run = "queue" /\ job = NoJob) \/ FollowsJob(op)

UICall(op) == op.pc # "idle" => \/ op.kind = "queue" /\ op.run = "queue" /\ op.state = "RUNNING"
                                \/ op.kind = "replay" /\ op.run \in ReplayRuns
                                \/ op.kind = "interrupt" /\ phase = "recovering"

Placed == /\ WorkerCall(thread["worker"]) /\ UICall(thread["ui"])
          /\ phase # "running" => job = NoJob

\* A slot reports what it has completed: the fourth stage is in the store before the fifth is begun.
Completed == job # NoJob /\ (job.next = Len(WorkerCalls) + 1 \/ (job.next = Len(WorkerCalls) /\ thread["worker"].pc \notin Updating))

\* What a call is about to write, or has written, is the state it logs.
Truthful(op) ==
  /\ op.pc \in {"load", "open", "write", "replace"} => op.entry.state = op.state
  /\ op.pc \in Logging /\ op.run \in Runs => Load(store)[op.run].state = op.state

Stated ==
  ~overlapped => /\ \A t \in Threads : Truthful(thread[t])
                 /\ Completed => Load(store)[job.run].state = "COMPLETED"


\* A slot's stages in the ledger, spelt out.
LEMMA Stages ==
  /\ Len(WorkerCalls) = 5
  /\ \A n \in 1..5 : WorkerCalls[n].kind # "queue" /\ WorkerCalls[n].kind # "interrupt" /\ WorkerCalls[n].kind # "replay"
  /\ \A n \in 1..5 : WorkerCalls[n].kind = "report" => n = 5
  /\ WorkerCalls[4].kind = "transition" /\ WorkerCalls[4].state = "COMPLETED" /\ WorkerCalls[5].state = "COMPLETED"
BY DEF WorkerCalls

\* A step of a thread keeps the job, or drops it with the call that has failed.
LEMMA JobKept ==
    ASSUME Base, NEW t \in Threads, ThreadStep(t)
    PROVE  job' = job \/ (job' = NoJob /\ t = "worker" /\ thread'[t].pc = "idle")
<1>1. CASE ReplaceRaises(t)
  BY <1>1, Constants DEF ReplaceRaises, Return, Base, Types
<1>2. CASE ~ReplaceRaises(t)
  BY <1>2 DEF ThreadStep, ReadRun, LoadRuns, OpenTemp, WriteTemp, ReplaceStore, CountEvent, StampEvent, AppendEvent,
     SaveDefinition, SaveIndex, app
<1>3. QED
  BY <1>1, <1>2

\* Whoever moves, the calls stay in their places.
LEMMA PlacedStep == Base /\ Alone /\ Placed /\ [Next]_vars => Placed'
<1> SUFFICES ASSUME Base, Alone, Placed, [Next]_vars PROVE Placed'
  OBVIOUS
<1>1. ASSUME NEW t \in Threads, ThreadStep(t),
             phase' = phase \/ (thread[t].kind = "queue" /\ AppendEvent(t))
      PROVE  Placed'
  <2>1. /\ Untouched(thread[Other(t)], thread'[Other(t)]) /\ thread[t].pc # "idle"
        /\ thread'[t].pc = "idle" \/ Same(thread[t], thread'[t])
    BY <1>1, StepKeeps DEF Base, Advance
  <2>2. job' = job \/ (job' = NoJob /\ t = "worker" /\ thread'[t].pc = "idle")
    BY <1>1, JobKept
  <2>3. CASE t = "worker"
    <3>1. Other(t) = "ui" /\ phase # "recovering"
      BY <2>1, <2>3 DEF Other, Alone
    <3>2. thread["worker"].kind = "queue" => job = NoJob
      BY <2>1, <2>3, Stages DEF Placed, WorkerCall, FollowsJob
    <3>3. WorkerCall(thread["worker"])'
      BY <2>1, <2>2, <2>3 DEF Placed, WorkerCall, FollowsJob, Same
    <3>4. UICall(thread["ui"])'
      BY <2>1, <3>1 DEF Placed, UICall, Untouched
    <3>5. phase' # "running" => job' = NoJob
      BY <1>1, <2>2, <2>3, <3>2 DEF Placed
    <3>6. QED
      BY <3>3, <3>4, <3>5 DEF Placed
  <2>4. CASE t = "ui"
    <3>1. Other(t) = "worker" /\ job' = job
      BY <2>2, <2>4 DEF Other
    <3>2. WorkerCall(thread["worker"])'
      BY <2>1, <3>1 DEF Placed, WorkerCall, FollowsJob, Untouched
    <3>3. UICall(thread["ui"])'
      BY <1>1, <2>1, <2>4 DEF Placed, UICall, Same
    <3>4. phase' # "running" => phase' = phase
      BY <1>1, <2>1, <2>4 DEF Placed, UICall, AppendEvent
    <3>5. QED
      BY <3>1, <3>2, <3>3, <3>4 DEF Placed
  <2>5. QED
    BY <2>3, <2>4 DEF Threads
<1>2. CASE Beginning
  <2>0. phase' = phase /\ Other("worker") = "ui" /\ Other("ui") = "worker" /\ {"ui", "worker"} \subseteq Threads
    BY <1>2, BeginsLegally DEF Base, Other, Threads
  <2>1. CASE RecordStage
    <3>1. /\ phase = "running" /\ job \in [run : SlotRuns, next : Nat \ {0}] /\ job.next \in 1..Len(WorkerCalls)
          /\ job' = [job EXCEPT !.next = @ + 1]
      BY <2>1 DEF RecordStage, Base, Types, WorkerCalls
    <3>2. PICK call : call = WorkerCalls[job.next] /\ Begin("worker", call.kind, job.run, job.run, call.state, "read")
      BY <2>1 DEF RecordStage
    <3>3. call.kind \in {"transition", "snapshot", "report"} /\ call.state \in States
      BY <3>1, <3>2, StageCalls
    <3>4. Legal("worker", call.kind, job.run, job.run, call.state, "read")
      BY <3>1, <3>3 DEF Legal, Threads, Runs, Kinds
    <3>5. /\ thread'["ui"] = thread["ui"] /\ thread'["worker"].kind = call.kind /\ thread'["worker"].run = job.run
          /\ thread'["worker"].from = job.run /\ thread'["worker"].state = call.state
      BY <2>0, <3>2, <3>4, BeginKeeps DEF Base
    <3>6. job'.next - 1 = job.next /\ job'.run = job.run /\ job' # NoJob
      BY <3>1 DEF NoJob
    <3>7. WorkerCall(thread["worker"])'
      BY <3>1, <3>2, <3>5, <3>6 DEF WorkerCall, FollowsJob
    <3>8. QED
      BY <2>0, <3>1, <3>5, <3>7 DEF Placed, UICall
  <2>2. CASE FinishQueue
    <3>1. PICK s \in {"COMPLETED", "INTERRUPTED"} : Begin("worker", "queue", "queue", "queue", s, "definition")
      BY <2>2 DEF FinishQueue
    <3>2. phase = "running" /\ job = NoJob /\ job' = job
      BY <2>2 DEF FinishQueue, app
    <3>3. Legal("worker", "queue", "queue", "queue", s, "definition")
      BY <3>1, <3>2 DEF Legal, Threads, Kinds
    <3>4. thread'["ui"] = thread["ui"] /\ thread'["worker"].kind = "queue" /\ thread'["worker"].run = "queue"
      BY <2>0, <3>1, <3>3, BeginKeeps DEF Base
    <3>5. QED
      BY <2>0, <3>2, <3>4 DEF Placed, UICall, WorkerCall
  <2>3. CASE StartQueue
    <3>1. Begin("ui", "queue", "queue", "queue", "RUNNING", "definition") /\ phase = "ready" /\ job' = job
      BY <2>3 DEF StartQueue, app
    <3>2. Legal("ui", "queue", "queue", "queue", "RUNNING", "definition")
      BY <3>1 DEF Legal, Threads, Kinds
    <3>3. /\ thread'["worker"] = thread["worker"] /\ thread'["ui"].kind = "queue" /\ thread'["ui"].run = "queue"
          /\ thread'["ui"].state = "RUNNING"
      BY <2>0, <3>1, <3>2, BeginKeeps DEF Base
    <3>4. QED
      BY <2>0, <3>1, <3>3 DEF Placed, UICall, WorkerCall, FollowsJob
  <2>4. CASE ReplayRun
    <3>1. PICK original \in Runs, r \in ReplayRuns : Begin("ui", "replay", r, original, "CREATED", "read")
      BY <2>4 DEF ReplayRun
    <3>2. phase \in {"ready", "running"} /\ job' = job
      BY <2>4 DEF ReplayRun, app
    <3>3. Legal("ui", "replay", r, original, "CREATED", "read")
      BY <3>1, <3>2 DEF Legal, Threads, Kinds, States, Runs
    <3>4. thread'["worker"] = thread["worker"] /\ thread'["ui"].kind = "replay" /\ thread'["ui"].run = r
      BY <2>0, <3>1, <3>3, BeginKeeps DEF Base
    <3>5. QED
      BY <2>0, <3>2, <3>4 DEF Placed, UICall, WorkerCall, FollowsJob
  <2>5. CASE MarkInterrupted
    <3>1. PICK r \in todo : Begin("ui", "interrupt", r, r, "INTERRUPTED", "read")
      BY <2>5 DEF MarkInterrupted
    <3>2. phase = "recovering" /\ job' = job
      BY <2>5 DEF MarkInterrupted, app
    <3>3. Legal("ui", "interrupt", r, r, "INTERRUPTED", "read")
      BY <3>1, <3>2 DEF Legal, Threads, Kinds, States, Base, Types
    <3>4. thread'["worker"] = thread["worker"] /\ thread'["ui"].kind = "interrupt"
      BY <2>0, <3>1, <3>3, BeginKeeps DEF Base
    <3>5. QED
      BY <2>0, <3>2, <3>4 DEF Placed, UICall, WorkerCall, FollowsJob
  <2>6. QED
    BY <1>2, <2>1, <2>2, <2>3, <2>4, <2>5 DEF Beginning
<1>3. CASE TakeSlot \/ LeaveSlot \/ EndRecovery \/ UNCHANGED vars
  <2>1. CASE TakeSlot \/ LeaveSlot
    BY <2>1 DEF TakeSlot, LeaveSlot, Placed, WorkerCall, UICall
  <2>2. CASE EndRecovery
    BY <2>2 DEF EndRecovery, Placed, WorkerCall, UICall, FollowsJob
  <2>3. CASE UNCHANGED vars
    BY <2>3 DEF vars, app, Placed, WorkerCall, UICall, FollowsJob
  <2>4. QED
    BY <1>3, <2>1, <2>2, <2>3
<1>4. CASE Crash
  BY <1>4, Constants DEF Crash, Placed, WorkerCall, UICall, Threads
<1>5. CASE Restart
  BY <1>5 DEF Restart, Base, DownIsIdle, AllIdle, Threads, Placed, WorkerCall, UICall
<1>6. QED
  BY <1>1, <1>2, <1>3, <1>4, <1>5, ThreadPhase DEF Next, Beginning

\* Every call but a report gives its own state to the entry it writes.
LEMMA ChangedState ==
    ASSUME NEW op \in Call, op.kind \in Kinds \ {"queue", "report"}, op.state \in States, NEW old \in Entry,
           old # NoEntry \/ op.kind = "transition"
    PROVE  Changed(op, old).state = op.state
<1>1. op.kind \in {"transition", "snapshot", "interrupt", "replay"}
  BY DEF Kinds
<1>2. old # NoEntry => [old EXCEPT !.state = op.state].state = op.state
  BY DEF Entry
<1>3. CASE op.kind \in {"transition", "interrupt"}
  BY <1>2, <1>3 DEF Changed
<1>4. CASE op.kind \in {"snapshot", "replay"}
  BY <1>4 DEF Changed
<1>5. QED
  BY <1>1, <1>3, <1>4

\* What a lone call puts into the store: its own entry, and nothing else.
LEMMA StoreStep ==
    ASSUME Base, Lone, Solo, NEW t \in Threads, ReplaceStore(t)
    PROVE  /\ thread[t].pc = "replace" /\ thread'[t].pc = "count"
           /\ thread[t].run \in Runs /\ thread[t].kind # "queue"
           /\ Load(store') = [Load(store) EXCEPT ![thread[t].run] = thread[t].entry]
           /\ Load(store')[thread[t].run] = thread[t].entry
           /\ \A r \in Runs \ {thread[t].run} : Load(store')[r] = Load(store)[r]
<1>0. PICK op : op = thread[t]
  OBVIOUS
<1>1. ThreadStep(t) /\ op.pc = "replace" /\ store' = tmp
  BY <1>0 DEF ThreadStep, ReplaceStore
<1>2. op.base = [Load(store) EXCEPT ![op.run] = op.entry] /\ tmp = Whole(op.base)
  BY <1>0, <1>1, LoneThread DEF LoneCall
<1>3. op \in Call /\ op.run \in Runs /\ op.kind # "queue"
  BY <1>0, <1>1 DEF Base, Types, Calls, CallOK, Updating
<1>4. Load(store') = op.base /\ Load(store) \in [Runs -> Entry]
  BY <1>1, <1>2, <1>3, Constants, RunsOfFile DEF Call, Load, Base, Types
<1>5. thread'[t].pc = "count"
  <2>1. thread' = [thread EXCEPT ![t].pc = "count", ![Other(t)].fd = Renamed(@)]
    BY DEF ReplaceStore
  <2>2. QED
    BY <2>1, TwoThreads DEF Base, Types, Call
<1>6. QED
  BY <1>0, <1>1, <1>2, <1>3, <1>4, <1>5

\* The names of runs are not those of the queue, nor the marks of a spoilt line.
LEMMA RunNames == /\ \A r \in Runs : r \notin {"queue", "cut", "spoilt"}
                  /\ IsFiniteSet(Runs) /\ \A r \in SlotRuns : r \notin ReplayRuns /\ r \in Runs
BY LedgerConstants DEF Runs

\* A lone call writes and logs what it says.
LEMMA TruthfulStep ==
    ASSUME Base, Lone, Placed, Stated, ~overlapped, NEW t \in Threads, ThreadStep(t)
    PROVE  Truthful(thread[t])'
<1>0. PICK op, own : op = thread[t] /\ own = thread'[t]
  OBVIOUS
<1>1. /\ op.pc # "idle" /\ Advance(op, thread[Other(t)], own) /\ op \in Call /\ CallOK(op) /\ Truthful(op) /\ Solo
  BY <1>0, StepKeeps DEF Base, Types, Calls, Stated, Solo
<1>2. ~ReplaceStore(t) => store' = store
  BY <1>1, LoneThread
<1>3. op.kind = "queue" => op.run = "queue"
  BY <1>0, <1>1, Stages DEF Placed, WorkerCall, UICall, FollowsJob, Threads
<1>4. CASE own.pc = "load"
  <2>1. /\ op.pc = "read" /\ own.entry = Changed(op, Load(store)[op.from]) /\ Same(op, own)
        /\ op.kind # "transition" => Load(store)[op.from] # NoEntry
    BY <1>1, <1>4 DEF Advance
  <2>2. op.kind \in Kinds \ {"queue"} /\ op.from \in Runs /\ op.state \in States /\ Load(store)[op.from] \in Entry
    BY <1>1, <2>1, RunsOfFile DEF CallOK, Updating, Base, Types
  <2>3. Changed(op, Load(store)[op.from]).state = op.state
    <3>1. CASE op.kind # "report"
      BY <1>1, <2>1, <2>2, <3>1, ChangedState
    <3>2. CASE op.kind = "report"
      <4>1. t = "worker"
        BY <1>0, <1>1, <3>2 DEF Placed, UICall, Threads
      <4>2. FollowsJob(op) /\ job.next - 1 = 5
        BY <1>0, <1>1, <3>2, <4>1, Stages DEF Placed, WorkerCall, FollowsJob
      <4>3. op.from = job.run /\ op.state = "COMPLETED" /\ job # NoJob
        BY <4>2, Stages DEF FollowsJob
      <4>4. job.next = 6
        <5>1. job.next \in Nat
          BY <4>3 DEF Base, Types
        <5>2. QED
          BY <4>2, <5>1
      <4>5. Load(store)[job.run].state = "COMPLETED"
        BY <4>3, <4>4, Stages DEF Completed, Stated
      <4>6. QED
        BY <3>2, <4>3, <4>5 DEF Changed
    <3>3. QED
      BY <3>1, <3>2
  <2>4. QED
    BY <1>0, <1>4, <2>1, <2>3 DEF Truthful, Same, Logging
<1>5. CASE own.pc \in {"open", "write", "replace"}
  <2>1. Same(op, own) /\ own.entry = op.entry /\ op.pc \in {"load", "open", "write"}
    BY <1>1, <1>5 DEF Advance
  <2>2. QED
    BY <1>0, <1>1, <1>5, <2>1 DEF Truthful, Same, Logging
<1>6. CASE own.pc \in Logging
  <2>1. Same(op, own) /\ op.pc \in {"replace", "count", "stamp", "index"}
    BY <1>1, <1>6 DEF Advance, Logging
  <2>2. CASE ReplaceStore(t)
    <3>1. Load(store')[op.run] = op.entry /\ op.pc = "replace" /\ own.pc = "count"
      BY <1>0, <1>1, <2>2, StoreStep
    <3>2. QED
      BY <1>0, <1>1, <2>1, <3>1 DEF Truthful, Same
  <2>3. CASE ~ReplaceStore(t)
    <3>1. op.pc # "replace"
      <4>1. ReplaceRaises(t) => own.pc = "idle"
        BY <1>0, Constants DEF ReplaceRaises, Return, Base, Types
      <4>2. QED
        BY <1>0, <1>6, <2>3, <4>1 DEF ThreadStep, ReadRun, LoadRuns, OpenTemp, WriteTemp, CountEvent, StampEvent, AppendEvent,
           SaveDefinition, SaveIndex, Logging
    <3>2. op.pc = "index" => op.run \notin Runs
      BY <1>1, <1>3, RunNames DEF CallOK, Saving
    <3>3. QED
      BY <1>0, <1>1, <1>2, <1>6, <2>1, <2>3, <3>1, <3>2 DEF Truthful, Same, Logging
  <2>4. QED
    BY <2>2, <2>3
<1>7. CASE own.pc \notin {"load", "open", "write", "replace"} \union Logging
  BY <1>0, <1>7 DEF Truthful
<1>8. QED
  BY <1>4, <1>5, <1>6, <1>7

\* What a slot has completed stays completed, and is when its fourth call has replaced the store.
LEMMA CompletedStep ==
    ASSUME Base, Alone, Lone, Placed, Stated, ~overlapped, NEW t \in Threads, ThreadStep(t), Completed'
    PROVE  Load(store')[job'.run].state = "COMPLETED"
<1>0. PICK op, own : op = thread[t] /\ own = thread'[t]
  OBVIOUS
<1>1. /\ op.pc # "idle" /\ Advance(op, thread[Other(t)], own) /\ op \in Call /\ CallOK(op) /\ Truthful(op) /\ Solo
      /\ Untouched(thread[Other(t)], thread'[Other(t)])
  BY <1>0, StepKeeps DEF Base, Types, Calls, Stated, Solo
<1>2. job' = job /\ job # NoJob /\ job \in [run : SlotRuns, next : Nat \ {0}] /\ job.run \in Runs
  BY JobKept, RunNames DEF Completed, Base, Types
<1>3. CASE t = "ui"
  <2>1. Completed
    BY <1>1, <1>2, <1>3 DEF Completed, Untouched, Other
  <2>2. CASE ReplaceStore(t)
    <3>1. op.kind # "queue" /\ \A r \in Runs \ {op.run} : Load(store')[r] = Load(store)[r]
      BY <1>0, <1>1, <2>2, StoreStep
    <3>2. phase = "running"
      BY <1>2 DEF Placed
    <3>3. op.run \in ReplayRuns
      BY <1>0, <1>1, <1>3, <3>1, <3>2 DEF Placed, UICall
    <3>4. job.run # op.run
      BY <1>2, <3>3, RunNames
    <3>5. QED
      BY <1>2, <2>1, <3>1, <3>4 DEF Stated
  <2>3. CASE ~ReplaceStore(t)
    BY <1>1, <1>2, <2>1, <2>3, LoneThread DEF Stated
  <2>4. QED
    BY <2>2, <2>3
<1>4. CASE t = "worker"
  <2>1. op.kind = "queue" \/ FollowsJob(op)
    BY <1>0, <1>1, <1>4 DEF Placed, WorkerCall
  <2>2. CASE ReplaceStore(t)
    <3>1. /\ op.kind # "queue" /\ op.pc = "replace" /\ own.pc = "count"
          /\ Load(store')[op.run] = op.entry
      BY <1>0, <1>1, <2>2, StoreStep
    <3>2. FollowsJob(op) /\ op.run = job.run /\ op.entry.state = op.state
      BY <1>1, <2>1, <3>1 DEF FollowsJob, Truthful
    <3>3. job.next = 5 \/ job.next = 6
      BY <1>2, Stages DEF Completed
    <3>4. op.state = "COMPLETED"
      BY <1>2, <3>2, <3>3, Stages DEF FollowsJob
    <3>5. QED
      BY <1>2, <3>1, <3>2, <3>4
  <2>3. CASE ~ReplaceStore(t)
    <3>1. store' = store
      BY <1>1, <2>3, LoneThread
    <3>2. Completed
      <4>1. SUFFICES ASSUME job.next = 5, op.pc \in Updating PROVE FALSE
        BY <1>0, <1>2, <1>4, Stages DEF Completed
      <4>2. FollowsJob(op) /\ op.kind = "transition"
        BY <1>1, <2>1, <4>1, Stages DEF FollowsJob, CallOK
      <4>3. own.pc \notin Updating
        BY <1>0, <1>2, <1>4, <4>1, Stages DEF Completed
      <4>4. own.pc = "idle" \/ op.pc = "replace"
        BY <1>1, <4>1, <4>3 DEF Advance, Updating
      <4>5. ReadRun(t) => own.pc = "load"
        BY <1>0, <4>2 DEF ReadRun, Base, Types, Call
      <4>6. ~ReadRun(t)
        BY <4>3, <4>5 DEF Updating
      <4>7. ReplaceRaises(t)
        BY <1>0, <2>3, <4>1, <4>3, <4>4, <4>6 DEF ThreadStep, LoadRuns, OpenTemp, WriteTemp, CountEvent, StampEvent, AppendEvent,
           SaveDefinition, SaveIndex, Updating, Base, Types, Call
      <4>8. QED
        BY <1>2, <1>4, <4>7 DEF ReplaceRaises
    <3>3. QED
      BY <1>2, <3>1, <3>2 DEF Stated
  <2>4. QED
    BY <2>2, <2>3
<1>5. QED
  BY <1>3, <1>4 DEF Threads

\* While the threads take turns no call writes or logs a state other than its own.
LEMMA StatedStep == Base /\ Alone /\ Lone /\ Placed /\ Stated /\ [Next]_vars => Stated'
<1> SUFFICES ASSUME Base, Alone, Lone, Placed, Stated, [Next]_vars, ~overlapped'
             PROVE  (/\ \A t \in Threads : Truthful(thread[t])
                     /\ Completed => Load(store)[job.run].state = "COMPLETED")'
  BY DEF Stated
<1>1. ASSUME NEW t \in Threads, ThreadStep(t), ~overlapped
      PROVE  (/\ \A u \in Threads : Truthful(thread[u])
              /\ Completed => Load(store)[job.run].state = "COMPLETED")'
  <2>1. thread'[Other(t)].pc = "idle"
    BY <1>1, LoneThread, StepKeeps DEF Base, Untouched, Solo
  <2>2. Truthful(thread[Other(t)])'
    BY <2>1 DEF Truthful, Logging
  <2>3. QED
    BY <1>1, <2>2, TruthfulStep, CompletedStep, TwoThreads
<1>2. CASE Beginning
  <2>1. PICK t, kind, r, from, s, pc : Begin(t, kind, r, from, s, pc) /\ Legal(t, kind, r, from, s, pc)
    BY <1>2, BeginsLegally DEF Base
  <2>2. /\ t \in Threads /\ thread'[Other(t)] = thread[Other(t)] /\ thread'[t].pc = pc /\ thread[t].pc = "idle"
        /\ overlapped' = (overlapped \/ thread[Other(t)].pc # "idle")
    BY <2>1, BeginKeeps DEF Base
  <2>p. pc \in {"read", "definition"} /\ ~overlapped
    BY <2>1, <2>2 DEF Legal
  <2>3. store' = store
    BY <1>2, BeginsLegally DEF Base
  <2>4. Truthful(thread[t])' /\ Truthful(thread[Other(t)])'
    BY <2>2, <2>p, <2>3, TwoThreads DEF Truthful, Logging, Stated
  <2>5. CASE RecordStage
    <3>1. /\ job \in [run : SlotRuns, next : Nat \ {0}] /\ job' = [job EXCEPT !.next = @ + 1] /\ job # NoJob
          /\ thread["worker"].pc = "idle"
      BY <2>5 DEF RecordStage, Begin, Base, Types
    <3>2. job'.run = job.run /\ job'.next = job.next + 1
      BY <3>1
    <3>3. thread'["worker"].pc = "read"
      BY <2>5, Constants DEF RecordStage, Begin, Base, Types, Idle, Threads
    <3>4. Completed' => Completed
      BY <3>1, <3>2, <3>3, Stages DEF Completed, Updating
    <3>5. QED
      BY <2>2, <2>p, <2>3, <2>4, <3>2, <3>4, TwoThreads DEF Stated
  <2>6. CASE ~RecordStage
    <3>1. job' = job
      BY <1>2, <2>6 DEF Beginning, FinishQueue, StartQueue, ReplayRun, MarkInterrupted, app
    <3>2. Completed' => Completed
      <4>1. CASE FinishQueue
        BY <3>1, <4>1 DEF FinishQueue, Completed
      <4>2. CASE StartQueue \/ ReplayRun \/ MarkInterrupted
        <5>1. thread'["worker"] = thread["worker"]
          BY <4>2 DEF StartQueue, ReplayRun, MarkInterrupted, Begin, Base, Types, Threads
        <5>2. QED
          BY <3>1, <5>1 DEF Completed
      <4>3. QED
        BY <1>2, <2>6, <4>1, <4>2 DEF Beginning
    <3>3. QED
      BY <2>2, <2>p, <2>3, <2>4, <3>1, <3>2, TwoThreads DEF Stated
  <2>7. QED
    BY <2>5, <2>6
<1>3. CASE TakeSlot \/ LeaveSlot \/ EndRecovery \/ UNCHANGED vars
  <2>1. UNCHANGED <<store, thread, overlapped>>
    BY <1>3 DEF TakeSlot, LeaveSlot, EndRecovery, vars, disk, app, history
  <2>2. \A t \in Threads : Truthful(thread[t])'
    BY <2>1 DEF Truthful, Stated
  <2>3. Completed' => Completed /\ job' = job
    <3>1. CASE TakeSlot
      BY <3>1, Stages DEF TakeSlot, Completed
    <3>2. CASE LeaveSlot
      BY <3>2 DEF LeaveSlot, Completed
    <3>3. CASE EndRecovery \/ UNCHANGED vars
      BY <2>1, <3>3 DEF EndRecovery, vars, app, Completed
    <3>4. QED
      BY <1>3, <3>1, <3>2, <3>3
  <2>4. QED
    BY <2>1, <2>2, <2>3 DEF Stated
<1>4. CASE Crash \/ Restart
  <2>1. \A t \in Threads : thread'[t].pc = "idle"
    BY <1>4, Constants DEF Crash, Restart, Base, DownIsIdle, AllIdle
  <2>2. job' = NoJob
    BY <1>4 DEF Crash, Restart, Placed
  <2>3. QED
    BY <2>1, <2>2 DEF Truthful, Logging, Completed
<1>5. QED
  BY <1>1, <1>2, <1>3, <1>4, ThreadPhase DEF Next, Beginning

-----------------------------------------------------------------------------
(* The log.                                                                *)

\* The numbers a call is about to write are above those of the log.
Above(op) ==
  /\ op.pc = "stamp" => \A i \in DOMAIN log : log[i].seq < seqNo
  /\ op.pc = "append" => op.stamp <= seqNo /\ \A i \in DOMAIN log : log[i].seq < op.stamp

Numbered ==
  /\ SeqNoGrows
  /\ ~overlapped /\ Unread = {} =>
       /\ phase # "down" => \A i \in DOMAIN log : log[i].seq <= seqNo
       /\ \A t \in Threads : Above(thread[t])

Lines(r) == {i \in DOMAIN log : log[i].run = r}
HasLast == \A r \in Runs : Lines(r) = {} \/ \E i \in Lines(r) : \A j \in Lines(r) : j <= i

\* The runs the log is behind with, and the run whose line is being written.
Behind == {r \in Runs : LastLogged(r) # Load(store)[r].state}
InHand == {thread[t].run : t \in {u \in Threads : thread[u].pc \in Logging}}
EndsCut == IF log # <<>> /\ log[Len(log)] = Cut THEN 1 ELSE 0

\* The log owes a line for every crash, and one for every line lost behind a cut one: a cut one that is the last has
\* cost nothing yet.
Owing == crashes \in Nat /\ (~overlapped => Cardinality(Behind \ InHand) + EndsCut <= crashes + Cardinality(Unread))

LogInv == LedgerInv /\ Placed /\ Stated /\ Numbered /\ HasLast /\ Owing

\* A line written behind a cut one is lost with it; any other is added to the log.
Lost == /\ EndsCut = 1 /\ EndsCut' = 0 /\ Len(log) \in Unread /\ Len(log) \in DOMAIN log
        /\ DOMAIN log' = DOMAIN log /\ log'[Len(log)] = Spoilt
        /\ \A i \in DOMAIN log : i # Len(log) => log'[i] = log[i]
        /\ Unread' = Unread
Added(line) == /\ EndsCut = 0 /\ EndsCut' = (IF line = Cut THEN 1 ELSE 0)
               /\ log' = Append(log, line) /\ log # log'
               /\ Len(log') = Len(log) + 1 /\ DOMAIN log' = 1..(Len(log) + 1) /\ log'[Len(log) + 1] = line
               /\ \A i \in DOMAIN log : log'[i] = log[i]
               /\ Unread' = IF line \in {Cut, Spoilt} THEN Unread \union {Len(log) + 1} ELSE Unread

\* Each line is lost or added.
LEMMA LineStep ==
    ASSUME Types, NEW line \in Line, log' = WithLine(line)
    PROVE  (Lost \/ Added(line)) /\ Len(log) \in Nat /\ DOMAIN log = 1..Len(log)
<1>1. log \in Seq(Line) /\ Len(log) \in Nat /\ DOMAIN log = 1..Len(log) /\ Spoilt # Cut
  BY DEF Types, Spoilt, Cut
<1>2. CASE log # <<>> /\ log[Len(log)] = Cut
  <2>1. Len(log) \in DOMAIN log
    BY <1>1, <1>2
  <2>2. /\ DOMAIN log' = DOMAIN log /\ log'[Len(log)] = Spoilt /\ \A i \in DOMAIN log : i # Len(log) => log'[i] = log[i]
        /\ Len(log') = Len(log)
    BY <1>1, <1>2, <2>1 DEF WithLine
  <2>3. Unread' = Unread /\ Len(log) \in Unread
    BY <1>2, <2>1, <2>2 DEF Unread
  <2>4. EndsCut = 1 /\ EndsCut' = 0
    BY <1>1, <1>2, <2>2 DEF EndsCut
  <2>5. QED
    BY <1>1, <2>1, <2>2, <2>3, <2>4 DEF Lost
<1>3. CASE ~(log # <<>> /\ log[Len(log)] = Cut)
  <2>1. log' = Append(log, line)
    BY <1>3 DEF WithLine
  <2>2. /\ Len(log') = Len(log) + 1 /\ DOMAIN log' = 1..(Len(log) + 1) /\ log'[Len(log) + 1] = line
        /\ \A i \in DOMAIN log : log'[i] = log[i]
    BY <1>1, <2>1
  <2>3. Unread' = IF line \in {Cut, Spoilt} THEN Unread \union {Len(log) + 1} ELSE Unread
    <3>1. \A i : i \in Unread' <=> (i \in DOMAIN log /\ log[i] \in {Cut, Spoilt}) \/ (i = Len(log) + 1 /\ line \in {Cut, Spoilt})
      BY <1>1, <2>2 DEF Unread
    <3>2. QED
      BY <3>1 DEF Unread
  <2>4. EndsCut = 0 /\ EndsCut' = (IF line = Cut THEN 1 ELSE 0)
    <3>1. log' # <<>>
      BY <1>1, <2>2
    <3>2. QED
      BY <1>3, <2>2, <3>1 DEF EndsCut
  <2>5. log # log'
    BY <1>1, <2>2
  <2>6. QED
    BY <1>1, <2>1, <2>2, <2>3, <2>4, <2>5 DEF Added
<1>4. QED
  BY <1>2, <1>3

EventLine(op) == [seq |-> op.stamp, run |-> op.run, state |-> op.state]

\* The line an event writes is a line, and no mark of a crash.
LEMMA EventIsLine ==
    ASSUME Base, NEW t \in Threads, AppendEvent(t)
    PROVE  LET line == EventLine(thread[t])
           IN  /\ line \in Line /\ log' = WithLine(line) /\ (thread[t].run \in Runs \union {"queue"} => line \notin {Cut, Spoilt})
               /\ line.seq = thread[t].stamp /\ line.run = thread[t].run /\ line.state = thread[t].state
<1>1. PICK op : op = thread[t]
  OBVIOUS
<1>2. op \in Call /\ log' = WithLine(EventLine(op))
  BY <1>1 DEF Base, Types, AppendEvent, EventLine
<1>3. EventLine(op) \in Line
  BY <1>2 DEF EventLine, Call, Line
<1>4. op.run \in Runs \union {"queue"} => EventLine(op) \notin {Cut, Spoilt}
  <2>1. Cut.run = "cut" /\ Spoilt.run = "spoilt" /\ EventLine(op).run = op.run
    BY DEF Cut, Spoilt, EventLine
  <2>2. QED
    BY <2>1, RunNames
<1>5. QED
  BY <1>1, <1>2, <1>3, <1>4 DEF EventLine

\* What a crash writes is one, too.
LEMMA CutIsLine == Cut \in Line
BY DEF Cut, Line

\* The steps, by what they do to the log.
LEMMA LogSteps ==
    ASSUME Base, [Next]_vars
    PROVE  \/ \E t \in Threads : AppendEvent(t)
           \/ Crash
           \/ UNCHANGED <<log, crashes>>
<1>1. CASE \E t \in Threads : ThreadStep(t)
  BY <1>1 DEF ThreadStep, ReadRun, LoadRuns, OpenTemp, WriteTemp, ReplaceStore, ReplaceRaises, CountEvent, StampEvent,
     SaveDefinition, SaveIndex, disk, history
<1>2. CASE Beginning
  BY <1>2 DEF Beginning, RecordStage, FinishQueue, StartQueue, ReplayRun, MarkInterrupted, disk
<1>3. CASE TakeSlot \/ LeaveSlot \/ EndRecovery \/ Restart \/ UNCHANGED vars
  BY <1>3 DEF TakeSlot, LeaveSlot, EndRecovery, Restart, vars, disk, history
<1>4. QED
  BY <1>1, <1>2, <1>3 DEF Next, Beginning

\* The numbers of the readable log grow with every line.
LEMMA GrowsStep == Base /\ Numbered /\ [Next]_vars => SeqNoGrows'
<1> SUFFICES ASSUME Base, Numbered, [Next]_vars, ~overlapped',
                    NEW i \in DOMAIN log', NEW j \in DOMAIN log', i < j, \A k \in Unread' : k > j
             PROVE  log'[i].seq < log'[j].seq
  BY DEF SeqNoGrows
<1>0. Types
  BY DEF Base
<1>1. ~overlapped
  BY StepKinds DEF Crash, Restart, history, Beginning, RecordStage, FinishQueue, StartQueue, ReplayRun, MarkInterrupted, Begin
<1>2. ASSUME Lost PROVE log'[i].seq < log'[j].seq
  <2>1. j < Len(log) /\ i \in DOMAIN log /\ j \in DOMAIN log /\ \A k \in Unread : k > j
    BY <1>2 DEF Lost
  <2>2. Len(log) \in Nat /\ DOMAIN log = 1..Len(log)
    BY <1>0 DEF Types
  <2>3. log'[i] = log[i] /\ log'[j] = log[j]
    BY <1>2, <2>1, <2>2 DEF Lost
  <2>4. QED
    BY <1>1, <2>1, <2>3 DEF Numbered, SeqNoGrows
<1>3. ASSUME NEW line \in Line, Added(line), j # Len(log) + 1 PROVE log'[i].seq < log'[j].seq
  <2>1. Len(log) \in Nat /\ DOMAIN log = 1..Len(log)
    BY <1>0 DEF Types
  <2>d. i \in 1..(Len(log) + 1) /\ j \in 1..(Len(log) + 1) /\ \A k \in DOMAIN log : log'[k] = log[k]
    BY <1>3 DEF Added
  <2>2. i \in DOMAIN log /\ j \in DOMAIN log /\ log'[i] = log[i] /\ log'[j] = log[j]
    BY <1>3, <2>1, <2>d
  <2>3. \A k \in Unread : k > j
    BY <1>3 DEF Added
  <2>4. QED
    BY <1>1, <2>2, <2>3 DEF Numbered, SeqNoGrows
<1>4. ASSUME NEW t \in Threads, AppendEvent(t) PROVE log'[i].seq < log'[j].seq
  <2>1. PICK line : line = EventLine(thread[t])
    OBVIOUS
  <2>2. line \in Line /\ log' = WithLine(line) /\ line.seq = thread[t].stamp /\ thread[t].pc = "append"
    BY <1>4, <2>1, EventIsLine DEF AppendEvent
  <2>3. CASE Added(line) /\ j = Len(log) + 1
    <3>1. Len(log) \in Nat /\ DOMAIN log = 1..Len(log)
      BY <1>0 DEF Types
    <3>2. Unread = {}
      <4>1. \A k \in Unread : k \in 1..Len(log) /\ k > Len(log) + 1
        BY <2>3, <3>1 DEF Added, Unread
      <4>2. QED
        BY <3>1, <4>1
    <3>d. i \in 1..(Len(log) + 1) /\ log'[Len(log) + 1] = line /\ \A k \in DOMAIN log : log'[k] = log[k]
      BY <2>3 DEF Added
    <3>3. i \in DOMAIN log /\ log'[i] = log[i] /\ log'[j] = line
      BY <2>3, <3>1, <3>d
    <3>4. log[i].seq < thread[t].stamp
      BY <1>1, <2>2, <3>2, <3>3 DEF Numbered, Above
    <3>5. QED
      BY <2>2, <3>3, <3>4
  <2>4. QED
    BY <1>0, <1>2, <1>3, <2>2, <2>3, LineStep
<1>5. CASE Crash /\ log' # log
  <2>1. log' = WithLine(Cut)
    BY <1>5 DEF Crash
  <2>2. CASE Added(Cut)
    <3>1. j # Len(log) + 1
      BY <2>2 DEF Added
    <3>2. QED
      BY <1>3, <2>2, <3>1, CutIsLine
  <2>3. QED
    BY <1>0, <1>2, <2>1, <2>2, LineStep, CutIsLine
<1>6. CASE log' = log
  BY <1>1, <1>6 DEF Unread, Numbered, SeqNoGrows
<1>7. QED
  BY <1>4, <1>5, <1>6, LogSteps

\* The counter stays above the readable log, through a restart too.
LEMMA NumberedStep == Base /\ Alone /\ Lone /\ Numbered /\ [Next]_vars => Numbered'
<1> SUFFICES ASSUME Base, Alone, Lone, Numbered, [Next]_vars, ~overlapped', Unread' = {}
             PROVE  (/\ phase # "down" => \A i \in DOMAIN log : log[i].seq <= seqNo
                     /\ \A t \in Threads : Above(thread[t]))'
  BY GrowsStep DEF Numbered
<1>0. Types /\ seqNo \in Int /\ log \in Seq(Line) /\ Len(log) \in Nat /\ DOMAIN log = 1..Len(log)
      /\ \A i \in DOMAIN log : log[i].seq \in Int
  <2>1. \A line \in Line : line.seq \in Int
    BY DEF Line
  <2>2. log \in Seq(Line) /\ seqNo \in Int /\ Types
    BY DEF Base, Types
  <2>3. \A i \in DOMAIN log : log[i] \in Line
    BY <2>2
  <2>4. QED
    BY <2>1, <2>2, <2>3
<1>1. ASSUME NEW t \in Threads, ThreadStep(t), ~overlapped
      PROVE  (/\ phase # "down" => \A i \in DOMAIN log : log[i].seq <= seqNo
              /\ \A u \in Threads : Above(thread[u]))'
  <2>0. PICK op, own : op = thread[t] /\ own = thread'[t]
    OBVIOUS
  <2>1. /\ op.pc # "idle" /\ op \in Call /\ thread'[Other(t)].pc = "idle" /\ Above(thread[Other(t)])'
        /\ Advance(op, thread[Other(t)], own) /\ phase # "down"
    <3>1. op.pc # "idle" /\ op \in Call /\ Untouched(thread[Other(t)], thread'[Other(t)]) /\ Advance(op, thread[Other(t)], own)
      BY <1>1, <2>0, StepKeeps DEF Base, Types
    <3>2. thread'[Other(t)].pc = "idle"
      BY <1>1, <3>1, LoneThread DEF Solo, Untouched
    <3>3. QED
      BY <2>0, <3>1, <3>2 DEF Above, Base, DownIsIdle, AllIdle
  <2>2. CASE AppendEvent(t)
    <3>1. PICK line : line = EventLine(op)
      OBVIOUS
    <3>2. line \in Line /\ log' = WithLine(line) /\ line.seq = op.stamp /\ op.pc = "append" /\ seqNo' = seqNo
      BY <2>0, <2>2, <3>1, EventIsLine DEF AppendEvent
    <3>3. Added(line) /\ Unread = {}
      BY <1>0, <3>2, LineStep DEF Lost, Added
    <3>4. op.stamp <= seqNo /\ \A i \in DOMAIN log : log[i].seq <= seqNo
      BY <1>1, <2>0, <2>1, <3>2, <3>3 DEF Numbered, Above
    <3>5. \A i \in DOMAIN log' : log'[i].seq <= seqNo'
      <4>1. DOMAIN log' = 1..(Len(log) + 1) /\ log'[Len(log) + 1] = line /\ \A k \in DOMAIN log : log'[k] = log[k]
        BY <3>3 DEF Added
      <4>2. \A k \in 1..(Len(log) + 1) : k \in DOMAIN log \/ k = Len(log) + 1
        BY <1>0
      <4>3. QED
        BY <3>2, <3>4, <4>1, <4>2
    <3>6. own.pc = "idle"
      BY <2>0, <2>2, Constants DEF AppendEvent, Return, Base, Types
    <3>7. QED
      BY <2>0, <2>1, <3>5, <3>6, TwoThreads DEF Above
  <2>3. CASE CountEvent(t)
    <3>1. op.pc = "count" /\ own.pc = "stamp" /\ seqNo' = seqNo + 1 /\ log' = log
      BY <2>0, <2>1, <2>3, Constants DEF CountEvent, Goto, disk, Base, Types
    <3>2. \A i \in DOMAIN log : log[i].seq <= seqNo
      BY <1>1, <2>1, <3>1 DEF Numbered, Unread
    <3>3. (\A i \in DOMAIN log' : log'[i].seq <= seqNo') /\ Above(own)'
      BY <1>0, <2>0, <3>1, <3>2 DEF Above
    <3>4. QED
      BY <2>0, <2>1, <3>3, TwoThreads
  <2>4. CASE StampEvent(t)
    <3>1. op.pc = "stamp" /\ own.pc = "append" /\ own.stamp = seqNo /\ seqNo' = seqNo /\ log' = log
      BY <2>0, <2>4, Constants DEF StampEvent, disk, Base, Types, Call
    <3>2. /\ \A i \in DOMAIN log : log[i].seq <= seqNo
          /\ \A i \in DOMAIN log : log[i].seq < seqNo
      BY <1>1, <2>0, <2>1, <3>1 DEF Numbered, Unread, Above
    <3>3. Above(thread[t])'
      BY <1>0, <2>0, <3>1, <3>2 DEF Above
    <3>4. QED
      BY <2>1, <3>1, <3>2, <3>3, TwoThreads
  <2>5. CASE ~AppendEvent(t) /\ ~CountEvent(t) /\ ~StampEvent(t)
    <3>1. log' = log /\ seqNo' = seqNo /\ op.pc \notin Logging
      BY <1>1, <2>0, <2>5 DEF ThreadStep, ReadRun, LoadRuns, OpenTemp, WriteTemp, ReplaceStore, ReplaceRaises, SaveDefinition, SaveIndex,
         disk, Logging
    <3>2. own.pc \notin {"stamp", "append"}
      BY <2>1, <3>1 DEF Advance, Logging
    <3>3. QED
      BY <1>1, <2>0, <2>1, <3>1, <3>2, TwoThreads DEF Numbered, Unread, Above
  <2>6. QED
    BY <2>2, <2>3, <2>4, <2>5
<1>2. CASE Beginning
  <2>1. PICK t, kind, r, from, s, pc : Begin(t, kind, r, from, s, pc) /\ Legal(t, kind, r, from, s, pc)
    BY <1>2, BeginsLegally DEF Base
  <2>2. /\ t \in Threads /\ thread'[Other(t)] = thread[Other(t)] /\ thread'[t].pc = pc
        /\ overlapped' = (overlapped \/ thread[Other(t)].pc # "idle")
    BY <2>1, BeginKeeps DEF Base
  <2>3. pc \in {"read", "definition"} /\ ~overlapped /\ phase # "down"
    BY <2>1, <2>2 DEF Legal
  <2>4. UNCHANGED <<log, seqNo, phase>>
    BY <1>2, BeginsLegally DEF Base
  <2>5. QED
    BY <2>2, <2>3, <2>4, TwoThreads DEF Numbered, Unread, Above
<1>3. CASE TakeSlot \/ LeaveSlot \/ EndRecovery \/ UNCHANGED vars
  <2>1. UNCHANGED <<log, seqNo, thread, overlapped>> /\ (phase' # "down" => phase # "down")
    BY <1>3 DEF TakeSlot, LeaveSlot, EndRecovery, vars, disk, app, history
  <2>2. QED
    BY <2>1 DEF Numbered, Unread, Above
<1>4. CASE Crash
  BY <1>4, Constants DEF Crash, Above
<1>5. CASE Restart
  <2>1. log' = log /\ seqNo' = LastSeqNo /\ ~overlapped /\ Unread = {} /\ \A t \in Threads : thread'[t].pc = "idle"
    BY <1>5 DEF Restart, Base, DownIsIdle, AllIdle, history, Unread
  <2>2. \A i \in DOMAIN log : log[i].seq <= LastSeqNo
    <3> SUFFICES ASSUME NEW i \in DOMAIN log PROVE log[i].seq <= log[Len(log)].seq
      BY <1>0 DEF LastSeqNo
    <3>1. i = Len(log) \/ (i < Len(log) /\ Len(log) \in DOMAIN log)
      BY <1>0
    <3>2. i < Len(log) => log[i].seq < log[Len(log)].seq
      BY <2>1, <3>1 DEF Numbered, SeqNoGrows
    <3>3. QED
      BY <1>0, <3>1, <3>2
  <2>3. QED
    BY <2>1, <2>2 DEF Above
<1>6. QED
  BY <1>1, <1>2, <1>3, <1>4, <1>5, ThreadPhase DEF Next, Beginning


\* A run whose lines are as they were was logged last as it was.
LEMMA LastSame ==
    ASSUME HasLast, NEW r \in Runs, Lines(r)' = Lines(r), \A i \in Lines(r) : log'[i] = log[i]
    PROVE  LastLogged(r)' = LastLogged(r)
<1> DEFINE last == CHOOSE i \in Lines(r) : \A j \in Lines(r) : j <= i
<1>1. Lines(r) # {} => last \in Lines(r)
  BY DEF HasLast
<1>2. LastLogged(r) = IF Lines(r) = {} THEN "none" ELSE log[last].state
  BY DEF LastLogged, Lines
<1>3. LastLogged(r)' = IF Lines(r)' = {} THEN "none" ELSE log'[CHOOSE i \in Lines(r)' : \A j \in Lines(r)' : j <= i].state
  BY DEF LastLogged, Lines
<1>4. LastLogged(r)' = IF Lines(r) = {} THEN "none" ELSE log'[last].state
  BY <1>3
<1> HIDE DEF last
<1>5. QED
  BY <1>1, <1>2, <1>4

\* What a line does to the lines of a run: nothing, or it is their last.
LEMMA LinesStep ==
    ASSUME Types, NEW line \in Line, Lost \/ Added(line), NEW r \in Runs
    PROVE  /\ \A i \in Lines(r) : log'[i] = log[i]
           /\ Lost \/ line.run # r => Lines(r)' = Lines(r)
           /\ Added(line) /\ line.run = r => Lines(r)' = Lines(r) \union {Len(log) + 1} /\ \A i \in Lines(r) : i <= Len(log)
<1>1. Len(log) \in Nat /\ DOMAIN log = 1..Len(log) /\ r # "cut" /\ r # "spoilt" /\ Cut.run = "cut" /\ Spoilt.run = "spoilt"
  BY RunNames DEF Types, Cut, Spoilt
<1>2. CASE Lost
  <2>1. log[Len(log)] = Cut
    BY <1>2 DEF Lost, EndsCut
  <2>2. DOMAIN log' = DOMAIN log /\ log'[Len(log)] = Spoilt /\ \A i \in DOMAIN log : i # Len(log) => log'[i] = log[i]
    BY <1>2 DEF Lost
  <2>3. \A i \in Lines(r) : i # Len(log) /\ i \in DOMAIN log
    BY <1>1, <2>1 DEF Lines
  <2>4. Lines(r)' = Lines(r)
    BY <1>1, <2>1, <2>2 DEF Lines
  <2>5. ~Added(line)
    BY <1>2 DEF Lost, Added
  <2>6. QED
    BY <2>2, <2>3, <2>4, <2>5
<1>3. CASE Added(line)
  <2>1. DOMAIN log' = 1..(Len(log) + 1) /\ log'[Len(log) + 1] = line /\ \A i \in DOMAIN log : log'[i] = log[i]
    BY <1>3 DEF Added
  <2>2. ~Lost
    BY <1>3 DEF Lost, Added
  <2>3. \A i : i \in 1..(Len(log) + 1) <=> i \in DOMAIN log \/ i = Len(log) + 1
    BY <1>1
  <2>4. Len(log) + 1 \notin DOMAIN log /\ \A i \in Lines(r) : i \in DOMAIN log /\ i <= Len(log)
    BY <1>1 DEF Lines
  <2>5. line.run # r => Lines(r)' = Lines(r)
    BY <2>1, <2>3, <2>4 DEF Lines
  <2>6. line.run = r => Lines(r)' = Lines(r) \union {Len(log) + 1}
    BY <2>1, <2>3, <2>4 DEF Lines
  <2>7. QED
    BY <2>1, <2>2, <2>4, <2>5, <2>6
<1>4. QED
  BY <1>2, <1>3

\* A run was logged last what its new line says.
LEMMA LastNew ==
    ASSUME Types, NEW line \in Line, Added(line), line.run \in Runs
    PROVE  LastLogged(line.run)' = line.state
<1> DEFINE r == line.run
           n == Len(log) + 1
<1>1. Lines(r)' = Lines(r) \union {n} /\ (\A i \in Lines(r) : i <= Len(log)) /\ Len(log) \in Nat /\ Lines(r) \subseteq Nat
  BY LinesStep DEF Types, Lines
<1>2. LastLogged(r)' = IF Lines(r)' = {} THEN "none" ELSE log'[CHOOSE i \in Lines(r)' : \A j \in Lines(r)' : j <= i].state
  BY DEF LastLogged, Lines
<1>3. n \in Lines(r)' /\ (\A j \in Lines(r)' : j <= n) /\ \A i \in Lines(r)' : (\A j \in Lines(r)' : j <= i) => i = n
  <2>1. PICK m : m = Lines(r)'
    OBVIOUS
  <2>2. n \in Int /\ n \in m /\ \A i \in m : i \in Int /\ i <= n
    BY <1>1, <2>1
  <2> HIDE DEF n
  <2>3. \A i \in m : (\A j \in m : j <= i) => i = n
    BY <2>2
  <2>4. QED
    BY <2>1, <2>2, <2>3
<1>4. (CHOOSE i \in Lines(r)' : \A j \in Lines(r)' : j <= i) = n
  BY <1>3
<1>5. log'[n] = line
  BY DEF Added
<1>6. QED
  BY <1>2, <1>3, <1>4, <1>5

\* The lines written, from the steps.
LEMMA Written ==
    ASSUME Base, [Next]_vars, log' # log
    PROVE  \E line \in Line : log' = WithLine(line) /\ (Lost \/ Added(line))
<1>1. ASSUME NEW line \in Line, log' = WithLine(line) PROVE Lost \/ Added(line)
  BY <1>1, LineStep DEF Base
<1>2. CASE \E t \in Threads : AppendEvent(t)
  BY <1>1, <1>2, EventIsLine
<1>3. CASE Crash
  BY <1>1, <1>3, CutIsLine DEF Crash
<1>4. QED
  BY <1>2, <1>3, LogSteps

\* Every run that is in the log has a last line there.
LEMMA HasLastStep == Base /\ HasLast /\ [Next]_vars => HasLast'
<1> SUFFICES ASSUME Base, HasLast, [Next]_vars, NEW r \in Runs
             PROVE  Lines(r)' = {} \/ \E i \in Lines(r)' : \A j \in Lines(r)' : j <= i
  BY DEF HasLast
<1>1. CASE log' = log
  BY <1>1 DEF HasLast, Lines
<1>2. CASE log' # log
  <2>1. PICK line \in Line : Lost \/ Added(line)
    BY <1>2, Written
  <2>2. CASE Lines(r)' = Lines(r)
    BY <2>2 DEF HasLast
  <2>3. CASE Lines(r)' # Lines(r)
    <3>1. Added(line) /\ Lines(r)' = Lines(r) \union {Len(log) + 1} /\ \A i \in Lines(r) : i <= Len(log)
      BY <2>1, <2>3, LinesStep DEF Base
    <3>2. Len(log) \in Nat /\ Lines(r) \subseteq Nat
      BY DEF Base, Types, Lines
    <3>3. QED
      BY <3>1, <3>2
  <2>4. QED
    BY <2>2, <2>3
<1>3. QED
  BY <1>1, <1>2

\* What is counted is finite.
LEMMA Counted ==
    ASSUME Types
    PROVE  /\ IsFiniteSet(Behind) /\ Behind \subseteq Runs /\ IsFiniteSet(Behind \ InHand) /\ IsFiniteSet(Unread)
           /\ Cardinality(Behind) \in Nat /\ Cardinality(Behind \ InHand) \in Nat /\ Cardinality(Unread) \in Nat
           /\ EndsCut \in {0, 1}
<1>1. Behind \in SUBSET Runs /\ Behind \ InHand \in SUBSET Runs
  BY DEF Behind
<1>2. IsFiniteSet(Behind) /\ IsFiniteSet(Behind \ InHand)
  BY <1>1, RunNames, FS_Subset
<1>3. IsFiniteSet(Unread)
  <2>1. IsFiniteSet(1..Len(log))
    BY FS_Interval DEF Types
  <2>2. Unread \in SUBSET (1..Len(log))
    BY DEF Unread, Types
  <2>3. QED
    BY <2>1, <2>2, FS_Subset
<1>4. QED
  BY <1>1, <1>2, <1>3, FS_CardinalityType DEF EndsCut

\* A set is at most one larger than what is left of it without one element.
LEMMA OneMore ==
    ASSUME NEW S, NEW T, NEW x, IsFiniteSet(T), S \subseteq T \union {x}
    PROVE  IsFiniteSet(S) /\ Cardinality(S) <= Cardinality(T) + 1
<1>1. IsFiniteSet(T \union {x}) /\ Cardinality(T \union {x}) <= Cardinality(T) + 1
  <2>1. Cardinality(T) \in Nat
    BY FS_CardinalityType
  <2>2. IsFiniteSet(T \union {x}) /\ Cardinality(T \union {x}) = IF x \in T THEN Cardinality(T) ELSE Cardinality(T) + 1
    BY FS_AddElement
  <2>3. QED
    BY <2>1, <2>2
<1>2. S \in SUBSET (T \union {x})
  OBVIOUS
<1>3. IsFiniteSet(S) /\ Cardinality(S) <= Cardinality(T \union {x})
  BY <1>1, <1>2, FS_Subset
<1>4. Cardinality(S) \in Nat /\ Cardinality(T) \in Nat /\ Cardinality(T \union {x}) \in Nat
  BY <1>1, <1>3, FS_CardinalityType
<1>5. QED
  BY <1>1, <1>3, <1>4

\* While the threads take turns one line at most is in hand.
LEMMA OneInHand ==
    ASSUME Base, Lone, Solo
    PROVE  \E x : InHand \subseteq {x}
<1>1. CASE \A t \in Threads : thread[t].pc \notin Logging
  BY <1>1 DEF InHand
<1>2. CASE \E t \in Threads : thread[t].pc \in Logging
  <2>1. PICK t \in Threads : thread[t].pc \in Logging
    BY <1>2
  <2>2. thread[Other(t)].pc = "idle"
    BY <2>1 DEF Lone, Logging
  <2>3. \A u \in Threads : thread[u].pc \in Logging => u = t
    BY <2>2, TwoThreads DEF Logging
  <2>4. InHand \subseteq {thread[t].run}
    BY <2>3 DEF InHand
  <2>5. QED
    BY <2>4
<1>3. QED
  BY <1>1, <1>2

\* The runs that are behind after a line, with the store as it was.
LEMMA BehindStep ==
    ASSUME Base, HasLast, store' = store, NEW line \in Line, Lost \/ Added(line)
    PROVE  /\ Lost \/ line.run \notin Runs => Behind' = Behind
           /\ Added(line) /\ line.run \in Runs /\ Load(store)[line.run].state = line.state => Behind' \subseteq Behind \ {line.run}
<1>0. Types
  BY DEF Base
<1>1. \A r \in Runs : Lost \/ line.run # r => LastLogged(r)' = LastLogged(r)
  <2> SUFFICES ASSUME NEW r \in Runs, Lost \/ line.run # r PROVE LastLogged(r)' = LastLogged(r)
    OBVIOUS
  <2>1. Lines(r)' = Lines(r) /\ \A i \in Lines(r) : log'[i] = log[i]
    BY <1>0, LinesStep
  <2>2. QED
    BY <2>1, LastSame
<1>2. Lost \/ line.run \notin Runs => Behind' = Behind
  BY <1>1 DEF Behind
<1>3. ASSUME Added(line), line.run \in Runs, Load(store)[line.run].state = line.state PROVE Behind' \subseteq Behind \ {line.run}
  <2>1. LastLogged(line.run)' = line.state
    BY <1>0, <1>3, LastNew
  <2>2. QED
    BY <1>1, <1>3, <2>1 DEF Behind
<1>4. QED
  BY <1>2, <1>3

\* The run of a lone call is a run, or the queue.
LEMMA RunInHand ==
    ASSUME Base, Alone, Placed, NEW t \in Threads, thread[t].pc # "idle"
    PROVE  thread[t].run \in Runs \union {"queue"}
<1>1. CASE t = "worker"
  BY <1>1 DEF Placed, WorkerCall, FollowsJob, Base, Types, Runs
<1>2. CASE t = "ui"
  BY <1>2 DEF Placed, UICall, Alone, Marking, Runs
<1>3. QED
  BY <1>1, <1>2 DEF Threads

\* What the thread that is alone owes.
LEMMA OwingThread ==
    ASSUME Base, Alone, Lone, Placed, Stated, HasLast, Owing, ~overlapped, NEW t \in Threads, ThreadStep(t)
    PROVE  Cardinality(Behind' \ InHand') + EndsCut' <= crashes' + Cardinality(Unread')
<1>0. PICK op, own : op = thread[t] /\ own = thread'[t]
  OBVIOUS
<1>1. /\ Solo /\ op.pc # "idle" /\ op \in Call /\ Advance(op, thread[Other(t)], own) /\ Truthful(op)
      /\ thread[Other(t)].pc = "idle" /\ thread'[Other(t)].pc = "idle" /\ op.run \in Runs \union {"queue"}
  <2>1. op.pc # "idle" /\ op \in Call /\ Advance(op, thread[Other(t)], own) /\ Untouched(thread[Other(t)], thread'[Other(t)])
    BY <1>0, StepKeeps DEF Base, Types
  <2>2. Solo /\ thread[Other(t)].pc = "idle" /\ Truthful(op)
    BY <1>0, LoneThread DEF Solo, Stated
  <2>3. QED
    BY <1>0, <2>1, <2>2, RunInHand DEF Untouched
<1>2. /\ InHand = IF op.pc \in Logging THEN {op.run} ELSE {}
      /\ InHand' = IF own.pc \in Logging THEN {own.run} ELSE {}
  <2>1. \A u \in Threads : u = t \/ u = Other(t)
    BY TwoThreads
  <2>2. {u \in Threads : thread[u].pc \in Logging} = IF op.pc \in Logging THEN {t} ELSE {}
    BY <1>0, <1>1, <2>1 DEF Logging
  <2>3. {u \in Threads : thread'[u].pc \in Logging} = IF own.pc \in Logging THEN {t} ELSE {}
    BY <1>0, <1>1, <2>1 DEF Logging
  <2>4. QED
    BY <1>0, <2>2, <2>3 DEF InHand
<1>f. /\ IsFiniteSet(Behind) /\ IsFiniteSet(Behind \ InHand) /\ Cardinality(Behind) \in Nat /\ Cardinality(Behind \ InHand) \in Nat
      /\ Cardinality(Unread) \in Nat /\ EndsCut \in {0, 1} /\ crashes \in Nat
      /\ Cardinality(Behind \ InHand) + EndsCut <= crashes + Cardinality(Unread)
  BY Counted DEF Base, Owing
<1>c. crashes' = crashes
  BY DEF ThreadStep, ReadRun, LoadRuns, OpenTemp, WriteTemp, ReplaceStore, ReplaceRaises, CountEvent, StampEvent, AppendEvent,
     SaveDefinition, SaveIndex, history
<1>3. CASE AppendEvent(t)
  <2>1. PICK line : line = EventLine(op)
    OBVIOUS
  <2>2. /\ line \in Line /\ log' = WithLine(line) /\ line \notin {Cut, Spoilt} /\ line.run = op.run /\ line.state = op.state
        /\ op.pc = "append" /\ store' = store
    BY <1>0, <1>1, <1>3, <2>1, EventIsLine DEF AppendEvent
  <2>3. InHand = {op.run} /\ InHand' = {}
    BY <1>0, <1>2, <1>3, <2>2, Constants DEF AppendEvent, Return, Base, Types, Logging
  <2>4. CASE Lost
    <3>1. Behind' = Behind /\ EndsCut = 1 /\ EndsCut' = 0 /\ Unread' = Unread
      BY <2>2, <2>4, BehindStep DEF Lost
    <3>2. Behind \subseteq (Behind \ InHand) \union {op.run}
      BY <2>3
    <3>3. Cardinality(Behind) <= Cardinality(Behind \ InHand) + 1
      BY <1>f, <3>2, OneMore
    <3>4. Behind' \ InHand' = Behind
      BY <2>3, <3>1
    <3>5. QED
      BY <1>f, <1>c, <3>1, <3>3, <3>4
  <2>5. CASE Added(line)
    <3>1. EndsCut = 0 /\ EndsCut' = 0 /\ Unread' = Unread
      BY <2>2, <2>5 DEF Added
    <3>2. Behind' \subseteq Behind \ {op.run}
      <4>1. CASE op.run \in Runs
        <5>1. Load(store)[op.run].state = op.state
          BY <1>1, <2>2, <4>1 DEF Truthful, Logging
        <5>2. QED
          BY <2>2, <2>5, <4>1, <5>1, BehindStep
      <4>2. CASE op.run \notin Runs
        <5>1. Behind' = Behind
          BY <2>2, <2>5, <4>2, BehindStep
        <5>2. QED
          BY <4>2, <5>1 DEF Behind
      <4>3. QED
        BY <4>1, <4>2
    <3>3. (Behind' \ InHand') \in SUBSET (Behind \ InHand)
      BY <2>3, <3>2
    <3>4. Cardinality(Behind' \ InHand') <= Cardinality(Behind \ InHand) /\ IsFiniteSet(Behind' \ InHand')
      BY <1>f, <3>3, FS_Subset
    <3>5. Cardinality(Behind' \ InHand') \in Nat
      BY <3>4, FS_CardinalityType
    <3>6. QED
      BY <1>f, <1>c, <3>1, <3>4, <3>5
  <2>6. QED
    BY <2>2, <2>4, <2>5, LineStep DEF Base
<1>4. CASE ~AppendEvent(t)
  <2>1. log' = log
    BY <1>4 DEF ThreadStep, ReadRun, LoadRuns, OpenTemp, WriteTemp, ReplaceStore, ReplaceRaises, CountEvent, StampEvent,
       SaveDefinition, SaveIndex, disk
  <2>2. EndsCut' = EndsCut /\ Unread' = Unread /\ \A r \in Runs : LastLogged(r)' = LastLogged(r)
    BY <2>1 DEF EndsCut, Unread, LastLogged
  <2>3. (Behind' \ InHand') \in SUBSET (Behind \ InHand)
    <3>1. CASE ReplaceStore(t)
      <4>1. /\ op.pc = "replace" /\ own.pc = "count" /\ \A r \in Runs \ {op.run} : Load(store')[r] = Load(store)[r]
        BY <1>0, <1>1, <3>1, StoreStep
      <4>2. own.run = op.run
        BY <1>1, <4>1 DEF Advance, Same
      <4>3. InHand = {} /\ InHand' = {op.run}
        BY <1>2, <4>1, <4>2 DEF Logging
      <4>4. QED
        BY <2>2, <4>1, <4>3 DEF Behind
    <3>2. CASE ~ReplaceStore(t)
      <4>1. store' = store
        BY <1>1, <3>2, LoneThread
      <4>2. Behind' = Behind
        BY <2>2, <4>1 DEF Behind
      <4>3. op.pc \in Logging => own.pc \in Logging /\ own.run = op.run
        <5>1. op.pc \in Logging => own.pc # "idle"
          BY <1>0, <1>4 DEF ThreadStep, ReadRun, LoadRuns, OpenTemp, WriteTemp, ReplaceStore, ReplaceRaises, CountEvent, StampEvent,
             SaveDefinition, SaveIndex, Logging, Goto, Base, Types, Call
        <5>2. QED
          BY <1>1, <5>1 DEF Advance, Same, Logging
      <4>4. InHand \subseteq InHand'
        BY <1>2, <4>3
      <4>5. QED
        BY <4>2, <4>4
    <3>3. QED
      BY <3>1, <3>2
  <2>4. Cardinality(Behind' \ InHand') <= Cardinality(Behind \ InHand) /\ IsFiniteSet(Behind' \ InHand')
    BY <1>f, <2>3, FS_Subset
  <2>5. Cardinality(Behind' \ InHand') \in Nat
    BY <2>4, FS_CardinalityType
  <2>6. QED
    BY <1>f, <1>c, <2>2, <2>4, <2>5
<1>5. QED
  BY <1>3, <1>4

\* A crash owes the line that was in hand.
LEMMA OwingCrash ==
    ASSUME Base, Lone, HasLast, Owing, ~overlapped, Crash
    PROVE  Cardinality(Behind' \ InHand') + EndsCut' <= crashes' + Cardinality(Unread')
<1>1. /\ IsFiniteSet(Behind) /\ IsFiniteSet(Behind \ InHand) /\ Cardinality(Behind) \in Nat /\ Cardinality(Behind \ InHand) \in Nat
      /\ IsFiniteSet(Unread) /\ Cardinality(Unread) \in Nat /\ EndsCut \in {0, 1} /\ crashes \in Nat
      /\ Cardinality(Behind \ InHand) + EndsCut <= crashes + Cardinality(Unread) /\ Types
  BY Counted DEF Base, Owing
<1>2. crashes' = crashes + 1 /\ store' = store /\ InHand' = {}
  BY Constants DEF Crash, InHand, Logging
<1>3. Cardinality(Behind) <= Cardinality(Behind \ InHand) + 1
  <2>1. PICK x : InHand \subseteq {x}
    BY OneInHand DEF Solo
  <2>2. Behind \subseteq (Behind \ InHand) \union {x}
    BY <2>1
  <2>3. QED
    BY <1>1, <2>2, OneMore
<1>4. Behind' \ InHand' = Behind'
  BY <1>2
<1>5. CASE log' = log
  <2>1. EndsCut' = EndsCut /\ Unread' = Unread /\ Behind' = Behind
    BY <1>2, <1>5 DEF EndsCut, Unread, Behind, LastLogged
  <2>2. QED
    BY <1>1, <1>2, <1>3, <1>4, <2>1
<1>6. CASE log' # log
  <2>1. log' = WithLine(Cut)
    BY <1>6 DEF Crash
  <2>2. CASE Lost
    <3>1. EndsCut = 1 /\ EndsCut' = 0 /\ Unread' = Unread /\ Behind' = Behind
      BY <1>2, <2>2, BehindStep, CutIsLine DEF Lost
    <3>2. QED
      BY <1>1, <1>2, <1>3, <1>4, <3>1
  <2>3. CASE Added(Cut)
    <3>1. EndsCut = 0 /\ EndsCut' = 1 /\ Unread' = Unread \union {Len(log) + 1}
      BY <2>3 DEF Added
    <3>2. Behind' = Behind
      <4>1. Cut.run \notin Runs
        BY RunNames DEF Cut
      <4>2. QED
        BY <1>2, <2>3, <4>1, BehindStep, CutIsLine
    <3>3. Cardinality(Unread') = Cardinality(Unread) + 1
      <4>1. Len(log) + 1 \notin Unread
        BY <1>1 DEF Unread, Types
      <4>2. QED
        BY <1>1, <3>1, <4>1, FS_AddElement
    <3>4. QED
      BY <1>1, <1>2, <1>3, <1>4, <3>1, <3>2, <3>3
  <2>4. QED
    BY <1>1, <2>1, <2>2, <2>3, LineStep, CutIsLine
<1>7. QED
  BY <1>5, <1>6

\* No step owes more lines than crashes and lost lines account for.
LEMMA OwingStep == Base /\ Alone /\ Lone /\ Placed /\ Stated /\ HasLast /\ Owing /\ [Next]_vars => Owing'
<1> SUFFICES ASSUME Base, Alone, Lone, Placed, Stated, HasLast, Owing, [Next]_vars PROVE Owing'
  OBVIOUS
<1>1. ASSUME NEW t \in Threads, ThreadStep(t) PROVE Owing'
  <2>1. crashes' = crashes /\ overlapped' = overlapped
    BY <1>1 DEF ThreadStep, ReadRun, LoadRuns, OpenTemp, WriteTemp, ReplaceStore, ReplaceRaises, CountEvent, StampEvent, AppendEvent,
       SaveDefinition, SaveIndex, history
  <2>2. QED
    BY <1>1, <2>1, OwingThread DEF Owing
<1>2. ASSUME UNCHANGED <<store, log, crashes>>, ~overlapped' => ~overlapped /\ InHand' = InHand PROVE Owing'
  <2>1. Behind' = Behind /\ EndsCut' = EndsCut /\ Unread' = Unread
    BY <1>2 DEF Behind, EndsCut, Unread, LastLogged
  <2>2. QED
    BY <1>2, <2>1 DEF Owing
<1>3. CASE Beginning
  <2>1. PICK t, kind, r, from, s, pc : Begin(t, kind, r, from, s, pc) /\ Legal(t, kind, r, from, s, pc)
    BY <1>3, BeginsLegally DEF Base
  <2>2. /\ t \in Threads /\ thread'[Other(t)] = thread[Other(t)] /\ thread'[t].pc = pc /\ thread[t].pc = "idle"
        /\ overlapped' = (overlapped \/ thread[Other(t)].pc # "idle")
    BY <2>1, BeginKeeps DEF Base
  <2>3. pc \notin Logging
    BY <2>1 DEF Legal, Logging
  <2>4. UNCHANGED <<store, log, crashes>>
    BY <1>3, BeginsLegally DEF Base, Beginning, RecordStage, FinishQueue, StartQueue, ReplayRun, MarkInterrupted
  <2>5. InHand' = InHand
    <3>1. \A u \in Threads : u = t \/ u = Other(t)
      BY <2>2, TwoThreads
    <3>2. \A u \in Threads : /\ thread'[u].pc \in Logging <=> thread[u].pc \in Logging
                             /\ thread[u].pc \in Logging => thread'[u] = thread[u]
      BY <2>2, <2>3, <3>1 DEF Logging
    <3>3. QED
      BY <3>2 DEF InHand
  <2>6. QED
    BY <1>2, <2>2, <2>4, <2>5
<1>4. CASE TakeSlot \/ LeaveSlot \/ EndRecovery \/ Restart \/ UNCHANGED vars
  <2>1. UNCHANGED <<store, log, crashes, thread, overlapped>>
    BY <1>4 DEF TakeSlot, LeaveSlot, EndRecovery, Restart, vars, disk, app, history
  <2>2. QED
    BY <1>2, <2>1 DEF InHand
<1>5. CASE Crash
  <2>1. overlapped' = overlapped /\ crashes' = crashes + 1
    BY <1>5 DEF Crash
  <2>2. QED
    BY <1>5, <2>1, OwingCrash DEF Owing
<1>6. QED
  BY <1>1, <1>3, <1>4, <1>5 DEF Next, Beginning

\* What the theorem about the log rests on.
LEMMA LogInvariant == Spec => []LogInv
<1>1. Init => Placed /\ Stated /\ Numbered /\ HasLast /\ Owing
  <2> SUFFICES ASSUME Init PROVE Placed /\ Stated /\ Numbered /\ HasLast /\ Owing
    OBVIOUS
  <2>1. /\ \A t \in Threads : thread[t].pc = "idle"
        /\ log = <<>> /\ job = NoJob /\ store = Missing /\ crashes = 0 /\ phase = "ready"
    BY Constants DEF Init
  <2>2. Placed /\ Stated
    BY <2>1, Stages DEF Placed, WorkerCall, UICall, Stated, Truthful, Logging, Completed, Threads
  <2>3. DOMAIN log = {}
    BY <2>1
  <2>4. Numbered /\ HasLast
    BY <2>1, <2>3 DEF Numbered, SeqNoGrows, Above, HasLast, Lines
  <2>5. Owing
    <3>1. \A r \in Runs : LastLogged(r) = "none" /\ Load(store)[r].state = "none"
      BY <2>1, <2>3 DEF LastLogged, Load, Missing, Empty, NoEntry
    <3>2. Behind \ InHand = {} /\ Unread = {} /\ EndsCut = 0
      BY <2>1, <2>3, <3>1 DEF Behind, Unread, EndsCut
    <3>3. Cardinality(Behind \ InHand) = 0 /\ Cardinality(Unread) = 0
      BY <3>2, FS_EmptySet
    <3>4. QED
      BY <2>1, <3>2, <3>3 DEF Owing
  <2>6. QED
    BY <2>2, <2>4, <2>5
<1>2. LedgerInv /\ LedgerInv' /\ Placed /\ Stated /\ Numbered /\ HasLast /\ Owing /\ [Next]_vars
        => (Placed /\ Stated /\ Numbered /\ HasLast /\ Owing)'
  BY PlacedStep, StatedStep, NumberedStep, HasLastStep, OwingStep DEF LedgerInv
<1>3. QED
  BY <1>1, <1>2, LedgerInvariant, PTL DEF Spec, LogInv

\* The line the log gained says what the store says of its run.
LEMMA LogFollows == LogInv /\ [Next]_vars => LogFollowsStore
<1> SUFFICES ASSUME LogInv, [Next]_vars, ~overlapped, log' # log, log'[Len(log')].run \in Runs
             PROVE  Load(store')[log'[Len(log')].run].state = log'[Len(log')].state
  BY DEF LogFollowsStore
<1>1. Base /\ Alone /\ Placed /\ Stated /\ Types
  BY DEF LogInv, LedgerInv, Base
<1>2. PICK line \in Line : log' = WithLine(line) /\ (Lost \/ Added(line))
  BY <1>1, Written
<1>3. Len(log) \in Nat /\ DOMAIN log = 1..Len(log)
  BY <1>1 DEF Types
<1>4. Added(line)
  <2>1. SUFFICES ASSUME Lost PROVE FALSE
    BY <1>2
  <2>2. log' \in Seq(Line)
    BY <1>1, <1>2, LineWritten
  <2>3. Len(log') = Len(log) /\ log'[Len(log)] = Spoilt
    BY <1>3, <2>1, <2>2 DEF Lost
  <2>4. QED
    BY <2>3, RunNames DEF Spoilt
<1>5. log'[Len(log')] = line /\ line.run \in Runs
  BY <1>4 DEF Added
<1>6. CASE \E t \in Threads : AppendEvent(t)
  <2>1. PICK t \in Threads : AppendEvent(t)
    BY <1>6
  <2>2. thread[t].pc = "append" /\ store' = store
    BY <2>1 DEF AppendEvent
  <2>3. thread[t].run \in Runs \union {"queue"}
    BY <1>1, <2>2, RunInHand
  <2>4. PICK event : event = EventLine(thread[t])
    OBVIOUS
  <2>5. event \in Line /\ log' = WithLine(event) /\ event.run = thread[t].run /\ event.state = thread[t].state
    BY <1>1, <2>1, <2>4, EventIsLine
  <2>6. Added(event)
    BY <1>1, <1>4, <2>5, LineStep DEF Lost, Added
  <2>7. line = event
    BY <1>4, <2>6 DEF Added
  <2>8. Load(store)[thread[t].run].state = thread[t].state
    BY <1>1, <1>5, <2>2, <2>5, <2>7 DEF Stated, Truthful, Logging
  <2>9. QED
    BY <1>5, <2>2, <2>5, <2>7, <2>8
<1>7. CASE Crash
  <2>1. log' = WithLine(Cut)
    BY <1>7 DEF Crash
  <2>2. Added(Cut)
    BY <1>1, <1>4, <2>1, LineStep, CutIsLine DEF Lost, Added
  <2>3. line = Cut
    BY <1>4, <2>2 DEF Added
  <2>4. QED
    BY <1>5, <2>3, RunNames DEF Cut
<1>8. QED
  BY <1>1, <1>6, <1>7, LogSteps

\* The lines that are owed, and the one in hand.
LEMMA LogIsBehind == LogInv => LogKeepsUp
<1> SUFFICES ASSUME LogInv, ~overlapped
             PROVE  Cardinality(Behind) <= crashes + Cardinality({t \in Threads : thread[t].pc # "idle"}) + Cardinality(Unread)
  BY DEF LogKeepsUp, Behind
<1>1. Base /\ Lone /\ Solo /\ Owing /\ Types
  BY DEF LogInv, LedgerInv, Base, Solo
<1>2. /\ IsFiniteSet(Behind \ InHand) /\ Cardinality(Behind) \in Nat /\ Cardinality(Behind \ InHand) \in Nat
      /\ Cardinality(Unread) \in Nat /\ EndsCut \in {0, 1} /\ crashes \in Nat
      /\ Cardinality(Behind \ InHand) + EndsCut <= crashes + Cardinality(Unread)
  BY <1>1, Counted DEF Owing
<1> DEFINE busy == {t \in Threads : thread[t].pc # "idle"}
<1>3. IsFiniteSet(busy) /\ Cardinality(busy) \in Nat /\ (busy # {} => Cardinality(busy) >= 1)
  <2>1. IsFiniteSet(Threads)
    <3>1. IsFiniteSet({"ui"}) /\ Threads = {"ui"} \union {"worker"}
      BY FS_Singleton DEF Threads
    <3>2. QED
      BY <3>1, FS_AddElement
  <2>2. busy \in SUBSET Threads
    OBVIOUS
  <2>3. IsFiniteSet(busy)
    BY <2>1, <2>2, FS_Subset
  <2> HIDE DEF busy
  <2>4. Cardinality(busy) \in Nat /\ (Cardinality(busy) = 0 => busy = {})
    BY <2>3, FS_CardinalityType, FS_EmptySet
  <2>5. QED
    BY <2>3, <2>4
<1>4. CASE InHand = {}
  <2>1. Behind \ InHand = Behind
    BY <1>4
  <2> HIDE DEF busy
  <2>2. Cardinality(Behind) <= crashes + Cardinality(busy) + Cardinality(Unread)
    BY <1>2, <1>3, <2>1
  <2>3. QED
    BY <2>2 DEF busy
<1>5. CASE InHand # {}
  <2>1. busy # {}
    BY <1>5 DEF InHand, Logging
  <2>2. PICK x : InHand \subseteq {x}
    BY <1>1, OneInHand
  <2>3. Behind \subseteq (Behind \ InHand) \union {x}
    BY <2>2
  <2>4. Cardinality(Behind) <= Cardinality(Behind \ InHand) + 1
    BY <1>2, <2>3, OneMore
  <2> HIDE DEF busy
  <2>5. Cardinality(Behind) <= crashes + Cardinality(busy) + Cardinality(Unread)
    BY <1>2, <1>3, <2>1, <2>4
  <2>6. QED
    BY <2>5 DEF busy
<1>6. QED
  BY <1>4, <1>5

\* However many runs, events and crashes there are: while the threads take turns the log is numbered upwards as far as it
\* can be read, never says what the store does not, and owes a line only for the call under way, for a crash and for a
\* line written behind a cut one (record_event, _get_last_seq_no).
THEOREM LogIsKept == Spec => LogKept
<1>1. LogInv' => SeqNoGrows' /\ LogKeepsUp'
  <2>1. LogInv => SeqNoGrows /\ LogKeepsUp
    BY LogIsBehind DEF LogInv, Numbered
  <2>2. QED
    BY <2>1, PTL
<1>2. LogInv /\ LogInv' /\ [Next]_vars => [SeqNoGrows' /\ LogKeepsUp' /\ LogFollowsStore]_vars
  BY <1>1, LogFollows
<1>3. QED
  BY <1>2, LogInvariant, PTL DEF Spec, LogKept
-----------------------------------------------------------------------------
(***************************************************************************)
(* The types of the ledger, and the room its bound leaves in the log.      *)
(***************************************************************************)

\* One for a thread that is in the ledger.
In(threads, t) == IF threads[t].pc = "idle" THEN 0 ELSE 1

LEMMA ThreadsIn == \A threads : Cardinality({t \in Threads : threads[t].pc # "idle"}) = In(threads, "ui") + In(threads, "worker")
<1> TAKE threads
<1> DEFINE busy == {t \in Threads : threads[t].pc # "idle"}
<1>1. Cardinality({}) = 0 /\ Cardinality({"ui"}) = 1 /\ Cardinality({"worker"}) = 1 /\ IsFiniteSet({"ui"})
  BY FS_EmptySet, FS_Singleton
<1>2. Cardinality({"ui"} \union {"worker"}) = 2
  <2>1. "worker" \notin {"ui"}
    OBVIOUS
  <2>2. QED
    BY <1>1, <2>1, FS_AddElement
<1>3. CASE threads["ui"].pc = "idle" /\ threads["worker"].pc = "idle"
  <2>1. busy = {}
    BY <1>3 DEF Threads
  <2>2. Cardinality(busy) = 0
    BY <1>1, <2>1
  <2>3. In(threads, "ui") = 0 /\ In(threads, "worker") = 0
    BY <1>3 DEF In
  <2>4. QED
    BY <2>2, <2>3
<1>4. CASE threads["ui"].pc # "idle" /\ threads["worker"].pc = "idle"
  <2>1. busy = {"ui"}
    BY <1>4 DEF Threads
  <2>2. QED
    BY <1>1, <1>4, <2>1 DEF In
<1>5. CASE threads["ui"].pc = "idle" /\ threads["worker"].pc # "idle"
  <2>1. busy = {"worker"}
    BY <1>5 DEF Threads
  <2>2. QED
    BY <1>1, <1>5, <2>1 DEF In
<1>6. CASE threads["ui"].pc # "idle" /\ threads["worker"].pc # "idle"
  <2>1. busy = {"ui"} \union {"worker"}
    BY <1>6 DEF Threads
  <2>2. QED
    BY <1>2, <1>6, <2>1 DEF In
<1>7. QED
  BY <1>3, <1>4, <1>5, <1>6

LEMMA InIs == \A threads : In(threads, "ui") \in {0, 1} /\ In(threads, "worker") \in {0, 1}
  BY DEF In

\* What a call that is under way will log.
Sayable(op) == op.pc # "idle" => op.run \in Runs \union {"queue"} /\ op.state \in States \union {"RUNNING"}

Logged == \A i \in DOMAIN log : log[i] \in Event
Stamped == seqNo \in Nat /\ \A t \in Threads : thread[t].stamp \in Nat /\ Sayable(thread[t])
Room == Len(log) + In(thread, "ui") + In(thread, "worker") <= MaxEvents
Staged == crashes \in 0..MaxCrashes /\ job.next \in 1..(Len(WorkerCalls) + 1)
Bounded == Logged /\ Stamped /\ Room /\ Staged

\* The line of a call, or one a crash has cut, is an event, and makes the log one longer at most.
LEMMA LineInLog == ASSUME Types, Logged, NEW line \in Event
    PROVE  Len(WithLine(line)) <= Len(log) + 1 /\ \A i \in DOMAIN WithLine(line) : WithLine(line)[i] \in Event
<1>1. log \in Seq(Line) /\ Spoilt \in Event
  BY DEF Types, Event
<1> HIDE DEF Line, Event
<1>2. QED
  BY <1>1 DEF WithLine, Logged

\* What a step of a call stamps it with.
LEMMA StampsOf == ASSUME Types, NEW t \in Threads, ThreadStep(t), NEW u \in Threads
    PROVE  thread'[u].stamp \in {thread[u].stamp, seqNo, 0}
<1>1. \A w \in Threads : thread[w] \in Call
  BY DEF Types
<1>2. Other(t) \in Threads /\ Other(t) # t /\ (u = t \/ u = Other(t))
  BY TwoThreads
<1>3. CASE ReadRun(t) \/ ReplaceRaises(t) \/ AppendEvent(t)
  <2>1. thread' = [thread EXCEPT ![t] = Idle] \/ \E e : thread' = [thread EXCEPT ![t].pc = "load", ![t].entry = e]
    BY <1>3 DEF ReadRun, ReplaceRaises, AppendEvent, Return
  <2>2. CASE thread' = [thread EXCEPT ![t] = Idle]
    BY <2>2 DEF Idle, Types
  <2>3. CASE \E e : thread' = [thread EXCEPT ![t].pc = "load", ![t].entry = e]
    BY <1>1, <2>3 DEF Types, Call
  <2>4. QED
    BY <2>1, <2>2, <2>3
<1>4. CASE LoadRuns(t) \/ WriteTemp(t) \/ CountEvent(t) \/ SaveDefinition(t) \/ SaveIndex(t)
  <2>1. CASE LoadRuns(t)
    BY <1>1, <2>1 DEF LoadRuns, Types, Call
  <2>2. CASE WriteTemp(t)
    BY <1>1, <2>2 DEF WriteTemp, Types, Call
  <2>3. CASE CountEvent(t) \/ SaveDefinition(t) \/ SaveIndex(t)
    <3>1. \E pc : Goto(t, pc)
      BY <2>3 DEF CountEvent, SaveDefinition, SaveIndex
    <3>2. QED
      BY <1>1, <3>1 DEF Goto, Types, Call
  <2>4. QED
    BY <1>4, <2>1, <2>2, <2>3
<1>5. CASE StampEvent(t)
  BY <1>1, <1>5 DEF StampEvent, Types, Call
<1>6. CASE OpenTemp(t)
  BY <1>1, <1>2, <1>6 DEF OpenTemp, Types, Call
<1>7. CASE ReplaceStore(t)
  BY <1>1, <1>2, <1>7 DEF ReplaceStore, Types, Call
<1>8. QED
  BY <1>3, <1>4, <1>5, <1>6, <1>7 DEF ThreadStep

LEMMA BoundedThread == ASSUME Base, Bounded, NEW t \in Threads, ThreadStep(t) PROVE Bounded'
<1>p. PICK op : op = thread[t]
  OBVIOUS
<1>1. /\ thread' \in [Threads -> Call] /\ Untouched(thread[Other(t)], thread'[Other(t)])
      /\ op.pc # "idle" /\ Advance(op, thread[Other(t)], thread'[t]) /\ op \in Call
  BY <1>p, StepKeeps DEF Base, Types
<1>2. seqNo \in Nat /\ seqNo' \in {seqNo, seqNo + 1} /\ Sayable(op)
  BY <1>p DEF Bounded, Stamped, ThreadStep, ReadRun, LoadRuns, OpenTemp, WriteTemp, ReplaceStore, ReplaceRaises, CountEvent, StampEvent, AppendEvent,
    SaveDefinition, SaveIndex
<1>3. ASSUME NEW u \in Threads PROVE thread'[u].stamp \in Nat /\ Sayable(thread'[u])
  <2>1. thread'[u].stamp \in Nat
    BY <1>2, <1>3, StampsOf DEF Base, Bounded, Stamped
  <2>2. CASE u = t
    BY <1>1, <1>2, <2>1, <2>2 DEF Sayable, Advance, Same
  <2>3. CASE u # t
    <3>1. u = Other(t) /\ Sayable(thread[u])
      BY <2>3, TwoThreads DEF Bounded, Stamped
    <3>2. QED
      BY <1>1, <2>1, <3>1 DEF Sayable, Untouched
  <2>4. QED
    BY <2>2, <2>3
<1>4. Stamped'
  BY <1>2, <1>3 DEF Stamped
<1>5. crashes' = crashes /\ job' \in {job, NoJob}
  BY DEF ThreadStep, ReadRun, LoadRuns, OpenTemp, WriteTemp, ReplaceStore, ReplaceRaises, CountEvent, StampEvent, AppendEvent,
    SaveDefinition, SaveIndex, app, history
<1>6. Staged'
  BY <1>5 DEF Bounded, Staged, NoJob, WorkerCalls
<1>7. /\ In(thread, t) = 1 /\ In(thread', t) \in {0, 1} /\ In(thread', Other(t)) = In(thread, Other(t)) /\ In(thread, Other(t)) \in {0, 1}
      /\ In(thread, "ui") + In(thread, "worker") = In(thread, t) + In(thread, Other(t))
      /\ In(thread', "ui") + In(thread', "worker") = In(thread', t) + In(thread', Other(t))
  BY <1>p, <1>1 DEF In, Untouched, Threads, Other
<1>8. Len(log) \in Nat /\ MaxEvents \in Nat /\ log \in Seq(Line)
  BY LedgerConstants DEF LedgerConstants, Base, Types
<1>9. Logged' /\ Room'
  <2>1. CASE AppendEvent(t)
    <3>1. /\ log' = WithLine([seq |-> op.stamp, run |-> op.run, state |-> op.state])
          /\ thread' = [thread EXCEPT ![t] = Idle]
      BY <1>p, <2>1 DEF AppendEvent, Return
    <3>2. [seq |-> op.stamp, run |-> op.run, state |-> op.state] \in Event
      BY <1>p, <1>1, <1>2 DEF Sayable, Bounded, Stamped, Event
    <3>3. Len(log') <= Len(log) + 1 /\ Logged'
      BY <3>1, <3>2, LineInLog DEF Base, Bounded, Logged
    <3>4. In(thread', t) = 0
      BY <3>1 DEF In, Idle, Base, Types
    <3>5. Len(log') \in Nat
      <4>1. [seq |-> op.stamp, run |-> op.run, state |-> op.state] \in Line
        BY <1>1 DEF Line, Call
      <4>2. log' \in Seq(Line)
        BY <3>1, <4>1, LineWritten DEF Base
      <4>3. QED
        BY <4>2
    <3>6. QED
      BY <1>7, <1>8, <3>3, <3>4, <3>5, InIs DEF Bounded, Room
  <2>2. CASE ~AppendEvent(t)
    <3>1. log' = log
      BY <2>2 DEF ThreadStep, ReadRun, LoadRuns, OpenTemp, WriteTemp, ReplaceStore, ReplaceRaises, CountEvent, StampEvent,
        SaveDefinition, SaveIndex, disk
    <3>2. QED
      BY <1>7, <1>8, <3>1, InIs DEF Bounded, Logged, Room
  <2>3. QED
    BY <2>1, <2>2
<1>10. QED
  BY <1>4, <1>6, <1>9 DEF Bounded

LEMMA BoundedBegin == ASSUME Base, Bounded, Beginning PROVE Bounded'
<1>1. PICK t, kind, r, from, s, pc : Begin(t, kind, r, from, s, pc) /\ Legal(t, kind, r, from, s, pc)
  BY BeginsLegally DEF Base
<1>2. /\ t \in Threads /\ thread' \in [Threads -> Call] /\ thread'[Other(t)] = thread[Other(t)]
      /\ thread[t].pc = "idle" /\ thread'[t].pc = pc /\ thread'[t].run = r /\ thread'[t].state = s
  BY <1>1, BeginKeeps DEF Base
<1>3. UNCHANGED <<log, seqNo>>
  BY BeginsLegally DEF Base
<1>4. r \in Runs \union {"queue"} /\ s \in States \union {"RUNNING"} /\ pc # "idle"
  BY <1>1 DEF Legal, States
<1>5. thread'[t].stamp = 0
  BY <1>1, <1>2 DEF Begin, Idle, Base, Types
<1>6. Stamped'
  BY <1>2, <1>3, <1>4, <1>5, TwoThreads DEF Bounded, Stamped, Sayable
<1>7. crashes' = crashes
  BY DEF Beginning, RecordStage, FinishQueue, StartQueue, ReplayRun, MarkInterrupted, history
<1>8. job'.next \in 1..(Len(WorkerCalls) + 1)
  <2>1. CASE RecordStage
    <3>1. job \in [run : SlotRuns, next : Nat \ {0}] /\ job.next <= Len(WorkerCalls) /\ job' = [job EXCEPT !.next = @ + 1]
      BY <2>1 DEF RecordStage, Base, Types
    <3>2. Len(WorkerCalls) = 5
      BY DEF WorkerCalls
    <3>3. QED
      BY <3>1, <3>2
  <2>2. CASE ~RecordStage
    BY <2>2 DEF Beginning, FinishQueue, StartQueue, ReplayRun, MarkInterrupted, app, Bounded, Staged
  <2>3. QED
    BY <2>1, <2>2
<1>9. /\ In(thread', t) = 1 /\ In(thread, t) = 0 /\ In(thread', Other(t)) = In(thread, Other(t)) /\ In(thread, Other(t)) \in {0, 1}
      /\ In(thread, "ui") + In(thread, "worker") = In(thread, t) + In(thread, Other(t))
      /\ In(thread', "ui") + In(thread', "worker") = In(thread', t) + In(thread', Other(t))
  BY <1>2, <1>4 DEF In, Threads, Other
<1>10. Len(log) + In(thread, "ui") + In(thread, "worker") < MaxEvents
  <2>1. Len(log) + Cardinality({w \in Threads : thread[w].pc # "idle"}) < MaxEvents
    BY <1>1 DEF Begin, RoomInLog
  <2>2. QED
    BY <2>1, ThreadsIn, InIs, LedgerConstants DEF LedgerConstants, Base, Types
<1>11. Room'
  <2>1. Len(log) \in Nat /\ MaxEvents \in Nat
    BY LedgerConstants DEF LedgerConstants, Base, Types
  <2>2. QED
    BY <1>3, <1>9, <1>10, <2>1, InIs DEF Room
<1>12. Logged'
  BY <1>3 DEF Bounded, Logged
<1>13. QED
  BY <1>6, <1>7, <1>8, <1>11, <1>12 DEF Bounded, Staged

LEMMA BoundedElse == ASSUME Base, Bounded, TakeSlot \/ LeaveSlot \/ EndRecovery \/ Crash \/ Restart \/ UNCHANGED vars PROVE Bounded'
<1>0. Len(log) \in Nat /\ MaxEvents \in Nat /\ MaxCrashes \in Nat /\ log \in Seq(Line)
  BY LedgerConstants DEF LedgerConstants, Base, Types
<1>1. CASE TakeSlot \/ LeaveSlot \/ EndRecovery \/ UNCHANGED vars
  <2>1. UNCHANGED <<log, seqNo, thread, crashes>>
    BY <1>1 DEF TakeSlot, LeaveSlot, EndRecovery, disk, history, vars
  <2>2. job'.next \in {job.next, 1}
    BY <1>1 DEF TakeSlot, LeaveSlot, EndRecovery, vars, app, NoJob
  <2>3. QED
    BY <2>1, <2>2 DEF Bounded, Logged, Stamped, Room, Staged, WorkerCalls
<1>2. CASE Restart
  <2>1. UNCHANGED <<log, thread, job, crashes>> /\ seqNo' = LastSeqNo
    BY <1>2 DEF Restart, history
  <2>2. LastSeqNo \in Nat
    <3>1. \A line \in Event : line.seq \in Nat
      BY DEF Event, Cut, Spoilt
    <3>2. log # <<>> => Len(log) \in DOMAIN log
      BY <1>0
    <3>3. QED
      BY <3>1, <3>2 DEF LastSeqNo, Bounded, Logged
  <2>3. QED
    BY <2>1, <2>2 DEF Bounded, Logged, Stamped, Room, Staged
<1>3. CASE Crash
  <2>1. /\ crashes < MaxCrashes /\ crashes' = crashes + 1 /\ seqNo' = 0 /\ job' = NoJob /\ thread' = [t \in Threads |-> Idle]
        /\ log' = log \/ \E t \in Threads : thread[t].pc = "append" /\ log' = WithLine(Cut)
    BY <1>3 DEF Crash
  <2>2. \A t \in Threads : thread'[t] = Idle
    BY <2>1
  <2>3. Stamped'
    BY <2>1, <2>2 DEF Stamped, Sayable, Idle
  <2>4. Staged'
    BY <1>0, <2>1 DEF Bounded, Staged, NoJob, WorkerCalls
  <2>5. In(thread', "ui") = 0 /\ In(thread', "worker") = 0
    BY <2>2 DEF In, Idle, Threads
  <2>6. In(thread, "ui") \in {0, 1} /\ In(thread, "worker") \in {0, 1}
    BY DEF In
  <2>7. CASE log' = log
    BY <1>0, <2>3, <2>4, <2>5, <2>6, <2>7 DEF Bounded, Logged, Room
  <2>8. CASE log' # log
    <3>1. PICK t \in Threads : thread[t].pc = "append" /\ log' = WithLine(Cut)
      BY <2>1, <2>8
    <3>2. Len(log') <= Len(log) + 1 /\ Logged'
      <4>1. Cut \in Event
        BY DEF Event
      <4>2. QED
        BY <3>1, <4>1, LineInLog DEF Base, Bounded, Logged
    <3>3. In(thread, "ui") = 1 \/ In(thread, "worker") = 1
      BY <3>1 DEF In, Threads
    <3>4. Len(log') \in Nat
      <4>1. Cut \in Line
        BY CutIsLine
      <4>2. log' \in Seq(Line)
        BY <3>1, <4>1, LineWritten DEF Base
      <4>3. QED
        BY <4>2
    <3>5. QED
      BY <1>0, <2>3, <2>4, <2>5, <2>6, <3>2, <3>3, <3>4 DEF Bounded, Room
  <2>9. QED
    BY <2>7, <2>8
<1>4. QED
  BY <1>1, <1>2, <1>3

\* The files, the log and the calls keep to their types, and the log to its bound, for any number of runs and crashes
\* (update_run_metadata, record_event): every line is an event somebody recorded, or one a crash has cut or spoilt.
THEOREM LedgerTypeCorrect == Spec => []TypeOK
<1>1. Init => Bounded
  <2> SUFFICES ASSUME Init PROVE Bounded
    OBVIOUS
  <2>1. \A t \in Threads : thread[t] = Idle
    BY DEF Init
  <2>2. In(thread, "ui") = 0 /\ In(thread, "worker") = 0
    BY <2>1 DEF In, Idle, Threads
  <2>3. log = <<>> /\ seqNo = 0 /\ crashes = 0 /\ job = NoJob /\ MaxEvents \in Nat /\ MaxCrashes \in Nat
    BY LedgerConstants DEF Init, LedgerConstants
  <2>4. Logged /\ Stamped
    BY <2>1, <2>3 DEF Logged, Stamped, Sayable, Idle
  <2>5. Room /\ Staged
    BY <2>2, <2>3 DEF Room, Staged, NoJob, WorkerCalls
  <2>6. QED
    BY <2>4, <2>5 DEF Bounded
<1>2. LedgerInv /\ Bounded /\ [Next]_vars => Bounded'
  BY BoundedThread, BoundedBegin, BoundedElse DEF LedgerInv, Next, Beginning
<1>3. LedgerInv /\ Bounded => TypeOK
  <2> SUFFICES ASSUME Base, Bounded PROVE TypeOK
    BY DEF LedgerInv
  <2>1. Len(log) <= MaxEvents
    <3>1. In(thread, "ui") \in {0, 1} /\ In(thread, "worker") \in {0, 1} /\ Len(log) \in Nat /\ MaxEvents \in Nat
      BY LedgerConstants DEF In, Base, Types, LedgerConstants
    <3>2. QED
      BY <3>1 DEF Bounded, Room
  <2>2. job \in [run : SlotRuns \cup {"none"}, next : 1..(Len(WorkerCalls) + 1)]
    BY DEF Base, Types, Bounded, Staged, NoJob
  <2>3. ASSUME NEW t \in Threads
        PROVE  /\ thread[t].entry \in Entry /\ thread[t].base \in [Runs -> Entry]
               /\ thread[t].kind \in Kinds \cup {"none"} /\ thread[t].stamp \in Nat
               /\ thread[t].run \in Runs \cup {"none", "queue"}
               /\ thread[t].fd \in {"none", "tmp", "store", "gone"} /\ thread[t].mixed \in BOOLEAN
    <3>1. thread[t] \in Call
      BY DEF Base, Types
    <3>2. QED
      BY <3>1 DEF Call, Bounded, Stamped
  <2>4. QED
    BY <2>1, <2>2, <2>3 DEF Base, Types, Bounded, Logged, Stamped, Staged, TypeOK
<1>4. QED
  BY <1>1, <1>2, <1>3, LedgerInvariant, PTL DEF Spec
(***************************************************************************)
(* The copies, the user's files and the regression suite.                  *)
(***************************************************************************)

IntTree == [Files -> Int]
Snap == [hash : IntTree, file : IntTree, kept : BOOLEAN, tree : IntTree, torn : BOOLEAN]
WorkerPcs == {"idle", "copy", "hash", "ready", "baseline", "store", "execute", "drift", "promote", "delete"}
WorkerState == [pc : WorkerPcs, left : SUBSET Files, seen : IntTree, mode : {"promote_on_success", "dry_run"},
                outcome : {"none", "failed", "not promoted", "nothing to promote", "blocked", "applied", "promotion failed"}]
RestoreState == [pc : {"idle", "preview", "verify", "remove", "replace"}, left : SUBSET Files, seen : IntTree, of : Snap,
                 disturbed : BOOLEAN, outcome : {"none", "verified", "failed_verification", "failed"}]

CopyTypes ==
  /\ canonical \in IntTree /\ exec \in IntTree /\ manifest \in IntTree /\ origin \in IntTree
  /\ snap \in Snap /\ worker \in WorkerState /\ restore \in RestoreState
  /\ edits \in Int /\ raced \subseteq Files

\* The special values are of their types.
LEMMA Specials == NoTree \in IntTree /\ NoSnap \in Snap /\ IdleWorker \in WorkerState /\ IdleRestore \in RestoreState
<1>1. NoTree \in IntTree
  BY DEF NoTree, IntTree, Absent
<1>2. NoSnap \in Snap
  BY <1>1 DEF NoSnap, Snap
<1>3. IdleWorker \in WorkerState
  BY <1>1 DEF IdleWorker, WorkerState, WorkerPcs
<1>4. IdleRestore \in RestoreState
  BY <1>1, <1>2 DEF IdleRestore, RestoreState
<1>5. QED
  BY <1>1, <1>2, <1>3, <1>4

\* How the worker moves on.
LEMMA WorkerToIs ==
    ASSUME CopyTypes, NEW pc \in WorkerPcs, NEW left \in SUBSET Files, WorkerTo(pc, left)
    PROVE  worker' \in WorkerState /\ worker'.pc = pc /\ worker'.left = left /\ worker'.seen = worker.seen /\ worker'.outcome = worker.outcome
<1>1. worker' \in WorkerState
  BY DEF WorkerTo, CopyTypes, WorkerState
<1>2. QED
  BY DEF WorkerTo, CopyTypes, WorkerState

LEMMA DoneIs ==
    ASSUME CopyTypes, NEW f \in Files, Done(f)
    PROVE  /\ worker' \in WorkerState /\ worker'.pc = worker.pc /\ worker'.left = worker.left \ {f} /\ worker'.seen = worker.seen
           /\ worker'.outcome = worker.outcome
<1>1. worker' \in WorkerState
  BY DEF Done, CopyTypes, WorkerState
<1>2. QED
  BY DEF Done, CopyTypes, WorkerState

LEMMA EndRunIs ==
    ASSUME NEW outcome \in {"failed", "not promoted", "nothing to promote", "blocked", "applied", "promotion failed"}, EndRun(outcome)
    PROVE  worker' \in WorkerState /\ worker'.pc = "idle" /\ worker'.outcome = outcome
<1>1. worker' \in WorkerState
  BY Specials DEF EndRun, WorkerState
<1>2. IdleWorker.pc = "idle"
  BY DEF IdleWorker
<1>3. worker'.pc = "idle" /\ worker'.outcome = outcome
  BY <1>2, Specials DEF EndRun, WorkerState
<1>4. QED
  BY <1>1, <1>3

\* What the others leave of the snapshot and of a restore.
LEMMA SnapUpdates == ASSUME CopyTypes PROVE TornSnap \in Snap /\ Disturbed \in RestoreState
<1>1. TornSnap \in Snap
  BY DEF TornSnap, CopyTypes, Snap
<1>2. Disturbed \in RestoreState
  BY DEF Disturbed, CopyTypes, RestoreState
<1>3. QED
  BY <1>1, <1>2

\* Types are kept.
LEMMA TypesStep == CopyTypes /\ MaxEdits \in Int /\ [WorkspacesNext]_workspaceVars => CopyTypes'
<1> SUFFICES ASSUME CopyTypes, MaxEdits \in Int, [WorkspacesNext]_workspaceVars PROVE CopyTypes'
  OBVIOUS
<1>0. /\ canonical \in IntTree /\ exec \in IntTree /\ manifest \in IntTree /\ origin \in IntTree
      /\ snap \in Snap /\ worker \in WorkerState /\ restore \in RestoreState /\ edits \in Int /\ raced \subseteq Files
      /\ worker.left \subseteq Files /\ restore.left \subseteq Files /\ RunVersion \in Int /\ Absent \in Int
  <2>1. worker \in WorkerState /\ restore \in RestoreState /\ RunVersion \in Int /\ Absent \in Int
    BY DEF CopyTypes, RunVersion, Absent
  <2>2. worker.left \subseteq Files /\ restore.left \subseteq Files
    BY <2>1 DEF WorkerState, RestoreState
  <2>3. QED
    BY <2>1, <2>2 DEF CopyTypes
<1>1. ASSUME NEW f \in Files, Edit(f) PROVE CopyTypes'
  <2>1. canonical' \in IntTree /\ edits' \in Int /\ UNCHANGED <<exec, manifest, worker, origin>>
    BY <1>0, <1>1 DEF Edit, IntTree
  <2>2. raced' \subseteq Files
    BY <1>0, <1>1 DEF Edit, NoteRace
  <2>3. snap' \in Snap /\ restore' \in RestoreState
    BY <1>1, SnapUpdates DEF Edit
  <2>4. QED
    BY <1>0, <2>1, <2>2, <2>3 DEF CopyTypes
<1>2. CASE StartRun
  <2>1. PICK mode \in {"promote_on_success", "dry_run"} : worker' = [IdleWorker EXCEPT !.pc = "copy", !.left = Files, !.mode = mode]
    BY <1>2 DEF StartRun
  <2>2. worker' \in WorkerState
    BY <2>1, Specials DEF WorkerState, WorkerPcs
  <2>3. /\ exec' = NoTree /\ manifest' = NoTree /\ origin' = NoTree /\ raced' = {} /\ UNCHANGED <<canonical, snap, restore, edits>>
    BY <1>2 DEF StartRun
  <2>4. QED
    BY <1>0, <2>2, <2>3, Specials DEF CopyTypes
<1>3. ASSUME NEW f \in Files, CopyFile(f) \/ HashFile(f) PROVE CopyTypes'
  <2>1. worker' \in WorkerState
    BY <1>3, DoneIs DEF CopyFile, HashFile
  <2>2. /\ exec' \in IntTree /\ origin' \in IntTree /\ manifest' \in IntTree
        /\ UNCHANGED <<canonical, snap, restore, edits, raced>>
    BY <1>0, <1>3 DEF CopyFile, HashFile, Others, IntTree
  <2>3. QED
    BY <1>0, <2>1, <2>2 DEF CopyTypes
<1>4. ASSUME NEW pc \in WorkerPcs, NEW left \in SUBSET Files, WorkerTo(pc, left), Others, UNCHANGED <<canonical, exec, manifest, origin>>, snap' \in Snap
      PROVE CopyTypes'
  <2>1. worker' \in WorkerState
    BY <1>4, WorkerToIs
  <2>2. QED
    BY <1>0, <1>4, <2>1 DEF CopyTypes, Others
<1>5. ASSUME NEW outcome \in {"failed", "not promoted", "nothing to promote", "blocked", "applied", "promotion failed"}, EndRun(outcome),
             Others, UNCHANGED <<canonical, exec, manifest, origin>>, snap' \in Snap
      PROVE CopyTypes'
  <2>1. worker' \in WorkerState
    BY <1>5, EndRunIs
  <2>2. QED
    BY <1>0, <1>5, <2>1 DEF CopyTypes, Others
<1>6. CASE EndIsolation \/ SkipCapture \/ BeginStore \/ CheckDrift \/ BeginDeletes
  <2>1. Others /\ UNCHANGED <<canonical, exec, manifest, origin>> /\ snap' = snap
    BY <1>6 DEF EndIsolation, SkipCapture, BeginStore, CheckDrift, BeginDeletes
  <2>2. (\E pc \in WorkerPcs, left \in SUBSET Files : WorkerTo(pc, left)) \/ EndRun("blocked")
    <3>1. CASE EndIsolation
      BY <3>1 DEF EndIsolation, WorkerPcs
    <3>2. CASE SkipCapture
      BY <3>2 DEF SkipCapture, WorkerPcs
    <3>3. CASE BeginStore
      <4>1. WorkerTo("store", {f \in Captured : snap.hash[f] # Absent}) /\ {f \in Captured : snap.hash[f] # Absent} \in SUBSET Files
        BY <3>3 DEF BeginStore, Captured
      <4>2. QED
        BY <4>1 DEF WorkerPcs
    <3>4. CASE CheckDrift
      <4>1. \/ EndRun("blocked")
            \/ WorkerTo("promote", {f \in ChangedFiles : exec[f] # Absent}) /\ {f \in ChangedFiles : exec[f] # Absent} \in SUBSET Files
        BY <3>4 DEF CheckDrift, ChangedFiles
      <4>2. QED
        BY <4>1 DEF WorkerPcs
    <3>5. CASE BeginDeletes
      <4>1. WorkerTo("delete", {f \in ChangedFiles : exec[f] = Absent}) /\ {f \in ChangedFiles : exec[f] = Absent} \in SUBSET Files
        BY <3>5 DEF BeginDeletes, ChangedFiles
      <4>2. QED
        BY <4>1 DEF WorkerPcs
    <3>6. QED
      BY <1>6, <3>1, <3>2, <3>3, <3>4, <3>5
  <2>3. QED
    BY <1>0, <1>4, <1>5, <2>1, <2>2
<1>7. CASE BeginCapture
  <2>1. WorkerTo("baseline", Captured) /\ Others /\ UNCHANGED <<canonical, exec, manifest, origin>> /\ Captured \in SUBSET Files
    BY <1>7 DEF BeginCapture, Captured
  <2>2. snap' \in Snap
    BY <1>0, <1>7, Specials DEF BeginCapture, Snap
  <2>3. QED
    BY <1>4, <2>1, <2>2 DEF WorkerPcs
<1>8. ASSUME NEW f \in Files, FingerprintFile(f) \/ StoreFile(f) PROVE CopyTypes'
  <2>1. worker' \in WorkerState /\ Others /\ UNCHANGED <<canonical, exec, manifest, origin>>
    BY <1>8, DoneIs DEF FingerprintFile, StoreFile
  <2>2. snap' \in Snap
    BY <1>0, <1>8 DEF FingerprintFile, StoreFile, Snap, IntTree
  <2>3. QED
    BY <1>0, <2>1, <2>2 DEF CopyTypes, Others
<1>9. CASE EndCapture
  <2>1. Others /\ UNCHANGED <<canonical, exec, manifest, origin>> /\ (EndRun("failed") \/ WorkerTo("execute", {}))
    BY <1>9 DEF EndCapture
  <2>2. snap' \in Snap
    BY <1>0, <1>9 DEF EndCapture, Snap
  <2>3. QED
    BY <1>4, <1>5, <2>1, <2>2 DEF WorkerPcs
<1>10. CASE RunRaises \/ PromotionEnds
  BY <1>0, <1>5, <1>10 DEF RunRaises, PromotionEnds
<1>11. CASE EndExecution
  <2>1. /\ Others /\ UNCHANGED <<canonical, exec, manifest, snap, origin>>
        /\ EndRun("not promoted") \/ EndRun("nothing to promote") \/ WorkerTo("drift", Files)
    BY <1>11 DEF EndExecution
  <2>2. QED
    BY <1>0, <1>4, <1>5, <2>1 DEF WorkerPcs
<1>12. ASSUME NEW f \in Files, Execute(f) PROVE CopyTypes'
  BY <1>0, <1>12 DEF Execute, Others, CopyTypes, IntTree
<1>13. ASSUME NEW f \in Files, DriftHash(f) PROVE CopyTypes'
  <2>1. worker' \in WorkerState
    BY <1>0, <1>13 DEF DriftHash, WorkerState, IntTree
  <2>2. QED
    BY <1>0, <1>13, <2>1 DEF DriftHash, Others, CopyTypes
<1>14. ASSUME NEW f \in Files, PromoteFile(f) \/ DeleteFile(f) PROVE CopyTypes'
  <2>1. worker' \in WorkerState /\ restore' \in RestoreState
    BY <1>14, DoneIs, SnapUpdates DEF PromoteFile, DeleteFile, Promoted
  <2>2. canonical' \in IntTree /\ UNCHANGED <<exec, manifest, snap, edits, origin, raced>>
    BY <1>0, <1>14 DEF PromoteFile, DeleteFile, Promoted, IntTree
  <2>3. QED
    BY <1>0, <2>1, <2>2 DEF CopyTypes
<1>15. CASE StartRestore
  <2>1. restore' \in RestoreState
    BY <1>0, <1>15, Specials DEF StartRestore, RestoreState
  <2>2. QED
    BY <1>0, <1>15, <2>1 DEF StartRestore, RestoreOnly, CopyTypes
<1>16. ASSUME RestoreReads, restore' \in RestoreState PROVE CopyTypes'
  BY <1>0, <1>16 DEF RestoreReads, RestoreOnly, CopyTypes
<1>17. ASSUME NEW f \in Files, RestoreHash(f) PROVE CopyTypes'
  <2>1. restore' \in RestoreState
    BY <1>0, <1>17 DEF RestoreHash, RestoreState, IntTree
  <2>2. QED
    BY <1>16, <1>17, <2>1 DEF RestoreHash
<1>18. CASE EndPreview \/ EndRemove \/ BeginVerify
  <2>1. ToRemove \in SUBSET Files /\ ToRestore \in SUBSET Files
    BY DEF ToRemove, ToRestore
  <2>2. restore' \in RestoreState
    BY <1>0, <1>18, <2>1, Specials DEF EndPreview, EndRemove, BeginVerify, RestoreTo, RestoreState
  <2>3. QED
    BY <1>16, <1>18, <2>2 DEF EndPreview, EndRemove, BeginVerify
<1>19. CASE EndVerify \/ RestoreRaises
  <2>1. PICK outcome \in {"verified", "failed_verification", "failed"} : EndRestore(outcome)
    BY <1>19 DEF EndVerify, RestoreRaises
  <2>2. restore' \in RestoreState
    BY <2>1, Specials DEF EndRestore, RestoreState
  <2>3. QED
    BY <1>16, <1>19, <2>2 DEF EndVerify, RestoreRaises
<1>20. ASSUME NEW f \in Files, RemoveFile(f) \/ ReplaceFile(f) PROVE CopyTypes'
  <2>1. PICK v \in Int : RestoreWrites(f, v)
    BY <1>0, <1>20 DEF RemoveFile, ReplaceFile, RestoreState, Snap, IntTree
  <2>2. canonical' \in IntTree /\ raced' \subseteq Files
    BY <1>0, <2>1 DEF RestoreWrites, NoteRace, IntTree
  <2>3. restore' \in RestoreState
    BY <1>0, <2>1 DEF RestoreWrites, RestoreState
  <2>4. snap' \in Snap /\ UNCHANGED <<exec, manifest, worker, edits, origin>>
    BY <2>1, SnapUpdates DEF RestoreWrites, RestoreOnly
  <2>5. QED
    BY <1>0, <2>2, <2>3, <2>4 DEF CopyTypes
<1>21. CASE UNCHANGED workspaceVars
  BY <1>0, <1>21 DEF workspaceVars, CopyTypes
<1>22. QED
  BY <1>1, <1>2, <1>3, <1>6, <1>7, <1>8, <1>9, <1>10, <1>11, <1>12, <1>13, <1>14, <1>15, <1>17, <1>18, <1>19, <1>20, <1>21
     DEF WorkspacesNext, Worker, Restore

-----------------------------------------------------------------------------

\* What the run still knows of a file nobody wrote behind its back, wherever it has come to.
KnownInCopy(f) ==
  /\ worker.pc = "copy" /\ f \notin worker.left => canonical[f] = origin[f]
  /\ worker.pc = "hash" => IF f \in worker.left THEN canonical[f] = origin[f] ELSE manifest[f] = origin[f]
  /\ worker.pc \in {"ready", "baseline", "store", "execute", "drift", "promote", "delete"} => manifest[f] = origin[f]

KnownInGate(f) ==
  /\ worker.pc = "drift" /\ f \notin worker.left => worker.seen[f] = canonical[f]
  /\ worker.pc = "promote" => IF f \in ChangedFiles /\ (f \in worker.left \/ exec[f] = Absent) THEN canonical[f] = origin[f]
                             ELSE f \in ChangedFiles => canonical[f] = exec[f]
  /\ worker.pc = "delete" => IF f \in worker.left THEN canonical[f] = origin[f] ELSE f \in ChangedFiles => canonical[f] = exec[f]

Left ==
  /\ worker.pc = "promote" => worker.left \subseteq {f \in ChangedFiles : exec[f] # Absent}
  /\ worker.pc = "delete" => worker.left \subseteq {f \in ChangedFiles : exec[f] = Absent}
  /\ worker.pc # "idle" => worker.outcome = "none"

RunKnows == Left /\ \A f \in Files \ raced : KnownInCopy(f) /\ KnownInGate(f)

\* Whoever else writes a file of the user's is noticed, or writes one the run does not go by.
LEMMA OthersWrite ==
    ASSUME CopyTypes, RunKnows, NEW f \in Files, NEW v, canonical' = [canonical EXCEPT ![f] = v], NoteRace(f),
           UNCHANGED <<exec, manifest, worker, origin>>
    PROVE  RunKnows'
<1>1. \A g \in Files : g # f => canonical'[g] = canonical[g]
  BY DEF CopyTypes, IntTree
<1>2. raced \subseteq raced' /\ (f \in raced' \/ ~Exposed(f))
  BY DEF NoteRace
<1>3. ChangedFiles' = ChangedFiles /\ Left'
  BY DEF ChangedFiles, Left, RunKnows
<1>4. ASSUME NEW g \in Files \ raced' PROVE KnownInCopy(g)' /\ KnownInGate(g)'
  <2>1. KnownInCopy(g) /\ KnownInGate(g)
    BY <1>2, <1>4 DEF RunKnows
  <2>2. CASE g # f
    BY <1>1, <1>3, <2>1, <2>2 DEF KnownInCopy, KnownInGate
  <2>3. CASE g = f
    BY <1>2, <1>4, <2>1, <2>3 DEF KnownInCopy, KnownInGate, Exposed
  <2>4. QED
    BY <2>2, <2>3
<1>5. QED
  BY <1>3, <1>4 DEF RunKnows

\* No step makes the run wrong about a file nobody wrote behind its back.
LEMMA KnowsStep == CopyTypes /\ RunKnows /\ [WorkspacesNext]_workspaceVars => RunKnows'
<1> SUFFICES ASSUME CopyTypes, RunKnows, [WorkspacesNext]_workspaceVars PROVE RunKnows'
  OBVIOUS
<1>1. ASSUME NEW f \in Files, Edit(f) PROVE RunKnows'
  BY <1>1, OthersWrite DEF Edit
<1>2. ASSUME NEW f \in Files, RemoveFile(f) \/ ReplaceFile(f) PROVE RunKnows'
  BY <1>2, OthersWrite DEF RemoveFile, ReplaceFile, RestoreWrites, RestoreOnly
<1>3. ASSUME UNCHANGED <<canonical, exec, manifest, worker, origin, raced>> PROVE RunKnows'
  BY <1>3 DEF RunKnows, Left, KnownInCopy, KnownInGate, ChangedFiles
<1>4. CASE StartRestore \/ EndPreview \/ EndRemove \/ BeginVerify \/ EndVerify \/ RestoreRaises \/ UNCHANGED workspaceVars
           \/ \E f \in Files : RestoreHash(f)
  BY <1>3, <1>4 DEF StartRestore, EndPreview, EndRemove, BeginVerify, EndVerify, RestoreRaises, RestoreHash, RestoreReads, RestoreOnly, workspaceVars
<1>5. CASE StartRun
  <2>1. PICK mode \in {"promote_on_success", "dry_run"} : worker' = [IdleWorker EXCEPT !.pc = "copy", !.left = Files, !.mode = mode]
    BY <1>5 DEF StartRun
  <2>2. worker'.pc = "copy" /\ worker'.left = Files /\ worker'.outcome = "none"
    BY <2>1 DEF IdleWorker
  <2>3. QED
    BY <2>2 DEF RunKnows, Left, KnownInCopy, KnownInGate
<1>6. ASSUME NEW f \in Files, CopyFile(f) PROVE RunKnows'
  <2>1. /\ worker.pc = "copy" /\ worker'.pc = "copy" /\ worker'.left = worker.left \ {f} /\ worker'.outcome = worker.outcome
        /\ origin' = [origin EXCEPT ![f] = canonical[f]] /\ UNCHANGED <<canonical, raced>>
    BY <1>6, DoneIs DEF CopyFile, Others
  <2>2. QED
    BY <2>1 DEF RunKnows, Left, KnownInCopy, KnownInGate, CopyTypes, IntTree
<1>7. ASSUME NEW f \in Files, HashFile(f) PROVE RunKnows'
  <2>1. /\ worker.pc = "hash" /\ worker'.pc = "hash" /\ worker'.left = worker.left \ {f} /\ worker'.outcome = worker.outcome
        /\ f \in worker.left /\ manifest' = [manifest EXCEPT ![f] = canonical[f]] /\ UNCHANGED <<canonical, origin, raced>>
    BY <1>7, DoneIs DEF HashFile, Others
  <2>2. QED
    BY <2>1 DEF RunKnows, Left, KnownInCopy, KnownInGate, CopyTypes, IntTree
<1>8. ASSUME NEW f \in Files, FingerprintFile(f) \/ StoreFile(f) PROVE RunKnows'
  <2>1. /\ worker.pc \in {"baseline", "store"} /\ worker'.pc = worker.pc /\ worker'.outcome = worker.outcome
        /\ UNCHANGED <<canonical, exec, manifest, origin, raced>>
    BY <1>8, DoneIs DEF FingerprintFile, StoreFile, Others
  <2>2. QED
    BY <2>1 DEF RunKnows, Left, KnownInCopy, KnownInGate
<1>9. ASSUME NEW outcome \in {"failed", "not promoted", "nothing to promote", "blocked", "applied", "promotion failed"}, EndRun(outcome)
      PROVE  RunKnows'
  BY <1>9, EndRunIs DEF RunKnows, Left, KnownInCopy, KnownInGate
<1>10. CASE EndIsolation
  <2>1. Others /\ UNCHANGED <<canonical, exec, manifest, snap, origin>> /\ worker.left = {}
    BY <1>10 DEF EndIsolation
  <2>2. CASE worker.pc = "copy" /\ WorkerTo("hash", Files)
    <3>1. worker'.pc = "hash" /\ worker'.left = Files /\ worker'.outcome = worker.outcome
      BY <2>2, WorkerToIs DEF WorkerPcs
    <3>2. QED
      BY <2>1, <2>2, <3>1 DEF RunKnows, Left, KnownInCopy, KnownInGate, Others
  <2>3. CASE worker.pc = "hash" /\ WorkerTo("ready", {})
    <3>1. worker'.pc = "ready" /\ worker'.outcome = worker.outcome
      BY <2>3, WorkerToIs DEF WorkerPcs
    <3>2. QED
      BY <2>1, <2>3, <3>1 DEF RunKnows, Left, KnownInCopy, KnownInGate, Others
  <2>4. QED
    BY <1>10, <2>2, <2>3 DEF EndIsolation
<1>11. CASE BeginCapture \/ SkipCapture \/ BeginStore \/ (EndCapture /\ ~EndRun("failed"))
            \/ (EndExecution /\ ~EndRun("not promoted") /\ ~EndRun("nothing to promote"))
  <2>1. /\ worker.pc \in {"ready", "baseline", "store", "execute"} /\ Others /\ UNCHANGED <<canonical, exec, manifest, origin>>
        /\ \E pc \in {"baseline", "execute", "store"}, left \in SUBSET Files : WorkerTo(pc, left)
            \/ WorkerTo("drift", Files)
    <3>1. {f \in Captured : snap.hash[f] # Absent} \in SUBSET Files /\ Captured \in SUBSET Files
      BY DEF Captured
    <3>2. CASE BeginStore
      BY <3>1, <3>2 DEF BeginStore
    <3>3. CASE ~BeginStore
      BY <1>11, <3>1, <3>3 DEF BeginCapture, SkipCapture, EndCapture, EndExecution
    <3>4. QED
      BY <3>2, <3>3
  <2>2. /\ worker'.pc \in {"baseline", "execute", "store", "drift"} /\ worker'.outcome = worker.outcome
        /\ worker'.pc = "drift" => worker'.left = Files
    BY <2>1, WorkerToIs DEF WorkerPcs
  <2>3. QED
    BY <2>1, <2>2 DEF RunKnows, Left, KnownInCopy, KnownInGate, Others
<1>12. ASSUME NEW f \in Files, Execute(f) PROVE RunKnows'
  BY <1>12 DEF Execute, Others, RunKnows, Left, KnownInCopy, KnownInGate
<1>13. ASSUME NEW f \in Files, DriftHash(f) PROVE RunKnows'
  <2>1. /\ worker.pc = "drift" /\ worker'.pc = "drift" /\ worker'.left = worker.left \ {f} /\ worker'.outcome = worker.outcome
        /\ worker'.seen = [worker.seen EXCEPT ![f] = canonical[f]] /\ worker.seen \in IntTree
        /\ UNCHANGED <<canonical, exec, manifest, origin, raced>>
    BY <1>13 DEF DriftHash, Others, CopyTypes, WorkerState
  <2>2. QED
    BY <2>1 DEF RunKnows, Left, KnownInCopy, KnownInGate, IntTree
<1>14. CASE CheckDrift
  <2>1. CASE Conflicts = {}
    <3>1. /\ worker.pc = "drift" /\ worker.left = {} /\ WorkerTo("promote", {f \in ChangedFiles : exec[f] # Absent})
          /\ UNCHANGED <<canonical, exec, manifest, origin, raced>>
      BY <1>14, <2>1 DEF CheckDrift, Others
    <3>2. {f \in ChangedFiles : exec[f] # Absent} \in SUBSET Files /\ "promote" \in WorkerPcs
      BY DEF ChangedFiles, WorkerPcs
    <3>3. worker'.pc = "promote" /\ worker'.left = {f \in ChangedFiles : exec[f] # Absent} /\ worker'.outcome = worker.outcome
      BY <3>1, <3>2, WorkerToIs
    <3>4. ChangedFiles' = ChangedFiles
      BY <3>1 DEF ChangedFiles
    <3>5. \A f \in ChangedFiles \ raced : canonical[f] = origin[f]
      BY <2>1, <3>1 DEF RunKnows, KnownInCopy, KnownInGate, Conflicts, ChangedFiles
    <3>6. QED
      BY <3>1, <3>3, <3>4, <3>5 DEF RunKnows, Left, KnownInCopy, KnownInGate
  <2>2. CASE Conflicts # {}
    BY <1>9, <1>14, <2>2 DEF CheckDrift
  <2>3. QED
    BY <2>1, <2>2
<1>15. ASSUME NEW f \in Files, PromoteFile(f) \/ DeleteFile(f) PROVE RunKnows'
  <2>1. /\ worker.pc \in {"promote", "delete"} /\ worker'.pc = worker.pc /\ worker'.left = worker.left \ {f} /\ f \in worker.left
        /\ worker'.outcome = worker.outcome /\ canonical' = [canonical EXCEPT ![f] = exec[f]]
        /\ UNCHANGED <<exec, manifest, origin, raced>>
    BY <1>15, DoneIs DEF PromoteFile, DeleteFile, Promoted
  <2>2. ChangedFiles' = ChangedFiles
    BY <2>1 DEF ChangedFiles
  <2>3. canonical'[f] = exec[f] /\ \A g \in Files : g # f => canonical'[g] = canonical[g]
    BY <2>1 DEF CopyTypes, IntTree
  <2>4. Left' /\ f \in ChangedFiles /\ (worker.pc = "promote" => exec[f] # Absent)
    BY <2>1, <2>2 DEF RunKnows, Left
  <2>5. ASSUME NEW g \in Files \ raced PROVE KnownInCopy(g)' /\ KnownInGate(g)'
    <3>1. KnownInCopy(g) /\ KnownInGate(g)
      BY <2>5 DEF RunKnows
    <3>2. QED
      BY <2>1, <2>2, <2>3, <2>4, <3>1 DEF KnownInCopy, KnownInGate
  <2>6. QED
    BY <2>1, <2>4, <2>5 DEF RunKnows
<1>16. CASE BeginDeletes
  <2>1. /\ worker.pc = "promote" /\ worker.left = {} /\ WorkerTo("delete", {f \in ChangedFiles : exec[f] = Absent})
        /\ UNCHANGED <<canonical, exec, manifest, origin, raced>>
    BY <1>16 DEF BeginDeletes, Others
  <2>2. {f \in ChangedFiles : exec[f] = Absent} \in SUBSET Files /\ "delete" \in WorkerPcs
    BY DEF ChangedFiles, WorkerPcs
  <2>3. worker'.pc = "delete" /\ worker'.left = {f \in ChangedFiles : exec[f] = Absent} /\ worker'.outcome = worker.outcome
    BY <2>1, <2>2, WorkerToIs
  <2>4. ChangedFiles' = ChangedFiles
    BY <2>1 DEF ChangedFiles
  <2>5. QED
    BY <2>1, <2>3, <2>4 DEF RunKnows, Left, KnownInCopy, KnownInGate
<1>17. CASE RunRaises \/ PromotionEnds \/ EndRun("failed") \/ EndRun("not promoted") \/ EndRun("nothing to promote")
  BY <1>9, <1>17 DEF RunRaises, PromotionEnds
<1>18. QED
  BY <1>1, <1>2, <1>4, <1>5, <1>6, <1>7, <1>8, <1>10, <1>11, <1>12, <1>13, <1>14, <1>15, <1>16, <1>17 DEF WorkspacesNext, Worker, Restore

\* What the theorems about promotions rest on.
LEMMA WorkspacesInvariant == WorkspacesSpec => [](CopyTypes /\ RunKnows)
<1>1. WorkspacesInit => CopyTypes /\ RunKnows
  <2> SUFFICES ASSUME WorkspacesInit PROVE CopyTypes /\ RunKnows
    OBVIOUS
  <2>1. CopyTypes
    <3>1. canonical \in IntTree
      BY DEF WorkspacesInit, IntTree, Absent
    <3>2. QED
      BY <3>1, Specials DEF WorkspacesInit, CopyTypes
  <2>2. worker.pc = "idle"
    BY DEF WorkspacesInit, IdleWorker
  <2>3. RunKnows
    BY <2>2 DEF RunKnows, Left, KnownInCopy, KnownInGate
  <2>4. QED
    BY <2>1, <2>3
<1>2. CopyTypes /\ RunKnows /\ [WorkspacesNext]_workspaceVars => (CopyTypes /\ RunKnows)'
  BY TypesStep, KnowsStep, WorkspacesConstants
<1>3. QED
  BY <1>1, <1>2, PTL DEF WorkspacesSpec

\* For any files and any number of edits, runs and restores: what a promotion overwrites or deletes is what the run was
\* given, save where somebody wrote in one of the two windows (promote, workspace/promotion.py).
THEOREM EditsAreKept == WorkspacesSpec => PromotionKeepsEdits
<1>1. CopyTypes /\ RunKnows /\ [WorkspacesNext]_workspaceVars =>
        [\A f \in Files \ raced : PromoteFile(f) \/ DeleteFile(f) => canonical[f] = origin[f]]_workspaceVars
  <2> SUFFICES ASSUME CopyTypes, RunKnows, NEW f \in Files \ raced, PromoteFile(f) \/ DeleteFile(f) PROVE canonical[f] = origin[f]
    OBVIOUS
  <2>1. f \in worker.left /\ worker.pc \in {"promote", "delete"}
    BY DEF PromoteFile, DeleteFile
  <2>2. QED
    BY <2>1 DEF RunKnows, Left, KnownInGate
<1>2. QED
  BY <1>1, WorkspacesInvariant, PTL DEF WorkspacesSpec, PromotionKeepsEdits

\* A promotion that reports APPLIED brought over everything the run created, modified or deleted (promote).
THEOREM AppliedIsComplete == WorkspacesSpec => PromotionComplete
<1>1. CopyTypes /\ RunKnows /\ [WorkspacesNext]_workspaceVars =>
        [worker.pc = "delete" /\ worker'.outcome = "applied" => \A f \in ChangedFiles \ raced : canonical[f] = exec[f]]_workspaceVars
  <2> SUFFICES ASSUME CopyTypes, RunKnows, [WorkspacesNext]_workspaceVars, worker.pc = "delete", worker'.outcome = "applied", NEW f \in ChangedFiles \ raced
               PROVE  canonical[f] = exec[f]
    OBVIOUS
  <2>1. worker.outcome = "none" /\ worker' # worker
    BY DEF RunKnows, Left
  <2>2. ASSUME NEW g \in Files, DeleteFile(g) PROVE worker'.outcome = "none"
    BY <2>1, <2>2, DoneIs DEF DeleteFile, Promoted
  <2>3. PromotionEnds
    BY <2>1, <2>2 DEF WorkspacesNext, Worker, Restore, workspaceVars, Edit, StartRun, EndIsolation, BeginCapture, SkipCapture, BeginStore, EndCapture, RunRaises,
       EndExecution, CheckDrift, BeginDeletes, CopyFile, HashFile, FingerprintFile, StoreFile, Execute, DriftHash, PromoteFile,
       StartRestore, EndPreview, EndRemove, BeginVerify, EndVerify, RestoreRaises, RestoreHash, RemoveFile, ReplaceFile,
       RestoreWrites, RestoreReads, RestoreOnly
  <2>4. worker.left = {}
    <3>1. ~EndRun("promotion failed")
      BY EndRunIs
    <3>2. QED
      BY <2>3, <3>1 DEF PromotionEnds
  <2>5. QED
    BY <2>4 DEF RunKnows, KnownInGate, ChangedFiles
<1>2. QED
  BY <1>1, WorkspacesInvariant, PTL DEF WorkspacesSpec, PromotionComplete
-----------------------------------------------------------------------------
(* Restores.  The snapshot says what the project was while nobody wrote to *)
(* it, a phase at a time, and an undisturbed restore makes the project what *)
(* its snapshot says, a phase at a time.                                   *)

\* A snapshot that is complete: local files are not in its manifest, and if
\* nobody wrote meanwhile, it has stored the project as it was.
Complete(s) ==
  /\ \A f \in Local : s.hash[f] = Absent
  /\ ~s.torn => \A f \in Captured : s.hash[f] = s.tree[f] /\ (s.hash[f] # Absent => s.file[f] = s.hash[f])

CapturingNow ==
  worker.pc \in {"baseline", "store"} =>
    /\ ~snap.kept /\ worker.left \subseteq Captured
    /\ \A f \in Local : snap.hash[f] = Absent
    /\ ~snap.torn => canonical = snap.tree
Hashing == worker.pc = "baseline" /\ ~snap.torn => \A f \in Captured \ worker.left : snap.hash[f] = snap.tree[f]
Storing ==
  worker.pc = "store" /\ ~snap.torn =>
    \A f \in Captured : snap.hash[f] = snap.tree[f] /\ (f \notin worker.left /\ snap.hash[f] # Absent => snap.file[f] = snap.hash[f])
Capturing == (snap.kept => Complete(snap)) /\ CapturingNow /\ Hashing /\ Storing

Undisturbed(pc) == restore.pc = pc /\ ~restore.disturbed
Previewing == Undisturbed("preview") => \A f \in Files \ restore.left : restore.seen[f] = canonical[f]
Removing ==
  Undisturbed("remove") =>
    restore.left \subseteq ToRemove /\ \A f \in Files : canonical[f] = IF f \in ToRemove \ restore.left THEN Absent ELSE restore.seen[f]
Replacing ==
  Undisturbed("replace") =>
    /\ restore.left \subseteq ToRestore
    /\ \A f \in Files \ ToRestore : canonical[f] = restore.of.hash[f]
    /\ \A f \in ToRestore \ restore.left : canonical[f] = restore.of.file[f]
Replaced(f) == canonical[f] = restore.of.hash[f] \/ (restore.of.hash[f] # Absent /\ canonical[f] = restore.of.file[f])
Verifying == Undisturbed("verify") => \A f \in Files : Replaced(f) /\ (f \notin restore.left => restore.seen[f] = canonical[f])
Restoring == (restore.pc # "idle" => Complete(restore.of)) /\ Previewing /\ Removing /\ Replacing /\ Verifying

\* A step that writes no file of the project, of the snapshot or of the
\* worker's phase keeps what a capture knows.
LEMMA CaptureRests == ASSUME Capturing, UNCHANGED <<canonical, snap, worker>> PROVE Capturing'
BY DEF Capturing, CapturingNow, Hashing, Storing, Complete

\* ... as does one by the worker outside of a capture ...
LEMMA CaptureOutside ==
    ASSUME Capturing, UNCHANGED snap, worker'.pc \notin {"baseline", "store"}
    PROVE  Capturing'
BY DEF Capturing, CapturingNow, Hashing, Storing, Complete

\* ... and one that makes the snapshot a torn one, if it was being made.
LEMMA CaptureTorn ==
    ASSUME CopyTypes, Capturing, snap' = TornSnap, UNCHANGED worker
    PROVE  Capturing'
<1>1. snap \in Snap
  BY DEF CopyTypes
<1>2. /\ snap'.hash = snap.hash /\ snap'.file = snap.file /\ snap'.kept = snap.kept /\ snap'.tree = snap.tree
      /\ snap'.torn = (snap.torn \/ worker.pc \in {"baseline", "store"})
  BY <1>1 DEF TornSnap, Snap
<1>3. CASE worker.pc \in {"baseline", "store"}
  <2>1. snap'.torn = TRUE /\ ~snap.kept
    BY <1>2, <1>3 DEF Capturing, CapturingNow
  <2> QED BY <1>2, <1>3, <2>1 DEF Capturing, CapturingNow, Hashing, Storing, Complete
<1>4. CASE worker.pc \notin {"baseline", "store"}
  <2>1. snap'.torn = snap.torn
    BY <1>1, <1>2, <1>4 DEF Snap
  <2> QED BY <1>2, <1>4, <2>1 DEF Capturing, CapturingNow, Hashing, Storing, Complete
<1> QED BY <1>3, <1>4

\* Every step of the worker keeps what its capture knows.
LEMMA WorkerCaptures == ASSUME CopyTypes, Capturing, Worker PROVE Capturing'
<1>1. /\ snap \in Snap /\ worker \in WorkerState /\ canonical \in IntTree
      /\ snap.hash \in IntTree /\ snap.file \in IntTree /\ Captured \subseteq Files
  BY DEF CopyTypes, Snap, Captured
<1>2. ASSUME UNCHANGED snap, worker'.pc = worker.pc, worker.pc \notin {"baseline", "store"} PROVE Capturing'
  BY <1>2, CaptureOutside
<1>3. ASSUME NEW pc \in WorkerPcs \ {"baseline", "store"}, NEW left \in SUBSET Files, WorkerTo(pc, left), UNCHANGED snap PROVE Capturing'
  BY <1>3, WorkerToIs, CaptureOutside
<1>4. ASSUME NEW o \in {"failed", "not promoted", "nothing to promote", "blocked", "applied", "promotion failed"}, EndRun(o), UNCHANGED snap
      PROVE  Capturing'
  BY <1>4, EndRunIs, CaptureOutside
<1>5. CASE StartRun
  <2>1. PICK mode \in {"promote_on_success", "dry_run"} : worker' = [IdleWorker EXCEPT !.pc = "copy", !.left = Files, !.mode = mode]
    BY <1>5 DEF StartRun
  <2>2. worker'.pc = "copy"
    BY <2>1 DEF IdleWorker
  <2> QED BY <1>5, <2>2, CaptureOutside DEF StartRun
<1>6. CASE EndIsolation
  BY <1>3, <1>6 DEF EndIsolation, WorkerPcs
<1>7. CASE BeginCapture
  <2>1. WorkerTo("baseline", Captured) /\ snap' = [NoSnap EXCEPT !.tree = canonical] /\ canonical' = canonical
    BY <1>7 DEF BeginCapture
  <2>2. worker'.pc = "baseline" /\ worker'.left = Captured
    BY <1>1, <2>1, WorkerToIs DEF WorkerPcs
  <2>3. snap'.kept = FALSE /\ snap'.torn = FALSE /\ snap'.hash = NoTree /\ snap'.tree = canonical
    BY <2>1 DEF NoSnap
  <2>4. \A f \in Local : snap'.hash[f] = Absent
    BY <2>3, WorkspacesConstants DEF NoTree
  <2> QED BY <2>1, <2>2, <2>3, <2>4 DEF Capturing, CapturingNow, Hashing, Storing
<1>8. CASE SkipCapture
  BY <1>3, <1>8 DEF SkipCapture, WorkerPcs
<1>9. CASE BeginStore
  <2> DEFINE toStore == {f \in Captured : snap.hash[f] # Absent}
  <2>1. worker.pc = "baseline" /\ worker.left = {} /\ WorkerTo("store", toStore) /\ UNCHANGED <<canonical, snap>>
    BY <1>9 DEF BeginStore
  <2>2. toStore \in SUBSET Files
    BY <1>1
  <2>3. worker'.pc = "store" /\ worker'.left = toStore
    <3> HIDE DEF toStore
    <3> QED BY <2>1, <2>2, WorkerToIs DEF WorkerPcs
  <2> QED BY <2>1, <2>3 DEF Capturing, CapturingNow, Hashing, Storing, Complete
<1>10. CASE EndCapture
  <2>1. /\ worker.pc = "store" /\ worker.left = {} /\ snap' = [snap EXCEPT !.kept = TRUE]
        /\ EndRun("failed") \/ WorkerTo("execute", {})
    BY <1>10 DEF EndCapture
  <2>2. worker'.pc \notin {"baseline", "store"}
    BY <2>1, EndRunIs, WorkerToIs DEF WorkerPcs
  <2>3. snap'.hash = snap.hash /\ snap'.file = snap.file /\ snap'.tree = snap.tree /\ snap'.torn = snap.torn
    BY <1>1, <2>1 DEF Snap
  <2>4. Complete(snap')
    BY <2>1, <2>3 DEF Capturing, CapturingNow, Storing, Complete
  <2> QED BY <2>2, <2>4 DEF Capturing, CapturingNow, Hashing, Storing
<1>11. CASE RunRaises \/ PromotionEnds
  BY <1>4, <1>11 DEF RunRaises, PromotionEnds
<1>12. CASE EndExecution
  <2>1. UNCHANGED snap /\ (EndRun("not promoted") \/ EndRun("nothing to promote") \/ WorkerTo("drift", Files))
    BY <1>12 DEF EndExecution
  <2> QED BY <1>3, <1>4, <2>1 DEF WorkerPcs
<1>13. CASE CheckDrift
  <2> DEFINE written == {f \in ChangedFiles : exec[f] # Absent}
  <2>1. UNCHANGED snap /\ (EndRun("blocked") \/ WorkerTo("promote", written)) /\ written \in SUBSET Files
    BY <1>13 DEF CheckDrift, ChangedFiles
  <2> HIDE DEF written
  <2> QED BY <1>3, <1>4, <2>1 DEF WorkerPcs
<1>14. CASE BeginDeletes
  <2> DEFINE gone == {f \in ChangedFiles : exec[f] = Absent}
  <2>1. UNCHANGED snap /\ WorkerTo("delete", gone) /\ gone \in SUBSET Files
    BY <1>14 DEF BeginDeletes, ChangedFiles
  <2> HIDE DEF gone
  <2> QED BY <1>3, <2>1 DEF WorkerPcs
<1>15. ASSUME NEW f \in Files, CopyFile(f) \/ HashFile(f) \/ PromoteFile(f) \/ DeleteFile(f) PROVE Capturing'
  BY <1>2, <1>15, DoneIs DEF CopyFile, HashFile, PromoteFile, DeleteFile, Promoted
<1>16. ASSUME NEW f \in Files, FingerprintFile(f) PROVE Capturing'
  <2>1. /\ worker.pc = "baseline" /\ f \in worker.left /\ snap' = [snap EXCEPT !.hash[f] = canonical[f]] /\ Done(f)
        /\ canonical' = canonical
    BY <1>16 DEF FingerprintFile
  <2>2. worker'.pc = "baseline" /\ worker'.left = worker.left \ {f}
    BY <2>1, DoneIs
  <2>3. snap'.hash = [snap.hash EXCEPT ![f] = canonical[f]] /\ snap'.kept = snap.kept /\ snap'.tree = snap.tree /\ snap'.torn = snap.torn
    BY <1>1, <2>1 DEF Snap
  <2>4. \A g \in Files : snap'.hash[g] = IF g = f THEN canonical[f] ELSE snap.hash[g]
    BY <1>1, <2>3 DEF IntTree
  <2>5. f \in Captured /\ ~snap.kept /\ worker.left \subseteq Captured
    BY <2>1 DEF Capturing, CapturingNow
  <2>6. CapturingNow'
    BY <2>1, <2>2, <2>3, <2>4, <2>5, WorkspacesConstants DEF Capturing, CapturingNow, Captured
  <2>7. Hashing'
    BY <1>1, <2>1, <2>2, <2>3, <2>4 DEF Capturing, CapturingNow, Hashing
  <2> QED BY <2>2, <2>3, <2>5, <2>6, <2>7 DEF Capturing, Storing
<1>17. ASSUME NEW f \in Files, StoreFile(f) PROVE Capturing'
  <2>1. /\ worker.pc = "store" /\ f \in worker.left /\ snap' = [snap EXCEPT !.file[f] = canonical[f]] /\ Done(f)
        /\ canonical' = canonical
    BY <1>17 DEF StoreFile
  <2>2. worker'.pc = "store" /\ worker'.left = worker.left \ {f}
    BY <2>1, DoneIs
  <2>3. /\ snap'.file = [snap.file EXCEPT ![f] = canonical[f]] /\ snap'.hash = snap.hash
        /\ snap'.kept = snap.kept /\ snap'.tree = snap.tree /\ snap'.torn = snap.torn
    BY <1>1, <2>1 DEF Snap
  <2>4. \A g \in Files : snap'.file[g] = IF g = f THEN canonical[f] ELSE snap.file[g]
    BY <1>1, <2>3 DEF IntTree
  <2>5. f \in Captured /\ ~snap.kept
    BY <2>1 DEF Capturing, CapturingNow
  <2>6. CapturingNow'
    BY <2>1, <2>2, <2>3 DEF Capturing, CapturingNow
  <2>7. Storing'
    BY <1>1, <2>1, <2>2, <2>3, <2>4, <2>5 DEF Capturing, CapturingNow, Storing
  <2> QED BY <2>2, <2>3, <2>5, <2>6, <2>7 DEF Capturing, Hashing
<1>18. ASSUME NEW f \in Files, Execute(f) PROVE Capturing'
  BY <1>18, CaptureRests DEF Execute
<1>19. ASSUME NEW f \in Files, DriftHash(f) PROVE Capturing'
  <2>1. worker.pc = "drift" /\ worker' = [worker EXCEPT !.left = @ \ {f}, !.seen[f] = canonical[f]] /\ UNCHANGED snap
    BY <1>19 DEF DriftHash
  <2>2. worker'.pc = "drift"
    BY <1>1, <2>1 DEF WorkerState
  <2> QED BY <2>1, <2>2, CaptureOutside
<1> QED BY <1>5, <1>6, <1>7, <1>8, <1>9, <1>10, <1>11, <1>12, <1>13, <1>14, <1>15, <1>16, <1>17, <1>18, <1>19 DEF Worker

\* A step that leaves the project and the restore alone keeps what the
\* restore knows, and one by others makes it a disturbed one.
LEMMA RestoreRests == ASSUME Restoring, UNCHANGED <<canonical, restore>> PROVE Restoring'
BY DEF Restoring, Previewing, Removing, Replacing, Verifying, Replaced, Undisturbed, ToRemove, ToRestore, Complete

LEMMA RestoreDisturbed == ASSUME CopyTypes, Restoring, restore' = Disturbed PROVE Restoring'
<1>1. restore'.pc = restore.pc /\ restore'.of = restore.of /\ (restore.pc # "idle" => restore'.disturbed)
  BY DEF Disturbed, CopyTypes, RestoreState
<1> QED BY <1>1 DEF Restoring, Previewing, Removing, Replacing, Verifying, Undisturbed

\* A restore that ends knows nothing.
LEMMA EndRestoreIs ==
    ASSUME NEW o \in {"verified", "failed_verification", "failed"}, EndRestore(o)
    PROVE  restore'.pc = "idle" /\ restore'.outcome = o
BY DEF EndRestore, IdleRestore

\* Every step of a restore keeps what it knows.
LEMMA RestoreStep == ASSUME CopyTypes, Capturing, Restoring, Restore PROVE Restoring'
<1>1. /\ restore \in RestoreState /\ canonical \in IntTree /\ restore.seen \in IntTree /\ restore.of \in Snap
      /\ restore.of.hash \in IntTree /\ restore.of.file \in IntTree /\ ToRemove \subseteq Files /\ ToRestore \subseteq Files
  BY DEF CopyTypes, RestoreState, Snap, ToRemove, ToRestore
<1>2. ASSUME NEW o \in {"verified", "failed_verification", "failed"}, EndRestore(o) PROVE Restoring'
  BY <1>2, EndRestoreIs DEF Restoring, Previewing, Removing, Replacing, Verifying, Undisturbed
<1>3. CASE StartRestore
  <2>1. snap.kept /\ restore' = [IdleRestore EXCEPT !.pc = "preview", !.left = Files, !.of = snap]
    BY <1>3 DEF StartRestore
  <2>2. restore'.pc = "preview" /\ restore'.left = Files /\ restore'.of = snap
    BY <2>1 DEF IdleRestore
  <2>3. Complete(restore'.of)
    BY <2>1, <2>2 DEF Capturing
  <2> QED BY <2>2, <2>3 DEF Restoring, Previewing, Removing, Replacing, Verifying, Undisturbed
<1>4. CASE EndVerify \/ RestoreRaises
  <2>1. EndRestore("verified") \/ EndRestore("failed_verification") \/ EndRestore("failed")
    BY <1>4 DEF EndVerify, RestoreRaises
  <2> QED BY <1>2, <2>1
<1>5. CASE EndPreview
  <2>1. restore.pc = "preview" /\ restore.left = {} /\ restore' = [restore EXCEPT !.pc = "remove", !.left = ToRemove] /\ canonical' = canonical
    BY <1>5 DEF EndPreview, RestoreReads
  <2>2. /\ restore'.pc = "remove" /\ restore'.left = ToRemove /\ restore'.of = restore.of /\ restore'.seen = restore.seen
        /\ restore'.disturbed = restore.disturbed
    BY <1>1, <2>1 DEF RestoreState
  <2>3. ToRemove' = ToRemove
    BY <2>2 DEF ToRemove
  <2>4. ~restore.disturbed => \A f \in Files : restore.seen[f] = canonical[f]
    BY <2>1 DEF Restoring, Previewing, Undisturbed
  <2>5. Complete(restore'.of)
    BY <2>1, <2>2 DEF Restoring
  <2>6. Removing'
    BY <2>1, <2>2, <2>3, <2>4 DEF Removing, Undisturbed
  <2> QED BY <2>2, <2>5, <2>6 DEF Restoring, Previewing, Replacing, Verifying, Undisturbed
<1>6. CASE EndRemove
  <2>1. restore.pc = "remove" /\ restore.left = {} /\ restore' = [restore EXCEPT !.pc = "replace", !.left = ToRestore] /\ canonical' = canonical
    BY <1>6 DEF EndRemove, RestoreReads
  <2>2. /\ restore'.pc = "replace" /\ restore'.left = ToRestore /\ restore'.of = restore.of /\ restore'.seen = restore.seen
        /\ restore'.disturbed = restore.disturbed
    BY <1>1, <2>1 DEF RestoreState
  <2>3. ToRestore' = ToRestore
    BY <2>2 DEF ToRestore
  <2>4. ~restore.disturbed => \A f \in Files : canonical[f] = IF f \in ToRemove THEN Absent ELSE restore.seen[f]
    BY <2>1 DEF Restoring, Removing, Undisturbed
  <2>5. ~restore.disturbed => \A f \in Files \ ToRestore : canonical[f] = restore.of.hash[f]
    BY <2>4 DEF ToRemove, ToRestore
  <2>6. Complete(restore'.of)
    BY <2>1, <2>2 DEF Restoring
  <2>7. Replacing'
    BY <2>1, <2>2, <2>3, <2>5 DEF Replacing, Undisturbed
  <2> QED BY <2>2, <2>6, <2>7 DEF Restoring, Previewing, Removing, Verifying, Undisturbed
<1>7. CASE BeginVerify
  <2>1. restore.pc = "replace" /\ restore.left = {} /\ RestoreTo("verify", Files) /\ canonical' = canonical
    BY <1>7 DEF BeginVerify, RestoreReads
  <2>2. restore'.pc = "verify" /\ restore'.left = Files /\ restore'.of = restore.of /\ restore'.disturbed = restore.disturbed
    BY <1>1, <2>1 DEF RestoreTo, RestoreState
  <2>3. Complete(restore'.of)
    BY <2>1, <2>2 DEF Restoring
  <2>4. ~restore.disturbed => \A f \in Files : Replaced(f)
    BY <2>1 DEF Restoring, Replacing, Replaced, Undisturbed, ToRestore
  <2>5. Verifying'
    BY <2>1, <2>2, <2>4 DEF Verifying, Replaced, Undisturbed
  <2> QED BY <2>2, <2>3, <2>5 DEF Restoring, Previewing, Removing, Replacing, Undisturbed
<1>8. ASSUME NEW f \in Files, RestoreHash(f) PROVE Restoring'
  <2>1. /\ restore.pc \in {"preview", "verify"} /\ f \in restore.left /\ canonical' = canonical
        /\ restore' = [restore EXCEPT !.left = @ \ {f}, !.seen[f] = canonical[f]]
    BY <1>8 DEF RestoreHash, RestoreReads
  <2>2. /\ restore'.pc = restore.pc /\ restore'.left = restore.left \ {f} /\ restore'.of = restore.of
        /\ restore'.disturbed = restore.disturbed /\ restore'.seen = [restore.seen EXCEPT ![f] = canonical[f]]
    BY <1>1, <2>1 DEF RestoreState
  <2>3. \A g \in Files : restore'.seen[g] = IF g = f THEN canonical[f] ELSE restore.seen[g]
    BY <1>1, <2>2 DEF IntTree
  <2>4. Complete(restore'.of)
    BY <2>1, <2>2 DEF Restoring
  <2>5. Previewing'
    BY <2>1, <2>2, <2>3 DEF Restoring, Previewing, Undisturbed
  <2>6. Verifying'
    BY <2>1, <2>2, <2>3 DEF Restoring, Verifying, Replaced, Undisturbed
  <2> QED BY <2>1, <2>2, <2>4, <2>5, <2>6 DEF Restoring, Removing, Replacing, Undisturbed
<1>9. ASSUME NEW f \in Files, NEW v, f \in restore.left, RestoreWrites(f, v)
      PROVE  /\ restore'.pc = restore.pc /\ restore'.left = restore.left \ {f} /\ restore'.of = restore.of
             /\ restore'.disturbed = restore.disturbed /\ restore'.seen = restore.seen
             /\ ToRemove' = ToRemove /\ ToRestore' = ToRestore
             /\ \A g \in Files : canonical'[g] = IF g = f THEN v ELSE canonical[g]
  <2>1. canonical' = [canonical EXCEPT ![f] = v] /\ restore' = [restore EXCEPT !.left = @ \ {f}]
    BY <1>9 DEF RestoreWrites
  <2>2. /\ restore'.pc = restore.pc /\ restore'.left = restore.left \ {f} /\ restore'.of = restore.of
        /\ restore'.disturbed = restore.disturbed /\ restore'.seen = restore.seen
    BY <1>1, <2>1 DEF RestoreState
  <2>3. \A g \in Files : canonical'[g] = IF g = f THEN v ELSE canonical[g]
    BY <1>1, <2>1 DEF IntTree
  <2> QED BY <2>2, <2>3 DEF ToRemove, ToRestore
<1>10. ASSUME NEW f \in Files, RemoveFile(f) PROVE Restoring'
  <2>1. restore.pc = "remove" /\ f \in restore.left /\ RestoreWrites(f, Absent)
    BY <1>10 DEF RemoveFile
  <2>2. Complete(restore'.of)
    BY <1>9, <2>1 DEF Restoring
  <2>3. Removing'
    BY <1>9, <2>1 DEF Restoring, Removing, Undisturbed
  <2> QED BY <1>9, <2>1, <2>2, <2>3 DEF Restoring, Previewing, Replacing, Verifying, Undisturbed
<1>11. ASSUME NEW f \in Files, ReplaceFile(f) PROVE Restoring'
  <2>1. restore.pc = "replace" /\ f \in restore.left /\ RestoreWrites(f, restore.of.file[f])
    BY <1>11 DEF ReplaceFile
  <2>2. Complete(restore'.of)
    BY <1>9, <2>1 DEF Restoring
  <2>3. Replacing'
    <3> SUFFICES ASSUME Undisturbed("replace")' PROVE
          /\ restore'.left \subseteq ToRestore'
          /\ \A g \in Files \ ToRestore' : canonical'[g] = restore'.of.hash[g]
          /\ \A g \in ToRestore' \ restore'.left : canonical'[g] = restore'.of.file[g]
      BY DEF Replacing
    <3>1. /\ restore.left \subseteq ToRestore
          /\ \A g \in Files \ ToRestore : canonical[g] = restore.of.hash[g]
          /\ \A g \in ToRestore \ restore.left : canonical[g] = restore.of.file[g]
      BY <1>9, <2>1 DEF Restoring, Replacing, Undisturbed
    <3>2. /\ restore'.left = restore.left \ {f} /\ restore'.of = restore.of /\ ToRestore' = ToRestore
          /\ \A g \in Files : canonical'[g] = IF g = f THEN restore.of.file[f] ELSE canonical[g]
      BY <1>9, <2>1
    <3> QED BY <1>1, <2>1, <3>1, <3>2
  <2> QED BY <1>9, <2>1, <2>2, <2>3 DEF Restoring, Previewing, Removing, Verifying, Undisturbed
<1> QED BY <1>3, <1>4, <1>5, <1>6, <1>7, <1>8, <1>10, <1>11 DEF Restore

\* No step makes a capture or a restore wrong about the project.
LEMMA RestoreKnowsStep == ASSUME CopyTypes, Capturing, Restoring, [WorkspacesNext]_workspaceVars PROVE Capturing' /\ Restoring'
<1>1. CASE Worker
  <2>1. (restore' = restore /\ canonical' = canonical) \/ restore' = Disturbed
    BY <1>1 DEF Worker, StartRun, EndIsolation, BeginCapture, SkipCapture, BeginStore, EndCapture, RunRaises, EndExecution,
       CheckDrift, BeginDeletes, PromotionEnds, CopyFile, HashFile, FingerprintFile, StoreFile, Execute, DriftHash,
       PromoteFile, DeleteFile, Promoted, Others
  <2> QED BY <1>1, <2>1, WorkerCaptures, RestoreRests, RestoreDisturbed
<1>2. CASE Restore
  <2>1. UNCHANGED worker /\ (snap' = TornSnap \/ UNCHANGED <<canonical, snap>>)
    BY <1>2 DEF Restore, StartRestore, EndPreview, EndRemove, BeginVerify, EndVerify, RestoreRaises, RestoreHash,
       RemoveFile, ReplaceFile, RestoreWrites, RestoreReads, RestoreOnly
  <2> QED BY <1>2, <2>1, CaptureRests, CaptureTorn, RestoreStep
<1>3. CASE \E f \in Files : Edit(f)
  BY <1>3, CaptureTorn, RestoreDisturbed DEF Edit
<1>4. CASE UNCHANGED workspaceVars
  BY <1>4, CaptureRests, RestoreRests DEF workspaceVars
<1> QED BY <1>1, <1>2, <1>3, <1>4 DEF WorkspacesNext

LEMMA RestoreInvariant == WorkspacesSpec => [](CopyTypes /\ Capturing /\ Restoring)
<1>1. WorkspacesInit => Capturing /\ Restoring
  <2> SUFFICES ASSUME WorkspacesInit PROVE Capturing /\ Restoring
    OBVIOUS
  <2>1. worker.pc = "idle" /\ restore.pc = "idle" /\ snap.kept = FALSE
    BY DEF WorkspacesInit, IdleWorker, IdleRestore, NoSnap
  <2> QED BY <2>1 DEF Capturing, CapturingNow, Hashing, Storing, Restoring, Previewing, Removing, Replacing, Verifying, Undisturbed
<1>2. CopyTypes /\ Capturing /\ Restoring /\ [WorkspacesNext]_workspaceVars => (Capturing /\ Restoring)'
  BY RestoreKnowsStep
<1> QED BY <1>1, <1>2, WorkspacesInvariant, PTL DEF WorkspacesSpec

\* A restore nothing disturbed brings back the project as it was when its
\* snapshot was made at rest, for any project and any number of edits, runs
\* and restores; and what it calls verified is what its manifest says
\* (execute_restore, verify_restored_workspace).
THEOREM RestoreBringsBack == WorkspacesSpec => RestoreRoundTrip
<1> DEFINE Ends == restore.pc = "verify" /\ restore'.pc = "idle" /\ restore'.outcome # "failed" /\ ~restore.disturbed
           AsItWas == [f \in Files |-> IF f \in Local THEN Absent ELSE restore.of.tree[f]]
           Back == /\ ~restore.of.torn => restore'.outcome = "verified" /\ canonical = AsItWas
                   /\ restore'.outcome = "verified" => canonical = restore.of.hash
<1>1. CopyTypes /\ Capturing /\ Restoring /\ [WorkspacesNext]_workspaceVars => [Ends => Back]_workspaceVars
  <2> SUFFICES ASSUME CopyTypes, Restoring, WorkspacesNext, Ends PROVE Back
    BY DEF workspaceVars
  <2>1. EndVerify
    <3>1. ~RestoreRaises
      BY EndRestoreIs DEF RestoreRaises
    <3>2. ASSUME restore' = Disturbed \/ UNCHANGED restore PROVE FALSE
      BY <3>2 DEF Disturbed, CopyTypes, RestoreState
    <3>3. ASSUME Worker \/ \E f \in Files : Edit(f) PROVE FALSE
      BY <3>2, <3>3 DEF Worker, StartRun, EndIsolation, BeginCapture, SkipCapture, BeginStore, EndCapture, RunRaises, EndExecution,
         CheckDrift, BeginDeletes, PromotionEnds, CopyFile, HashFile, FingerprintFile, StoreFile, Execute, DriftHash,
         PromoteFile, DeleteFile, Promoted, Others, Edit
    <3>4. ASSUME NEW f \in Files, RestoreHash(f) PROVE FALSE
      BY <3>4 DEF RestoreHash, CopyTypes, RestoreState
    <3> QED BY <3>1, <3>3, <3>4 DEF WorkspacesNext, Restore, StartRestore, EndPreview, EndRemove, BeginVerify, RemoveFile, ReplaceFile
  <2>2. /\ restore.left = {} /\ EndRestore(IF restore.seen = restore.of.hash THEN "verified" ELSE "failed_verification")
    BY <2>1 DEF EndVerify
  <2>3. restore'.outcome = IF restore.seen = restore.of.hash THEN "verified" ELSE "failed_verification"
    BY <2>2 DEF EndRestore, IdleRestore
  <2>4. \A f \in Files : Replaced(f) /\ restore.seen[f] = canonical[f]
    BY <2>2 DEF Restoring, Verifying, Undisturbed
  <2>5. canonical \in IntTree /\ restore.seen \in IntTree /\ restore.of.hash \in IntTree
    BY DEF CopyTypes, RestoreState, Snap
  <2>6. restore.seen = canonical
    BY <2>4, <2>5 DEF IntTree
  <2>7. ASSUME ~restore.of.torn PROVE canonical = restore.of.hash /\ canonical = AsItWas
    <3>1. /\ \A f \in Local : restore.of.hash[f] = Absent
          /\ \A f \in Captured : restore.of.hash[f] = restore.of.tree[f] /\ (restore.of.hash[f] # Absent => restore.of.file[f] = restore.of.hash[f])
      BY <2>7 DEF Restoring, Complete
    <3>2. \A f \in Files : canonical[f] = restore.of.hash[f]
      BY <2>4, <3>1 DEF Replaced, Captured
    <3>3. canonical = restore.of.hash
      BY <2>5, <3>2 DEF IntTree
    <3>4. \A f \in Files : canonical[f] = IF f \in Local THEN Absent ELSE restore.of.tree[f]
      BY <3>1, <3>2 DEF Captured
    <3>5. canonical = AsItWas
      BY <2>5, <3>4 DEF IntTree
    <3> QED BY <3>3, <3>5
  <2> QED BY <2>3, <2>6, <2>7
<1> QED BY <1>1, RestoreInvariant, PTL DEF WorkspacesSpec, RestoreRoundTrip

\* What promotions and restores may do to the user's files, all together: no
\* edit is lost outside the windows the code leaves open, a promotion that
\* reports APPLIED is whole, an undisturbed restore brings the project back.
THEOREM CanonicalIsKept == WorkspacesSpec => CanonicalKept
BY EditsAreKept, AppliedIsComplete, RestoreBringsBack DEF CanonicalKept
-----------------------------------------------------------------------------
(***************************************************************************)
(* The types of the files and of the threads, and what a phase guarantees. *)
(***************************************************************************)

\* Every version is one the program, a run or an edit within the bound makes.
Versions ==
  /\ canonical \in Tree /\ exec \in Tree /\ manifest \in Tree /\ snap.hash \in Tree /\ snap.file \in Tree
  /\ worker.seen \in Tree /\ restore.seen \in Tree /\ restore.of.file \in Tree
  /\ edits \in 0..MaxEdits

\* A snapshot under way is not kept yet, and has stored what its manifest names save what is left to store.
Phases ==
  /\ worker.pc = "idle" => worker.left = {}
  /\ worker.pc = "baseline" => worker.left \subseteq Captured
  /\ snap.kept => worker.pc \notin {"baseline", "store"}
  /\ \A f \in Local : snap.hash[f] = Absent
  /\ worker.pc = "store" => \A f \in Files : snap.hash[f] # Absent /\ f \notin worker.left => snap.file[f] # Absent
  /\ snap.kept => \A f \in Files : snap.hash[f] # Absent => snap.file[f] # Absent

\* Writing a version leaves a tree of versions, and those written are versions.
LEMMA WriteTree == \A t \in Tree, v \in Version, f \in Files : [t EXCEPT ![f] = v] \in Tree
  BY DEF Tree

LEMMA VersionsAre == ASSUME WorkspacesConstants, Versions
    PROVE  /\ MaxEdits \in Nat /\ Absent \in Version /\ RunVersion \in Version /\ NoTree \in Tree
           /\ \A f \in Files : canonical[f] \in Version /\ exec[f] \in Version /\ restore.of.file[f] \in Version
           /\ edits < MaxEdits => edits + 2 \in Version /\ edits + 1 \in 0..MaxEdits
<1>1. MaxEdits \in Nat
  BY DEF WorkspacesConstants
<1>2. Absent \in Version /\ RunVersion \in Version
  BY <1>1 DEF Absent, RunVersion, Version
<1>3. NoTree \in Tree
  BY <1>2 DEF NoTree, Tree
<1>4. edits < MaxEdits => edits + 2 \in Version /\ edits + 1 \in 0..MaxEdits
  BY <1>1 DEF Versions, Version, RunVersion
<1>5. QED
  BY <1>1, <1>2, <1>3, <1>4 DEF Versions, Tree

\* A torn snapshot and a disturbed restore are otherwise what they were.
LEMMA HistoryOnly == ASSUME CopyTypes
    PROVE  /\ TornSnap.hash = snap.hash /\ TornSnap.file = snap.file /\ TornSnap.kept = snap.kept
           /\ Disturbed.seen = restore.seen /\ Disturbed.of = restore.of
  BY DEF CopyTypes, TornSnap, Disturbed, Snap, RestoreState

LEMMA VersionsStep == ASSUME WorkspacesConstants, CopyTypes, Versions, [WorkspacesNext]_workspaceVars PROVE Versions'
<1>0. snap \in Snap /\ worker \in WorkerState /\ restore \in RestoreState
  BY DEF CopyTypes
<1>1. ASSUME NEW f \in Files, Edit(f) PROVE Versions'
  <2>1. canonical' \in Tree /\ edits' \in 0..MaxEdits /\ UNCHANGED <<exec, manifest, worker>> /\ snap' = TornSnap /\ restore' = Disturbed
    <3>1. PICK v \in {Absent, edits + 2} : canonical' = [canonical EXCEPT ![f] = v]
      BY <1>1 DEF Edit
    <3>2. v \in Version /\ edits' \in 0..MaxEdits /\ canonical \in Tree
      BY <1>1, VersionsAre DEF Edit, Versions
    <3>3. QED
      BY <1>1, <3>1, <3>2, WriteTree DEF Edit
  <2>2. QED
    BY <2>1, HistoryOnly DEF Versions
<1>2. CASE StartRun
  <2>1. worker'.seen = NoTree /\ exec' = NoTree /\ manifest' = NoTree /\ UNCHANGED <<canonical, snap, restore, edits>>
    BY <1>2 DEF StartRun, IdleWorker
  <2>2. QED
    BY <2>1, VersionsAre DEF Versions
<1>3. ASSUME NEW f \in Files, CopyFile(f) \/ HashFile(f) \/ Execute(f) PROVE Versions'
  <2>1. worker'.seen = worker.seen
    BY <1>3, DoneIs DEF CopyFile, HashFile, Execute
  <2>2. exec' \in Tree /\ manifest' \in Tree /\ UNCHANGED <<canonical, snap, restore, edits>>
    <3>1. exec \in Tree /\ manifest \in Tree /\ canonical[f] \in Version /\ Absent \in Version /\ RunVersion \in Version
      BY <1>3, VersionsAre DEF Versions
    <3>2. exec' \in Tree /\ manifest' \in Tree
      <4>1. \A v \in Version : [exec EXCEPT ![f] = v] \in Tree /\ [manifest EXCEPT ![f] = v] \in Tree
        BY <1>3, <3>1, WriteTree
      <4>2. QED
        BY <1>3, <3>1, <4>1 DEF CopyFile, HashFile, Execute
    <3>3. QED
      BY <1>3, <3>2 DEF CopyFile, HashFile, Execute, Others
  <2>3. QED
    BY <2>1, <2>2 DEF Versions
<1>4. ASSUME NEW f \in Files, FingerprintFile(f) \/ StoreFile(f) PROVE Versions'
  <2>1. worker'.seen = worker.seen /\ UNCHANGED <<canonical, exec, manifest, restore, edits>>
    BY <1>4, DoneIs DEF FingerprintFile, StoreFile, Others
  <2>2. snap'.hash \in {snap.hash, [snap.hash EXCEPT ![f] = canonical[f]]} /\ snap'.file \in {snap.file, [snap.file EXCEPT ![f] = canonical[f]]}
    BY <1>0, <1>4 DEF FingerprintFile, StoreFile, Snap
  <2>3. snap'.hash \in Tree /\ snap'.file \in Tree
    <3>1. snap.hash \in Tree /\ snap.file \in Tree /\ canonical[f] \in Version
      BY <1>4, VersionsAre DEF Versions
    <3>2. [snap.hash EXCEPT ![f] = canonical[f]] \in Tree /\ [snap.file EXCEPT ![f] = canonical[f]] \in Tree
      BY <1>4, <3>1, WriteTree
    <3>3. QED
      BY <2>2, <3>1, <3>2
  <2>4. QED
    BY <2>1, <2>3 DEF Versions
<1>5. CASE EndIsolation \/ SkipCapture \/ BeginStore \/ CheckDrift \/ BeginDeletes \/ RunRaises \/ PromotionEnds \/ EndExecution
           \/ BeginCapture \/ EndCapture
  <2>1. UNCHANGED <<canonical, exec, manifest, restore, edits>> /\ Versions
    BY <1>5 DEF EndIsolation, SkipCapture, BeginStore, CheckDrift, BeginDeletes, RunRaises, PromotionEnds, EndExecution, BeginCapture, EndCapture, Others
  <2>2. worker'.seen \in {worker.seen, NoTree}
    BY <1>0, <1>5 DEF EndIsolation, SkipCapture, BeginStore, CheckDrift, BeginDeletes, RunRaises, PromotionEnds, EndExecution, BeginCapture, EndCapture,
      WorkerTo, EndRun, WorkerState, IdleWorker
  <2>3. snap'.hash \in {snap.hash, NoTree} /\ snap'.file \in {snap.file, NoTree}
    <3>1. CASE BeginCapture
      BY <3>1 DEF BeginCapture, NoSnap
    <3>2. CASE EndCapture
      BY <1>0, <3>2 DEF EndCapture, Snap
    <3>3. CASE ~BeginCapture /\ ~EndCapture
      BY <1>5, <3>3 DEF EndIsolation, SkipCapture, BeginStore, CheckDrift, BeginDeletes, RunRaises, PromotionEnds, EndExecution
    <3>4. QED
      BY <3>1, <3>2, <3>3
  <2>4. QED
    BY <2>1, <2>2, <2>3, VersionsAre DEF Versions
<1>6. ASSUME NEW f \in Files, DriftHash(f) PROVE Versions'
  <2>1. worker'.seen = [worker.seen EXCEPT ![f] = canonical[f]] /\ UNCHANGED <<canonical, exec, manifest, snap, restore, edits>>
    BY <1>0, <1>6 DEF DriftHash, WorkerState, Others
  <2>2. worker'.seen \in Tree
    <3>1. worker.seen \in Tree /\ canonical[f] \in Version
      BY <1>6, VersionsAre DEF Versions
    <3>2. QED
      BY <1>6, <2>1, <3>1, WriteTree
  <2>3. QED
    BY <2>1, <2>2 DEF Versions
<1>7. ASSUME NEW f \in Files, PromoteFile(f) \/ DeleteFile(f) PROVE Versions'
  <2>1. worker'.seen = worker.seen /\ canonical' = [canonical EXCEPT ![f] = exec[f]] /\ restore' = Disturbed /\ UNCHANGED <<exec, manifest, snap, edits>>
    BY <1>7, DoneIs DEF PromoteFile, DeleteFile, Promoted
  <2>2. canonical' \in Tree
    BY <2>1, VersionsAre, WriteTree DEF Versions
  <2>3. QED
    BY <2>1, <2>2, HistoryOnly DEF Versions
<1>8. CASE StartRestore
  <2>1. restore'.seen = NoTree /\ restore'.of.file = snap.file /\ UNCHANGED <<canonical, exec, manifest, snap, worker, edits>>
    BY <1>8 DEF StartRestore, IdleRestore, RestoreOnly
  <2>2. QED
    BY <2>1, VersionsAre DEF Versions
<1>9. ASSUME NEW f \in Files, RestoreHash(f) PROVE Versions'
  <2>1. restore'.seen = [restore.seen EXCEPT ![f] = canonical[f]] /\ restore'.of = restore.of /\ UNCHANGED <<canonical, exec, manifest, snap, worker, edits>>
    BY <1>0, <1>9 DEF RestoreHash, RestoreState, RestoreReads, RestoreOnly
  <2>2. restore'.seen \in Tree
    <3>1. restore.seen \in Tree /\ canonical[f] \in Version
      BY <1>9, VersionsAre DEF Versions
    <3>2. QED
      BY <1>9, <2>1, <3>1, WriteTree
  <2>3. QED
    BY <2>1, <2>2 DEF Versions
<1>10. CASE EndPreview \/ EndRemove \/ BeginVerify \/ EndVerify \/ RestoreRaises
  <2>1. UNCHANGED <<canonical, exec, manifest, snap, worker, edits>>
    BY <1>10 DEF EndPreview, EndRemove, BeginVerify, EndVerify, RestoreRaises, RestoreReads, RestoreOnly
  <2>2. restore'.seen \in {restore.seen, NoTree} /\ restore'.of.file \in {restore.of.file, NoTree}
    <3>1. CASE EndPreview \/ EndRemove
      BY <1>0, <3>1 DEF EndPreview, EndRemove, RestoreState
    <3>2. CASE BeginVerify
      BY <1>0, <3>2 DEF BeginVerify, RestoreTo, RestoreState
    <3>3. CASE EndVerify \/ RestoreRaises
      BY <3>3 DEF EndVerify, RestoreRaises, EndRestore, IdleRestore, NoSnap
    <3>4. QED
      BY <1>10, <3>1, <3>2, <3>3
  <2>3. QED
    BY <2>1, <2>2, VersionsAre DEF Versions
<1>11. ASSUME NEW f \in Files, RemoveFile(f) \/ ReplaceFile(f) PROVE Versions'
  <2>1. PICK v \in Version : RestoreWrites(f, v)
    BY <1>11, VersionsAre DEF RemoveFile, ReplaceFile
  <2>2. canonical' = [canonical EXCEPT ![f] = v] /\ snap' = TornSnap /\ UNCHANGED <<exec, manifest, worker, edits>>
    BY <2>1 DEF RestoreWrites, RestoreOnly
  <2>3. restore'.seen = restore.seen /\ restore'.of = restore.of
    BY <1>0, <2>1 DEF RestoreWrites, RestoreState
  <2>4. canonical' \in Tree
    BY <2>2, WriteTree DEF Versions
  <2>5. QED
    BY <2>2, <2>3, <2>4, HistoryOnly DEF Versions
<1>12. CASE UNCHANGED workspaceVars
  BY <1>12 DEF workspaceVars, Versions
<1>13. QED
  BY <1>1, <1>2, <1>3, <1>4, <1>5, <1>6, <1>7, <1>8, <1>9, <1>10, <1>11, <1>12 DEF WorkspacesNext, Worker, Restore

LEMMA PhasesStep == ASSUME WorkspacesConstants, CopyTypes, Versions, Phases, [WorkspacesNext]_workspaceVars PROVE Phases'
<1>0. snap \in Snap /\ worker \in WorkerState /\ Captured \in SUBSET Files /\ Local \subseteq Files /\ worker.left \subseteq Files
  BY DEF CopyTypes, Captured, WorkspacesConstants, WorkerState
<1>1. ASSUME UNCHANGED worker, UNCHANGED snap \/ snap' = TornSnap PROVE Phases'
  <2>1. snap'.hash = snap.hash /\ snap'.file = snap.file /\ snap'.kept = snap.kept
    BY <1>1, HistoryOnly
  <2>2. QED
    BY <1>1, <2>1 DEF Phases
<1>2. ASSUME NEW pc \in WorkerPcs \ {"idle", "baseline", "store"}, worker'.pc = pc, UNCHANGED snap PROVE Phases'
  BY <1>2 DEF Phases
<1>3. ASSUME NEW outcome \in {"failed", "not promoted", "nothing to promote", "blocked", "applied", "promotion failed"}, EndRun(outcome), UNCHANGED snap
      PROVE  Phases'
  <2>1. worker'.pc = "idle" /\ worker'.left = {}
    BY <1>3, EndRunIs DEF EndRun, IdleWorker
  <2>2. QED
    BY <1>3, <2>1 DEF Phases
<1>4. CASE StartRun
  <2>1. worker'.pc = "copy" /\ UNCHANGED snap
    BY <1>4 DEF StartRun, IdleWorker
  <2>2. QED
    BY <1>2, <2>1 DEF WorkerPcs
<1>5. ASSUME NEW f \in Files, CopyFile(f) \/ HashFile(f) \/ DriftHash(f) \/ PromoteFile(f) \/ DeleteFile(f) PROVE Phases'
  <2>1. worker'.pc = worker.pc /\ worker.pc \in {"copy", "hash", "drift", "promote", "delete"} /\ UNCHANGED snap
    <3>1. CASE DriftHash(f)
      BY <1>0, <3>1 DEF DriftHash, WorkerState
    <3>2. CASE ~DriftHash(f)
      BY <1>5, <3>2, DoneIs DEF CopyFile, HashFile, PromoteFile, DeleteFile, Promoted
    <3>3. QED
      BY <3>1, <3>2
  <2>2. QED
    BY <1>2, <2>1 DEF WorkerPcs
<1>6. CASE EndIsolation \/ SkipCapture \/ CheckDrift \/ BeginDeletes \/ EndExecution \/ RunRaises \/ PromotionEnds
  <2>1. UNCHANGED snap
    BY <1>6 DEF EndIsolation, SkipCapture, CheckDrift, BeginDeletes, EndExecution, RunRaises, PromotionEnds
  <2>2. \/ \E pc \in WorkerPcs \ {"idle", "baseline", "store"}, left \in SUBSET Files : WorkerTo(pc, left)
        \/ \E outcome \in {"failed", "not promoted", "nothing to promote", "blocked", "applied", "promotion failed"} : EndRun(outcome)
    <3>1. {f \in ChangedFiles : exec[f] # Absent} \in SUBSET Files /\ {f \in ChangedFiles : exec[f] = Absent} \in SUBSET Files
      BY DEF ChangedFiles
    <3>2. CASE EndIsolation
      BY <3>2 DEF EndIsolation, WorkerPcs
    <3>3. CASE SkipCapture
      BY <3>3 DEF SkipCapture, WorkerPcs
    <3>4. CASE CheckDrift
      BY <3>1, <3>4 DEF CheckDrift, WorkerPcs
    <3>5. CASE BeginDeletes
      BY <3>1, <3>5 DEF BeginDeletes, WorkerPcs
    <3>6. CASE EndExecution
      BY <3>6 DEF EndExecution, WorkerPcs
    <3>7. CASE RunRaises \/ PromotionEnds
      BY <3>7 DEF RunRaises, PromotionEnds
    <3>8. QED
      BY <1>6, <3>2, <3>3, <3>4, <3>5, <3>6, <3>7
  <2>3. ASSUME NEW pc \in WorkerPcs \ {"idle", "baseline", "store"}, NEW left \in SUBSET Files, WorkerTo(pc, left) PROVE Phases'
    BY <1>2, <2>1, <2>3, WorkerToIs
  <2>4. QED
    BY <1>3, <2>1, <2>2, <2>3
<1>7. CASE BeginCapture
  <2>1. worker'.pc = "baseline" /\ worker'.left = Captured
    BY <1>0, <1>7, WorkerToIs DEF BeginCapture, WorkerPcs
  <2>2. snap'.hash = NoTree /\ snap'.kept = FALSE
    BY <1>7 DEF BeginCapture, NoSnap
  <2>3. \A f \in Local : snap'.hash[f] = Absent
    BY <1>0, <2>2 DEF NoTree
  <2>4. QED
    BY <2>1, <2>2, <2>3 DEF Phases
<1>8. ASSUME NEW f \in Files, FingerprintFile(f) PROVE Phases'
  <2>1. worker.pc = "baseline" /\ f \in worker.left /\ worker'.pc = "baseline" /\ worker'.left = worker.left \ {f}
    BY <1>8, DoneIs DEF FingerprintFile
  <2>2. snap'.hash = [snap.hash EXCEPT ![f] = canonical[f]] /\ snap'.kept = snap.kept
    BY <1>0, <1>8 DEF FingerprintFile, Snap
  <2>3. f \notin Local /\ ~snap.kept /\ worker'.left \subseteq Captured
    BY <2>1 DEF Phases, Captured
  <2>4. \A g \in Local : snap'.hash[g] = Absent
    BY <1>0, <2>2, <2>3 DEF Phases, Versions, Tree
  <2>5. QED
    BY <2>1, <2>2, <2>3, <2>4 DEF Phases
<1>9. CASE BeginStore
  <2>1. {f \in Captured : snap.hash[f] # Absent} \in SUBSET Files
    BY <1>0
  <2>2. worker.pc = "baseline" /\ worker'.pc = "store" /\ worker'.left = {f \in Captured : snap.hash[f] # Absent} /\ UNCHANGED snap
    BY <1>9, <2>1, WorkerToIs DEF BeginStore, WorkerPcs
  <2>3. \A f \in Files : ~(snap.hash[f] # Absent /\ f \notin worker'.left)
    BY <2>2 DEF Phases, Captured
  <2>4. QED
    BY <2>2, <2>3 DEF Phases
<1>10. ASSUME NEW f \in Files, StoreFile(f) PROVE Phases'
  <2>1. worker.pc = "store" /\ worker'.pc = "store" /\ worker'.left = worker.left \ {f} /\ canonical[f] # Absent
    BY <1>10, DoneIs DEF StoreFile
  <2>2. snap'.hash = snap.hash /\ snap'.kept = snap.kept /\ snap'.file = [snap.file EXCEPT ![f] = canonical[f]] /\ ~snap.kept
    BY <1>0, <1>10, <2>1 DEF StoreFile, Snap, Phases
  <2>3. \A g \in Files : snap'.hash[g] # Absent /\ g \notin worker'.left => snap'.file[g] # Absent
    BY <2>1, <2>2 DEF Phases, Versions, Tree
  <2>4. QED
    BY <2>1, <2>2, <2>3 DEF Phases
<1>11. CASE EndCapture
  <2>1. worker.pc = "store" /\ worker.left = {} /\ snap'.hash = snap.hash /\ snap'.file = snap.file /\ snap'.kept
    BY <1>0, <1>11 DEF EndCapture, Snap
  <2>2. worker'.pc \in {"idle", "execute"} /\ worker'.left = {}
    BY <1>11, WorkerToIs, EndRunIs DEF EndCapture, EndRun, IdleWorker, WorkerPcs
  <2>3. QED
    BY <2>1, <2>2 DEF Phases
<1>12. CASE Restore \/ (\E f \in Files : Edit(f) \/ Execute(f)) \/ UNCHANGED workspaceVars
  BY <1>1, <1>12 DEF Restore, StartRestore, EndPreview, EndRemove, BeginVerify, EndVerify, RestoreRaises, RestoreHash, RemoveFile, ReplaceFile,
    RestoreWrites, RestoreReads, RestoreOnly, Edit, Execute, workspaceVars
<1>13. QED
  BY <1>4, <1>5, <1>6, <1>7, <1>8, <1>9, <1>10, <1>11, <1>12 DEF WorkspacesNext, Worker

LEMMA TypesInit == ASSUME WorkspacesConstants, WorkspacesInit PROVE CopyTypes /\ Versions /\ Phases
<1>1. MaxEdits \in Nat /\ NoTree \in Tree /\ [Files -> {Absent, 1}] \subseteq IntTree /\ [Files -> {Absent, 1}] \subseteq Tree
  BY DEF WorkspacesConstants, NoTree, Tree, IntTree, Absent, Version, RunVersion
<1>2. CopyTypes
  BY <1>1, Specials DEF WorkspacesInit, CopyTypes
<1>3. Versions
  BY <1>1 DEF WorkspacesInit, Versions, NoSnap, IdleWorker, IdleRestore
<1>4. Phases
  BY DEF WorkspacesInit, WorkspacesConstants, Phases, NoSnap, NoTree, IdleWorker
<1>5. QED
  BY <1>2, <1>3, <1>4

\* The workspaces' variables keep to their types and their phases (create_execution_snapshot, capture_baseline_snapshot,
\* execute_restore): a snapshot that is kept has stored every file its manifest names and none the ignore list does.
THEOREM WorkspacesTypeCorrect == WorkspacesSpec => []WorkspacesTypeOK
<1>1. MaxEdits \in Int
  BY WorkspacesConstants DEF WorkspacesConstants
<1>2. WorkspacesInit => CopyTypes /\ Versions /\ Phases
  BY WorkspacesConstants, TypesInit
<1>3. CopyTypes /\ Versions /\ Phases /\ [WorkspacesNext]_workspaceVars => (CopyTypes /\ Versions /\ Phases)'
  BY <1>1, WorkspacesConstants, TypesStep, VersionsStep, PhasesStep
<1>4. CopyTypes /\ Versions /\ Phases => WorkspacesTypeOK
  BY DEF CopyTypes, Versions, Phases, WorkspacesTypeOK, WorkerState, RestoreState
<1>5. QED
  BY <1>2, <1>3, <1>4, PTL DEF WorkspacesSpec
-----------------------------------------------------------------------------
\* The ledger and the workspaces side by side: every file, line, call and copy keeps to its type whichever of the two a
\* behaviour is about (RunLedger, Workspaces), for any runs, files, edits and crashes.
THEOREM DiskTypeCorrect == DiskSpec => []DiskTypeOK
<1>1. DiskInit => Init /\ WorkspacesInit
  BY DEF DiskInit
<1>2. [LedgerNext \/ CopiesNext]_<<which, vars, workspaceVars>> => [Next]_vars /\ [WorkspacesNext]_workspaceVars
  BY DEF LedgerNext, CopiesNext
<1>3. TypeOK /\ WorkspacesTypeOK => DiskTypeOK
  BY DEF DiskTypeOK
<1>4. QED
  BY <1>1, <1>2, <1>3, LedgerTypeCorrect, WorkspacesTypeCorrect, PTL DEF DiskSpec, Spec, WorkspacesSpec

-----------------------------------------------------------------------------
(***************************************************************************)
(* The regression runner: what its verdicts stand on, for any number of    *)
(* cases and suites and whatever a case comes to.                          *)
(***************************************************************************)

CaseResult == [status : {"pass", "fail"}, actual : Outcomes \union {NotYet}]
SummaryFile == {NotYet, HalfWritten, [status |-> "PASS"], [status |-> "FAIL"]}

\* Where the runner is says how many cases are behind it, and what others see of the suite.
CaseInHand == suite \in {"case", "isolated", "writing", "cleaning"}
SuitePlaced ==
  /\ CaseInHand => nth = Len(case_results) + 1 /\ nth <= Cases
  /\ suite \in {"summing", "saving"} => Len(case_results) = Cases
  /\ CaseInHand \/ suite = "summing" => run_dirs # <<>> /\ run_dirs[Len(run_dirs)] = NotYet
  /\ suite = "saving" => run_dirs # <<>> /\ run_dirs[Len(run_dirs)] = HalfWritten
  /\ suite = "idle" /\ case_results # <<>> => Len(case_results) = Cases /\ run_dirs[Len(run_dirs)] = Summary(case_results)

\* What a case that passed says of its baseline; the baseline of the case under way is written before it passes.
WellBased(n) ==
  case_results[n].status = "pass" =>
    baselines[n] \notin {NotYet, HalfWritten} /\ (~updating => Agrees(case_results[n].actual, baselines[n]))
Earned ==
  /\ \A n \in DOMAIN case_results : WellBased(n)
  /\ suite \in {"writing", "cleaning"} => actual \in Outcomes
  /\ suite = "cleaning" /\ updating => baselines[nth] = actual
  /\ suite = "writing" => updating

\* A folder with a workspace in it is a failed case's, or the one of the case under way.
Stained == stained \/ (suite = "case" /\ folder \in workspaces) => Failed(case_results) # {}

RunnerInv == RunnerTypeOK /\ SuitePlaced /\ Earned /\ Stained

\* An outcome is a baseline, and neither the file that is missing nor the torn one.
LEMMA OutcomesAreWhole ==
    ASSUME SuiteConstants, NEW outcome \in Outcomes
    PROVE  outcome \in Baselines /\ outcome \notin {NotYet, HalfWritten}
<1>1. [Fields -> Values] \in {[part -> Values] : part \in SUBSET Fields}
  OBVIOUS
<1>2. outcome \in Baselines
  BY <1>1 DEF Baselines, Outcomes
<1>3. QED
  BY <1>2 DEF SuiteConstants

\* The summary of any results is PASS or FAIL.
LEMMA SummaryIsVerdict == \A results : Summary(results) \in SummaryFile /\ \E verdict \in {"PASS", "FAIL"} : Summary(results) = [status |-> verdict]
  BY DEF Summary, SummaryFile

\* The types, with the names used here.
LEMMA RunnerTypes ==
    ASSUME RunnerTypeOK
    PROVE  /\ case_results \in Seq(CaseResult) /\ run_dirs \in Seq(SummaryFile) /\ nth \in 1..(Cases + 1)
           /\ baselines \in [1..Cases -> Baselines \union {NotYet, HalfWritten}]
  BY DEF RunnerTypeOK, CaseResult, SummaryFile

\* A case that ends keeps everything, when a pass was earned and takes its workspace with it.
LEMMA CaseEndsKeeps ==
    ASSUME SuiteConstants, RunnerInv, CaseInHand, NEW status \in {"pass", "fail"}, NEW outcome \in Outcomes \union {NotYet},
           CaseEnds(status, outcome), baselines' = baselines, workspaces' \subseteq workspaces,
           status = "pass" => /\ baselines[nth] \notin {NotYet, HalfWritten} /\ (~updating => Agrees(outcome, baselines[nth]))
                              /\ folder \notin workspaces'
    PROVE  RunnerInv'
<1> DEFINE result == [status |-> status, actual |-> outcome]
<1>1. /\ case_results \in Seq(CaseResult) /\ run_dirs \in Seq(SummaryFile) /\ nth \in 1..(Cases + 1) /\ Cases \in Nat \ {0}
      /\ nth = Len(case_results) + 1 /\ nth <= Cases /\ run_dirs # <<>> /\ run_dirs[Len(run_dirs)] = NotYet /\ result \in CaseResult
  BY RunnerTypes DEF RunnerInv, SuitePlaced, CaseResult, SuiteConstants
<1>2. /\ case_results' = Append(case_results, result) /\ nth' = nth + 1 /\ stained' = FALSE
      /\ suite' = (IF nth = Cases THEN "summing" ELSE "case")
      /\ UNCHANGED <<run_dirs, updating, actual, folder>>
  BY DEF CaseEnds
<1> HIDE DEF result, CaseResult, SummaryFile
<1>3. /\ case_results' \in Seq(CaseResult) /\ Len(case_results') = nth /\ case_results'[nth] = result
      /\ \A n \in DOMAIN case_results : case_results'[n] = case_results[n]
      /\ DOMAIN case_results' = DOMAIN case_results \union {nth} /\ case_results' # <<>>
  BY <1>1, <1>2
<1>4. RunnerTypeOK'
  <2>1. workspaces' \subseteq 0..folder'
    BY <1>2 DEF RunnerInv, RunnerTypeOK
  <2>2. nth' \in 1..(Cases + 1)
    BY <1>1, <1>2
  <2>3. case_results' \in Seq([status : {"pass", "fail"}, actual : Outcomes \union {NotYet}])
    BY <1>3 DEF CaseResult
  <2>4. suite' \in {"case", "summing"}
    BY <1>2
  <2>5. QED
    BY <1>2, <2>1, <2>2, <2>3, <2>4 DEF RunnerInv, RunnerTypeOK
<1>5. SuitePlaced'
  BY <1>1, <1>2, <1>3 DEF SuitePlaced, CaseInHand
<1>6. Earned'
  <2>1. ASSUME NEW n \in DOMAIN case_results' PROVE WellBased(n)'
    <3>1. CASE n \in DOMAIN case_results
      BY <3>1, <1>2, <1>3 DEF RunnerInv, Earned, WellBased
    <3>2. CASE n = nth
      BY <3>2, <1>2, <1>3 DEF WellBased, result
    <3>3. QED
      BY <1>3, <2>1, <3>1, <3>2
  <2>2. QED
    BY <1>2, <2>1 DEF Earned
<1>7. Stained'
  <2>1. CASE status = "fail"
    <3>1. nth \in Failed(case_results')
      BY <1>3, <2>1 DEF Failed, result
    <3>2. QED
      BY <3>1 DEF Stained
  <2>2. CASE status = "pass"
    BY <1>2, <2>2 DEF Stained
  <2>3. QED
    BY <2>1, <2>2
<1>8. QED
  BY <1>4, <1>5, <1>6, <1>7 DEF RunnerInv

\* A step that leaves the results, the baselines and the workspaces alone.
LEMMA RunnerInvInit == ASSUME SuiteConstants, RunnerInit PROVE RunnerInv
<1>1. 1 \in 1..(Cases + 1) /\ <<>> \in Seq(CaseResult) /\ <<>> \in Seq(SummaryFile)
  BY DEF SuiteConstants
<1>2. RunnerTypeOK
  BY <1>1 DEF RunnerInit, RunnerRests, RunnerTypeOK, CaseResult, SummaryFile
<1>3. SuitePlaced /\ Earned /\ Stained
  BY DEF RunnerInit, RunnerRests, SuitePlaced, Earned, Stained, CaseInHand
<1>4. QED
  BY <1>2, <1>3 DEF RunnerInv

LEMMA StartSuiteKeeps == ASSUME SuiteConstants, RunnerInv, StartSuite PROVE RunnerInv'
<1>1. /\ run_dirs \in Seq(SummaryFile) /\ Cases \in Nat \ {0} /\ folder \in Nat /\ workspaces \subseteq 0..folder
  BY RunnerTypes DEF RunnerInv, RunnerTypeOK, SuiteConstants
<1>2. /\ run_dirs' = Append(run_dirs, NotYet) /\ NotYet \in SummaryFile /\ suite' = "case" /\ nth' = 1 /\ case_results' = <<>>
      /\ folder' = folder + 1 /\ stained' = FALSE /\ updating' \in BOOLEAN /\ UNCHANGED <<baselines, actual, workspaces>>
  BY DEF StartSuite, SummaryFile
<1> HIDE DEF SummaryFile
<1>3. run_dirs' \in Seq(SummaryFile) /\ run_dirs' # <<>> /\ run_dirs'[Len(run_dirs')] = NotYet
  BY <1>1, <1>2
<1>4. workspaces' \subseteq 0..folder' /\ folder' \in Nat /\ folder' \notin workspaces' /\ nth' \in 1..(Cases + 1) /\ nth' <= Cases
  BY <1>1, <1>2
<1>5. RunnerTypeOK'
  <2>1. <<>> \in Seq(CaseResult)
    OBVIOUS
  <2>2. QED
    BY <1>2, <1>3, <1>4, <2>1 DEF RunnerInv, RunnerTypeOK, SummaryFile, CaseResult
<1>6. SuitePlaced' /\ Earned' /\ Stained'
  BY <1>2, <1>3, <1>4 DEF SuitePlaced, Earned, Stained, CaseInHand
<1>7. QED
  BY <1>5, <1>6 DEF RunnerInv

LEMMA IsolateKeeps == ASSUME SuiteConstants, RunnerInv, Isolate PROVE RunnerInv'
<1>1. folder \in Nat /\ workspaces \subseteq 0..folder
  BY DEF RunnerInv, RunnerTypeOK
<1>2. folder' \in Nat /\ workspaces' \subseteq 0..folder'
  BY <1>1 DEF Isolate
<1>3. RunnerTypeOK'
  BY <1>2 DEF RunnerInv, RunnerTypeOK, Isolate
<1>4. SuitePlaced' /\ Earned'
  BY DEF RunnerInv, SuitePlaced, Earned, WellBased, CaseInHand, Isolate
<1>5. Stained'
  <2>1. ASSUME stained' PROVE folder \in workspaces
    <3>1. folder + 1 \notin workspaces
      BY <1>1
    <3>2. QED
      BY <2>1, <3>1 DEF Isolate
  <2>2. QED
    BY <2>1 DEF RunnerInv, Stained, Isolate
<1>6. QED
  BY <1>3, <1>4, <1>5 DEF RunnerInv

LEMMA RunCaseKeeps == ASSUME SuiteConstants, RunnerInv, RunCase PROVE RunnerInv'
<1>1. nth \in 1..Cases /\ nth = Len(case_results) + 1 /\ case_results \in Seq(CaseResult) /\ Cases \in Nat
  BY RunnerTypes DEF RunnerInv, SuitePlaced, CaseInHand, RunCase, SuiteConstants
<1> HIDE DEF CaseResult
<1>2. nth \notin DOMAIN case_results
  BY <1>1
<1>3. RunnerTypeOK'
  BY DEF RunnerInv, RunnerTypeOK, RunCase
<1>4. SuitePlaced'
  BY DEF RunnerInv, SuitePlaced, CaseInHand, RunCase
<1>5. Earned'
  <2>1. ASSUME NEW n \in DOMAIN case_results' PROVE WellBased(n)'
    <3>1. case_results' = case_results /\ n # nth /\ updating' = updating
      BY <1>2, <2>1 DEF RunCase
    <3>2. baselines'[n] = baselines[n]
      BY <3>1 DEF RunCase, RunnerInv, RunnerTypeOK
    <3>3. QED
      BY <3>1, <3>2, <2>1 DEF RunnerInv, Earned, WellBased
  <2>2. QED
    BY <2>1 DEF Earned, RunCase
<1>6. Stained'
  BY DEF RunnerInv, Stained, RunCase
<1>7. QED
  BY <1>3, <1>4, <1>5, <1>6 DEF RunnerInv

LEMMA WriteBaselineKeeps == ASSUME SuiteConstants, RunnerInv, WriteBaseline PROVE RunnerInv'
<1>1. nth \in 1..Cases /\ nth = Len(case_results) + 1 /\ case_results \in Seq(CaseResult) /\ Cases \in Nat /\ actual \in Outcomes
  BY RunnerTypes DEF RunnerInv, SuitePlaced, CaseInHand, WriteBaseline, SuiteConstants, Earned
<1> HIDE DEF CaseResult
<1>2. nth \notin DOMAIN case_results /\ actual \in Baselines
  BY <1>1, OutcomesAreWhole
<1>3. RunnerTypeOK'
  BY <1>2 DEF RunnerInv, RunnerTypeOK, WriteBaseline
<1>4. SuitePlaced'
  BY DEF RunnerInv, SuitePlaced, CaseInHand, WriteBaseline
<1>5. Earned'
  <2>1. ASSUME NEW n \in DOMAIN case_results' PROVE WellBased(n)'
    <3>1. case_results' = case_results /\ n # nth /\ updating' = updating
      BY <1>2, <2>1 DEF WriteBaseline
    <3>2. baselines'[n] = baselines[n]
      BY <3>1 DEF WriteBaseline, RunnerInv, RunnerTypeOK
    <3>3. QED
      BY <3>1, <3>2, <2>1 DEF RunnerInv, Earned, WellBased
  <2>2. baselines'[nth] = actual
    BY <1>1 DEF WriteBaseline, RunnerInv, RunnerTypeOK
  <2>3. QED
    BY <1>1, <2>1, <2>2 DEF Earned, WriteBaseline
<1>6. Stained'
  BY DEF RunnerInv, Stained, WriteBaseline
<1>7. QED
  BY <1>3, <1>4, <1>5, <1>6 DEF RunnerInv

LEMMA CleanKeeps == ASSUME SuiteConstants, RunnerInv, Clean PROVE RunnerInv'
<1> DEFINE outcome == IF updating THEN NotYet ELSE actual
<1>1. CaseInHand /\ CaseEnds(Judge, outcome) /\ baselines' = baselines /\ workspaces' = workspaces \ {folder} /\ actual \in Outcomes
  BY DEF Clean, CaseInHand, RunnerInv, Earned
<1>2. Judge \in {"pass", "fail"} /\ outcome \in Outcomes \union {NotYet}
  BY <1>1 DEF Judge
<1>3. ASSUME Judge = "pass" PROVE baselines[nth] \notin {NotYet, HalfWritten} /\ (~updating => Agrees(outcome, baselines[nth]))
  <2>1. CASE updating
    <3>1. baselines[nth] = actual
      BY <2>1 DEF RunnerInv, Earned, Clean
    <3>2. baselines[nth] \notin {NotYet, HalfWritten}
      BY <1>1, <3>1, OutcomesAreWhole
    <3>3. QED
      BY <2>1, <3>2
  <2>2. CASE ~updating
    BY <1>3, <2>2 DEF Judge
  <2>3. QED
    BY <2>1, <2>2
<1> HIDE DEF outcome
<1>4. QED
  BY <1>1, <1>2, <1>3, CaseEndsKeeps

LEMMA SummaryKeeps == ASSUME SuiteConstants, RunnerInv, OpenSummary \/ WriteSummary PROVE RunnerInv'
<1> DEFINE last == Len(run_dirs)
           written == IF suite = "summing" THEN HalfWritten ELSE Summary(case_results)
<1>1. run_dirs \in Seq(SummaryFile) /\ run_dirs # <<>> /\ suite \in {"summing", "saving"} /\ Len(case_results) = Cases
  BY RunnerTypes DEF RunnerInv, SuitePlaced, OpenSummary, WriteSummary
<1>2. /\ run_dirs' = [run_dirs EXCEPT ![last] = written] /\ suite' = (IF suite = "summing" THEN "saving" ELSE "idle")
      /\ UNCHANGED <<baselines, nth, updating, case_results, actual, folder, workspaces, stained>>
  BY DEF OpenSummary, WriteSummary
<1>3. written \in SummaryFile
  BY SummaryIsVerdict DEF SummaryFile
<1> HIDE DEF SummaryFile, written
<1>4. run_dirs' \in Seq(SummaryFile) /\ run_dirs' # <<>> /\ run_dirs'[Len(run_dirs')] = written
  BY <1>1, <1>2, <1>3
<1>5. RunnerTypeOK'
  BY <1>1, <1>2, <1>4 DEF RunnerInv, RunnerTypeOK, SummaryFile
<1>6. SuitePlaced'
  BY <1>1, <1>2, <1>4 DEF SuitePlaced, CaseInHand, written
<1>7. Earned' /\ Stained'
  BY <1>1, <1>2 DEF RunnerInv, Earned, Stained, WellBased
<1>8. QED
  BY <1>5, <1>6, <1>7 DEF RunnerInv

LEMMA RunnerStopsKeeps == ASSUME SuiteConstants, RunnerInv, RunnerStops PROVE RunnerInv'
<1>1. 1 \in 1..(Cases + 1) /\ <<>> \in Seq(CaseResult)
  BY DEF SuiteConstants
<1>2. RunnerTypeOK'
  BY <1>1 DEF RunnerInv, RunnerTypeOK, RunnerStops, CaseResult
<1>3. SuitePlaced' /\ Earned' /\ Stained'
  BY DEF SuitePlaced, Earned, Stained, CaseInHand, RunnerStops
<1>4. QED
  BY <1>2, <1>3 DEF RunnerInv

LEMMA RunnerInvNext == ASSUME SuiteConstants, RunnerInv, [RunnerNext]_runnerVars PROVE RunnerInv'
<1>1. CASE StartSuite
  BY <1>1, StartSuiteKeeps
<1>2. CASE Unreadable
  BY <1>2, CaseEndsKeeps DEF Unreadable, CaseInHand
<1>3. CASE Isolate
  BY <1>3, IsolateKeeps
<1>4. CASE Raises
  BY <1>4, CaseEndsKeeps DEF Raises, CaseInHand
<1>5. CASE RunCase
  BY <1>5, RunCaseKeeps
<1>6. CASE WriteBaseline
  BY <1>6, WriteBaselineKeeps
<1>7. CASE Clean
  BY <1>7, CleanKeeps
<1>8. CASE OpenSummary \/ WriteSummary
  BY <1>8, SummaryKeeps
<1>9. CASE RunnerStops
  BY <1>9, RunnerStopsKeeps
<1>10. CASE UNCHANGED runnerVars
  <2>1. RunnerTypeOK'
    BY <1>10 DEF runnerVars, RunnerInv, RunnerTypeOK
  <2>2. SuitePlaced' /\ Earned' /\ Stained'
    BY <1>10 DEF runnerVars, RunnerInv, SuitePlaced, Earned, Stained, CaseInHand, WellBased
  <2>3. QED
    BY <2>1, <2>2 DEF RunnerInv
<1>11. QED
  BY <1>1, <1>2, <1>3, <1>4, <1>5, <1>6, <1>7, <1>8, <1>9, <1>10 DEF RunnerNext

LEMMA RunnerInvHolds == ASSUME SuiteConstants PROVE RunnerSpec => []RunnerInv
<1>1. SuiteConstants /\ RunnerInit => RunnerInv
  BY RunnerInvInit
<1>2. SuiteConstants /\ RunnerInv /\ [RunnerNext]_runnerVars => RunnerInv'
  BY RunnerInvNext
<1>3. QED
  BY <1>1, <1>2, PTL DEF RunnerSpec

\* The runner's variables keep to their types (run_regression.py), whatever its cases come to.
THEOREM RunnerTypeCorrect == ASSUME SuiteConstants PROVE RunnerSpec => []RunnerTypeOK
<1>1. RunnerInv => RunnerTypeOK
  BY DEF RunnerInv
<1>2. QED
  BY <1>1, RunnerInvHolds, PTL

\* What a suite says can be trusted (run_suite, run_case): a case that passed has a whole baseline its outcome agrees
\* with or that was just written, one runs in another's leftovers only after a failure, and a finished suite's summary
\* is of every case, for any suite and any way its cases end.
THEOREM VerdictsAreEarned == ASSUME SuiteConstants PROVE RunnerSpec => []VerdictEarned
<1>1. RunnerInv => VerdictEarned
  BY DEF RunnerInv, SuitePlaced, Earned, Stained, WellBased, VerdictEarned
<1>2. QED
  BY <1>1, RunnerInvHolds, PTL

\* All others see of a suite is a directory made, its summary opened and written (run_suite), so the console, which takes
\* just these steps of it, misses none.
THEOREM SuitesAreSeenStepByStep == ASSUME SuiteConstants PROVE RunnerSpec => SuiteSteps
<1> DEFINE Seen(n) ==
       \/ run_dirs' = Append(run_dirs, NotYet)
       \/ n > 0 /\ <<run_dirs[n], run_dirs'>> = <<NotYet, [run_dirs EXCEPT ![n] = HalfWritten]>>
       \/ n > 0 /\ run_dirs[n] = HalfWritten /\ \E verdict \in {"PASS", "FAIL"} : run_dirs' = [run_dirs EXCEPT ![n] = [status |-> verdict]]
<1>1. ASSUME RunnerInv, [RunnerNext]_runnerVars PROVE Seen(Len(run_dirs)) \/ UNCHANGED run_dirs
  <2>1. run_dirs \in Seq(SummaryFile)
    BY <1>1, RunnerTypes DEF RunnerInv
  <2>2. ASSUME run_dirs # <<>> PROVE Len(run_dirs) > 0
    BY <2>1, <2>2
  <2>3. CASE StartSuite
    BY <2>3 DEF StartSuite
  <2>4. CASE OpenSummary
    BY <1>1, <2>2, <2>4 DEF OpenSummary, RunnerInv, SuitePlaced
  <2>5. CASE WriteSummary
    BY <1>1, <2>2, <2>5, SummaryIsVerdict DEF WriteSummary, RunnerInv, SuitePlaced
  <2>6. CASE Unreadable \/ Isolate \/ Raises \/ RunCase \/ WriteBaseline \/ Clean \/ RunnerStops \/ UNCHANGED runnerVars
    BY <2>6 DEF Unreadable, Isolate, Raises, RunCase, WriteBaseline, Clean, RunnerStops, CaseEnds, runnerVars
  <2>7. QED
    BY <1>1, <2>3, <2>4, <2>5, <2>6 DEF RunnerNext
<1>2. RunnerInv /\ [RunnerNext]_runnerVars => [Seen(Len(run_dirs))]_run_dirs
  BY <1>1
<1>3. QED
  BY <1>2, RunnerInvHolds, PTL DEF RunnerSpec, SuiteSteps
=============================================================================
