------------------------------ MODULE SpecFactory ------------------------------
(***************************************************************************)
(* The single-file orchestrator (src/appfactory.py).  A run of the program *)
(* takes specs in order, asks the model for the files of one, checks and   *)
(* writes the answer, validates the workspace, and tries again within the  *)
(* spec's retry budget.  What it knows of a spec is kept in state.json;    *)
(* the log of attempts, the latest failure and the workspace are files of  *)
(* their own, and the program may be interrupted between any two writes.   *)
(***************************************************************************)
EXTENDS Integers, Sequences, FiniteSets

CONSTANTS
  Specs,       \* the specs: allowed files, whether input() is approved, whether main() is required, retry budget
  Answers,     \* what the model may answer: a sequence of files, empty if it does not answer or without file blocks
  MaxStarts    \* bound: runs of the program

VARIABLES
  disk,        \* the workspace: "main" (src/main.py) and "test" (tests/test_main.py)
  saved,       \* state.json: status and attempts of each spec, or Unreadable
  logged,      \* attempts.jsonl: records of each spec, and whether one says passed
  failure,     \* the spec latest_failure.txt is about, 0 if it is empty
  pc,          \* "off", "choose", "attempt", "ask", "apply", "pass", "fail", "save", "saving" or "ended"
  then,        \* where the program goes on after the state is saved
  mem,         \* the state in memory
  cur,         \* the spec being worked on
  forced,      \* the spec of --spec, or 0
  left,        \* specs this run may still attempt
  latest,      \* the failure the next prompt shows: its spec
  files,       \* the files of the answer that are still to be written
  severe,      \* the failure is of the kind that escalates
  trying,      \* an error of the program's own goes to the except clause of the attempt
  asked,       \* history: requests sent to the model for each spec
  refused,     \* history: attempts of each spec whose own record or state the disk refused
  starts

mvars == <<then, mem, cur, forced, left, latest, files, severe, trying>>
vars == <<disk, saved, logged, failure, pc, mvars, asked, refused, starts>>

S == DOMAIN Specs
Unreadable == <<>>
HasEntry == {"entry", "asks"}
Tests == {"suite", "suite of main"}
Contents == {"absent", "torn", "plain"} \union HasEntry \union Tests

\* There is a spec, budgets are numbers, and an answer is a sequence of files: of the two, unsafe ones, or others that
\* are not the program's.
Paths == {"main", "test", "unsafe", "outside"}
SpecsGiven ==
  /\ Len(Specs) \in Nat \ {0} /\ S = 1..Len(Specs) /\ \A s \in S : Specs[s].budget \in Nat
  /\ Answers \subseteq Seq([path : Paths, content : Contents])

Spec1 == Specs[cur]

\* The volatile state of a program that does not run.
Off ==
  /\ pc' = "off" /\ then' = "off" /\ mem' = [s \in S |-> [status |-> "pending", count |-> 0]]
  /\ cur' = 1 /\ forced' = 0 /\ left' = 0 /\ latest' = 0 /\ files' = <<>> /\ severe' = FALSE /\ trying' = FALSE

Init ==
  /\ disk \in [{"main", "test"} -> {"absent", "plain", "entry"}] /\ disk.test = "absent"
  /\ mem = [s \in S |-> [status |-> "pending", count |-> 0]] /\ saved = mem
  /\ logged = [s \in S |-> [records |-> 0, passed |-> FALSE]] /\ failure = 0
  /\ pc = "off" /\ then = "off" /\ cur = 1 /\ forced = 0 /\ left = 0 /\ latest = 0
  /\ files = <<>> /\ severe = FALSE /\ trying = FALSE
  /\ asked = [s \in S |-> 0] /\ refused = asked /\ starts = 0

\* The program is started: --max-specs, and perhaps --spec.  A state that is no JSON ends it at once.
Start ==
  /\ pc = "off" /\ starts < MaxStarts /\ starts' = starts + 1
  /\ \/ saved = Unreadable /\ UNCHANGED <<pc, mvars>>
     \/ /\ saved # Unreadable /\ mem' = saved /\ pc' = "choose"
        /\ forced' \in {0} \union S /\ left' \in S
        /\ UNCHANGED <<then, cur, latest, files, severe, trying>>
  /\ UNCHANGED <<disk, saved, logged, failure, asked, refused>>

\* --spec, or else the first spec still pending, whatever became of those before it; the failure file is read.
Chosen == IF forced # 0 THEN {forced}
          ELSE {s \in S : mem[s].status = "pending" /\ \A r \in 1..s - 1 : mem[r].status # "pending"}

Choose ==
  /\ pc = "choose"
  /\ IF Chosen = {} THEN Off
     ELSE /\ cur' \in Chosen /\ latest' = failure /\ pc' = "attempt"
          /\ UNCHANGED <<then, mem, forced, left, files, severe, trying>>
  /\ UNCHANGED <<disk, saved, logged, failure, asked, refused, starts>>

Save(next) == pc' = "save" /\ then' = next

Bug_Begun(next) == pc' = next /\ then' = next
Begun(next) == Save(next)

\* The attempt is counted and recorded as begun before the model is asked; a spent budget fails the spec.
BeginAttempt ==
  /\ pc = "attempt"
  /\ IF mem[cur].count > Spec1.budget
     THEN mem' = [mem EXCEPT ![cur].status = "failed"] /\ Save("ended")
     ELSE mem' = [mem EXCEPT ![cur] = [status |-> "in_progress", count |-> @.count + 1]] /\ Begun("ask")
  /\ UNCHANGED <<disk, saved, logged, failure, cur, forced, left, latest, files, severe, trying, asked, refused, starts>>

\* state.json is truncated and written in place.
OpenState ==
  /\ pc = "save" /\ saved' = Unreadable /\ pc' = "saving"
  /\ UNCHANGED <<disk, logged, failure, mvars, asked, refused, starts>>

\* What follows the save of a begun attempt is in the try, up to its except clause.
WriteState ==
  /\ pc = "saving" /\ saved' = mem /\ pc' = then /\ trying' = (then = "ask")
  /\ UNCHANGED <<disk, logged, failure, then, mem, cur, forced, left, latest, files, severe, asked, refused, starts>>

\* An error of the program's own is a failure of the attempt like any other, whatever was written of it already.
Caught == pc' = "fail" /\ trying' = FALSE /\ severe' = FALSE /\ refused' = [refused EXCEPT ![cur] = @ + 1]

\* The disk refuses the state an attempt of the try ends with, before the old one is gone or after.
SaveRefused ==
  /\ pc \in {"save", "saving"} /\ trying /\ Caught
  /\ UNCHANGED <<disk, saved, logged, failure, then, mem, cur, forced, left, latest, files, asked, starts>>

-----------------------------------------------------------------------------
(* An answer.                                                              *)

\* The paths of the answer: none twice, all allowed; the first that is not decides how severe it is.
BadPaths(answer) == {i \in DOMAIN answer :
  answer[i].path \notin Spec1.allowed \/ \E j \in 1..i - 1 : answer[j].path = answer[i].path}
OutOfPlan(answer) == BadPaths(answer) # {} /\ \E i \in BadPaths(answer) :
  (\A j \in BadPaths(answer) : i <= j) /\ answer[i].path # "unsafe"

\* What the text of the spec says.
AllowsInput == Spec1.input
NeedsEntry == Spec1.entry

\* The context of the prompt knows a file only if the spec allows it.
EntryThere == "main" \in Spec1.allowed /\ disk.main \in HasEntry
Bug_MustEnter == NeedsEntry
MustEnter == EntryThere \/ NeedsEntry

\* The semantic guards: an entrypoint that is there or required stays, no input() unless approved, tests in tests.
Guarded(file) ==
  IF file.path = "main"
  THEN file.content \notin Tests /\ (file.content = "asks" => AllowsInput) /\ (MustEnter => file.content \in HasEntry)
  ELSE file.content \in Tests /\ (NeedsEntry => file.content = "suite of main")

\* The server may not answer, or with text that has no file blocks; markdown fences and a preamble are taken off.
Replies == Answers

\* The failure the prompt shows as the one to fix.
Guidance == latest

\* The prompt is built and sent.  A server that does not answer and an answer without file blocks are failures
\* like any other.
Ask ==
  /\ pc = "ask" /\ asked' = [asked EXCEPT ![cur] = @ + 1]
  /\ \E answer \in Replies :
       LET ok == answer # <<>> /\ BadPaths(answer) = {} /\ \A i \in DOMAIN answer : Guarded(answer[i])
       IN /\ pc' = IF ok THEN "apply" ELSE "fail"
          /\ files' = IF ok THEN answer ELSE <<>>
          /\ severe' = OutOfPlan(answer) /\ trying' = ok
  /\ UNCHANGED <<disk, saved, logged, failure, then, mem, cur, forced, left, latest, refused, starts>>

\* A file that is as it should be is skipped, another is written; the disk may refuse it half-way.
ApplyFile ==
  /\ pc = "apply" /\ files # <<>>
  /\ LET file == Head(files) IN
       \/ disk' = [disk EXCEPT ![file.path] = file.content] /\ files' = Tail(files) /\ UNCHANGED <<pc, severe, trying>>
       \/ /\ disk[file.path] # file.content /\ disk' \in {disk, [disk EXCEPT ![file.path] = "torn"]}
          /\ files' = <<>> /\ pc' = "fail" /\ severe' = FALSE /\ trying' = FALSE
  /\ UNCHANGED <<saved, logged, failure, then, mem, cur, forced, left, latest, asked, refused, starts>>

\* The spec's commands run, and their output may hold any word; one that cannot be run is an error.
Validate ==
  /\ pc = "apply" /\ files = <<>>
  /\ \/ pc' = "pass" /\ UNCHANGED <<severe, trying>>
     \/ pc' = "fail" /\ severe' \in BOOLEAN /\ trying' \in BOOLEAN
  /\ UNCHANGED <<disk, saved, logged, failure, then, mem, cur, forced, left, latest, files, asked, refused, starts>>

Logged(passed) == logged' = [logged EXCEPT ![cur] = [records |-> @.records + 1, passed |-> @.passed \/ passed]]

\* The attempt is logged, the failure file emptied, the state saved.  The disk may refuse the record, with or without
\* having taken it, and the emptied file; the except clause then sets the status anew.
Pass ==
  /\ pc = "pass"
  /\ \/ /\ mem' = [mem EXCEPT ![cur].status = "passed"] /\ Logged(TRUE) /\ failure' = 0 /\ Save("ended")
        /\ UNCHANGED <<severe, trying, refused>>
     \/ /\ UNCHANGED <<logged, failure>> \/ (Logged(TRUE) /\ failure' \in {failure, 0})
        /\ Caught /\ UNCHANGED <<then, mem>>
  /\ UNCHANGED <<disk, saved, cur, forced, left, latest, files, asked, starts>>

\* failure_status_for_error: the last attempt of the budget fails for good.
Exhausted == mem[cur].count > Spec1.budget
StatusAfter == IF Exhausted THEN (IF severe THEN "escalated" ELSE "failed") ELSE "pending"

\* What is written of a failure before the disk refuses the rest: the failure file, perhaps cut off, and the record.
HalfNoted == (failure' \in {failure, 0, cur} /\ UNCHANGED logged) \/ (failure' = cur /\ Logged(FALSE))

\* The failure is written down, the debug commands run, the attempt is logged and the state saved.  An error on the
\* way, of a debug command too, is caught once, in the try; in the except clause it ends the program.
Fail ==
  /\ pc = "fail"
  /\ \/ HalfNoted /\ Off /\ UNCHANGED refused
     \/ HalfNoted /\ trying /\ Caught /\ UNCHANGED <<then, mem, cur, forced, left, latest, files>>
     \/ /\ failure' = cur /\ latest' = cur /\ Logged(FALSE)
        /\ mem' = [mem EXCEPT ![cur].status = StatusAfter]
        /\ Save(IF StatusAfter = "pending" THEN "attempt" ELSE "ended")
        /\ severe' = FALSE
        /\ UNCHANGED <<cur, forced, left, files, trying, refused>>
  /\ UNCHANGED <<disk, saved, asked, starts>>

\* A run goes on to the next spec only after one that passed.
EndSpec ==
  /\ pc = "ended"
  /\ IF forced # 0 \/ mem[cur].status # "passed" \/ left = 1 THEN Off
     ELSE pc' = "choose" /\ left' = left - 1 /\ UNCHANGED <<then, mem, cur, forced, latest, files, severe, trying>>
  /\ UNCHANGED <<disk, saved, logged, failure, asked, refused, starts>>

\* The user interrupts the program, or it is killed.
Interrupt ==
  /\ pc # "off" /\ Off
  /\ \/ UNCHANGED disk
     \/ files # <<>> /\ disk' = [disk EXCEPT ![Head(files).path] = "torn"]
  /\ UNCHANGED <<saved, logged, failure, asked, refused, starts>>

Work == Choose \/ BeginAttempt \/ OpenState \/ WriteState \/ SaveRefused \/ Ask \/ ApplyFile \/ Validate \/ Pass \/ Fail \/ EndSpec
Next == Start \/ Work \/ Interrupt

Fairness == WF_vars(Work)
Spec == Init /\ [][Next]_vars /\ Fairness

-----------------------------------------------------------------------------
(* Properties.                                                             *)

TypeOK ==
  /\ disk \in [{"main", "test"} -> Contents]
  /\ saved = Unreadable \/ saved \in [S -> [status : {"pending", "in_progress", "passed", "failed", "escalated"}, count : Nat]]
  /\ cur \in S /\ forced \in {0} \union S /\ left \in {0} \union S /\ latest \in {0} \union S

\* Over every run of the program, every interruption and every --spec, the model is asked for a spec no more often
\* than its retry budget allows; and the state never claims what the log does not bear out: an attempt sent was
\* counted before, a spec saved as passed has a record that says so (execute_spec's order of writes).  An attempt has
\* one record, unless its own record or state could not be written: the except clause then logs it once more, perhaps
\* over a record that says passed, and that happens at most once for each attempt that was counted.
AttemptsAccounted == \A s \in S :
  /\ asked[s] <= Specs[s].budget + 1
  /\ saved # Unreadable => /\ logged[s].records <= saved[s].count + refused[s] /\ refused[s] <= saved[s].count
                           /\ asked[s] <= saved[s].count
                           /\ saved[s].status = "passed" => logged[s].passed

\* No answer takes the entrypoint out of src/main.py or brings input() in without approval, however many attempts
\* and specs it takes; only a write that is cut short can (enforce_semantic_file_guards).
EntrypointKept ==
  disk' # disk /\ disk'.main # "torn" =>
    /\ disk.main \in HasEntry => disk'.main \in HasEntry
    /\ disk'.main = "asks" /\ disk.main # "asks" => Spec1.input

\* Step for step: the specs orchestrator keeps count of its attempts over interruptions, and keeps the program's
\* entrypoint.
FactorySound == [][AttemptsAccounted' /\ EntrypointKept]_vars

\* A run of the program comes to an end.
Running == pc # "off"
=============================================================================
