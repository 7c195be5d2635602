------------------------------ MODULE ReleaseProofs ------------------------------
(***************************************************************************)
(* What may be released.  The two policy gates hold for every menu of      *)
(* tasks, any number of tasks, requests, crashes and restarts, and however *)
(* the two threads' saves of the approvals file overlap; an approval of    *)
(* the promotion engine stands on a replay of every golden run, for any    *)
(* golden runs, traces and number of commands.  What the spec parser hands *)
(* to the worker is the spec it was given, for any texts; the questions    *)
(* before a draft settle its doubts, for any request; what the macro       *)
(* library activates was vetted and what the optimizer adopts is recorded, *)
(* for any saved plans.                                                    *)
(***************************************************************************)
EXTENDS PolicyGate, Release, SpecParser, FiniteSetTheorems, SequenceTheorems, TLAPS

\* The largest of some of the four risks is one of them, and none is larger.
LEMMA MostOfSome ==
    ASSUME NEW S, S \subseteq 0..3, S # {}
    PROVE  Most(S) \in S /\ \A k \in S : k <= Most(S)
<1>1. \E n \in S : \A k \in S : k <= n
  <2>1. CASE 3 \in S
    BY <2>1
  <2>2. CASE 3 \notin S /\ 2 \in S
    BY <2>2
  <2>3. CASE 3 \notin S /\ 2 \notin S /\ 1 \in S
    BY <2>3
  <2>4. CASE 3 \notin S /\ 2 \notin S /\ 1 \notin S
    <3>1. PICK n \in S : n \in 0..3
      OBVIOUS
    <3>2. n = 0 /\ \A k \in S : k = 0
      BY <2>4, <3>1
    <3> QED BY <3>1, <3>2
  <2> QED BY <2>1, <2>2, <2>3, <2>4
<1> QED BY <1>1 DEF Most

\* A task's risk is one of the four.
LEMMA TaskRiskKnown == ASSUME NEW task PROVE TaskRisk(task) \in 0..3
<1>1. TypeRisk(task) \in 0..3 /\ PathRisk(task.path) \in 0..3 /\ CommandRisk(task) \in 0..3
  BY DEF TypeRisk, PathRisk, CommandRisk
<1> QED BY <1>1, MostOfSome DEF TaskRisk

\* No task of a spec is riskier than the spec.
LEMMA RiskBounds ==
    ASSUME NEW ts
    PROVE  Risk(ts) \in 0..3 /\ \A task \in ts : TaskRisk(task) <= Risk(ts)
<1> DEFINE S == {0} \union {TaskRisk(task) : task \in ts}
<1>1. S \subseteq 0..3 /\ S # {}
  BY TaskRiskKnown
<1>2. Most(S) \in S /\ \A k \in S : k <= Most(S)
  BY <1>1, MostOfSome
<1>3. Risk(ts) = Most(S)
  BY DEF Risk
<1> QED BY <1>1, <1>2, <1>3

\* A longer spec is no less risky.
LEMMA RiskGrows == ASSUME NEW ts, NEW us, ts \subseteq us PROVE Risk(ts) <= Risk(us)
<1> DEFINE S == {0} \union {TaskRisk(task) : task \in ts}
           T == {0} \union {TaskRisk(task) : task \in us}
<1>1. S \subseteq T /\ T \subseteq 0..3 /\ S # {} /\ T # {}
  BY TaskRiskKnown
<1>2. S \subseteq 0..3
  BY <1>1
<1>3. Most(S) \in S /\ \A k \in T : k <= Most(T)
  BY <1>1, <1>2, MostOfSome
<1>4. Risk(ts) = Most(S) /\ Risk(us) = Most(T)
  BY DEF Risk
<1> QED BY <1>1, <1>3, <1>4

\* A longer spec is never judged more leniently.
LEMMA NeverMoreLenient ==
    ASSUME NEW ts, NEW us, ts \subseteq us
    PROVE  Severity(PreExecution(us)) >= Severity(PreExecution(ts))
<1>1. Risk(ts) \in 0..3 /\ Risk(us) \in 0..3 /\ Risk(ts) <= Risk(us)
  BY RiskBounds, RiskGrows
<1>2. CASE \E task \in ts : Denied(task)
  <2>1. \E task \in us : Denied(task)
    BY <1>2
  <2>2. PreExecution(us) = "block" /\ PreExecution(ts) = "block"
    BY <1>2, <2>1 DEF PreExecution
  <2> QED BY <2>2 DEF Severity
<1>3. CASE ~\E task \in ts : Denied(task)
  <2>1. CASE Risk(ts) > Threshold \/ \E task \in ts : AsksAnyway(task)
    <3>1. Risk(us) > Threshold \/ \E task \in us : AsksAnyway(task)
      BY <1>1, <2>1 DEF Threshold
    <3> QED BY <1>3, <2>1, <3>1 DEF PreExecution, Severity
  <2>2. CASE ~(Risk(ts) > Threshold \/ \E task \in ts : AsksAnyway(task))
    BY <1>3, <2>2 DEF PreExecution, Severity
  <2> QED BY <2>1, <2>2
<1> QED BY <1>2, <1>3

-----------------------------------------------------------------------------
(* The invariant.                                                          *)

Approval == [gate : Gates, status : {"pending", "approved", "denied"}]
Yes(gate) == \E i \in DOMAIN approvals : approvals[i] = [gate |-> gate, status |-> "approved"]
Through(gate, decision) == decision = "allow" \/ (decision = "warn" /\ Yes(gate))

\* The approvals are what the user said, at most one of a gate, and the file has them all or is torn.
StoreInv ==
  /\ approvals \in Seq(Approval)
  /\ file \in {Torn, approvals}
  /\ lastWord \in [Gates -> {"none", "approved", "denied"}]
  /\ \A i, j \in DOMAIN approvals : approvals[i].gate = approvals[j].gate => i = j
  /\ \A i \in DOMAIN approvals : approvals[i].status # "pending" => lastWord[approvals[i].gate] = approvals[i].status

\* Where the run is tells which gates it came through, and what it came through with.
RunInv ==
  /\ pc \in {"edit", "execution", "run", "promotion", "promote", "paused", "failed", "kept", "promoted"}
  /\ pc \in {"run", "promotion", "promote", "promoted"} => Through("execution", PreExecution(tasks))
  /\ pc \in {"promote", "promoted"} => Through("promotion", PrePromotion(facts, final))
  /\ pc = "promoted" => final \in {"COMPLETED", "COMPLETED_WITH_WARNINGS"}
  /\ final = "COMPLETED" => ~failed
  /\ failed \in BOOLEAN

GateInv == StoreInv /\ RunInv

\* If a gate's latest record says so, the user has approved it.
LEMMA LatestSays ==
    ASSUME StoreInv, NEW gate \in Gates
    PROVE  /\ (Latest(gate) = "approved") <=> Yes(gate)
           /\ Latest(gate) = "none" => \A i \in DOMAIN approvals : approvals[i].gate # gate
<1>1. CASE Of(gate) = {}
  BY <1>1 DEF Of, Latest, Yes
<1>2. CASE Of(gate) # {}
  <2>1. PICK i \in DOMAIN approvals : approvals[i].gate = gate
    BY <1>2 DEF Of
  <2>2. Of(gate) = {i} /\ approvals[i] \in Approval /\ i \in Nat
    BY <2>1 DEF Of, StoreInv
  <2>3. Most({i}) = i
    BY <2>2 DEF Most
  <2>4. Latest(gate) = approvals[i].status
    BY <2>2, <2>3 DEF Latest
  <2>5. Yes(gate) <=> approvals[i].status = "approved"
    BY <2>1, <2>2 DEF Yes, Approval, StoreInv
  <2> QED BY <2>2, <2>4, <2>5 DEF Approval, Yes
<1> QED BY <1>1, <1>2

\* What comes through a gate was let through or approved by the user.
LEMMA ThroughSays ==
    ASSUME StoreInv, NEW gate \in Gates, NEW decision, Through(gate, decision)
    PROVE  decision = "allow" \/ (decision = "warn" /\ lastWord[gate] = "approved")
BY DEF Through, Yes, StoreInv

-----------------------------------------------------------------------------
(* Every step keeps it.                                                    *)

\* No crash and no overlap of saves invents a decision: the store of approvals stays what the user said (approvals.py).
LEMMA StoreStep == StoreInv /\ [Next]_vars => StoreInv'
<1> SUFFICES ASSUME StoreInv, [Next]_vars PROVE StoreInv'
  OBVIOUS
<1>1. CASE UNCHANGED <<approvals, file, lastWord>>
  BY <1>1 DEF StoreInv
<1>2. ASSUME NEW gate \in Gates, NEW decision, NEW onward, NEW refused, AtGate(gate, decision, onward, refused)
      PROVE  StoreInv'
  <2>1. CASE UNCHANGED <<approvals, file, lastWord>>
    BY <2>1, <1>1
  <2>2. CASE ~UNCHANGED <<approvals, file, lastWord>>
    <3> DEFINE new == [gate |-> gate, status |-> "pending"]
    <3>1. Latest(gate) = "none" /\ approvals' = Append(approvals, new) /\ file' = Torn /\ lastWord' = lastWord
      BY <1>2, <2>2 DEF AtGate, Move, OpenFile
    <3>2. new \in Approval /\ \A i \in DOMAIN approvals : approvals[i].gate # gate
      BY <3>1, LatestSays DEF Approval
    <3> QED BY <3>1, <3>2 DEF StoreInv
  <2> QED BY <2>1, <2>2
<1>3. ASSUME NEW thread, WriteFile(thread) PROVE StoreInv'
  BY <1>3 DEF WriteFile, StoreInv
<1>4. CASE Crash
  <2>1. approvals' \in {<<>>, approvals} /\ file' = file /\ lastWord' = lastWord /\ file' \in {Torn, approvals'}
    BY <1>4 DEF Crash, StoreInv
  <2>2. CASE approvals' = <<>>
    BY <2>1, <2>2 DEF StoreInv
  <2>3. CASE approvals' = approvals
    BY <2>1, <2>3 DEF StoreInv
  <2> QED BY <2>1, <2>2, <2>3
<1>5. ASSUME NEW word \in {"approved", "denied"}, Decide(word) PROVE StoreInv'
  <2>1. PICK i \in DOMAIN approvals :
          /\ approvals[i].status = "pending"
          /\ approvals' = [approvals EXCEPT ![i].status = word]
          /\ lastWord' = [lastWord EXCEPT ![approvals[i].gate] = word]
    BY <1>5 DEF Decide
  <2>2. /\ approvals \in Seq(Approval) /\ approvals[i] \in Approval
        /\ DOMAIN approvals' = DOMAIN approvals
        /\ approvals'[i] = [gate |-> approvals[i].gate, status |-> word]
        /\ \A j \in DOMAIN approvals : j # i => approvals'[j] = approvals[j]
    <3>1. approvals \in Seq(Approval) /\ approvals[i] \in Approval
      BY <2>1 DEF StoreInv
    <3>2. /\ DOMAIN approvals' = DOMAIN approvals
          /\ approvals'[i] = [approvals[i] EXCEPT !.status = word]
          /\ \A j \in DOMAIN approvals : j # i => approvals'[j] = approvals[j]
      BY <2>1
    <3>3. approvals'[i] = [gate |-> approvals[i].gate, status |-> word]
      BY <3>1, <3>2 DEF Approval
    <3> QED BY <3>1, <3>2, <3>3
  <2>3. approvals' \in Seq(Approval)
    BY <2>1, <2>2 DEF Approval
  <2>4. \A j \in DOMAIN approvals' : approvals'[j].gate = approvals[j].gate
    BY <2>2
  <2>5. file' = Torn
    BY <1>5 DEF Decide, OpenFile
  <2>6. lastWord' \in [Gates -> {"none", "approved", "denied"}]
    BY <2>1 DEF StoreInv
  <2>7. \A j, k \in DOMAIN approvals' : approvals'[j].gate = approvals'[k].gate => j = k
    BY <2>2, <2>4 DEF StoreInv
  <2>8. ASSUME NEW j \in DOMAIN approvals', approvals'[j].status # "pending"
        PROVE  lastWord'[approvals'[j].gate] = approvals'[j].status
    <3>0. j \in DOMAIN approvals
      BY <2>2, <2>8
    <3>1. approvals[j] \in Approval /\ approvals[j].gate \in Gates /\ approvals[i].gate \in Gates
      <4>1. approvals[j] \in Approval /\ approvals[i] \in Approval
        BY <2>2, <3>0
      <4> QED BY <4>1 DEF Approval
    <3>2. CASE j = i
      BY <2>1, <2>2, <3>1, <3>2 DEF StoreInv
    <3>3. CASE j # i
      <4>1. approvals[j].gate # approvals[i].gate /\ approvals'[j] = approvals[j]
        BY <2>2, <3>3 DEF StoreInv
      <4> QED BY <2>1, <2>2, <2>8, <3>1, <4>1 DEF StoreInv
    <3> QED BY <3>2, <3>3
  <2> QED BY <2>3, <2>5, <2>6, <2>7, <2>8 DEF StoreInv
<1>6. "execution" \in Gates /\ "promotion" \in Gates
  BY DEF Gates
<1> QED
  BY <1>1, <1>2, <1>3, <1>4, <1>5, <1>6
     DEF Next, Worker, vars, AddTask, StartRun, ExecutionGate, PromotionGate, Execute, Promote, Move

\* An approval once given is not taken back: only a crash, which pauses the run, can lose it.
LEMMA YesStays ==
    ASSUME StoreInv, NEW gate \in Gates, Yes(gate), UNCHANGED approvals \/ \E word \in {"approved", "denied"} : Decide(word)
    PROVE  Yes(gate)'
<1>1. CASE UNCHANGED approvals
  BY <1>1 DEF Yes
<1>2. ASSUME NEW word \in {"approved", "denied"}, Decide(word) PROVE Yes(gate)'
  <2>1. PICK i \in DOMAIN approvals :
          approvals[i].status = "pending" /\ approvals' = [approvals EXCEPT ![i].status = word]
    BY <1>2 DEF Decide
  <2>2. PICK j \in DOMAIN approvals : approvals[j] = [gate |-> gate, status |-> "approved"]
    BY DEF Yes
  <2>3. j # i
    BY <2>1, <2>2
  <2>4. j \in DOMAIN approvals' /\ approvals'[j] = approvals[j]
    BY <2>1, <2>2, <2>3 DEF StoreInv
  <2> QED BY <2>2, <2>4 DEF Yes
<1> QED BY <1>1, <1>2

\* Wherever the run is, it came through its gates: they are asked again after every pause (main_window.py, _run_slot).
LEMMA RunStep == StoreInv /\ RunInv /\ [Next]_vars => RunInv'
<1> SUFFICES ASSUME StoreInv, RunInv, [Next]_vars PROVE RunInv'
  OBVIOUS
<1> DEFINE Passed == UNCHANGED <<tasks, approvals>> \/ (UNCHANGED tasks /\ \E word \in {"approved", "denied"} : Decide(word))
<1>1. ASSUME NEW gate \in Gates, NEW decision, Through(gate, decision), Passed PROVE Through(gate, decision)'
  BY <1>1, YesStays DEF Through
<1>2. "execution" \in Gates /\ "promotion" \in Gates
  BY DEF Gates
<1>3. CASE UNCHANGED <<tasks, pc, failed, final, facts>> /\ Passed
  <2>1. Through("execution", PreExecution(tasks)) => Through("execution", PreExecution(tasks))'
    BY <1>1, <1>2, <1>3
  <2>2. Through("promotion", PrePromotion(facts, final)) => Through("promotion", PrePromotion(facts, final))'
    BY <1>1, <1>2, <1>3
  <2> QED BY <1>3, <2>1, <2>2 DEF RunInv
<1>4. CASE AddTask
  BY <1>4 DEF AddTask, RunInv
<1>5. CASE StartRun
  BY <1>5 DEF StartRun, RunInv
<1>6. CASE ExecutionGate
  <2>1. CASE pc' \in {"paused", "failed"}
    BY <1>6, <2>1 DEF ExecutionGate, AtGate, RunInv
  <2>2. CASE pc' \notin {"paused", "failed"}
    <3>1. pc' = "run" /\ UNCHANGED <<tasks, approvals, failed, final, facts>>
      BY <1>6, <2>2 DEF ExecutionGate, AtGate, Move
    <3>2. Through("execution", PreExecution(tasks))
      BY <1>2, <1>6, <2>2, LatestSays DEF ExecutionGate, AtGate, Through, Move
    <3> QED BY <1>1, <1>2, <3>1, <3>2 DEF RunInv
  <2> QED BY <2>1, <2>2
<1>7. CASE PromotionGate
  <2>1. CASE pc' \in {"paused", "kept"}
    BY <1>7, <2>1 DEF PromotionGate, AtGate, RunInv
  <2>2. CASE pc' \notin {"paused", "kept"}
    <3>1. pc = "promotion" /\ pc' = "promote" /\ UNCHANGED <<tasks, approvals, failed, final, facts>>
      BY <1>7, <2>2 DEF PromotionGate, AtGate, Move
    <3>2. Through("promotion", PrePromotion(facts, final))
      BY <1>2, <1>7, <2>2, LatestSays DEF PromotionGate, AtGate, Through, Move
    <3>3. Through("execution", PreExecution(tasks))
      BY <3>1 DEF RunInv
    <3>4. Through("execution", PreExecution(tasks))' /\ Through("promotion", PrePromotion(facts, final))'
      BY <1>1, <1>2, <3>1, <3>2, <3>3
    <3> QED BY <3>1, <3>4 DEF RunInv
  <2> QED BY <2>1, <2>2
<1>8. CASE Execute
  <2>1. pc = "run" /\ UNCHANGED <<tasks, approvals>>
    BY <1>8 DEF Execute, Move
  <2>2. Through("execution", PreExecution(tasks))'
    BY <1>1, <1>2, <2>1 DEF RunInv
  <2>3. pc' \in {"failed", "promotion"} /\ failed' \in BOOLEAN
    BY <1>8 DEF Execute, Move
  <2>4. final' = "COMPLETED" => ~failed'
    BY <1>8 DEF Execute, Synthesize
  <2> QED BY <2>2, <2>3, <2>4 DEF RunInv
<1>9. CASE Promote
  <2>1. pc = "promote" /\ UNCHANGED <<tasks, approvals, failed, final, facts>>
    BY <1>9 DEF Promote, Move
  <2>2. Through("execution", PreExecution(tasks)) /\ Through("promotion", PrePromotion(facts, final))
    BY <2>1 DEF RunInv
  <2>3. Through("execution", PreExecution(tasks))' /\ Through("promotion", PrePromotion(facts, final))'
    BY <1>1, <1>2, <2>1, <2>2
  <2>4. pc' \in {"kept", "promoted"} /\ (pc' = "promoted" => final \in {"COMPLETED", "COMPLETED_WITH_WARNINGS"})
    BY <1>9 DEF Promote, Move
  <2> QED BY <2>1, <2>3, <2>4 DEF RunInv
<1>10. CASE Crash
  BY <1>10 DEF Crash, RunInv, Over
<1>11. ASSUME NEW thread, WriteFile(thread) PROVE RunInv'
  BY <1>3, <1>11 DEF WriteFile
<1>12. ASSUME NEW word \in {"approved", "denied"}, Decide(word) PROVE RunInv'
  <2>1. UNCHANGED <<tasks, pc, failed, final, facts>>
    BY <1>12 DEF Decide
  <2> QED BY <1>3, <1>12, <2>1
<1>13. CASE UNCHANGED vars
  BY <1>3, <1>13 DEF vars
<1> QED
  BY <1>4, <1>5, <1>6, <1>7, <1>8, <1>9, <1>10, <1>11, <1>12, <1>13 DEF Next, Worker

\* The program starts with no approvals and no run.
LEMMA GateInit == Init => GateInv
<1> SUFFICES ASSUME Init PROVE GateInv
  OBVIOUS
<1>1. StoreInv
  <2>1. approvals = <<>> /\ approvals \in Seq(Approval) /\ DOMAIN approvals = {} /\ file = approvals
    BY DEF Init, Idle
  <2>2. lastWord \in [Gates -> {"none", "approved", "denied"}]
    BY DEF Init, Idle
  <2> QED BY <2>1, <2>2 DEF StoreInv
<1>2. RunInv
  BY DEF Init, Idle, RunInv
<1> QED BY <1>1, <1>2 DEF GateInv

\* The invariant says what a promoted run has behind it (services/policy, verification/outcome.py).
LEMMA PromotedIsClean == ASSUME GateInv PROVE PromotedClean
<1> SUFFICES ASSUME pc = "promoted"
             PROVE  /\ \A task \in tasks : ~Denied(task)
                    /\ final \in {"COMPLETED", "COMPLETED_WITH_WARNINGS"}
                    /\ lastWord["promotion"] # "approved" => ~failed /\ facts = {} /\ final = "COMPLETED"
                    /\ lastWord["execution"] # "approved" => \A task \in tasks : TaskRisk(task) <= Threshold
  BY DEF PromotedClean
<1>1. "execution" \in Gates /\ "promotion" \in Gates
  BY DEF Gates
<1>2. Through("execution", PreExecution(tasks)) /\ Through("promotion", PrePromotion(facts, final))
  BY DEF GateInv, RunInv
<1>3. /\ PreExecution(tasks) = "allow" \/ (PreExecution(tasks) = "warn" /\ lastWord["execution"] = "approved")
      /\ PrePromotion(facts, final) = "allow" \/ (PrePromotion(facts, final) = "warn" /\ lastWord["promotion"] = "approved")
  BY <1>1, <1>2, ThroughSays DEF GateInv
<1>4. \A task \in tasks : ~Denied(task)
  BY <1>3 DEF PreExecution
<1>5. final \in {"COMPLETED", "COMPLETED_WITH_WARNINGS"} /\ (final = "COMPLETED" => ~failed)
  BY DEF GateInv, RunInv
<1>6. ASSUME lastWord["promotion"] # "approved" PROVE ~failed /\ facts = {} /\ final = "COMPLETED"
  <2>1. PrePromotion(facts, final) = "allow"
    BY <1>3, <1>6
  <2>2. PromotionRisk(facts, final) \in {0, 2, 3} /\ ~(PromotionRisk(facts, final) > 0)
    BY <2>1 DEF PrePromotion, PromotionRisk, AutoThreshold
  <2>3. facts = {} /\ final # "COMPLETED_WITH_WARNINGS"
    BY <2>2 DEF PromotionRisk
  <2> QED BY <1>5, <2>3
<1>7. ASSUME lastWord["execution"] # "approved", NEW task \in tasks PROVE TaskRisk(task) <= Threshold
  <2>1. ~(Risk(tasks) > Threshold)
    BY <1>3, <1>7 DEF PreExecution
  <2>2. TaskRisk(task) <= Risk(tasks) /\ Risk(tasks) \in 0..3 /\ TaskRisk(task) \in 0..3
    BY RiskBounds, TaskRiskKnown
  <2> QED BY <2>1, <2>2 DEF Threshold
<1> QED BY <1>4, <1>5, <1>6, <1>7

\* A step through a gate is a step the user or the policy allows, and no decision is turned round on the way.
LEMMA StepHolds == ASSUME GateInv, [Next]_vars PROVE ApprovalsHold \/ UNCHANGED vars
<1> SUFFICES ASSUME Next PROVE ApprovalsHold
  OBVIOUS
<1>1. ASSUME pc = "execution", pc' = "run", PreExecution(tasks) # "allow" PROVE lastWord["execution"] = "approved"
  <2>1. ExecutionGate
    BY <1>1 DEF Next, Worker, AddTask, StartRun, PromotionGate, AtGate, Execute, Promote, WriteFile, Crash, Decide, Move
  <2>2. "execution" \in Gates
    BY DEF Gates
  <2>3. Through("execution", PreExecution(tasks))
    BY <1>1, <2>1, <2>2, LatestSays DEF ExecutionGate, AtGate, Through, Move, GateInv
  <2> QED BY <1>1, <2>2, <2>3, ThroughSays DEF GateInv
<1>2. ASSUME pc = "promotion", pc' = "promote", PrePromotion(facts, final) # "allow" PROVE lastWord["promotion"] = "approved"
  <2>1. PromotionGate
    BY <1>2 DEF Next, Worker, AddTask, StartRun, ExecutionGate, AtGate, Execute, Promote, WriteFile, Crash, Decide, Move
  <2>2. "promotion" \in Gates
    BY DEF Gates
  <2>3. Through("promotion", PrePromotion(facts, final))
    BY <1>2, <2>1, <2>2, LatestSays DEF PromotionGate, AtGate, Through, Move, GateInv
  <2> QED BY <1>2, <2>2, <2>3, ThroughSays DEF GateInv
<1>3. ASSUME NEW i \in DOMAIN approvals \intersect DOMAIN approvals', approvals[i].status # "pending"
      PROVE  approvals'[i].status \in {approvals[i].status, "pending"}
  <2>1. CASE \E j \in DOMAIN approvals, word \in {"approved", "denied"} :
                approvals[j].status = "pending" /\ approvals' = [approvals EXCEPT ![j].status = word]
    <3>1. PICK j \in DOMAIN approvals, word \in {"approved", "denied"} :
                approvals[j].status = "pending" /\ approvals' = [approvals EXCEPT ![j].status = word]
      BY <2>1
    <3>2. i # j /\ approvals \in Seq(Approval)
      BY <1>3, <3>1 DEF GateInv, StoreInv
    <3>3. approvals'[i] = approvals[i]
      BY <1>3, <3>1, <3>2
    <3> QED BY <3>3
  <2>2. CASE \E new : approvals' = Append(approvals, new)
    <3>1. approvals'[i] = approvals[i]
      BY <1>3, <2>2 DEF GateInv, StoreInv
    <3> QED BY <3>1
  <2>3. CASE approvals' = approvals
    BY <2>3
  <2>4. CASE approvals' = <<>>
    BY <1>3, <2>4
  <2>5. CASE Crash
    BY <2>3, <2>4, <2>5 DEF Crash, GateInv, StoreInv
  <2> QED
    BY <2>1, <2>2, <2>3, <2>5
       DEF Next, Worker, AddTask, StartRun, ExecutionGate, PromotionGate, AtGate, Execute, Promote, WriteFile, Decide, Move
<1> QED
  BY <1>1, <1>2, <1>3, NeverMoreLenient DEF ApprovalsHold

-----------------------------------------------------------------------------
(* The theorems.                                                           *)

\* What is promoted, for any spec and any history of its approvals, was clean or approved (services/policy).
THEOREM PromotionsAreClean == Spec => []PromotedClean
<1>1. Init => GateInv
  BY GateInit
<1>2. GateInv /\ [Next]_vars => GateInv'
  BY StoreStep, RunStep DEF GateInv
<1>3. GateInv => PromotedClean
  BY PromotedIsClean
<1> QED BY <1>1, <1>2, <1>3, PTL DEF Spec

\* Both gates hold at every step, whatever crashes, restarts and overlapping saves lie between (approvals.py).
THEOREM GatesAlwaysHold == Spec => GatesHold
<1>1. Init => GateInv
  BY GateInit
<1>2. GateInv /\ [Next]_vars => GateInv'
  BY StoreStep, RunStep DEF GateInv
<1>3. GateInv /\ [Next]_vars => [PromotedClean' /\ ApprovalsHold]_vars
  <2>1. GateInv' => PromotedClean'
    BY PromotedIsClean, PTL
  <2> QED BY <1>2, <2>1, StepHolds
<1> QED BY <1>1, <1>2, <1>3, PTL DEF Spec, GatesHold
-----------------------------------------------------------------------------
(* Releases.  While a suite is verified every golden run is in the queue   *)
(* or among the results, and a result that did not fail is evidence.       *)

GoldenStates == {"absent", "partial", "whole", "altered"}
Preparation == {"idle", "compile", "plan", "execute", "suite"}

Same(r) == Compare(r.source, r.replay)
Evident(r) ==
  /\ r.golden \in Goldens
  /\ r.verdict = "fail" => r.class = "fail"
  /\ r.verdict # "fail" =>
       /\ goldens[r.golden] \in {"whole", "altered"} /\ Same(r).status
       /\ ~Same(r).outputs => "output_drift" \in r.drifts
       /\ ~Same(r).rollback => "rollback_drift" \in r.drifts

Replayed == {r.golden : r \in results}
Judged == overall # None => stage \in {"decide", "over"} /\ overall = Overall(results) /\ Replayed = UNION suites
Prepared == stage \in Preparation => results = {}
SuiteThere == stage \in {"verify", "decide"} \/ overall # None => suites # {}
EvidenceInv ==
  /\ goldens \in [Goldens -> GoldenStates]
  /\ \A r \in results : Evident(r)
  /\ stage = "verify" => Replayed \union queue = UNION suites
  /\ Judged /\ Prepared /\ SuiteThere

\* A result that failed is not evidence of anything, ...
LEMMA FailedEvident ==
    ASSUME NEW g \in Goldens, NEW drifts
    PROVE  Evident(Failed(g, drifts)) /\ Failed(g, drifts).golden = g
BY DEF Failed, Evident

\* ... and one that was classified says what differed.
LEMMA ClassifiedEvident ==
    ASSUME NEW g \in Goldens, goldens[g] = "whole", NEW was, NEW replay
    PROVE  Evident(Classified(g, was, replay)) /\ Classified(g, was, replay).golden = g
<1> DEFINE c == Compare(was, replay)
           v == Verdict(c)
<1>1. CASE v = "mismatch"
  BY <1>1, FailedEvident DEF Classified
<1>2. CASE v # "mismatch"
  <2> DEFINE r == [golden |-> g, source |-> was, replay |-> replay, verdict |-> v, class |-> Class(v), drifts |-> Drifts(c)]
  <2>1. Classified(g, was, replay) = r
    BY <1>2 DEF Classified
  <2>2. r.golden = g /\ r.verdict = v /\ r.drifts = Drifts(c) /\ Same(r) = c
    BY DEF Same
  <2>3. v # "fail" /\ c.status
    BY <1>2 DEF Verdict
  <2>4. (~c.outputs => "output_drift" \in Drifts(c)) /\ (~c.rollback => "rollback_drift" \in Drifts(c))
    BY DEF Drifts
  <2> HIDE DEF r, c, v
  <2> QED BY <2>1, <2>2, <2>3, <2>4 DEF Evident
<1> QED BY <1>1, <1>2

LEMMA ResultEvident ==
    ASSUME NEW g \in Goldens, NEW plan, NEW was, NEW replay
    PROVE  Evident(Result(g, plan, was, replay)) /\ Result(g, plan, was, replay).golden = g
BY FailedEvident, ClassifiedEvident DEF Result, Intact

LEMMA MoveKept ==
    ASSUME NEW f \in [Goldens -> GoldenStates], NEW next,
           \E g \in Goldens, to \in GoldenStates :
             next = [f EXCEPT ![g] = to] /\ (f[g] \in {"whole", "altered"} => to \in {"whole", "altered"})
    PROVE  /\ next \in [Goldens -> GoldenStates]
           /\ \A h \in Goldens : f[h] \in {"whole", "altered"} => next[h] \in {"whole", "altered"}
OBVIOUS

\* Evidence does not spoil: a golden run that was whole is whole or altered for good.
LEMMA EvidenceKept ==
    ASSUME NEW r, Evident(r), goldens \in [Goldens -> GoldenStates],
           goldens' = goldens \/ \E g \in Goldens : CopyGolden(g) \/ SealGolden(g) \/ AlterGolden(g)
    PROVE  Evident(r)' /\ goldens' \in [Goldens -> GoldenStates]
<1>1. CASE goldens' = goldens
  BY <1>1 DEF Evident, Same, Compare
<1>2. CASE \E g \in Goldens : CopyGolden(g) \/ SealGolden(g) \/ AlterGolden(g)
  <2>1. \E g \in Goldens, to \in GoldenStates :
          goldens' = [goldens EXCEPT ![g] = to] /\ (goldens[g] \in {"whole", "altered"} => to \in {"whole", "altered"})
    BY <1>2 DEF CopyGolden, SealGolden, AlterGolden, Becomes, GoldenStates
  <2>2. goldens' \in [Goldens -> GoldenStates]
    BY <2>1, MoveKept
  <2>3. \A h \in Goldens : goldens[h] \in {"whole", "altered"} => goldens'[h] \in {"whole", "altered"}
    BY <2>1, MoveKept
  <2>4. Same(r)' = Same(r)
    BY DEF Same, Compare
  <2> QED BY <2>2, <2>3, <2>4 DEF Evident
<1> QED BY <1>1, <1>2

\* Every step keeps the evidence in order.
LEMMA EvidenceStep == EvidenceInv /\ [ReleaseNext]_releaseVars => EvidenceInv'
<1> SUFFICES ASSUME EvidenceInv, [ReleaseNext]_releaseVars PROVE EvidenceInv'
  OBVIOUS
<1>1. /\ goldens \in [Goldens -> GoldenStates] /\ \A r \in results : Evident(r)
      /\ stage = "verify" => Replayed \union queue = UNION suites
      /\ Judged /\ Prepared /\ SuiteThere
  BY DEF EvidenceInv
<1>2. ASSUME UNCHANGED results PROVE Replayed' = Replayed /\ Overall(results)' = Overall(results)
  BY <1>2 DEF Replayed, Overall
<1>3. ASSUME UNCHANGED <<suites, cvars>>, goldens' = goldens \/ \E g \in Goldens : CopyGolden(g) \/ SealGolden(g) \/ AlterGolden(g)
      PROVE  EvidenceInv'
  <2>1. goldens' \in [Goldens -> GoldenStates] /\ \A r \in results : Evident(r)'
    <3>1. goldens' \in [Goldens -> GoldenStates]
      BY <1>1, <1>3 DEF CopyGolden, SealGolden, AlterGolden, Becomes, GoldenStates
    <3> QED BY <1>1, <1>3, <3>1, EvidenceKept
  <2>2. stage' = stage /\ queue' = queue /\ results' = results /\ overall' = overall /\ suites' = suites
    BY <1>3 DEF cvars
  <2> QED BY <1>1, <1>2, <2>1, <2>2 DEF EvidenceInv, Judged, Prepared, SuiteThere
<1>4. CASE CreateSuite
  <2>1. suites = {} /\ suites' # {} /\ UNCHANGED <<goldens, cvars>>
    BY <1>4 DEF CreateSuite
  <2>2. stage \notin {"verify", "decide"} /\ overall = None
    BY <1>1, <2>1 DEF SuiteThere
  <2>3. stage' = stage /\ results' = results /\ overall' = overall
    BY <2>1 DEF cvars
  <2>4. \A r \in results' : Evident(r)'
    BY <1>1, <2>1, <2>3, EvidenceKept
  <2> QED BY <1>1, <2>1, <2>2, <2>3, <2>4 DEF EvidenceInv, Judged, Prepared, SuiteThere
<1>5. ASSUME results' = {}, overall' = None, stage' \in Preparation, UNCHANGED goldens PROVE EvidenceInv'
  BY <1>1, <1>5 DEF EvidenceInv, Judged, Prepared, SuiteThere, Preparation
<1>6. CASE Start \/ Interrupted
  BY <1>5, <1>6 DEF Start, Interrupted, Preparation, gvars
<1>7. ASSUME stage \in Preparation, stage' \in Preparation \union {"over"}, UNCHANGED <<gvars, results, overall>> PROVE EvidenceInv'
  <2>1. overall = None /\ results = {} /\ overall' = None /\ results' = {} /\ goldens' = goldens
    BY <1>1, <1>7 DEF Judged, Prepared, Preparation, gvars
  <2> QED BY <1>1, <1>7, <2>1 DEF EvidenceInv, Judged, Prepared, SuiteThere, Preparation
<1>8. CASE Compile \/ BuildPlan \/ ExecuteCommand
  <2>1. /\ stage \in Preparation /\ stage' \in Preparation \union {"over"} /\ UNCHANGED <<gvars, results, overall>>
    BY <1>8 DEF Compile, BuildPlan, ExecuteCommand, CommandEnded, CommandOnward, Preparation
  <2> QED BY <1>7, <2>1
<1>9. CASE LoadSuite
  <2>1. stage = "suite" /\ UNCHANGED <<gvars, results, overall>> /\ queue' = UNION suites
    BY <1>9 DEF LoadSuite
  <2>2. CASE suites = {}
    <3>1. stage' = "over"
      BY <1>9, <2>2 DEF LoadSuite, CommandEnded
    <3> QED BY <1>7, <2>1, <3>1 DEF Preparation
  <2>3. CASE suites # {}
    <3>1. stage' = "verify"
      BY <1>9, <2>3 DEF LoadSuite, CommandOnward
    <3>2. results = {} /\ overall = None /\ results' = {} /\ overall' = None /\ goldens' = goldens /\ suites' = suites
      BY <1>1, <2>1 DEF Judged, Prepared, Preparation, gvars
    <3>3. Replayed' = {}
      BY <3>2 DEF Replayed
    <3> QED BY <1>1, <2>1, <2>3, <3>1, <3>2, <3>3 DEF EvidenceInv, Judged, Prepared, SuiteThere, Preparation
  <2> QED BY <2>2, <2>3
<1>10. ASSUME NEW g \in Goldens, VerifyGolden(g) PROVE EvidenceInv'
  <2>1. PICK plan, was, replay :
          results' = results \union {Result(g, plan, was, replay)} /\ queue' = Rest(g, Result(g, plan, was, replay))
    BY <1>10 DEF VerifyGolden
  <2> DEFINE new == Result(g, plan, was, replay)
  <2>2. stage = "verify" /\ g \in queue /\ UNCHANGED <<gvars, stage, overall>>
    BY <1>10 DEF VerifyGolden
  <2>3. goldens' = goldens /\ suites' = suites
    BY <2>2 DEF gvars
  <2>4. Evident(new) /\ new.golden = g
    BY ResultEvident
  <2> HIDE DEF new
  <2>5. results' = results \union {new} /\ queue' = queue \ {g}
    BY <2>1 DEF Rest, new
  <2>6. \A r \in results' : Evident(r)'
    BY <1>1, <2>3, <2>4, <2>5, EvidenceKept
  <2>7. Replayed' = Replayed \union {g}
    BY <2>4, <2>5 DEF Replayed
  <2>8. Replayed' \union queue' = UNION suites'
    BY <1>1, <2>2, <2>3, <2>5, <2>7
  <2> QED BY <1>1, <2>2, <2>3, <2>6, <2>8 DEF EvidenceInv, Judged, Prepared, SuiteThere, Preparation
<1>11. CASE Verified
  <2>1. /\ stage = "verify" /\ queue = {} /\ overall' = Overall(results) /\ stage' \in {"over", "decide"}
        /\ UNCHANGED <<gvars, queue, results>>
    BY <1>11 DEF Verified, CommandEnded, CommandOnward
  <2>2. goldens' = goldens /\ suites' = suites /\ results' = results
    BY <2>1 DEF gvars
  <2>3. \A r \in results' : Evident(r)'
    BY <1>1, <2>2, EvidenceKept
  <2>4. Replayed' = UNION suites' /\ suites' # {} /\ Overall(results)' = Overall(results)
    BY <1>1, <1>2, <2>1, <2>2 DEF SuiteThere
  <2> QED BY <1>1, <2>1, <2>2, <2>3, <2>4 DEF EvidenceInv, Judged, Prepared, SuiteThere, Preparation
<1>12. CASE DecideRelease
  <2>1. stage = "decide" /\ stage' = "over" /\ UNCHANGED <<gvars, queue, results, overall>>
    BY <1>12 DEF DecideRelease, CommandEnded
  <2>2. goldens' = goldens /\ suites' = suites /\ results' = results /\ overall' = overall
    BY <2>1 DEF gvars
  <2>3. \A r \in results' : Evident(r)'
    BY <1>1, <2>2, EvidenceKept
  <2> QED BY <1>1, <1>2, <2>1, <2>2, <2>3 DEF EvidenceInv, Judged, Prepared, SuiteThere, Preparation
<1>13. CASE UNCHANGED releaseVars \/ WriteHistory \/ \E env \in Environments : PromoteCandidate(env) \/ OverrideCandidate(env)
  BY <1>3, <1>13 DEF releaseVars, gvars, WriteHistory, PromoteCandidate, OverrideCandidate
<1>14. CASE \E g \in Goldens : CopyGolden(g) \/ SealGolden(g) \/ AlterGolden(g)
  BY <1>3, <1>14 DEF CopyGolden, SealGolden, AlterGolden, Becomes
<1> QED BY <1>4, <1>6, <1>8, <1>9, <1>10, <1>11, <1>12, <1>13, <1>14 DEF ReleaseNext, Command

\* What the engine does not reject has no blocked drift and did not fail.
LEMMA ApprovedFacts ==
    ASSUME NEW env \in Environments, Approves(env)
    PROVE  overall # "fail" /\ \A r \in results : r.drifts \intersect Blocked(env) = {}
BY DEF Approves, Evaluate, Rejected

LEMMA LadderClimbs ==
    /\ Approves("prod") => Approves("staging")
    /\ Approves("staging") => Approves("dev")
<1>1. \A env \in Environments : Approves(env) <=> ~Rejected(env, results, overall)
  BY DEF Approves, Evaluate
<1>2. Counted("warn_count", "warn", results) = 0 /\ Counted("fail_count", "fail", results) = 0
  BY DEF Counted, SummaryKeys
<1>3. Blocked("dev") \subseteq Blocked("staging") /\ Blocked("staging") \subseteq Blocked("prod")
  BY DEF Blocked
<1>4. ~Rejected("prod", results, overall) => ~Rejected("staging", results, overall)
  BY <1>2, <1>3 DEF Rejected, RequiredVerdict, AllowsWarn, AllowsNotComparable, MaxFailures
<1>5. ~Rejected("staging", results, overall) => ~Rejected("dev", results, overall)
  BY <1>2, <1>3 DEF Rejected, RequiredVerdict, AllowsWarn, AllowsNotComparable, MaxFailures
<1> QED BY <1>1, <1>4, <1>5 DEF Environments

\* The promotion engine approves nothing that does not replay, for any golden
\* runs, any traces they may leave and any number of commands: the approval
\* stands on every golden run of the suite, and what may go to production may
\* go to staging and to dev (promotion_engine.py, suite_runner.py, policies.py).
THEOREM ReleasesAreSound == ReleaseSpec => []ReleaseSound
<1>1. ReleaseInit => EvidenceInv
  <2> SUFFICES ASSUME ReleaseInit PROVE EvidenceInv
    OBVIOUS
  <2>1. goldens = [g \in Goldens |-> "absent"] /\ stage = "idle" /\ results = {} /\ overall = None
    BY DEF ReleaseInit
  <2>2. goldens \in [Goldens -> GoldenStates]
    BY <2>1 DEF GoldenStates
  <2> QED BY <2>1, <2>2 DEF EvidenceInv, Judged, Prepared, SuiteThere
<1>2. EvidenceInv => ReleaseSound
  <2> SUFFICES ASSUME EvidenceInv PROVE ReleaseSound
    OBVIOUS
  <2>1. LadderHolds
    BY LadderClimbs DEF LadderHolds
  <2>2. ASSUME NEW env \in Environments, overall # None, Approves(env)
        PROVE  /\ {r.golden : r \in results} = UNION suites
               /\ \A r \in results :
                    LET c == Compare(r.source, r.replay)
                    IN /\ r.verdict # "fail" /\ goldens[r.golden] \in {"whole", "altered"}
                       /\ c.status
                       /\ env # "dev" => c.outputs
                       /\ env = "prod" => c.rollback
    <3>1. Replayed = UNION suites /\ overall = Overall(results) /\ \A r \in results : Evident(r)
      BY <2>2 DEF EvidenceInv, Judged
    <3>2. overall # "fail" /\ \A r \in results : r.drifts \intersect Blocked(env) = {}
      BY <2>2, ApprovedFacts
    <3>3. \A r \in results : r.class # "fail"
      BY <3>1, <3>2 DEF Overall
    <3>4. ASSUME NEW r \in results
          PROVE  /\ r.verdict # "fail" /\ goldens[r.golden] \in {"whole", "altered"} /\ Same(r).status
                 /\ env # "dev" => Same(r).outputs
                 /\ env = "prod" => Same(r).rollback
      <4>1. /\ r.verdict # "fail" /\ goldens[r.golden] \in {"whole", "altered"} /\ Same(r).status
            /\ ~Same(r).outputs => "output_drift" \in r.drifts
            /\ ~Same(r).rollback => "rollback_drift" \in r.drifts
        BY <3>1, <3>3 DEF Evident
      <4>2. (env # "dev" => "output_drift" \in Blocked(env)) /\ (env = "prod" => "rollback_drift" \in Blocked(env))
        BY DEF Blocked, Environments
      <4> QED BY <3>2, <4>1, <4>2
    <3> QED BY <3>1, <3>4 DEF Replayed, Same
  <2> QED BY <2>1, <2>2 DEF ReleaseSound, ApprovedReproduces
<1> QED BY <1>1, <1>2, EvidenceStep, PTL DEF ReleaseSpec

-----------------------------------------------------------------------------
(* The history of promotions. *)

Recorded == [env : Environments \union {"torn"}, decision : {"approved", "approved_with_warnings", "approved_with_override", "rejected", "torn"}]
HistoryInv == history \in Seq(Recorded) /\ recording \in Seq(Recorded) /\ (recording # <<>> => history = TornFile)

\* The file of a version's promotions loses nothing but to a crash, and what
\* is being written continues what was read, for any number of decisions
\* (_update_history, audit.py).
THEOREM AuditIsKept == ReleaseSpec => AuditKept
<1>1. ReleaseInit => HistoryInv
  BY DEF ReleaseInit, HistoryInv
<1>2. HistoryInv /\ [ReleaseNext]_releaseVars => HistoryInv'
  <2> SUFFICES ASSUME HistoryInv, [ReleaseNext]_releaseVars PROVE HistoryInv'
    OBVIOUS
  <2>1. TornFile \in Seq(Recorded)
    BY DEF TornFile, Recorded
  <2>2. ASSUME NEW env \in Environments, NEW word \in {"approved", "approved_with_warnings", "approved_with_override", "rejected"}, Record(env, word)
        PROVE  HistoryInv'
    <3>1. [env |-> env, decision |-> word] \in Recorded
      BY DEF Recorded
    <3> QED BY <2>1, <2>2, <3>1 DEF Record, HistoryInv
  <2>3. CASE \E env \in Environments : PromoteCandidate(env) \/ OverrideCandidate(env)
    BY <2>2, <2>3 DEF PromoteCandidate, OverrideCandidate, Evaluate
  <2>4. CASE WriteHistory \/ Interrupted
    <3>1. recording' = <<>> /\ history' \in {history, recording}
      BY <2>4 DEF WriteHistory, Interrupted
    <3>2. <<>> \in Seq(Recorded)
      OBVIOUS
    <3> QED BY <3>1, <3>2 DEF HistoryInv
  <2>5. CASE UNCHANGED hvars
    BY <2>5 DEF hvars, HistoryInv
  <2> QED BY <2>3, <2>4, <2>5 DEF ReleaseNext, CopyGolden, SealGolden, AlterGolden, Becomes, CreateSuite, Start, Command, Compile, BuildPlan,
     ExecuteCommand, LoadSuite, VerifyGolden, Verified, DecideRelease, releaseVars
<1>3. HistoryInv /\ [ReleaseNext]_releaseVars =>
        [history # TornFile => history' \in {history, TornFile} /\
           (recording' # <<>> => SubSeq(recording', 1, Len(history)) = history)]_releaseVars
  <2> SUFFICES ASSUME HistoryInv, ReleaseNext, history # TornFile
               PROVE  history' \in {history, TornFile} /\ (recording' # <<>> => SubSeq(recording', 1, Len(history)) = history)
    BY DEF releaseVars
  <2>1. recording = <<>> /\ history \in Seq(Recorded)
    BY DEF HistoryInv
  <2>2. ASSUME NEW env, NEW word, Record(env, word)
        PROVE  history' \in {history, TornFile} /\ (recording' # <<>> => SubSeq(recording', 1, Len(history)) = history)
    <3>1. history' = TornFile /\ recording' = Append(history, [env |-> env, decision |-> word])
      BY <2>2 DEF Record
    <3>2. SubSeq(recording', 1, Len(history)) = history
      BY <2>1, <3>1
    <3> QED BY <3>1, <3>2
  <2>3. CASE \E env \in Environments : PromoteCandidate(env) \/ OverrideCandidate(env)
    BY <2>2, <2>3 DEF PromoteCandidate, OverrideCandidate
  <2>4. ~WriteHistory /\ ~Interrupted
    BY <2>1 DEF WriteHistory, Interrupted
  <2>5. CASE UNCHANGED hvars
    BY <2>1, <2>5 DEF hvars
  <2> QED BY <2>3, <2>4, <2>5 DEF ReleaseNext, CopyGolden, SealGolden, AlterGolden, Becomes, CreateSuite, Start, Command, Compile, BuildPlan,
     ExecuteCommand, LoadSuite, VerifyGolden, Verified, DecideRelease
<1> QED BY <1>1, <1>2, <1>3, PTL DEF ReleaseSpec, AuditKept

-----------------------------------------------------------------------------
(* The order the planner gives the tasks of a spec.                        *)

Taken == {execution_order[n] : n \in DOMAIN execution_order}
DepAt(e) == source.tasks[e[1]].deps[e[2]]
Awaits(v) == {e \in Needs(source.tasks, v) : DepAt(e) \notin Taken}

\* How far the planner has come: each id waits for as many entries as name a task not taken yet, and is queued when there
\* is none; what was taken waited for tasks before it, and passed by only what had still to wait (InTurn).
EntriesCounted == \A v \in Ids : in_degree[v] = Cardinality(Awaits(v))
DueQueued == \A v \in Ids : ready[v] = IF v \notin Taken /\ Awaits(v) = {} THEN 1 ELSE 0
DepsFirst ==
  /\ \A n, m \in DOMAIN execution_order : execution_order[n] = execution_order[m] => n = m
  /\ \A n \in DOMAIN execution_order : \A e \in Needs(source.tasks, execution_order[n]) :
       \E m \in 1..(n - 1) : execution_order[m] = DepAt(e)
InTurn ==
  \A n \in DOMAIN execution_order, v \in Ids :
    Index(v) < Index(execution_order[n]) =>
      \/ \E p \in 1..n : execution_order[p] = v
      \/ \E e \in Needs(source.tasks, v) : \A p \in 1..(n - 1) : execution_order[p] # DepAt(e)

PlannerTypes == in_degree \in [Ids -> Int] /\ ready \in [Ids -> Nat] /\ execution_order \in Seq(Ids)
Ordering == Distinct(source.tasks) => EntriesCounted /\ DueQueued /\ DepsFirst /\ InTurn

\* The spec's tasks are ordered, or were.
Planning == doing \in {"ordering", "cycle"} \/ (doing = "parsed" /\ IsDsl(source))

ParserInv ==
  /\ source \in Sources /\ doing \in {"text", "ordering", "sentences", "parsed", "refused", "cycle"}
  /\ doing = "text" => execution_order = <<>>
  /\ doing = "sentences" => ~IsDsl(source)
  /\ Planning => SpecValid(source) /\ PlannerTypes /\ Ordering
  /\ parsed # <<>> => doing = "parsed"
  /\ doing = "cycle" => (\A id \in Ids : ready[id] = 0) /\ Len(execution_order) # Len(source.tasks)
  /\ doing = "parsed" /\ IsDsl(source) =>
       /\ Len(execution_order) = Len(source.tasks)
       /\ parsed = [n \in DOMAIN execution_order |-> ToTask(TaskMap(execution_order[n]))]

\* What a text is made of.
LEMMA TextOf ==
    ASSUME source \in Sources
    PROVE  /\ Len(source.tasks) \in Nat /\ DOMAIN source.tasks = 1..Len(source.tasks)
           /\ \A i \in DOMAIN source.tasks : source.tasks[i].id \in STRING /\ Len(source.tasks[i].deps) \in Nat
                                             /\ DOMAIN source.tasks[i].deps = 1..Len(source.tasks[i].deps)
           /\ Ids = {source.tasks[i].id : i \in DOMAIN source.tasks}
<1>1. source.tasks \in Seq([has : SUBSET STRING, id : STRING, type : STRING, inside : BOOLEAN, fits : BOOLEAN, aim : STRING,
                            listed : BOOLEAN, deps : Seq(STRING)])
  BY SourcesAreTexts
<1>2. ASSUME NEW i \in DOMAIN source.tasks PROVE source.tasks[i].id \in STRING /\ source.tasks[i].deps \in Seq(STRING)
  <2> DEFINE R == [has : SUBSET STRING, id : STRING, type : STRING, inside : BOOLEAN, fits : BOOLEAN, aim : STRING,
                   listed : BOOLEAN, deps : Seq(STRING)]
  <2>1. source.tasks[i] \in R
    <3>1. source.tasks \in Seq(R)
      BY <1>1
    <3> HIDE DEF R
    <3> QED BY <3>1
  <2> QED BY <2>1
<1> QED
  BY <1>1, <1>2 DEF Ids, IdsOf

\* The places of an id, and the entries it waits for, are finitely many.
LEMMA NeedsFinite ==
    ASSUME source \in Sources, NEW v
    PROVE  /\ IsFiniteSet(Named(source.tasks, v)) /\ Cardinality(Named(source.tasks, v)) \in Nat
           /\ IsFiniteSet(Needs(source.tasks, v)) /\ Cardinality(Needs(source.tasks, v)) \in Nat
           /\ \A e \in Needs(source.tasks, v) : e[1] \in DOMAIN source.tasks /\ source.tasks[e[1]].id = v /\ e[2] \in DOMAIN source.tasks[e[1]].deps
<1> DEFINE places == Named(source.tasks, v)
           rows == {{i} \X DOMAIN source.tasks[i].deps : i \in places}
           row == [i \in places |-> {i} \X DOMAIN source.tasks[i].deps]
<1>1. places \subseteq 1..Len(source.tasks) /\ Len(source.tasks) \in Nat
  BY TextOf DEF Named
<1>2. IsFiniteSet(places)
  <2>1. IsFiniteSet(1..Len(source.tasks))
    BY <1>1, FS_Interval
  <2> HIDE DEF places
  <2> QED BY <1>1, <2>1, FS_Subset
<1>3. row \in Surjection(places, rows)
  BY DEF Surjection
<1>4. IsFiniteSet(rows)
  <2> HIDE DEF places, rows, row
  <2> QED BY <1>2, <1>3, FS_Surjection
<1>5. \A T \in rows : IsFiniteSet(T)
  <2> SUFFICES ASSUME NEW i \in places PROVE IsFiniteSet({i} \X DOMAIN source.tasks[i].deps)
    OBVIOUS
  <2>1. DOMAIN source.tasks[i].deps = 1..Len(source.tasks[i].deps) /\ Len(source.tasks[i].deps) \in Nat
    BY TextOf DEF Named
  <2>2. IsFiniteSet(DOMAIN source.tasks[i].deps) /\ IsFiniteSet({i})
    <3>1. IsFiniteSet(1..Len(source.tasks[i].deps))
      BY <2>1, FS_Interval
    <3> QED BY <2>1, <3>1, FS_Singleton
  <2> QED BY <2>2, FS_Product
<1>6. IsFiniteSet(Needs(source.tasks, v))
  <2>1. IsFiniteSet(UNION rows)
    <3> HIDE DEF rows
    <3> QED BY <1>4, <1>5, FS_UNION
  <2> QED BY <2>1 DEF Needs
<1>7. \A e \in Needs(source.tasks, v) : e[1] \in DOMAIN source.tasks /\ source.tasks[e[1]].id = v /\ e[2] \in DOMAIN source.tasks[e[1]].deps
  BY DEF Needs, Named
<1> QED
  BY <1>2, <1>6, <1>7, FS_CardinalityType

\* So are those of them that name a task not taken.
LEMMA AwaitsFinite ==
    ASSUME source \in Sources, NEW v
    PROVE  /\ IsFiniteSet(Awaits(v)) /\ Cardinality(Awaits(v)) \in Nat /\ (Cardinality(Awaits(v)) = 0 <=> Awaits(v) = {})
           /\ \A u : Cardinality(NeedsOf(source.tasks, v, u)) \in Nat
           /\ \A u : Cardinality(Awaits(v) \ NeedsOf(source.tasks, v, u))
                       = Cardinality(Awaits(v)) - Cardinality(Awaits(v) \intersect NeedsOf(source.tasks, v, u))
<1>1. Awaits(v) \subseteq Needs(source.tasks, v) /\ \A u : NeedsOf(source.tasks, v, u) \subseteq Needs(source.tasks, v)
  BY DEF Awaits, NeedsOf
<1>2. IsFiniteSet(Awaits(v)) /\ \A u : IsFiniteSet(NeedsOf(source.tasks, v, u))
  BY <1>1, NeedsFinite, FS_Subset
<1> QED
  BY <1>2, FS_CardinalityType, FS_EmptySet, FS_Difference

\* Where ids are distinct an id has one place, and the least place with it is that one.
LEMMA OnePlace ==
    ASSUME source \in Sources, Distinct(source.tasks), NEW i \in DOMAIN source.tasks
    PROVE  /\ Index(source.tasks[i].id) = i /\ TaskMap(source.tasks[i].id) = source.tasks[i]
           /\ Named(source.tasks, source.tasks[i].id) = {i} /\ Cardinality(Named(source.tasks, source.tasks[i].id)) = 1
           /\ \A e : e \in Needs(source.tasks, source.tasks[i].id) <=> e \in {i} \X DOMAIN source.tasks[i].deps
<1>1. \A j \in DOMAIN source.tasks : source.tasks[j].id = source.tasks[i].id <=> j = i
  BY DEF Distinct
<1>2. i \in Nat /\ i <= i
  BY TextOf
<1>3. Index(source.tasks[i].id) = i
  BY <1>1, <1>2 DEF Index
<1>4. TaskMap(source.tasks[i].id) = source.tasks[i]
  BY <1>1, <1>2 DEF TaskMap
<1>5. Named(source.tasks, source.tasks[i].id) = {i}
  BY <1>1 DEF Named
<1> QED
  BY <1>3, <1>4, <1>5, FS_Singleton DEF Needs
\* The queue is filled with the tasks that wait for nothing.
LEMMA ParseOrders == ASSUME ParserInv, Parse PROVE ParserInv'
<1>1. source' = source /\ execution_order' = <<>> /\ doing = "text"
  BY DEF Parse, ParserInv
<1>2. CASE ~IsDsl(source) \/ ~SpecValid(source)
  BY <1>1, <1>2 DEF Parse, ParserInv, Planning, IsDsl
<1>3. CASE IsDsl(source) /\ SpecValid(source)
  <2>1. /\ doing' = "ordering" /\ parsed' = parsed
        /\ in_degree' = [id \in Ids |-> Cardinality(Needs(source.tasks, id))]
        /\ ready' = [id \in Ids |-> IF in_degree'[id] = 0 THEN Cardinality(Named(source.tasks, id)) ELSE 0]
    BY <1>3 DEF Parse
  <2>2. source \in Sources /\ Ids' = Ids /\ \A v : Needs(source', v) = Needs(source, v)
    BY <1>1 DEF ParserInv, Ids
  <2>3. PlannerTypes'
    BY <1>1, <2>1, <2>2, NeedsFinite DEF PlannerTypes
  <2>4. ASSUME Distinct(source.tasks) PROVE (EntriesCounted /\ DueQueued /\ DepsFirst /\ InTurn)'
    <3>1. Taken' = {} /\ \A v : Awaits(v)' = Needs(source.tasks, v)
      BY <1>1 DEF Taken, Awaits, DepAt, Needs
    <3>2. EntriesCounted'
      BY <2>1, <2>2, <3>1 DEF EntriesCounted
    <3>3. ASSUME NEW v \in Ids
          PROVE ready'[v] = IF Needs(source.tasks, v) = {} THEN 1 ELSE 0
      <4>1. Cardinality(Named(source.tasks, v)) = 1
        <5>1. PICK i \in DOMAIN source.tasks : v = source.tasks[i].id
          BY <2>2, TextOf
        <5> QED BY <2>2, <2>4, <5>1, OnePlace
      <4>2. Cardinality(Needs(source.tasks, v)) = 0 <=> Needs(source.tasks, v) = {}
        BY <2>2, NeedsFinite, FS_EmptySet
      <4> QED BY <2>1, <4>1, <4>2
    <3>4. DueQueued'
      BY <2>2, <3>1, <3>3 DEF DueQueued
    <3>5. (DepsFirst /\ InTurn)'
      BY <1>1 DEF DepsFirst, InTurn
    <3> QED BY <3>2, <3>4, <3>5
  <2> QED
    BY <1>1, <1>3, <2>1, <2>3, <2>4 DEF ParserInv, Planning, Ordering, IsDsl
<1> QED BY <1>2, <1>3

\* Of a turn of the loop: what it takes, and how the entries and the queue follow.
Turn(u) ==
  /\ u \in Ids /\ ready[u] > 0 /\ \A v \in Ids : ready[v] > 0 => Index(u) <= Index(v)
  /\ execution_order' = Append(execution_order, u)
  /\ in_degree' = [v \in Ids |-> in_degree[v] - Cardinality(NeedsOf(source.tasks, v, u))]
  /\ ready' = [v \in Ids |-> (IF v = u THEN ready[v] - 1 ELSE ready[v])
                             + (IF in_degree[v] > 0 /\ in_degree'[v] <= 0 THEN 1 ELSE 0)]

\* The order grows by the task taken.
LEMMA Grown ==
    ASSUME PlannerTypes, NEW u \in Ids, execution_order' = Append(execution_order, u)
    PROVE  LET n == Len(execution_order) + 1
           IN /\ n \in Nat /\ DOMAIN execution_order = 1..(n - 1) /\ DOMAIN execution_order' = 1..n
              /\ execution_order'[n] = u /\ \A k \in 1..(n - 1) : execution_order'[k] = execution_order[k]
              /\ Taken' = Taken \union {u}
<1> DEFINE n == Len(execution_order) + 1
<1>1. n \in Nat /\ DOMAIN execution_order = 1..(n - 1) /\ DOMAIN execution_order' = 1..n
  BY DEF PlannerTypes
<1>2. execution_order'[n] = u /\ \A k \in 1..(n - 1) : execution_order'[k] = execution_order[k]
  BY DEF PlannerTypes
<1>3. Taken' = Taken \union {u}
  <2> HIDE DEF n
  <2>1. DOMAIN execution_order' = DOMAIN execution_order \union {n} /\ n \notin DOMAIN execution_order
    BY <1>1
  <2> QED BY <1>1, <1>2, <2>1 DEF Taken
<1> QED BY <1>1, <1>2, <1>3

\* One turn keeps the counts, the queue and the order.
LEMMA TurnKeeps ==
    ASSUME source \in Sources, source' = source, PlannerTypes, Distinct(source.tasks),
           EntriesCounted, DueQueued, DepsFirst, InTurn, NEW u, Turn(u)
    PROVE  (EntriesCounted /\ DueQueued /\ DepsFirst /\ InTurn)'
<1> DEFINE n == Len(execution_order) + 1
<1>1. u \in Ids /\ Ids' = Ids /\ \A v : Needs(source.tasks, v)' = Needs(source.tasks, v) /\ Index(v)' = Index(v)
  BY DEF Turn, Ids, Index
<1>2. /\ n \in Nat /\ DOMAIN execution_order = 1..(n - 1) /\ DOMAIN execution_order' = 1..n
      /\ execution_order'[n] = u /\ \A k \in 1..(n - 1) : execution_order'[k] = execution_order[k]
      /\ Taken' = Taken \union {u}
  BY <1>1, Grown DEF Turn
<1> HIDE DEF n
<1>3. u \notin Taken /\ Awaits(u) = {} /\ ready[u] = 1
  BY <1>1 DEF DueQueued, Turn
<1>4. \A e : DepAt(e)' = DepAt(e)
  BY DEF DepAt
<1>5. \A v : Awaits(v)' = Awaits(v) \ NeedsOf(source.tasks, v, u) /\ NeedsOf(source.tasks, v, u) \subseteq Awaits(v)
  BY <1>1, <1>2, <1>3, <1>4 DEF Awaits, NeedsOf, DepAt
<1>6. \A v \in Ids : in_degree'[v] = Cardinality(Awaits(v)')
  <2> SUFFICES ASSUME NEW v \in Ids PROVE in_degree'[v] = Cardinality(Awaits(v)')
    OBVIOUS
  <2>1. Awaits(v) \intersect NeedsOf(source.tasks, v, u) = NeedsOf(source.tasks, v, u)
    BY <1>5
  <2>2. in_degree[v] = Cardinality(Awaits(v)) /\ in_degree'[v] = in_degree[v] - Cardinality(NeedsOf(source.tasks, v, u))
    BY DEF EntriesCounted, Turn
  <2>3. Cardinality(Awaits(v) \ NeedsOf(source.tasks, v, u)) = Cardinality(Awaits(v)) - Cardinality(NeedsOf(source.tasks, v, u))
    BY <2>1, AwaitsFinite
  <2> QED BY <1>5, <2>2, <2>3
<1>7. EntriesCounted'
  BY <1>1, <1>6 DEF EntriesCounted
<1>8. DueQueued'
  <2> SUFFICES ASSUME NEW v \in Ids PROVE ready'[v] = IF v \notin Taken' /\ Awaits(v)' = {} THEN 1 ELSE 0
    BY <1>1 DEF DueQueued
  <2>1. /\ in_degree[v] = Cardinality(Awaits(v)) /\ in_degree[v] \in Nat
        /\ (in_degree[v] = 0 <=> Awaits(v) = {})
    BY AwaitsFinite DEF EntriesCounted
  <2>2. in_degree'[v] \in Nat /\ (in_degree'[v] = 0 <=> Awaits(v)' = {})
    <3>1. Awaits(v) \ NeedsOf(source.tasks, v, u) \subseteq Awaits(v) /\ IsFiniteSet(Awaits(v))
      BY AwaitsFinite
    <3>2. IsFiniteSet(Awaits(v)')
      BY <1>5, <3>1, FS_Subset
    <3> QED BY <1>6, <3>2, FS_CardinalityType, FS_EmptySet
  <2>3. ready[v] = (IF v \notin Taken /\ Awaits(v) = {} THEN 1 ELSE 0)
        /\ ready'[v] = (IF v = u THEN ready[v] - 1 ELSE ready[v]) + (IF in_degree[v] > 0 /\ in_degree'[v] <= 0 THEN 1 ELSE 0)
    BY DEF DueQueued, Turn
  <2>4. Awaits(v) = {} => Awaits(v)' = {}
    BY <1>5
  <2>5. v \in Taken => Awaits(v) = {}
    <3> SUFFICES ASSUME NEW k \in DOMAIN execution_order, execution_order[k] = v, NEW e \in Needs(source.tasks, v) PROVE DepAt(e) \in Taken
      BY DEF Taken, Awaits
    <3>1. PICK m \in 1..(k - 1) : execution_order[m] = DepAt(e)
      BY DEF DepsFirst
    <3>2. m \in DOMAIN execution_order
      BY <1>2
    <3> QED BY <3>1, <3>2 DEF Taken
  <2>6. CASE v = u
    BY <1>2, <1>3, <2>1, <2>3, <2>6
  <2>7. CASE v # u
    BY <1>2, <2>1, <2>2, <2>3, <2>4, <2>5, <2>7
  <2> QED BY <2>6, <2>7
<1>9. DepsFirst'
  <2>1. \A k, m \in 1..n : execution_order'[k] = execution_order'[m] => k = m
    <3>1. \A k \in 1..(n - 1) : execution_order'[k] # u
      BY <1>2, <1>3 DEF Taken
    <3> QED BY <1>2, <3>1 DEF DepsFirst
  <2>2. ASSUME NEW k \in 1..n, NEW e \in Needs(source.tasks, execution_order'[k])
        PROVE \E m \in 1..(k - 1) : execution_order'[m] = DepAt(e)
    <3>1. CASE k = n
      <4>1. DepAt(e) \in Taken
        BY <1>2, <1>3, <2>2, <3>1 DEF Awaits
      <4> QED BY <1>2, <3>1, <4>1 DEF Taken
    <3>2. CASE k # n
      <4>1. k \in 1..(n - 1) /\ execution_order'[k] = execution_order[k]
        BY <1>2, <3>2
      <4>2. PICK m \in 1..(k - 1) : execution_order[m] = DepAt(e)
        BY <1>2, <2>2, <4>1 DEF DepsFirst
      <4>3. m \in 1..(n - 1)
        BY <1>2, <4>1
      <4> QED BY <1>2, <4>2, <4>3
    <3> QED BY <3>1, <3>2
  <2> QED BY <1>1, <1>2, <1>4, <2>1, <2>2 DEF DepsFirst
<1>10. InTurn'
  <2> SUFFICES ASSUME NEW k \in 1..n, NEW v \in Ids, Index(v) < Index(execution_order'[k]), \A p \in 1..k : execution_order'[p] # v
               PROVE  \E e \in Needs(source.tasks, v) : \A p \in 1..(k - 1) : execution_order'[p] # DepAt(e)
    BY <1>1, <1>2, <1>4 DEF InTurn
  <2>1. \A p \in 1..(k - 1) : p \in 1..(n - 1) /\ execution_order'[p] = execution_order[p]
    BY <1>2
  <2>2. CASE k = n
    <3>1. v # u /\ v \notin Taken
      BY <1>2, <2>2 DEF Taken
    <3>2. Index(v) < Index(u)
      BY <1>2, <2>2
    <3>3. ready[v] = 0
      <4>1. v \in Ids /\ ready[v] \in Nat /\ (ready[v] > 0 => Index(u) <= Index(v))
        BY DEF Turn, PlannerTypes
      <4>2. Index(u) \in Nat /\ Index(v) \in Nat
        <5>1. PICK i, j \in DOMAIN source.tasks : u = source.tasks[i].id /\ v = source.tasks[j].id
          BY <1>1, TextOf
        <5> QED BY <5>1, OnePlace, TextOf
      <4> QED BY <3>2, <4>1, <4>2
    <3>4. Awaits(v) # {}
      BY <3>1, <3>3 DEF DueQueued
    <3> QED BY <1>2, <2>1, <2>2, <3>4 DEF Awaits, Taken
  <2>3. CASE k # n
    <3>1. k \in 1..(n - 1) /\ execution_order'[k] = execution_order[k] /\ \A p \in 1..k : p \in 1..(n - 1)
      BY <1>2, <2>3
    <3>2. \A p \in 1..k : execution_order[p] # v
      BY <1>2, <3>1
    <3>3. PICK e \in Needs(source.tasks, v) : \A p \in 1..(k - 1) : execution_order[p] # DepAt(e)
      BY <1>2, <3>1, <3>2 DEF InTurn
    <3> QED BY <2>1, <3>3
  <2> QED BY <2>2, <2>3
<1> QED BY <1>7, <1>8, <1>9, <1>10

\* A turn keeps the invariant, whatever the ids.
LEMMA TakeKeeps == ASSUME ParserInv, Take PROVE ParserInv'
<1>1. source' = source /\ doing' = doing /\ parsed' = parsed /\ doing = "ordering" /\ source \in Sources
  BY DEF Take, ParserInv
<1>2. PICK u : Turn(u)
  BY DEF Take, Turn, Earlier
<1>3. SpecValid(source) /\ PlannerTypes /\ Ordering
  BY <1>1 DEF ParserInv, Planning
<1>4. PlannerTypes'
  <2>1. Ids' = Ids /\ u \in Ids
    BY <1>1, <1>2 DEF Ids, Turn
  <2>2. \A v \in Ids : in_degree'[v] \in Int
    <3>1. \A v \in Ids : Cardinality(NeedsOf(source.tasks, v, u)) \in Nat /\ in_degree[v] \in Int
      BY <1>1, <1>3, AwaitsFinite DEF PlannerTypes
    <3> QED BY <1>2, <3>1 DEF Turn
  <2>3. \A v \in Ids : ready'[v] \in Nat
    <3> SUFFICES ASSUME NEW v \in Ids PROVE ready'[v] \in Nat
      OBVIOUS
    <3>1. ready[v] \in Nat /\ (v = u => ready[v] > 0)
      BY <1>2, <1>3 DEF Turn, PlannerTypes
    <3> QED BY <1>2, <3>1 DEF Turn
  <2>4. execution_order' \in Seq(Ids)
    BY <1>2, <1>3, <2>1 DEF Turn, PlannerTypes
  <2> QED BY <1>2, <2>1, <2>2, <2>3, <2>4 DEF PlannerTypes, Turn
<1>5. Ordering'
  BY <1>1, <1>2, <1>3, TurnKeeps DEF Ordering
<1> QED
  BY <1>1, <1>3, <1>4, <1>5 DEF ParserInv, Planning

\* The invariant holds throughout.
LEMMA ParserInvariant == ParserSpec => []ParserInv
<1>1. ParserInit => ParserInv
  BY DEF ParserInit, ParserRests, ParserInv, Planning
<1>2. ParserInv /\ [ParserNext]_parserVars => ParserInv'
  <2> SUFFICES ASSUME ParserInv, [ParserNext]_parserVars PROVE ParserInv'
    OBVIOUS
  <2>1. CASE Parse
    BY <2>1, ParseOrders
  <2>2. CASE Take
    BY <2>2, TakeKeeps
  <2>3. CASE Map
    <3>1. UNCHANGED <<source, in_degree, ready, execution_order>> /\ doing = "ordering"
      BY <2>3 DEF Map
    <3>2. (SpecValid(source) /\ PlannerTypes /\ Ordering)' = (SpecValid(source) /\ PlannerTypes /\ Ordering)
      BY <3>1 DEF PlannerTypes, Ordering, EntriesCounted, DueQueued, DepsFirst, InTurn, Awaits, Taken, DepAt, Ids, Index
    <3>3. Ids' = Ids /\ \A id : TaskMap(id)' = TaskMap(id)
      BY <3>1 DEF Ids, TaskMap
    <3> QED
      BY <2>3, <3>1, <3>2, <3>3 DEF Map, ParserInv, Planning
  <2>4. CASE ParseLegacy
    BY <2>4 DEF ParseLegacy, ParserInv, Planning
  <2>5. CASE UNCHANGED parserVars
    <3>1. (SpecValid(source) /\ PlannerTypes /\ Ordering)' = (SpecValid(source) /\ PlannerTypes /\ Ordering)
      BY <2>5 DEF parserVars, PlannerTypes, Ordering, EntriesCounted, DueQueued, DepsFirst, InTurn, Awaits, Taken, DepAt, Ids, Index
    <3>2. Ids' = Ids /\ \A id : TaskMap(id)' = TaskMap(id)
      BY <2>5 DEF Ids, TaskMap, parserVars
    <3> QED BY <2>5, <3>1, <3>2 DEF parserVars, ParserInv, Planning
  <2> QED BY <2>1, <2>2, <2>3, <2>4, <2>5 DEF ParserNext
<1> QED
  BY <1>1, <1>2, PTL DEF ParserSpec

\* The variables of the parser have their types, whatever the texts.
THEOREM ParserTypeCorrect == ParserSpec => []ParserTypeOK
<1>1. ParserInv => ParserTypeOK
  BY DEF ParserInv, ParserTypeOK, Planning, PlannerTypes
<1> QED
  BY <1>1, ParserInvariant, PTL

\* What of a task is handed on.
LEMMA TaskHandedOn ==
    ASSUME ParserInv, Distinct(source.tasks), Planning, NEW n \in DOMAIN execution_order
    PROVE  \E i \in DOMAIN source.tasks :
             /\ execution_order[n] = source.tasks[i].id /\ TaskMap(execution_order[n]) = source.tasks[i]
             /\ \A e : e \in Needs(source.tasks, execution_order[n]) <=> e \in {i} \X DOMAIN source.tasks[i].deps
<1>1. source \in Sources /\ execution_order[n] \in Ids
  BY DEF ParserInv, PlannerTypes
<1>2. PICK i \in DOMAIN source.tasks : execution_order[n] = source.tasks[i].id
  BY <1>1, TextOf
<1> QED BY <1>1, <1>2, OnePlace

\* A spec in YAML with distinct ids is run as it reads (PlanFollowsSpec, a part of PartsSound), whatever it is.
THEOREM PlansFollowSpecs == ParserSpec => []PlanFollowsSpec
<1>1. ASSUME ParserInv PROVE PlanFollowsSpec
  <2> SUFFICES ASSUME doing = "parsed", IsDsl(source), Distinct(source.tasks)
               PROVE  /\ DOMAIN parsed = DOMAIN source.tasks
                      /\ \A n \in DOMAIN parsed : \E i \in DOMAIN source.tasks : parsed[n] = ToTask(source.tasks[i])
                      /\ \A n, m \in DOMAIN parsed : parsed[n].id = parsed[m].id => n = m
                      /\ \A n \in DOMAIN parsed : \A k \in DOMAIN parsed[n].deps : \E m \in 1..(n - 1) : parsed[m].id = parsed[n].deps[k]
                      /\ \A n, m \in DOMAIN parsed :
                           n < m /\ Index(parsed[m].id) < Index(parsed[n].id) =>
                             \E k \in DOMAIN parsed[m].deps : \A p \in 1..(n - 1) : parsed[p].id # parsed[m].deps[k]
    BY DEF PlanFollowsSpec
  <2>1. /\ Len(execution_order) = Len(source.tasks) /\ Planning
        /\ parsed = [n \in DOMAIN execution_order |-> ToTask(TaskMap(execution_order[n]))]
        /\ PlannerTypes /\ DepsFirst /\ InTurn /\ source \in Sources
    BY <1>1 DEF ParserInv, Planning, Ordering
  <2>2. DOMAIN execution_order = 1..Len(execution_order) /\ Len(execution_order) \in Nat /\ DOMAIN source.tasks = 1..Len(execution_order)
    BY <2>1, TextOf DEF PlannerTypes
  <2>3. ASSUME NEW n \in DOMAIN parsed
        PROVE  \E i \in DOMAIN source.tasks : /\ parsed[n] = ToTask(source.tasks[i]) /\ parsed[n].id = execution_order[n] /\ parsed[n].deps = source.tasks[i].deps
                 /\ \A e : e \in Needs(source.tasks, execution_order[n]) <=> e \in {i} \X DOMAIN source.tasks[i].deps
    <3>1. PICK i \in DOMAIN source.tasks : /\ execution_order[n] = source.tasks[i].id /\ TaskMap(execution_order[n]) = source.tasks[i]
                 /\ \A e : e \in Needs(source.tasks, execution_order[n]) <=> e \in {i} \X DOMAIN source.tasks[i].deps
      BY <1>1, <2>1, TaskHandedOn
    <3>2. parsed[n] = ToTask(source.tasks[i])
      BY <2>1, <3>1
    <3> QED BY <3>1, <3>2 DEF ToTask
  <2>4. DOMAIN parsed = DOMAIN source.tasks /\ DOMAIN parsed = DOMAIN execution_order
    BY <2>1, <2>2
  <2>5. \A n \in DOMAIN parsed : parsed[n].id = execution_order[n]
    BY <2>3
  <2>6. \A n, m \in DOMAIN parsed : parsed[n].id = parsed[m].id => n = m
    BY <2>1, <2>4, <2>5 DEF DepsFirst
  <2>7. ASSUME NEW n \in DOMAIN parsed, NEW k \in DOMAIN parsed[n].deps
        PROVE  \E m \in 1..(n - 1) : parsed[m].id = parsed[n].deps[k]
    <3>1. PICK i \in DOMAIN source.tasks : /\ parsed[n].deps = source.tasks[i].deps /\ <<i, k>> \in Needs(source.tasks, execution_order[n])
      BY <2>3
    <3>2. PICK m \in 1..(n - 1) : execution_order[m] = DepAt(<<i, k>>)
      BY <2>1, <2>4, <3>1 DEF DepsFirst
    <3>3. m \in DOMAIN parsed /\ DepAt(<<i, k>>) = parsed[n].deps[k]
      BY <2>2, <2>4, <3>1 DEF DepAt
    <3> QED BY <2>5, <3>2, <3>3
  <2>8. ASSUME NEW n \in DOMAIN parsed, NEW m \in DOMAIN parsed, n < m, Index(parsed[m].id) < Index(parsed[n].id)
        PROVE  \E k \in DOMAIN parsed[m].deps : \A p \in 1..(n - 1) : parsed[p].id # parsed[m].deps[k]
    <3>1. execution_order[m] \in Ids /\ \A p \in 1..n : execution_order[p] # execution_order[m]
      <4>1. \A p \in 1..n : p \in DOMAIN execution_order /\ p # m
        BY <2>2, <2>4, <2>8
      <4> QED BY <2>1, <2>4, <4>1 DEF PlannerTypes, DepsFirst
    <3>2. PICK e \in Needs(source.tasks, execution_order[m]) : \A p \in 1..(n - 1) : execution_order[p] # DepAt(e)
      BY <2>1, <2>4, <2>5, <2>8, <3>1 DEF InTurn
    <3>3. PICK i \in DOMAIN source.tasks : /\ parsed[m].deps = source.tasks[i].deps /\ e \in {i} \X DOMAIN source.tasks[i].deps
      BY <2>3, <3>2
    <3>4. e[2] \in DOMAIN parsed[m].deps /\ DepAt(e) = parsed[m].deps[e[2]]
      BY <3>3 DEF DepAt
    <3>5. \A p \in 1..(n - 1) : p \in DOMAIN parsed
      BY <2>2, <2>4
    <3> QED BY <2>5, <3>2, <3>4, <3>5
  <2> QED BY <2>3, <2>4, <2>6, <2>7, <2>8
<1> QED
  BY <1>1, ParserInvariant, PTL

\* A cycle the planner reports is one (CycleIsReal, a part of PartsSound): the tasks it could not take wait for each other.
THEOREM CyclesAreReal == ParserSpec => []CycleIsReal
<1>1. ASSUME ParserInv PROVE CycleIsReal
  <2> SUFFICES ASSUME doing = "cycle", Distinct(source.tasks)
               PROVE  \E S \in SUBSET DOMAIN source.tasks :
                        S # {} /\ \A i \in S : \E k \in DOMAIN source.tasks[i].deps, j \in S : source.tasks[j].id = source.tasks[i].deps[k]
    BY DEF CycleIsReal
  <2> DEFINE S == {i \in DOMAIN source.tasks : source.tasks[i].id \notin Taken}
  <2>1. /\ (\A id \in Ids : ready[id] = 0) /\ Len(execution_order) # Len(source.tasks)
        /\ PlannerTypes /\ DueQueued /\ DepsFirst /\ SpecValid(source) /\ source \in Sources
    BY <1>1 DEF ParserInv, Planning, Ordering
  <2>2. S # {}
    <3> SUFFICES ASSUME \A i \in DOMAIN source.tasks : source.tasks[i].id \in Taken PROVE FALSE
      OBVIOUS
    <3>1. DOMAIN execution_order = 1..Len(execution_order) /\ Len(execution_order) \in Nat
          /\ DOMAIN source.tasks = 1..Len(source.tasks) /\ Len(source.tasks) \in Nat
      BY <2>1, TextOf DEF PlannerTypes
    <3>2. execution_order \in Bijection(1..Len(execution_order), Ids)
      <4>1. \A v \in Ids : \E n \in DOMAIN execution_order : execution_order[n] = v
        BY <2>1, TextOf DEF Taken
      <4>2. execution_order \in [1..Len(execution_order) -> Ids]
        BY <2>1 DEF PlannerTypes
      <4>3. execution_order \in Injection(1..Len(execution_order), Ids)
        BY <2>1, <3>1, <4>2 DEF DepsFirst, Injection, IsInjective
      <4>4. execution_order \in Surjection(1..Len(execution_order), Ids)
        BY <3>1, <4>1, <4>2 DEF Surjection
      <4> QED BY <4>3, <4>4 DEF Bijection
    <3> DEFINE name == [i \in 1..Len(source.tasks) |-> source.tasks[i].id]
    <3>3. name \in Bijection(1..Len(source.tasks), Ids)
      <4>1. name \in [1..Len(source.tasks) -> Ids] /\ \A v \in Ids : \E i \in 1..Len(source.tasks) : name[i] = v
        BY <2>1, <3>1, TextOf
      <4>2. \A i, j \in 1..Len(source.tasks) : name[i] = name[j] => i = j
        BY <3>1 DEF Distinct
      <4> HIDE DEF name
      <4> QED BY <4>1, <4>2 DEF Bijection, Injection, IsInjective, Surjection
    <3>4. IsFiniteSet(1..Len(source.tasks)) /\ Cardinality(1..Len(source.tasks)) = Len(source.tasks)
          /\ IsFiniteSet(1..Len(execution_order)) /\ Cardinality(1..Len(execution_order)) = Len(execution_order)
      <4>1. \A k \in Nat : IsFiniteSet(1..k) /\ Cardinality(1..k) = k
        <5> SUFFICES ASSUME NEW k \in Nat PROVE IsFiniteSet(1..k) /\ Cardinality(1..k) = k
          OBVIOUS
        <5>1. IsFiniteSet(1..k) /\ Cardinality(1..k) = IF 1 > k THEN 0 ELSE k - 1 + 1
          BY FS_Interval
        <5> QED BY <5>1
      <4> QED BY <3>1, <4>1
    <3>5. Cardinality(Ids) = Len(execution_order) /\ Cardinality(Ids) = Len(source.tasks)
      BY <3>2, <3>3, <3>4, FS_Bijection DEF ExistsBijection
    <3> QED BY <2>1, <3>5
  <2>3. ASSUME NEW i \in S PROVE \E k \in DOMAIN source.tasks[i].deps, j \in S : source.tasks[j].id = source.tasks[i].deps[k]
    <3>1. source.tasks[i].id \in Ids /\ source.tasks[i].id \notin Taken
      BY <2>1, TextOf
    <3>2. PICK e \in Needs(source.tasks, source.tasks[i].id) : DepAt(e) \notin Taken
      BY <2>1, <3>1 DEF DueQueued, Awaits
    <3>3. e \in {i} \X DOMAIN source.tasks[i].deps
      BY <2>1, <3>2, OnePlace
    <3>4. e[2] \in DOMAIN source.tasks[i].deps /\ DepAt(e) = source.tasks[i].deps[e[2]]
      BY <3>3 DEF DepAt
    <3>5. source.tasks[i].deps[e[2]] \in IdsOf(source.tasks)
      BY <2>1, <3>4 DEF SpecValid
    <3>6. PICK j \in DOMAIN source.tasks : source.tasks[j].id = source.tasks[i].deps[e[2]]
      BY <3>5 DEF IdsOf
    <3> QED BY <3>2, <3>4, <3>6
  <2> HIDE DEF S
  <2>4. S \in SUBSET DOMAIN source.tasks
    BY DEF S
  <2> QED BY <2>2, <2>3, <2>4
<1> QED
  BY <1>1, ParserInvariant, PTL

-----------------------------------------------------------------------------
(* The questions before a draft: any requests, any order of the answers.   *)

CONSTANTS Requests
VARIABLES request, skeleton, issues, questions, answers, session_status

Clarify == INSTANCE Clarification WITH status <- session_status
ClarifySpec == Clarify!Init /\ [][Clarify!Next]_(Clarify!vars)

Intents == [id : STRING, type : STRING, has : SUBSET {"framework", "persistence", "target", "deferred"}, hint : BOOLEAN]
Open == Clarify!Blocking(issues)

\* The request answers x: what was missing is there, or the user put the target off.
Answered(x) == x.what \in request[x.at].has \/ (x.what = "target" /\ "deferred" \in request[x.at].has)

SessionTypes ==
  /\ request \in Seq(Intents)
  /\ session_status \in {"none", "awaiting", "partly", "resolved"}
  /\ skeleton = Clarify!Skeleton(request)
  /\ questions = Clarify!Asked(Open) /\ answers \subseteq questions

\* An issue that blocks is about an intent of the request, and what still blocks was found at the start.
IssuesPlaced ==
  /\ \A x \in Open : /\ x.at \in DOMAIN request /\ request[x.at].id = x.intent
                      /\ x.what \in {"framework", "persistence", "target"}
  /\ Clarify!Detected(request, FALSE) \subseteq issues

\* Where ids tell intents apart, every issue of an answered question is settled.
AnswersHeard == Clarify!UniqueIds => \A q \in answers : \A x \in q : Answered(x)

SessionInv ==
  /\ SessionTypes /\ IssuesPlaced /\ AnswersHeard
  /\ session_status = "resolved" => answers = questions

-----------------------------------------------------------------------------
\* The same, in the instance as here.
LEMMA ClarifyCardinality == ASSUME NEW S PROVE Clarify!Cardinality(S) = Cardinality(S)
BY DEF Clarify!Cardinality, Cardinality

\* Every issue is asked about in exactly one question, and questions ask about nothing else.
LEMMA AskedOnce ==
    ASSUME NEW iss
    PROVE  /\ \A q \in Clarify!Asked(iss) : q \subseteq iss
           /\ \A x \in iss : \E q \in Clarify!Asked(iss) : x \in q /\ \A p \in Clarify!Asked(iss) : x \in p => p = q
<1> DEFINE Earliest(id, what) == Clarify!FirstOf({x \in iss : x.intent = id /\ x.what = what})
           Stack(id) == Earliest(id, "framework") \union Earliest(id, "persistence")
           Grouped(x) == x \in Stack(x.intent) /\ Clarify!Cardinality(Stack(x.intent)) = 2
           Group(x) == IF Grouped(x) THEN Stack(x.intent) ELSE {x}
<1>1. Clarify!Asked(iss) = {Group(x) : x \in iss}
  BY DEF Clarify!Asked
<1>2. \A id : \A y \in Stack(id) : y \in iss /\ y.intent = id
  BY DEF Clarify!FirstOf
<1> HIDE DEF Stack, Earliest
<1>3. \A x \in iss : Group(x) \subseteq iss /\ x \in Group(x)
  BY <1>2
<1>4. \A x, y \in iss : x \in Group(y) => Group(y) = Group(x)
  BY <1>2
<1> HIDE DEF Group
<1> QED BY <1>1, <1>3, <1>4

\* What the intents of a request leave open, and what detect_issues makes of it: that, and perhaps that there are many.
MissingOf(r, i) == {Clarify!Issue(what, r[i].id, i) : what \in Clarify!Needs(r[i].type) \ r[i].has}
MissingIn(r) == UNION {MissingOf(r, i) : i \in DOMAIN r}

LEMMA MissingIs ==
    ASSUME NEW r, NEW x \in MissingIn(r)
    PROVE  /\ x.at \in DOMAIN r /\ r[x.at].id = x.intent /\ x.what \in Clarify!Needs(r[x.at].type) \ r[x.at].has
           /\ x.what \in {"framework", "persistence", "target"} /\ x = Clarify!Issue(x.what, r[x.at].id, x.at)
<1>1. PICK i \in DOMAIN r : x \in MissingOf(r, i)
  BY DEF MissingIn
<1>2. PICK what \in Clarify!Needs(r[i].type) \ r[i].has : x = Clarify!Issue(what, r[i].id, i)
  BY <1>1 DEF MissingOf
<1>3. x.what = what /\ x.intent = r[i].id /\ x.at = i
  BY <1>2 DEF Clarify!Issue
<1>4. \A type : Clarify!Needs(type) \subseteq {"framework", "persistence", "target"}
  BY DEF Clarify!Needs
<1> QED BY <1>2, <1>3, <1>4

LEMMA DetectedIs ==
    ASSUME NEW r, NEW many \in BOOLEAN
    PROVE  /\ Clarify!Blocking(Clarify!Detected(r, many)) = MissingIn(r)
           /\ Clarify!Detected(r, FALSE) = MissingIn(r)
           /\ MissingIn(r) \subseteq Clarify!Detected(r, many)
<1> DEFINE B == {x \in {Clarify!Issue("broad", "", 0)} : many}
           Nothing == {x \in {Clarify!Issue("broad", "", 0)} : FALSE}
<1>1. Clarify!Detected(r, many) = B \union MissingIn(r) /\ Clarify!Detected(r, FALSE) = Nothing \union MissingIn(r)
  BY DEF Clarify!Detected, MissingIn, MissingOf
<1>2. Clarify!Issue("broad", "", 0).what = "broad"
  BY DEF Clarify!Issue
<1>3. (\A x \in B : x.what = "broad") /\ Nothing = {}
  BY <1>2
<1>4. \A x \in MissingIn(r) : x.what # "broad"
  BY MissingIs
<1> HIDE DEF B, Nothing
<1> QED BY <1>1, <1>3, <1>4 DEF Clarify!Blocking

LEMMA SessionInit == ASSUME Clarify!Init PROVE SessionInv
<1> USE DEF Clarify!Init
<1>1. Open = {} /\ Clarify!Asked({}) = {}
  BY DEF Open, Clarify!Blocking, Clarify!Asked
<1>2. Clarify!Detected(request, FALSE) = {}
  <2>1. MissingIn(request) = {}
    BY DEF MissingIn
  <2> QED BY <2>1, DetectedIs
<1>3. request \in Seq(Intents)
  OBVIOUS
<1> QED BY <1>1, <1>2, <1>3 DEF SessionInv, SessionTypes, IssuesPlaced, AnswersHeard

LEMMA DecomposeKeeps == ASSUME Clarify!RequestConstants, SessionInv, Clarify!Decompose PROVE SessionInv'
<1>1. PICK r \in Requests \union {<<>>} :
        /\ request' = r /\ skeleton' = Clarify!Skeleton(r)
        /\ issues' = Clarify!Detected(r, Clarify!Skeleton(r).broad)
  BY DEF Clarify!Decompose
<1>2. r \in Seq(Intents)
  <2>1. <<>> \in Seq(Intents)
    OBVIOUS
  <2> QED BY <2>1 DEF Clarify!RequestConstants, Intents
<1>3. /\ questions' = Clarify!Asked(Clarify!Blocking(issues')) /\ answers' = {}
      /\ session_status' = IF questions' = {} THEN "resolved" ELSE "awaiting"
  BY DEF Clarify!Decompose
<1>4. Clarify!Skeleton(r).broad \in BOOLEAN
  <2>1. Len(r) \in Nat
    BY <1>2
  <2> QED BY <2>1 DEF Clarify!Skeleton
<1>5. SessionTypes'
  BY <1>1, <1>2, <1>3 DEF SessionTypes, Open
<1>6. IssuesPlaced'
  <2>1. Clarify!Blocking(issues') = MissingIn(r) /\ Clarify!Detected(r, FALSE) = MissingIn(r) /\ MissingIn(r) \subseteq issues'
    BY <1>1, <1>4, DetectedIs
  <2> QED BY <1>1, <2>1, MissingIs DEF IssuesPlaced, Open
<1> QED BY <1>3, <1>5, <1>6 DEF SessionInv, AnswersHeard

\* With ids of their own, the intent an answer is written into is the one the issue is about.
LEMMA HolderIs ==
    ASSUME request \in Seq(Intents), Clarify!UniqueIds, NEW i \in DOMAIN request
    PROVE  Clarify!Holder(request[i].id) = i
<1>1. request[i].id = request[i].id /\ \A j \in 1..(i - 1) : request[j].id # request[i].id
  <2>1. DOMAIN request = 1..Len(request) /\ Len(request) \in Nat
    OBVIOUS
  <2>2. \A j \in 1..(i - 1) : j \in DOMAIN request /\ j # i
    BY <2>1
  <2> QED BY <2>2 DEF Clarify!UniqueIds
<1>2. \A k \in DOMAIN request : request[k].id = request[i].id => k = i
  BY DEF Clarify!UniqueIds
<1> QED BY <1>1, <1>2 DEF Clarify!Holder

LEMMA AnswerKeeps == ASSUME Clarify!RequestConstants, SessionInv, Clarify!Answer PROVE SessionInv'
<1>1. PICK q \in questions \ answers, word \in {"choice", "defer"} : request' = Clarify!Applied(q, word) /\ answers' = answers \union {q}
  BY DEF Clarify!Answer
<1>2. /\ skeleton' = Clarify!Skeleton(request') /\ UNCHANGED <<issues, questions>>
      /\ session_status' = IF answers' = questions' THEN "resolved" ELSE "partly"
  BY DEF Clarify!Answer
<1>3. request \in Seq(Intents) /\ Len(request) \in Nat /\ DOMAIN request = 1..Len(request)
  BY DEF SessionInv, SessionTypes
<1> DEFINE got(i) == UNION {Clarify!Gains(x, word) : x \in {y \in q : Clarify!Holder(y.intent) = i}}
<1>4. request' = [i \in DOMAIN request |-> [request[i] EXCEPT !.has = @ \union got(i)]]
  BY <1>1 DEF Clarify!Applied
<1>5. q \subseteq Open
  BY AskedOnce DEF SessionInv, SessionTypes
<1>6. \A x \in q : x.what \in {"framework", "persistence", "target"} /\ x.at \in DOMAIN request /\ request[x.at].id = x.intent
  BY <1>5 DEF SessionInv, IssuesPlaced
<1>7. \A i : got(i) \subseteq {"framework", "persistence", "target", "deferred"}
  <2> SUFFICES ASSUME NEW x \in q PROVE Clarify!Gains(x, word) \subseteq {"framework", "persistence", "target", "deferred"}
    OBVIOUS
  <2>1. Clarify!Gains(x, word) = IF x.what = "target" /\ word = "defer" THEN {"deferred"} ELSE {x.what}
    BY DEF Clarify!Gains
  <2> QED BY <1>6, <2>1
<1> HIDE DEF got
<1>8. /\ request' \in Seq(Intents) /\ DOMAIN request' = DOMAIN request
      /\ \A i \in DOMAIN request : /\ request'[i].id = request[i].id /\ request'[i].type = request[i].type
                                   /\ request'[i].has = request[i].has \union got(i)
  <2>1. \A i \in DOMAIN request : request[i] \in Intents
    BY <1>3
  <2>2. ASSUME NEW i \in DOMAIN request
        PROVE  LET new == [request[i] EXCEPT !.has = @ \union got(i)] IN
               new \in Intents /\ new.id = request[i].id /\ new.type = request[i].type /\ new.has = request[i].has \union got(i)
    BY <1>7, <2>1 DEF Intents
  <2>3. DOMAIN request' = 1..Len(request) /\ \A i \in 1..Len(request) : request'[i] = [request[i] EXCEPT !.has = @ \union got(i)]
    BY <1>3, <1>4
  <2>4. request' = [i \in 1..Len(request) |-> request'[i]]
    BY <1>3, <1>4, <2>3
  <2>5. request' \in Seq(Intents)
    <3>1. request' \in [1..Len(request) -> Intents]
      <4>1. \A i \in 1..Len(request) : request'[i] \in Intents
        BY <1>3, <2>2, <2>3
      <4> HIDE DEF Intents
      <4> QED BY <2>4, <4>1
    <3> QED BY <1>3, <3>1, SeqDef
  <2> QED BY <1>3, <2>2, <2>3, <2>5
<1>9. SessionTypes'
  BY <1>1, <1>2, <1>8 DEF SessionInv, SessionTypes, Open
<1>10. IssuesPlaced'
  <2>1. \A x \in Clarify!Blocking(issues') : /\ x.at \in DOMAIN request' /\ request'[x.at].id = x.intent
                                             /\ x.what \in {"framework", "persistence", "target"}
    BY <1>2, <1>8 DEF SessionInv, IssuesPlaced, Open
  <2>2. MissingIn(request') \subseteq MissingIn(request)
    <3>1. ASSUME NEW i \in DOMAIN request PROVE MissingOf(request', i) \subseteq MissingOf(request, i)
      BY <1>8 DEF MissingOf
    <3> QED BY <1>8, <3>1 DEF MissingIn
  <2>3. Clarify!Detected(request', FALSE) \subseteq issues'
    BY <1>2, <2>2, DetectedIs DEF SessionInv, IssuesPlaced
  <2> QED BY <2>1, <2>3 DEF IssuesPlaced, Open
<1>11. AnswersHeard'
  <2> SUFFICES ASSUME Clarify!UniqueIds', NEW p \in answers', NEW x \in p
               PROVE  x.what \in request'[x.at].has \/ (x.what = "target" /\ "deferred" \in request'[x.at].has)
    BY DEF AnswersHeard, Answered
  <2>1. Clarify!UniqueIds
    BY <1>8 DEF Clarify!UniqueIds
  <2>2. p \subseteq Open /\ x.at \in DOMAIN request /\ request[x.at].id = x.intent
    <3>1. p \in questions
      BY <1>1 DEF SessionInv, SessionTypes
    <3> QED BY <3>1, AskedOnce DEF SessionInv, SessionTypes, IssuesPlaced
  <2>3. CASE p \in answers
    BY <1>8, <2>1, <2>2, <2>3 DEF SessionInv, AnswersHeard, Answered
  <2>4. CASE p = q
    <3>1. Clarify!Holder(x.intent) = x.at
      BY <1>3, <2>1, <2>2, HolderIs
    <3>2. Clarify!Gains(x, word) \subseteq got(x.at)
      BY <2>4, <3>1 DEF got
    <3>3. Clarify!Gains(x, word) = IF x.what = "target" /\ word = "defer" THEN {"deferred"} ELSE {x.what}
      BY DEF Clarify!Gains
    <3> QED BY <1>8, <2>2, <3>2, <3>3
  <2> QED BY <1>1, <2>3, <2>4
<1>12. session_status' = "resolved" => answers' = questions'
  BY <1>2
<1> QED BY <1>9, <1>10, <1>11, <1>12 DEF SessionInv

LEMMA SessionStep == ASSUME Clarify!RequestConstants, SessionInv, [Clarify!Next]_(Clarify!vars) PROVE SessionInv'
<1>1. CASE UNCHANGED Clarify!vars
  BY <1>1 DEF Clarify!vars, SessionInv, SessionTypes, IssuesPlaced, AnswersHeard, Answered, Open, Clarify!UniqueIds
<1>2. CASE Clarify!Next
  BY <1>2, DecomposeKeeps, AnswerKeeps DEF Clarify!Next
<1> QED BY <1>1, <1>2

LEMMA SessionInvariant == ASSUME Clarify!RequestConstants PROVE ClarifySpec => []SessionInv
<1>1. Clarify!Init => SessionInv
  BY SessionInit
<1>2. Clarify!RequestConstants /\ SessionInv /\ [Clarify!Next]_(Clarify!vars) => SessionInv'
  BY SessionStep
<1> QED BY <1>1, <1>2, PTL DEF ClarifySpec

\* Clarification settles (planning/clarification_service.py): whatever the request and the order of the answers,
\* each blocking issue is asked about once, and once all are answered nothing blocks but targets the user put off.
THEOREM DoubtsAreSettled == ASSUME Clarify!RequestConstants PROVE ClarifySpec => []Clarify!ClarificationSettles
<1>1. ASSUME SessionInv, NEW x \in Open PROVE Clarify!Cardinality({q \in questions : x \in q}) = 1
  <2>1. PICK q \in questions : x \in q /\ \A p \in questions : x \in p => p = q
    BY <1>1, AskedOnce DEF SessionInv, SessionTypes
  <2>2. {p \in questions : x \in p} = {q}
    BY <2>1
  <2> QED BY <2>2, ClarifyCardinality, FS_Singleton
<1>2. ASSUME SessionInv, session_status = "resolved", Clarify!UniqueIds,
             NEW x \in Clarify!Blocking(Clarify!Detected(request, FALSE))
      PROVE  x.what = "target" /\ Clarify!Has(request[x.at], "deferred")
  <2>1. x \in MissingIn(request) /\ x \in issues /\ x.what # "broad"
    BY <1>2, DetectedIs DEF SessionInv, IssuesPlaced, Clarify!Blocking
  <2>2. PICK q \in questions : x \in q
    BY <1>2, <2>1, AskedOnce DEF SessionInv, SessionTypes, Open, Clarify!Blocking
  <2>3. Answered(x)
    BY <1>2, <2>2 DEF SessionInv, AnswersHeard
  <2>4. x.what \notin request[x.at].has
    BY <2>1, MissingIs
  <2> QED BY <2>3, <2>4 DEF Answered, Clarify!Has
<1>3. SessionInv => Clarify!ClarificationSettles
  BY <1>1, <1>2 DEF SessionInv, SessionTypes, Clarify!ClarificationSettles, Open
<1> QED BY <1>3, SessionInvariant, PTL

\* A session is in one of its states, and asks only about its own issues.
THEOREM SessionTypeCorrect == ASSUME Clarify!RequestConstants PROVE ClarifySpec => []Clarify!TypeOK
<1>1. ASSUME SessionInv PROVE Clarify!TypeOK
  BY <1>1, AskedOnce DEF SessionInv, SessionTypes, Open, Clarify!Blocking, Clarify!TypeOK
<1> QED BY <1>1, SessionInvariant, PTL

-----------------------------------------------------------------------------
(* The macro library: any recorded plans, any ids, any number of proposals *)
(* and of interrupted commands, any choice of the plans an analysis loads. *)

CONSTANTS SavedPlans, PlanWindow, MacroIds, MaxProposals, MaxInterrupts

VARIABLES saved, fragments, proposals, macros, contracts, active, todo, revised, halved

Library == INSTANCE MacroLibrary WITH Recorded <- SavedPlans, Window <- PlanWindow, Ids <- MacroIds
LibrarySpec == Library!Init /\ [][Library!Next]_(Library!vars)

\* The structures of the plans, and of these plans the first n that held one of them.
Seen == UNION {Library!Runs(SavedPlans[p]) : p \in DOMAIN SavedPlans}
Holding(m, n) == {p \in 1..n : [types |-> m.types, shape |-> m.shape] \in Library!Runs(SavedPlans[p])}
Founded(m) == Cardinality(Holding(m, saved)) >= 3

\* Deprecating id takes it out of library.json, at a write still to come.
Dropping(id) == \E k \in DOMAIN todo : todo[k].file = "library" /\ todo[k].id = id
VettedOr(id, m) == m.status = "verified" \/ Dropping(id)

Structures == {f.types : f \in Seen}
Shapes == {f.shape : f \in Seen}
MacroFiles == [types : Structures \union {<<>>}, shape : Shapes \union {<<>>}, status : {"none", "pending", "verified", "deprecated"}]
Writes == [file : {"macro", "contracts", "library", "proposals"}, id : MacroIds, macro : MacroFiles, at : Nat]

LibraryTypes ==
  /\ saved \in 0..Len(SavedPlans)
  /\ proposals \in Seq([types : Structures, shape : Shapes, id : MacroIds, status : {"proposed", "rejected", "adopted"}])
  /\ macros \in [MacroIds -> MacroFiles]
  /\ contracts \subseteq MacroIds /\ revised \subseteq MacroIds
  /\ active \in [Library!Names -> {id.version : id \in MacroIds} \union {"none"}]
  /\ todo \in Seq(Writes) /\ halved \in Seq(MacroIds)

\* A fragment's plans held it; so did enough plans of whatever got further than a rejected proposal.
FragmentsSeen == \A f \in fragments : f.plans \subseteq Holding(f, saved) /\ f.plans # {}
ProposalsFounded == \A i \in DOMAIN proposals : proposals[i].status # "rejected" => Founded(proposals[i])
MacrosFounded == \A id \in MacroIds : macros[id].status # "none" => Founded(macros[id])

\* What a command still has to write: all for one id, what it stores is founded, what it marks was not rejected.
TodoFounded ==
  \A k \in DOMAIN todo :
    /\ todo[k].id = todo[1].id
    /\ todo[k].file = "macro" => todo[k].macro.status # "none" /\ Founded(todo[k].macro)
    /\ todo[k].file = "proposals" => todo[k].at \in DOMAIN proposals /\ proposals[todo[k].at].status # "rejected"

\* An active macro whose history is clean is verified, on disk and in what is still to be written, or about to be dropped.
ActiveKept ==
  \A id \in MacroIds : active[id.name] = id.version =>
    /\ id \in contracts
    /\ Library!Settled(id) =>
         /\ VettedOr(id, macros[id])
         /\ \A k \in DOMAIN todo : todo[k].file = "macro" /\ todo[k].id = id => VettedOr(id, todo[k].macro)

LibraryInv ==
  LibraryTypes /\ FragmentsSeen /\ ProposalsFounded /\ MacrosFounded /\ TodoFounded /\ ActiveKept

-----------------------------------------------------------------------------
\* Cardinality is the same in the instance as here.
LEMMA SameCardinality == ASSUME NEW S PROVE Library!Cardinality(S) = Cardinality(S)
BY DEF Library!Cardinality, Cardinality

\* What was founded stays so when more plans are saved.
LEMMA FoundedGrows ==
    ASSUME NEW m, NEW n \in Nat, Cardinality(Holding(m, n)) >= 3
    PROVE  Cardinality(Holding(m, n + 1)) >= 3
<1>1. Holding(m, n) \subseteq Holding(m, n + 1) /\ Holding(m, n + 1) \subseteq 1..(n + 1)
  BY DEF Holding
<1>2. IsFiniteSet(1..(n + 1))
  BY FS_Interval
<1>3. IsFiniteSet(Holding(m, n + 1)) /\ IsFiniteSet(Holding(m, n))
  BY <1>1, <1>2, FS_Subset
<1>4. Cardinality(Holding(m, n)) \in Nat /\ Cardinality(Holding(m, n + 1)) \in Nat
      /\ Cardinality(Holding(m, n)) <= Cardinality(Holding(m, n + 1))
  BY <1>1, <1>3, FS_Subset, FS_CardinalityType
<1> QED BY <1>4

\* Foundations depend on the structure only.
LEMMA SameFounded == ASSUME NEW m, NEW f, m.types = f.types, m.shape = f.shape PROVE Founded(m) <=> Founded(f)
BY DEF Founded, Holding

\* An eligible fragment is founded.
LEMMA EligibleFounded ==
    ASSUME LibraryTypes, FragmentsSeen, NEW f \in fragments, Library!Eligible(f)
    PROVE  Founded(f)
<1>1. f.plans \subseteq Holding(f, saved) /\ Holding(f, saved) \subseteq 1..saved /\ saved \in Int
  BY DEF FragmentsSeen, Holding, LibraryTypes
<1>2. IsFiniteSet(1..saved)
  BY <1>1, FS_Interval
<1>3. IsFiniteSet(Holding(f, saved)) /\ IsFiniteSet(f.plans)
  BY <1>1, <1>2, FS_Subset
<1>4. Cardinality(f.plans) \in Nat /\ Cardinality(Holding(f, saved)) \in Nat
      /\ Cardinality(f.plans) <= Cardinality(Holding(f, saved))
  BY <1>1, <1>3, FS_Subset, FS_CardinalityType
<1>5. Cardinality(f.plans) >= 3
  BY SameCardinality DEF Library!Eligible, Library!Threshold
<1> QED BY <1>4, <1>5 DEF Founded

\* A fragment of fragments.json is one of the structures.
LEMMA FragmentSeen ==
    ASSUME Library!LibraryConstants, LibraryTypes, FragmentsSeen, NEW f \in fragments
    PROVE  f.types \in Structures /\ f.shape \in Shapes
<1>1. PICK p \in f.plans : p \in 1..saved /\ [types |-> f.types, shape |-> f.shape] \in Library!Runs(SavedPlans[p])
  BY DEF FragmentsSeen, Holding
<1>2. p \in DOMAIN SavedPlans
  BY <1>1 DEF LibraryTypes, Library!LibraryConstants
<1>3. [types |-> f.types, shape |-> f.shape] \in Seen
  BY <1>1, <1>2 DEF Seen
<1> QED BY <1>3 DEF Structures, Shapes

LEMMA LibraryInit == ASSUME Library!LibraryConstants, Library!Init PROVE LibraryInv
<1> USE DEF Library!Init
<1>0. Len(SavedPlans) \in Nat
  BY DEF Library!LibraryConstants
<1>1. LibraryTypes
  BY <1>0 DEF LibraryTypes, MacroFiles, Library!NoMacro
<1>2. FragmentsSeen /\ ProposalsFounded /\ MacrosFounded /\ TodoFounded
  BY DEF FragmentsSeen, ProposalsFounded, MacrosFounded, TodoFounded, Library!NoMacro
<1>3. \A id \in MacroIds : active[id.name] = "none" /\ id.version # "none"
  BY DEF Library!Names, Library!LibraryConstants
<1>4. ActiveKept
  BY <1>3 DEF ActiveKept
<1> QED BY <1>1, <1>2, <1>4 DEF LibraryInv

LEMMA NewPlanKeeps == ASSUME Library!LibraryConstants, LibraryInv, Library!NewPlan PROVE LibraryInv'
<1> USE DEF Library!NewPlan
<1>1. saved \in Nat /\ saved' = saved + 1 /\ LibraryTypes'
  BY DEF LibraryInv, LibraryTypes, Library!LibraryConstants
<1>2. \A m : Founded(m) => Cardinality(Holding(m, saved'))  >= 3
  BY <1>1, FoundedGrows DEF Founded
<1>3. FragmentsSeen'
  <2>1. \A m : Holding(m, saved) \subseteq Holding(m, saved')
    BY <1>1 DEF Holding
  <2> QED BY <2>1 DEF LibraryInv, FragmentsSeen, Holding
<1>4. ProposalsFounded' /\ MacrosFounded' /\ TodoFounded'
  BY <1>2 DEF LibraryInv, ProposalsFounded, MacrosFounded, TodoFounded, Founded
<1>5. ActiveKept'
  BY DEF LibraryInv, ActiveKept, VettedOr, Dropping, Library!Settled
<1> QED BY <1>1, <1>3, <1>4, <1>5 DEF LibraryInv

LEMMA LibraryAnalyzeKeeps == ASSUME Library!LibraryConstants, LibraryInv, Library!Analyze PROVE LibraryInv'
<1> USE DEF Library!Analyze
<1>1. LibraryTypes' /\ ProposalsFounded' /\ MacrosFounded' /\ TodoFounded' /\ ActiveKept'
  BY DEF LibraryInv, LibraryTypes, ProposalsFounded, MacrosFounded, TodoFounded, ActiveKept, Founded, Holding,
         VettedOr, Dropping, Library!Settled
<1>2. FragmentsSeen'
  <2>1. PICK chosen \in Library!Loaded : fragments' = Library!Aggregated(chosen)
    OBVIOUS
  <2>2. chosen \subseteq 1..saved
    BY <2>1 DEF Library!Loaded
  <2> SUFFICES ASSUME NEW f \in fragments' PROVE f.plans \subseteq Holding(f, saved) /\ f.plans # {}
    BY DEF FragmentsSeen, Holding
  <2>3. PICK g \in UNION {Library!Runs(SavedPlans[p]) : p \in chosen} :
          f = [types |-> g.types, shape |-> g.shape, plans |-> {p \in chosen : g \in Library!Runs(SavedPlans[p])}]
    BY <2>1 DEF Library!Aggregated
  <2>4. PICK q \in chosen : g \in Library!Runs(SavedPlans[q])
    BY <2>3
  <2>5. g = [types |-> g.types, shape |-> g.shape]
    BY <2>4 DEF Library!Runs, Library!Fragment
  <2>6. f.plans = {p \in chosen : g \in Library!Runs(SavedPlans[p])} /\ [types |-> f.types, shape |-> f.shape] = g
    BY <2>3, <2>5
  <2> QED BY <2>2, <2>4, <2>6 DEF Holding
<1> QED BY <1>1, <1>2 DEF LibraryInv

LEMMA ProposeKeeps ==
    ASSUME Library!LibraryConstants, LibraryInv, NEW f \in fragments, NEW id \in MacroIds, Library!Propose(f, id)
    PROVE  LibraryInv'
<1> DEFINE new == [types |-> f.types, shape |-> f.shape, id |-> id,
                   status |-> IF Library!Eligible(f) THEN "proposed" ELSE "rejected"]
           P == [types : Structures, shape : Shapes, id : MacroIds, status : {"proposed", "rejected", "adopted"}]
<1>1. proposals' = Append(proposals, new) /\ todo = <<>>
      /\ UNCHANGED <<saved, fragments, macros, contracts, active, todo, revised, halved>>
  BY DEF Library!Propose
<1>2. LibraryTypes /\ FragmentsSeen /\ new \in P /\ proposals \in Seq(P)
  BY FragmentSeen DEF LibraryInv, LibraryTypes
<1>3. LibraryTypes'
  <2>1. proposals' \in Seq(P)
    BY <1>1, <1>2
  <2> QED BY <2>1, <1>1, <1>2 DEF LibraryTypes
<1>4. new.status # "rejected" => Founded(new)
  BY <1>2, EligibleFounded, SameFounded
<1> HIDE DEF new, P
<1>5. ProposalsFounded'
  <2> SUFFICES ASSUME NEW i \in DOMAIN proposals', proposals'[i].status # "rejected" PROVE Founded(proposals'[i])
    BY <1>1 DEF ProposalsFounded, Founded, Holding
  <2>1. CASE i \in DOMAIN proposals
    <3>1. proposals'[i] = proposals[i]
      BY <1>1, <1>2, <2>1
    <3> QED BY <3>1, <2>1 DEF LibraryInv, ProposalsFounded
  <2>2. CASE i \notin DOMAIN proposals
    <3>1. proposals'[i] = new
      BY <1>1, <1>2, <2>2
    <3> QED BY <3>1, <1>4
  <2> QED BY <2>1, <2>2
<1>6. FragmentsSeen' /\ MacrosFounded' /\ ActiveKept'
  BY <1>1 DEF LibraryInv, FragmentsSeen, MacrosFounded, ActiveKept, Founded, Holding, VettedOr, Dropping, Library!Settled
<1>7. TodoFounded'
  BY <1>1 DEF TodoFounded
<1> QED BY <1>3, <1>5, <1>6, <1>7 DEF LibraryInv

\* What storing a macro writes, alone and with one more file after it.
LEMMA OneMore == ASSUME NEW S, NEW a \in S, NEW b \in S, NEW c \in S PROVE <<a, b>> \o <<c>> = <<a, b, c>>
<1> DEFINE s == <<a, b>>
           t == <<c>>
           u == <<a, b, c>>
<1>1. s \in Seq(S) /\ t \in Seq(S) /\ u \in Seq(S) /\ Len(s) = 2 /\ Len(t) = 1 /\ Len(u) = 3
      /\ s[1] = a /\ s[2] = b /\ t[1] = c /\ u[1] = a /\ u[2] = b /\ u[3] = c
  OBVIOUS
<1> HIDE DEF s, t, u
<1>2. s \o t \in Seq(S) /\ Len(s \o t) = 3
      /\ \A i \in 1..3 : (s \o t)[i] = IF i <= 2 THEN s[i] ELSE t[i - 2]
  BY <1>1, ConcatProperties
<1>3. \A i \in 1..3 : (s \o t)[i] = u[i]
  BY <1>1, <1>2
<1>5. s \o t = u
  BY <1>1, <1>2, <1>3, SeqEqual
<1> QED BY <1>5 DEF s, t, u

LEMMA StoreIs ==
    ASSUME NEW id, NEW m
    PROVE  /\ Library!Store(id, m) = <<[file |-> "macro", id |-> id, macro |-> m, at |-> 0],
                                       [file |-> "contracts", id |-> id, macro |-> m, at |-> 0]>>
           /\ \A w : Library!Store(id, m) \o <<w>>
                = <<[file |-> "macro", id |-> id, macro |-> m, at |-> 0],
                    [file |-> "contracts", id |-> id, macro |-> m, at |-> 0], w>>
<1>1. Library!Store(id, m) = <<[file |-> "macro", id |-> id, macro |-> m, at |-> 0],
                               [file |-> "contracts", id |-> id, macro |-> m, at |-> 0]>>
  BY DEF Library!Store
<1>2. ASSUME NEW a, NEW b, NEW c PROVE <<a, b>> \o <<c>> = <<a, b, c>>
  <2>1. a \in {a, b, c} /\ b \in {a, b, c} /\ c \in {a, b, c}
    OBVIOUS
  <2> QED BY <2>1, OneMore
<1> QED BY <1>1, <1>2

LEMMA AdoptKeeps ==
    ASSUME Library!LibraryConstants, LibraryInv, NEW i \in DOMAIN proposals, Library!Adopt(i)
    PROVE  LibraryInv'
<1> DEFINE p == proposals[i]
           m == [types |-> p.types, shape |-> p.shape, status |-> "pending"]
           w == [file |-> "proposals", id |-> p.id, macro |-> Library!NoMacro, at |-> i]
<1>1. /\ todo = <<>> /\ p.status = "proposed" /\ todo' = Library!Store(p.id, m) \o <<w>>
      /\ revised' = IF active[p.id.name] = p.id.version THEN revised \union {p.id} ELSE revised
      /\ UNCHANGED <<saved, fragments, proposals, macros, contracts, active, halved>>
  BY DEF Library!Adopt, Library!Adoption, Library!Version
<1>2. /\ LibraryTypes /\ p \in [types : Structures, shape : Shapes, id : MacroIds, status : {"proposed", "rejected", "adopted"}]
      /\ i \in Nat
  <2>1. LibraryTypes /\ DOMAIN proposals = 1..Len(proposals) /\ Len(proposals) \in Nat
    BY DEF LibraryInv, LibraryTypes
  <2>2. i \in 1..Len(proposals)
    BY <2>1
  <2>3. proposals[i] \in [types : Structures, shape : Shapes, id : MacroIds, status : {"proposed", "rejected", "adopted"}]
    BY <2>1, <2>2, ElementOfSeq DEF LibraryTypes
  <2> QED BY <2>1, <2>2, <2>3
<1>3. todo' = <<[file |-> "macro", id |-> p.id, macro |-> m, at |-> 0],
                [file |-> "contracts", id |-> p.id, macro |-> m, at |-> 0], w>>
  BY <1>1, StoreIs
<1>4. m \in MacroFiles /\ w \in Writes /\ p.id \in MacroIds
  BY <1>2 DEF MacroFiles, Writes, Library!NoMacro
<1>5. Founded(m) /\ w.at \in DOMAIN proposals /\ proposals[w.at].status # "rejected"
  <2>1. Founded(p)
    BY <1>1 DEF LibraryInv, ProposalsFounded
  <2> QED BY <2>1, <1>1, SameFounded
<1>6. m.status = "pending" /\ w.file = "proposals" /\ w.id = p.id
  OBVIOUS
<1> HIDE DEF m, w
<1>7. LibraryTypes'
  <2>1. todo' \in Seq(Writes)
    BY <1>3, <1>4 DEF Writes
  <2>2. revised' \subseteq MacroIds
    BY <1>1, <1>2 DEF LibraryTypes
  <2> QED BY <2>1, <2>2, <1>1, <1>2 DEF LibraryTypes
<1>8. TodoFounded'
  <2>1. \A x : Founded(x)' <=> Founded(x)
    BY <1>1 DEF Founded, Holding
  <2>2. DOMAIN todo' = 1..3 /\ \A k \in 1..3 : todo'[k].id = p.id
        /\ todo'[1].file = "macro" /\ todo'[1].macro = m /\ todo'[2].file = "contracts" /\ todo'[3] = w
    BY <1>3, <1>6
  <2>3. p' = p /\ m.status # "none"
    BY <1>1, <1>6
  <2> QED BY <1>1, <1>5, <1>6, <2>1, <2>2, <2>3 DEF TodoFounded
<1>9. FragmentsSeen' /\ ProposalsFounded' /\ MacrosFounded'
  BY <1>1 DEF LibraryInv, FragmentsSeen, ProposalsFounded, MacrosFounded, Founded, Holding
<1>10. ActiveKept'
  <2> SUFFICES ASSUME NEW id \in MacroIds, active[id.name] = id.version
               PROVE  /\ id \in contracts
                      /\ Library!Settled(id)' =>
                           VettedOr(id, macros[id])' /\ \A k \in DOMAIN todo' : todo'[k].file = "macro" /\ todo'[k].id = id => VettedOr(id, todo[k].macro)'
    BY <1>1 DEF ActiveKept
  <2>1. id \in contracts
    BY DEF LibraryInv, ActiveKept
  <2>2. ASSUME Library!Settled(id)' PROVE id # p.id /\ macros[id].status = "verified"
    <3>1. id # p.id /\ Library!Settled(id)
      BY <1>1, <2>2 DEF Library!Settled
    <3> QED BY <1>1, <3>1 DEF LibraryInv, ActiveKept, VettedOr, Dropping
  <2>3. \A k \in DOMAIN todo' : todo'[k].id = p.id
    BY <1>3, <1>6
  <2> QED BY <1>1, <2>1, <2>2, <2>3 DEF VettedOr
<1> QED BY <1>7, <1>8, <1>9, <1>10 DEF LibraryInv

\* A macro whose status alone is changed is of a known structure, as founded as it was.
LEMMA Restated ==
    ASSUME LibraryInv, NEW id \in MacroIds, macros[id].status # "none", NEW status \in {"verified", "deprecated"}
    PROVE  LET m == [macros[id] EXCEPT !.status = status] IN m \in MacroFiles /\ m.status = status /\ Founded(m)
<1> DEFINE m == [macros[id] EXCEPT !.status = status]
<1>1. macros[id] \in MacroFiles
  BY DEF LibraryInv, LibraryTypes
<1>2. m \in MacroFiles /\ m.status = status /\ m.types = macros[id].types /\ m.shape = macros[id].shape
  BY <1>1 DEF MacroFiles
<1>3. Founded(macros[id])
  BY DEF LibraryInv, MacrosFounded
<1> HIDE DEF m
<1>4. Founded(m)
  BY <1>2, <1>3, SameFounded
<1> QED BY <1>2, <1>4 DEF m

LEMMA VerifyKeeps ==
    ASSUME Library!LibraryConstants, LibraryInv, NEW id \in MacroIds, Library!Verify(id)
    PROVE  LibraryInv'
<1> DEFINE m == [macros[id] EXCEPT !.status = "verified"]
<1>1. /\ todo = <<>> /\ macros[id].status # "none" /\ todo' = Library!Store(id, m)
      /\ UNCHANGED <<saved, fragments, proposals, macros, contracts, active, revised, halved>>
  BY DEF Library!Verify, Library!Readable
<1>2. m \in MacroFiles /\ m.status = "verified" /\ Founded(m)
  BY <1>1, Restated
<1> HIDE DEF m
<1>3. todo' = <<[file |-> "macro", id |-> id, macro |-> m, at |-> 0],
                [file |-> "contracts", id |-> id, macro |-> m, at |-> 0]>>
  BY <1>1, StoreIs
<1>4. LibraryTypes'
  <2>1. todo' \in Seq(Writes)
    BY <1>2, <1>3 DEF Writes
  <2> QED BY <2>1, <1>1 DEF LibraryInv, LibraryTypes
<1>5. DOMAIN todo' = 1..2 /\ todo'[1].id = id /\ todo'[2].id = id
      /\ todo'[1].file = "macro" /\ todo'[1].macro = m /\ todo'[2].file = "contracts"
  BY <1>3
<1>6. TodoFounded'
  <2>1. \A x : Founded(x)' <=> Founded(x)
    BY <1>1 DEF Founded, Holding
  <2> QED BY <1>2, <1>5, <2>1 DEF TodoFounded
<1>7. FragmentsSeen' /\ ProposalsFounded' /\ MacrosFounded'
  BY <1>1 DEF LibraryInv, FragmentsSeen, ProposalsFounded, MacrosFounded, Founded, Holding
<1>8. ActiveKept'
  <2>1. \A v \in MacroIds : Library!Settled(v)' <=> Library!Settled(v)
    BY <1>1 DEF Library!Settled
  <2>2. \A v \in MacroIds : ~Dropping(v)
    BY <1>1 DEF Dropping
  <2>3. \A k \in DOMAIN todo' : todo'[k].file = "macro" => todo'[k].macro.status = "verified"
    BY <1>2, <1>5
  <2> QED BY <1>1, <2>1, <2>2, <2>3 DEF LibraryInv, ActiveKept, VettedOr
<1> QED BY <1>4, <1>6, <1>7, <1>8 DEF LibraryInv

LEMMA ActivateKeeps ==
    ASSUME Library!LibraryConstants, LibraryInv, NEW id \in MacroIds, Library!Activate(id)
    PROVE  LibraryInv'
<1>1. /\ todo = <<>> /\ id \in contracts /\ macros[id].status = "verified" /\ active' = [active EXCEPT ![id.name] = id.version]
      /\ UNCHANGED <<saved, fragments, proposals, macros, contracts, todo, revised, halved>>
  BY DEF Library!Activate, Library!Readable, Library!MayActivate
<1>2. LibraryTypes'
  BY <1>1 DEF LibraryInv, LibraryTypes
<1>3. FragmentsSeen' /\ ProposalsFounded' /\ MacrosFounded' /\ TodoFounded'
  BY <1>1 DEF LibraryInv, FragmentsSeen, ProposalsFounded, MacrosFounded, TodoFounded, Founded, Holding
<1>4. ActiveKept'
  <2> SUFFICES ASSUME NEW v \in MacroIds, active'[v.name] = v.version
               PROVE  v \in contracts /\ (Library!Settled(v) => macros[v].status = "verified")
    <3>1. \A v \in MacroIds : Library!Settled(v)' <=> Library!Settled(v)
      BY <1>1 DEF Library!Settled
    <3> QED BY <1>1, <3>1 DEF ActiveKept, VettedOr
  <2>1. CASE v.name = id.name
    <3>1. id.name \in Library!Names
      BY DEF Library!Names
    <3>2. v.version = id.version
      BY <1>1, <2>1, <3>1 DEF LibraryInv, LibraryTypes
    <3>3. v = id
      BY <2>1, <3>2 DEF Library!LibraryConstants
    <3> QED BY <1>1, <3>3
  <2>2. CASE v.name # id.name
    <3>1. active[v.name] = v.version
      BY <1>1, <2>2 DEF LibraryInv, LibraryTypes, Library!Names
    <3> QED BY <1>1, <3>1 DEF LibraryInv, ActiveKept, VettedOr, Dropping
  <2> QED BY <2>1, <2>2
<1> QED BY <1>2, <1>3, <1>4 DEF LibraryInv

LEMMA DeprecateKeeps ==
    ASSUME Library!LibraryConstants, LibraryInv, NEW id \in MacroIds, Library!Deprecate(id)
    PROVE  LibraryInv'
<1> DEFINE m == [macros[id] EXCEPT !.status = "deprecated"]
           first == [file |-> "macro", id |-> id, macro |-> m, at |-> 0]
           second == [file |-> "contracts", id |-> id, macro |-> m, at |-> 0]
           w == [file |-> "library", id |-> id, macro |-> Library!NoMacro, at |-> 0]
           drops == active[id.name] = id.version
<1>1. /\ todo = <<>> /\ macros[id].status # "none"
      /\ todo' = Library!Store(id, m) \o (IF drops THEN <<w>> ELSE <<>>)
      /\ UNCHANGED <<saved, fragments, proposals, macros, contracts, active, revised, halved>>
  BY DEF Library!Deprecate, Library!Readable, Library!Deprecation, Library!Version
<1>2. m \in MacroFiles /\ m.status = "deprecated" /\ Founded(m)
  BY <1>1, Restated
<1>3. w \in Writes /\ first \in Writes /\ second \in Writes
  BY <1>2 DEF Writes, MacroFiles, Library!NoMacro
<1>4. todo' = IF drops THEN <<first, second, w>> ELSE <<first, second>>
  <2>1. Library!Store(id, m) = <<first, second>> /\ Library!Store(id, m) \o <<w>> = <<first, second, w>>
    BY StoreIs
  <2>2. <<first, second>> \in Seq(Writes)
    BY <1>3
  <2>3. <<first, second>> \o <<>> = <<first, second>>
    BY <2>2, ConcatEmptySeq
  <2> QED BY <1>1, <2>1, <2>3
<1>5. /\ first.file = "macro" /\ first.macro = m /\ second.file = "contracts" /\ w.file = "library"
      /\ first.id = id /\ second.id = id /\ w.id = id
  OBVIOUS
<1> HIDE DEF m, first, second, w
<1>6. LibraryTypes'
  <2>1. todo' \in Seq(Writes)
    BY <1>3, <1>4
  <2> QED BY <2>1, <1>1 DEF LibraryInv, LibraryTypes
<1>7. /\ DOMAIN todo' = IF drops THEN 1..3 ELSE 1..2
      /\ \A k \in DOMAIN todo' : todo'[k] \in {first, second, w}
      /\ todo'[1] = first /\ drops => todo'[3] = w
  BY <1>4
<1>8. TodoFounded'
  <2>1. \A x : Founded(x)' <=> Founded(x)
    BY <1>1 DEF Founded, Holding
  <2> QED BY <1>2, <1>5, <1>7, <2>1 DEF TodoFounded
<1>9. FragmentsSeen' /\ ProposalsFounded' /\ MacrosFounded'
  BY <1>1 DEF LibraryInv, FragmentsSeen, ProposalsFounded, MacrosFounded, Founded, Holding
<1>10. ActiveKept'
  <2>1. \A v \in MacroIds : Library!Settled(v)' <=> Library!Settled(v)
    BY <1>1 DEF Library!Settled
  <2>2. \A v \in MacroIds : ~Dropping(v)
    BY <1>1 DEF Dropping
  <2>3. drops => Dropping(id)'
    BY <1>4, <1>5, <1>7 DEF Dropping
  <2>4. \A k \in DOMAIN todo' : todo'[k].id = id
    BY <1>5, <1>7
  <2> QED BY <1>1, <2>1, <2>2, <2>3, <2>4 DEF LibraryInv, ActiveKept, VettedOr
<1> QED BY <1>6, <1>8, <1>9, <1>10 DEF LibraryInv

LEMMA InterruptKeeps == ASSUME Library!LibraryConstants, LibraryInv, Library!Interrupt PROVE LibraryInv'
<1>1. /\ todo # <<>> /\ halved' = Append(halved, Head(todo).id) /\ todo' = <<>>
      /\ UNCHANGED <<saved, fragments, proposals, macros, contracts, active, revised>>
  BY DEF Library!Interrupt
<1>2. todo \in Seq(Writes) /\ halved \in Seq(MacroIds)
  BY DEF LibraryInv, LibraryTypes
<1>3. Head(todo) = todo[1] /\ 1 \in DOMAIN todo /\ todo[1] \in Writes
  BY <1>1, <1>2
<1>4. LibraryTypes'
  <2>1. halved' \in Seq(MacroIds)
    BY <1>1, <1>2, <1>3 DEF Writes
  <2> QED BY <2>1, <1>1 DEF LibraryInv, LibraryTypes
<1>5. FragmentsSeen' /\ ProposalsFounded' /\ MacrosFounded' /\ TodoFounded'
  BY <1>1 DEF LibraryInv, FragmentsSeen, ProposalsFounded, MacrosFounded, TodoFounded, Founded, Holding
<1>6. ActiveKept'
  <2> SUFFICES ASSUME NEW v \in MacroIds, active[v.name] = v.version
               PROVE  v \in contracts /\ (Library!Settled(v)' => macros[v].status = "verified")
    BY <1>1 DEF ActiveKept, VettedOr
  <2>1. v \in contracts
    BY DEF LibraryInv, ActiveKept
  <2>2. ASSUME Library!Settled(v)' PROVE macros[v].status = "verified"
    <3>1. Len(halved) \in Nat /\ DOMAIN halved = 1..Len(halved) /\ DOMAIN halved' = 1..(Len(halved) + 1)
          /\ halved'[Len(halved) + 1] = todo[1].id /\ \A i \in DOMAIN halved : halved'[i] = halved[i]
      BY <1>1, <1>2, <1>3 DEF Writes
    <3>2. Library!Settled(v) /\ todo[1].id # v
      BY <1>1, <2>2, <3>1 DEF Library!Settled
    <3>3. ~Dropping(v)
      BY <1>3, <3>2 DEF LibraryInv, TodoFounded, Dropping
    <3> QED BY <3>2, <3>3 DEF LibraryInv, ActiveKept, VettedOr
  <2> QED BY <2>1, <2>2
<1> QED BY <1>4, <1>5, <1>6 DEF LibraryInv

LEMMA WriteKeeps == ASSUME Library!LibraryConstants, LibraryInv, Library!Write PROVE LibraryInv'
<1> DEFINE w == Head(todo)
<1>1. /\ todo # <<>> /\ todo' = Tail(todo)
      /\ macros' = IF w.file = "macro" THEN [macros EXCEPT ![w.id] = w.macro] ELSE macros
      /\ contracts' = IF w.file = "contracts" THEN contracts \union {w.id} ELSE contracts
      /\ active' = IF w.file = "library" THEN [active EXCEPT ![w.id.name] = "none"] ELSE active
      /\ proposals' = IF w.file = "proposals" THEN [proposals EXCEPT ![w.at].status = "adopted"] ELSE proposals
      /\ UNCHANGED <<saved, fragments, revised, halved>>
  BY DEF Library!Write
<1> DEFINE P == [types : Structures, shape : Shapes, id : MacroIds, status : {"proposed", "rejected", "adopted"}]
<1>2. todo \in Seq(Writes) /\ proposals \in Seq(P) /\ macros \in [MacroIds -> MacroFiles]
  BY DEF LibraryInv, LibraryTypes
<1>3. w = todo[1] /\ 1 \in DOMAIN todo /\ w \in Writes
      /\ todo' \in Seq(Writes) /\ \A k \in DOMAIN todo' : k \in Nat /\ k + 1 \in DOMAIN todo /\ todo'[k] = todo[k + 1]
  BY <1>1, <1>2
<1>4. \A k \in DOMAIN todo : k = 1 \/ (k - 1 \in DOMAIN todo' /\ todo'[k - 1] = todo[k])
  BY <1>1, <1>2
<1> HIDE DEF w
<1>5. /\ w.id \in MacroIds /\ w.macro \in MacroFiles
      /\ w.file = "macro" => w.macro.status # "none" /\ Founded(w.macro)
      /\ w.file = "proposals" => w.at \in DOMAIN proposals /\ proposals[w.at].status # "rejected"
      /\ \A k \in DOMAIN todo : todo[k].id = w.id
  BY <1>3 DEF LibraryInv, TodoFounded, Writes
<1>6. /\ DOMAIN proposals' = DOMAIN proposals /\ proposals' \in Seq(P)
      /\ \A i \in DOMAIN proposals : proposals'[i].status = proposals[i].status
                                     \/ (proposals'[i].status = "adopted" /\ proposals[i].status # "rejected")
      /\ \A i \in DOMAIN proposals : proposals'[i].types = proposals[i].types /\ proposals'[i].shape = proposals[i].shape
  <2>1. CASE w.file # "proposals"
    BY <1>1, <1>2, <2>1
  <2>2. CASE w.file = "proposals"
    <3>1. w.at \in 1..Len(proposals) /\ DOMAIN proposals = 1..Len(proposals) /\ Len(proposals) \in Nat
      BY <1>2, <1>5, <2>2
    <3>2. proposals[w.at] \in P
      BY <1>2, <3>1, ElementOfSeq
    <3> DEFINE q == [proposals[w.at] EXCEPT !.status = "adopted"]
    <3>3. q \in P /\ q.status = "adopted" /\ q.types = proposals[w.at].types /\ q.shape = proposals[w.at].shape
      BY <3>2
    <3>4. proposals' = [proposals EXCEPT ![w.at] = q]
      BY <1>1, <2>2
    <3> HIDE DEF q, P
    <3>5. proposals' \in Seq(P) /\ DOMAIN proposals' = DOMAIN proposals
          /\ \A i \in DOMAIN proposals : proposals'[i] = IF i = w.at THEN q ELSE proposals[i]
      BY <1>2, <3>1, <3>3, <3>4
    <3> QED BY <1>5, <2>2, <3>3, <3>5
  <2> QED BY <2>1, <2>2
<1>7. LibraryTypes'
  <2>1. macros' \in [MacroIds -> MacroFiles] /\ contracts' \subseteq MacroIds
    BY <1>1, <1>2, <1>5 DEF LibraryInv, LibraryTypes
  <2>2. active' \in [Library!Names -> {id.version : id \in MacroIds} \union {"none"}]
    BY <1>1 DEF LibraryInv, LibraryTypes
  <2> QED BY <1>1, <1>3, <1>6, <2>1, <2>2 DEF LibraryInv, LibraryTypes
<1>8. \A x : Founded(x)' <=> Founded(x)
  BY <1>1 DEF Founded, Holding
<1>9. FragmentsSeen' /\ MacrosFounded'
  BY <1>1, <1>2, <1>5, <1>8 DEF LibraryInv, FragmentsSeen, MacrosFounded, Holding
<1>10. ProposalsFounded'
  <2> SUFFICES ASSUME NEW i \in DOMAIN proposals, proposals'[i].status # "rejected" PROVE Founded(proposals'[i])
    BY <1>6, <1>8 DEF ProposalsFounded
  <2>1. Founded(proposals[i])
    BY <1>6 DEF LibraryInv, ProposalsFounded
  <2> QED BY <1>6, <2>1, SameFounded
<1>11. TodoFounded'
  <2>1. \A i \in DOMAIN proposals : proposals[i].status # "rejected" => proposals'[i].status # "rejected"
    BY <1>6
  <2> SUFFICES ASSUME NEW k \in DOMAIN todo'
               PROVE  /\ todo'[k].id = todo'[1].id
                      /\ todo'[k].file = "macro" => todo'[k].macro.status # "none" /\ Founded(todo'[k].macro)
                      /\ todo'[k].file = "proposals" => todo'[k].at \in DOMAIN proposals' /\ proposals'[todo'[k].at].status # "rejected"
    BY <1>8 DEF TodoFounded
  <2>2. 1 \in DOMAIN todo'
    BY <1>3
  <2>3. todo'[k].id = todo'[1].id
    BY <1>3, <1>5, <2>2
  <2> QED BY <1>3, <1>6, <2>1, <2>3 DEF LibraryInv, TodoFounded
<1>12. ActiveKept'
  <2> SUFFICES ASSUME NEW v \in MacroIds, active'[v.name] = v.version
               PROVE  /\ v \in contracts'
                      /\ Library!Settled(v)' =>
                           /\ VettedOr(v, macros[v])'
                           /\ \A k \in DOMAIN todo' : todo'[k].file = "macro" /\ todo'[k].id = v => VettedOr(v, todo[k].macro)'
    BY DEF ActiveKept
  <2>1. active[v.name] = v.version /\ (w.file = "library" => w.id # v)
    <3>1. v.name \in Library!Names /\ w.id.name \in Library!Names /\ v.version # "none"
      BY <1>5 DEF Library!Names, Library!LibraryConstants
    <3> QED BY <1>1, <3>1 DEF LibraryInv, LibraryTypes
  <2>2. v \in contracts'
    BY <1>1, <2>1 DEF LibraryInv, ActiveKept
  <2> SUFFICES ASSUME Library!Settled(v)
               PROVE  /\ VettedOr(v, macros[v])'
                      /\ \A k \in DOMAIN todo' : todo'[k].file = "macro" /\ todo'[k].id = v => VettedOr(v, todo[k].macro)'
    BY <1>1, <2>2 DEF Library!Settled
  <2>3. Dropping(v) => Dropping(v)'
    <3> SUFFICES ASSUME NEW k \in DOMAIN todo, todo[k].file = "library", todo[k].id = v PROVE Dropping(v)'
      BY DEF Dropping
    <3>1. k # 1
      BY <1>3, <2>1
    <3>2. k - 1 \in DOMAIN todo' /\ todo'[k - 1] = todo[k]
      BY <1>4, <3>1
    <3> QED BY <3>2 DEF Dropping
  <2>4. /\ VettedOr(v, macros[v])
        /\ \A k \in DOMAIN todo : todo[k].file = "macro" /\ todo[k].id = v => VettedOr(v, todo[k].macro)
    BY <2>1 DEF LibraryInv, ActiveKept
  <2>5. VettedOr(v, macros[v])'
    <3>1. CASE w.file = "macro" /\ w.id = v
      <4>1. macros'[v] = w.macro
        BY <1>1, <1>2, <3>1
      <4>2. VettedOr(v, w.macro)
        BY <1>3, <2>4, <3>1
      <4> QED BY <2>3, <4>1, <4>2 DEF VettedOr
    <3>2. CASE ~(w.file = "macro" /\ w.id = v)
      <4>1. macros'[v] = macros[v]
        BY <1>1, <1>2, <3>2
      <4> QED BY <2>3, <2>4, <4>1 DEF VettedOr
    <3> QED BY <3>1, <3>2
  <2>6. ASSUME NEW k \in DOMAIN todo', todo'[k].file = "macro", todo'[k].id = v PROVE VettedOr(v, todo[k].macro)'
    <3>1. k + 1 \in DOMAIN todo /\ todo'[k] = todo[k + 1]
      BY <1>3
    <3>2. VettedOr(v, todo'[k].macro)
      BY <2>4, <2>6, <3>1
    <3> QED BY <2>3, <3>2 DEF VettedOr
  <2> QED BY <2>5, <2>6
<1> QED BY <1>7, <1>9, <1>10, <1>11, <1>12 DEF LibraryInv

LEMMA LibraryStep == ASSUME Library!LibraryConstants, LibraryInv, [Library!Next]_(Library!vars) PROVE LibraryInv'
<1>1. CASE UNCHANGED Library!vars
  <2>1. UNCHANGED <<saved, fragments, proposals, macros, contracts, active, todo, revised, halved>>
    BY <1>1 DEF Library!vars
  <2>2. \A x : Founded(x)' <=> Founded(x)
    BY <2>1 DEF Founded, Holding
  <2>3. LibraryTypes' /\ FragmentsSeen'
    BY <2>1 DEF LibraryInv, LibraryTypes, FragmentsSeen, Holding
  <2>4. ProposalsFounded' /\ MacrosFounded' /\ TodoFounded'
    BY <2>1, <2>2 DEF LibraryInv, ProposalsFounded, MacrosFounded, TodoFounded
  <2>5. ActiveKept'
    BY <2>1 DEF LibraryInv, ActiveKept, VettedOr, Dropping, Library!Settled
  <2> QED BY <2>3, <2>4, <2>5 DEF LibraryInv
<1>2. CASE Library!Next
  BY <1>2, NewPlanKeeps, LibraryAnalyzeKeeps, ProposeKeeps, AdoptKeeps, VerifyKeeps, ActivateKeeps, DeprecateKeeps,
     InterruptKeeps, WriteKeeps DEF Library!Next
<1> QED BY <1>1, <1>2

LEMMA LibraryInvariant == ASSUME Library!LibraryConstants PROVE LibrarySpec => []LibraryInv
<1>1. Library!LibraryConstants /\ Library!Init => LibraryInv
  BY LibraryInit
<1>2. Library!LibraryConstants /\ LibraryInv /\ [Library!Next]_(Library!vars) => LibraryInv'
  BY LibraryStep
<1> QED BY <1>1, <1>2, PTL DEF LibrarySpec

\* Something founded was held by a plan, where it was a run of steps.
LEMMA FoundedHeld ==
    ASSUME Library!LibraryConstants, LibraryTypes, NEW m, Founded(m)
    PROVE  \E p \in DOMAIN SavedPlans : \E i \in DOMAIN SavedPlans[p] : \E j \in (i + 1)..Len(SavedPlans[p]) :
             [types |-> m.types, shape |-> m.shape] = Library!Fragment(SavedPlans[p], i, j)
<1>1. Holding(m, saved) # {}
  BY FS_EmptySet DEF Founded
<1>2. PICK p \in 1..saved : [types |-> m.types, shape |-> m.shape] \in Library!Runs(SavedPlans[p])
  BY <1>1 DEF Holding
<1>3. p \in DOMAIN SavedPlans
  BY <1>2 DEF LibraryTypes, Library!LibraryConstants
<1> QED BY <1>2, <1>3 DEF Library!Runs

\* The steps of a fragment depend on earlier steps of the same fragment.
LEMMA FragmentClosed ==
    ASSUME Library!LibraryConstants, NEW p \in DOMAIN SavedPlans, NEW i \in DOMAIN SavedPlans[p],
           NEW j \in (i + 1)..Len(SavedPlans[p])
    PROVE  LET f == Library!Fragment(SavedPlans[p], i, j) IN
           /\ DOMAIN f.types = 1..(j - i + 1) /\ DOMAIN f.shape = 1..(j - i + 1)
           /\ \A k \in 1..(j - i + 1) : f.shape[k] \subseteq 1..(k - 1)
<1> DEFINE plan == SavedPlans[p]
<1>1. plan \in Seq([type : STRING, deps : SUBSET Nat])
  BY DEF Library!LibraryConstants
<1>2. DOMAIN plan = 1..Len(plan) /\ Len(plan) \in Nat /\ i \in Nat /\ i >= 1 /\ j \in Nat
  BY <1>1
<1>3. ASSUME NEW k \in 1..(j - i + 1)
      PROVE  {d - i + 1 : d \in plan[i + k - 1].deps \intersect (i..j)} \subseteq 1..(k - 1)
  <2>1. i + k - 1 \in DOMAIN plan
    BY <1>2
  <2>2. plan[i + k - 1].deps \subseteq 1..(i + k - 1 - 1)
    BY <2>1 DEF Library!LibraryConstants
  <2> QED BY <1>2, <2>2
<1> QED BY <1>3 DEF Library!Fragment

\* The library is sound (macros/library.py, governance.py): an active macro is verified unless its history says
\* why not, an expansion depends on nothing outside it, and every macro stored was seen in three recorded plans.
THEOREM LibraryIsSound == ASSUME Library!LibraryConstants PROVE LibrarySpec => []Library!LibrarySound
<1>1. ASSUME LibraryInv PROVE Library!ActiveVetted
  <2> SUFFICES ASSUME NEW id \in MacroIds, active[id.name] = id.version, Library!Settled(id), todo = <<>>
               PROVE  Library!Readable(id) /\ macros[id].status = "verified"
    BY DEF Library!ActiveVetted, Library!Version
  <2> QED BY <1>1 DEF LibraryInv, ActiveKept, VettedOr, Dropping, Library!Readable
<1>2. ASSUME LibraryInv PROVE Library!WellFounded
  BY <1>2, SameCardinality DEF LibraryInv, MacrosFounded, Founded, Holding, Library!WellFounded, Library!Threshold
<1>3. ASSUME LibraryInv, Library!LibraryConstants PROVE Library!ExpansionClosed
  <2> SUFFICES ASSUME NEW id \in MacroIds
               PROVE  LET expanded == Library!Expand(id, TRUE) IN
                      \A n \in DOMAIN expanded : expanded[n].deps \subseteq {expanded[k].id : k \in 1..(n - 1)}
    BY DEF Library!ExpansionClosed
  <2> DEFINE expanded == Library!Expand(id, TRUE)
  <2> SUFFICES \A n \in DOMAIN expanded : expanded[n].deps \subseteq {expanded[k].id : k \in 1..(n - 1)}
    OBVIOUS
  <2>1. CASE ~Library!Readable(id)
    <3>1. expanded = <<>>
      BY <2>1 DEF Library!Expand
    <3> HIDE DEF expanded
    <3> QED BY <3>1
  <2>2. CASE Library!Readable(id)
    <3> DEFINE steps == [i \in DOMAIN macros[id].types |->
                           [id |-> <<id, i>>, type |-> macros[id].types[i], deps |-> {<<id, d>> : d \in macros[id].shape[i]}]]
    <3>1. expanded = steps
      BY <2>2 DEF Library!Expand
    <3>1a. DOMAIN steps = DOMAIN macros[id].types
           /\ \A k \in DOMAIN steps : steps[k].id = <<id, k>> /\ steps[k].deps = {<<id, d>> : d \in macros[id].shape[k]}
      OBVIOUS
    <3> HIDE DEF expanded, steps
    <3> SUFFICES ASSUME NEW n \in DOMAIN steps PROVE steps[n].deps \subseteq {steps[k].id : k \in 1..(n - 1)}
      BY <3>1
    <3>2. Founded(macros[id]) /\ LibraryTypes
      BY <1>3, <2>2 DEF LibraryInv, MacrosFounded, Library!Readable
    <3>3. PICK p \in DOMAIN SavedPlans : \E i \in DOMAIN SavedPlans[p] : \E j \in (i + 1)..Len(SavedPlans[p]) :
             [types |-> macros[id].types, shape |-> macros[id].shape] = Library!Fragment(SavedPlans[p], i, j)
      BY <1>3, <3>2, FoundedHeld
    <3>3a. PICK i \in DOMAIN SavedPlans[p] : \E j \in (i + 1)..Len(SavedPlans[p]) :
             [types |-> macros[id].types, shape |-> macros[id].shape] = Library!Fragment(SavedPlans[p], i, j)
      BY <3>3
    <3>4. PICK j \in (i + 1)..Len(SavedPlans[p]) :
             [types |-> macros[id].types, shape |-> macros[id].shape] = Library!Fragment(SavedPlans[p], i, j)
      BY <3>3a
    <3> DEFINE f == Library!Fragment(SavedPlans[p], i, j)
    <3>5. DOMAIN f.types = 1..(j - i + 1) /\ \A k \in 1..(j - i + 1) : f.shape[k] \subseteq 1..(k - 1)
      BY <1>3, FragmentClosed
    <3>6. f.types = macros[id].types /\ f.shape = macros[id].shape
      BY <3>4
    <3> HIDE DEF f
    <3>7. DOMAIN macros[id].types = 1..(j - i + 1) /\ \A k \in 1..(j - i + 1) : macros[id].shape[k] \subseteq 1..(k - 1)
      BY <3>5, <3>6
    <3>8. n \in 1..(j - i + 1) /\ macros[id].shape[n] \subseteq 1..(n - 1)
      BY <3>1a, <3>7
    <3>9. \A k \in 1..(n - 1) : k \in DOMAIN macros[id].types
      <4>1. i \in Int /\ j \in Int
        BY <1>3 DEF Library!LibraryConstants
      <4> QED BY <3>7, <3>8, <4>1
    <3>10. steps[n].deps = {<<id, d>> : d \in macros[id].shape[n]} /\ \A k \in 1..(n - 1) : steps[k].id = <<id, k>>
      BY <3>1a, <3>7, <3>8, <3>9
    <3>11. \A d \in macros[id].shape[n] : <<id, d>> \in {steps[k].id : k \in 1..(n - 1)}
      BY <3>8, <3>10
    <3> QED BY <3>10, <3>11
  <2> QED BY <2>1, <2>2
<1> QED BY <1>1, <1>2, <1>3, LibraryInvariant, PTL DEF Library!LibrarySound

\* The files of the library keep their types, and every fragment names plans that were saved.
THEOREM LibraryTypeCorrect == ASSUME Library!LibraryConstants PROVE LibrarySpec => []Library!TypeOK
<1>1. ASSUME LibraryInv PROVE Library!TypeOK
  <2>1. \A f \in fragments : f.plans \subseteq 1..saved /\ f.plans # {}
    BY <1>1 DEF LibraryInv, FragmentsSeen, Holding
  <2>2. \A i \in DOMAIN proposals : proposals[i].id \in MacroIds /\ proposals[i].status \in {"proposed", "rejected", "adopted"}
    <3> DEFINE P == [types : Structures, shape : Shapes, id : MacroIds, status : {"proposed", "rejected", "adopted"}]
    <3>1. proposals \in Seq(P)
      BY <1>1 DEF LibraryInv, LibraryTypes
    <3>2. ASSUME NEW i \in DOMAIN proposals PROVE proposals[i] \in P
      <4> HIDE DEF P
      <4>1. i \in 1..Len(proposals)
        BY <3>1
      <4> QED BY <3>1, <4>1, ElementOfSeq
    <3> QED BY <3>2
  <2>3. \A id \in MacroIds : macros[id].status \in {"none", "pending", "verified", "deprecated"}
    BY <1>1 DEF LibraryInv, LibraryTypes, MacroFiles
  <2> QED BY <1>1, <2>1, <2>2, <2>3 DEF LibraryInv, LibraryTypes, Library!TypeOK
<1> QED BY <1>1, LibraryInvariant, PTL

-----------------------------------------------------------------------------
(* The optimizer: any saved plans, any candidates applied to any of them.  *)

CONSTANTS MaxVariants, MaxCalls
VARIABLES plans, candidates, variants, adopted, marks, calls

Optimize == INSTANCE Optimizer

\* A sequence, whatever is in it.
ElementsOf(s) == {s[i] : i \in DOMAIN s}
IsSeq(s) == s \in Seq(ElementsOf(s))
PlansSaved == IsSeq(plans) /\ \A p \in DOMAIN plans : IsSeq(plans[p].steps)
OptimizeSpec == PlansSaved /\ Optimize!Init /\ [][Optimize!Next]_(Optimize!vars)

\* The candidate is in a variant whose adoption was recorded.
InRecord(c) == \E i \in DOMAIN adopted : c \in variants[adopted[i]].made

CandidatesOk ==
  /\ IsSeq(candidates)
  /\ \A c \in DOMAIN candidates : /\ DOMAIN candidates[c] = {"type", "step", "status"}
                                  /\ candidates[c].status \in {"proposed", "adopted"}
                                  /\ candidates[c].status = "adopted" => InRecord(c)
  /\ \A c, k \in DOMAIN candidates : c # k => candidates[c].step # candidates[k].step \/ candidates[c].type # candidates[k].type

VariantsOk ==
  /\ IsSeq(variants)
  /\ \A v \in DOMAIN variants : /\ DOMAIN variants[v] = {"plan", "made", "result", "status"}
                                /\ variants[v].plan \in DOMAIN plans /\ variants[v].made \subseteq DOMAIN candidates

RecordsOk ==
  /\ IsSeq(adopted)
  /\ \A i \in DOMAIN adopted : adopted[i] \in DOMAIN variants /\ variants[adopted[i]].status = "passed"
  /\ marks \subseteq DOMAIN candidates /\ \A c \in marks : InRecord(c)
  /\ calls \in 0..MaxCalls

OptimizerInv == PlansSaved /\ CandidatesOk /\ VariantsOk /\ RecordsOk

-----------------------------------------------------------------------------
(* Sequences of anything.                                                  *)

LEMMA SeqMade ==
    ASSUME NEW n \in Nat, NEW s, s = [i \in 1..n |-> s[i]]
    PROVE  IsSeq(s) /\ Len(s) = n /\ DOMAIN s = 1..n
<1>1. DOMAIN s = 1..n
  OBVIOUS
<1>2. s \in [1..n -> ElementsOf(s)]
  BY <1>1 DEF ElementsOf
<1>3. s \in Seq(ElementsOf(s))
  BY <1>2, SeqDef
<1> QED BY <1>1, <1>3 DEF IsSeq

LEMMA SeqIs == ASSUME NEW s, IsSeq(s) PROVE Len(s) \in Nat /\ DOMAIN s = 1..Len(s) /\ s = [i \in 1..Len(s) |-> s[i]]
BY DEF IsSeq

LEMMA SeqAppended ==
    ASSUME NEW s, IsSeq(s), NEW x
    PROVE  /\ IsSeq(Append(s, x)) /\ DOMAIN Append(s, x) = DOMAIN s \union {Len(s) + 1}
           /\ Append(s, x)[Len(s) + 1] = x /\ \A i \in DOMAIN s : Append(s, x)[i] = s[i] /\ i # Len(s) + 1
<1> DEFINE t == Append(s, x)
           S == ElementsOf(s) \union {x}
<1>1. Len(s) \in Nat /\ DOMAIN s = 1..Len(s)
  BY SeqIs
<1>2. s \in Seq(S)
  BY SeqMonotonic DEF IsSeq
<1>3. t \in Seq(S) /\ Len(t) = Len(s) + 1 /\ DOMAIN t = 1..(Len(s) + 1) /\ t[Len(s) + 1] = x /\ \A i \in 1..Len(s) : t[i] = s[i]
  <2> HIDE DEF S
  <2>1. x \in S
    BY DEF S
  <2> QED BY <1>1, <1>2, <2>1
<1> HIDE DEF t, S
<1>4. t = [i \in 1..(Len(s) + 1) |-> t[i]]
  BY <1>3
<1>5. IsSeq(t)
  BY <1>1, <1>4, SeqMade
<1> QED BY <1>1, <1>3, <1>5 DEF t

LEMMA SeqJoined ==
    ASSUME NEW s, NEW t, IsSeq(s), IsSeq(t)
    PROVE  /\ IsSeq(s \o t) /\ DOMAIN (s \o t) = 1..(Len(s) + Len(t))
           /\ \A i \in DOMAIN s : (s \o t)[i] = s[i]
           /\ \A i \in 1..(Len(s) + Len(t)) : i \notin DOMAIN s => i - Len(s) \in DOMAIN t /\ (s \o t)[i] = t[i - Len(s)]
<1> DEFINE u == s \o t
           S == ElementsOf(s) \union ElementsOf(t)
<1>1. Len(s) \in Nat /\ DOMAIN s = 1..Len(s) /\ Len(t) \in Nat /\ DOMAIN t = 1..Len(t)
  BY SeqIs
<1>2. s \in Seq(S) /\ t \in Seq(S)
  BY SeqMonotonic DEF IsSeq
<1> HIDE DEF S
<1>3. u \in Seq(S) /\ Len(u) = Len(s) + Len(t)
      /\ \A i \in 1..(Len(s) + Len(t)) : u[i] = IF i <= Len(s) THEN s[i] ELSE t[i - Len(s)]
  BY <1>2, ConcatProperties
<1> HIDE DEF u
<1>4. u = [i \in 1..(Len(s) + Len(t)) |-> u[i]]
  BY <1>1, <1>3
<1>5. IsSeq(u) /\ DOMAIN u = 1..(Len(s) + Len(t))
  BY <1>1, <1>4, SeqMade
<1> QED BY <1>1, <1>3, <1>5 DEF u

LEMMA SeqChanged ==
    ASSUME NEW s, IsSeq(s), NEW i \in DOMAIN s, NEW x
    PROVE  /\ IsSeq([s EXCEPT ![i] = x]) /\ DOMAIN [s EXCEPT ![i] = x] = DOMAIN s
           /\ \A k \in DOMAIN s : [s EXCEPT ![i] = x][k] = IF k = i THEN x ELSE s[k]
<1> DEFINE t == [s EXCEPT ![i] = x]
<1>1. Len(s) \in Nat /\ DOMAIN s = 1..Len(s) /\ s = [k \in 1..Len(s) |-> s[k]]
  BY SeqIs
<1>2. DOMAIN t = 1..Len(s) /\ t = [k \in 1..Len(s) |-> t[k]] /\ \A k \in DOMAIN s : t[k] = IF k = i THEN x ELSE s[k]
  BY <1>1
<1> HIDE DEF t
<1>3. IsSeq(t)
  BY <1>1, <1>2, SeqMade
<1> QED BY <1>1, <1>2, <1>3 DEF t

-----------------------------------------------------------------------------
\* What a function makes of finitely many values is finite.
LEMMA FiniteImage == ASSUME NEW S, IsFiniteSet(S), NEW f, DOMAIN f = S PROVE IsFiniteSet({f[x] : x \in S})
<1> DEFINE g == [x \in S |-> f[x]]
<1>2. {g[x] : x \in S} = {f[x] : x \in S} /\ g \in [S -> {f[x] : x \in S}] /\ \A y \in {f[x] : x \in S} : \E x \in S : g[x] = y
  OBVIOUS
<1>3. g \in Surjection(S, {f[x] : x \in S})
  BY <1>2 DEF Surjection
<1> QED BY <1>3, FS_Surjection

\* A plan has finitely many candidates.
LEMMA FoundFinite == ASSUME NEW plan, IsSeq(plan.steps) PROVE IsFiniteSet(Optimize!Found(plan))
<1> DEFINE s == plan.steps
<1>1. Len(s) \in Nat /\ DOMAIN s = 1..Len(s) /\ IsFiniteSet(DOMAIN s)
  <2>1. Len(s) \in Nat /\ DOMAIN s = 1..Len(s)
    BY SeqIs
  <2> QED BY <2>1, FS_Interval
<1>2. IsFiniteSet(Optimize!Duplicates(plan))
  <2> DEFINE J == {j \in DOMAIN s : s[j].type = "validate_output"
                     /\ \E i \in 1..(j - 1) : /\ s[i].type = s[j].type /\ s[i].target = s[j].target /\ s[i].words = s[j].words
                                              /\ \A k \in (i + 1)..(j - 1) : ~(s[k].target = s[i].target /\ s[k].type \in Optimize!Mutating)}
             f == [j \in J |-> [type |-> "duplicate_elimination", step |-> s[j].id]]
  <2>1. IsFiniteSet(J)
    BY <1>1, FS_Subset
  <2>2. Optimize!Duplicates(plan) = {[type |-> "duplicate_elimination", step |-> s[j].id] : j \in J}
    BY DEF Optimize!Duplicates
  <2> HIDE DEF J
  <2>3. {[type |-> "duplicate_elimination", step |-> s[j].id] : j \in J} = {f[j] : j \in J} /\ DOMAIN f = J
    OBVIOUS
  <2> HIDE DEF f
  <2> QED BY <2>1, <2>2, <2>3, FiniteImage
<1>3. \A first, second : Optimize!Adjacent(plan, first, second) \subseteq 1..Len(s) /\ IsFiniteSet(Optimize!Adjacent(plan, first, second))
  <2>1. \A first, second : Optimize!Adjacent(plan, first, second) \subseteq 1..Len(s)
    BY <1>1 DEF Optimize!Adjacent
  <2> QED BY <1>1, <2>1, FS_Subset
<1>4. IsFiniteSet(Optimize!Collapses(plan))
  <2> DEFINE J == Optimize!Adjacent(plan, "write_file", "read_file")
             f == [i \in J |-> [type |-> "io_collapse", step |-> s[i + 1].id]]
  <2>1. Optimize!Collapses(plan) = {[type |-> "io_collapse", step |-> s[i + 1].id] : i \in J}
    BY DEF Optimize!Collapses
  <2>2. IsFiniteSet(J)
    BY <1>3
  <2> HIDE DEF J
  <2>3. {[type |-> "io_collapse", step |-> s[i + 1].id] : i \in J} = {f[j] : j \in J} /\ DOMAIN f = J
    OBVIOUS
  <2> HIDE DEF f
  <2> QED BY <2>1, <2>2, <2>3, FiniteImage
<1>5. IsFiniteSet(Optimize!Weaker(plan))
  <2> DEFINE J == Optimize!Adjacent(plan, "verify_file_exists", "validate_output")
             f == [i \in J |-> [type |-> "validation_collapse", step |-> s[i].id]]
  <2>1. Optimize!Weaker(plan) = {[type |-> "validation_collapse", step |-> s[i].id] : i \in J}
    BY DEF Optimize!Weaker
  <2>2. IsFiniteSet(J)
    BY <1>3
  <2> HIDE DEF J
  <2>3. {[type |-> "validation_collapse", step |-> s[i].id] : i \in J} = {f[j] : j \in J} /\ DOMAIN f = J
    OBVIOUS
  <2> HIDE DEF f
  <2> QED BY <2>1, <2>2, <2>3, FiniteImage
<1> QED BY <1>2, <1>4, <1>5, FS_Union DEF Optimize!Found

LEMMA AllFoundFinite == ASSUME PlansSaved PROVE IsFiniteSet(UNION {Optimize!Found(plans[p]) : p \in DOMAIN plans})
<1> DEFINE f == [p \in DOMAIN plans |-> Optimize!Found(plans[p])]
<1>1. IsFiniteSet(DOMAIN plans)
  <2>1. Len(plans) \in Nat /\ DOMAIN plans = 1..Len(plans)
    BY SeqIs DEF PlansSaved
  <2> QED BY <2>1, FS_Interval
<1>2. {Optimize!Found(plans[p]) : p \in DOMAIN plans} = {f[p] : p \in DOMAIN plans} /\ DOMAIN f = DOMAIN plans
  OBVIOUS
<1>3. \A p \in DOMAIN plans : IsFiniteSet(f[p])
  BY FoundFinite DEF PlansSaved
<1> HIDE DEF f
<1>4. IsFiniteSet({f[p] : p \in DOMAIN plans})
  BY <1>1, <1>2, FiniteImage
<1> QED BY <1>2, <1>3, <1>4, FS_UNION

LEMMA OptimizeCardinality == ASSUME NEW S PROVE Optimize!Cardinality(S) = Cardinality(S)
BY DEF Optimize!Cardinality, Cardinality

\* A finite set can be listed, each element once.
LEMMA Listing ==
    ASSUME NEW S, IsFiniteSet(S)
    PROVE  LET order == CHOOSE f \in [1..Cardinality(S) -> S] : {f[i] : i \in DOMAIN f} = S IN
           /\ Cardinality(S) \in Nat /\ order \in [1..Cardinality(S) -> S] /\ {order[i] : i \in DOMAIN order} = S
           /\ \A i, k \in 1..Cardinality(S) : order[i] = order[k] => i = k
<1> DEFINE n == Cardinality(S)
           order == CHOOSE f \in [1..n -> S] : {f[i] : i \in DOMAIN f} = S
<1>1. n \in Nat /\ ExistsBijection(1..n, S)
  BY FS_CardinalityType
<1>2. PICK b \in [1..n -> S] : \A y \in S : \E x \in 1..n : b[x] = y
  BY <1>1 DEF ExistsBijection, Bijection, Surjection, Injection
<1>3. {b[i] : i \in DOMAIN b} = S
  BY <1>2
<1>4. order \in [1..n -> S] /\ {order[i] : i \in DOMAIN order} = S
  BY <1>3
<1> HIDE DEF order
<1>5. order \in Surjection(1..n, S)
  <2>1. \A y \in S : \E x \in 1..n : order[x] = y
    BY <1>4
  <2> QED BY <1>4, <2>1 DEF Surjection
<1>6. IsFiniteSet(1..n) /\ Cardinality(1..n) = n
  <2>1. IsFiniteSet(1..n) /\ Cardinality(1..n) = IF 1 > n THEN 0 ELSE n - 1 + 1
    BY <1>1, FS_Interval
  <2> QED BY <1>1, <2>1
<1>7. order \in Injection(1..n, S)
  BY <1>5, <1>6, FS_SurjSameCardinalityImpliesInj
<1>8. \A i, k \in 1..n : order[i] = order[k] => i = k
  BY <1>7 DEF Injection, IsInjective
<1> QED BY <1>1, <1>4, <1>8 DEF order

\* Merging keeps what is listed in its place; what it adds is proposed, and neither listed already nor added twice.
LEMMA MergedIs ==
    ASSUME CandidatesOk, NEW new, IsFiniteSet(new), \A c \in new : c = [type |-> c.type, step |-> c.step],
           NEW m, m = Optimize!Merged(new)
    PROVE  /\ IsSeq(m) /\ DOMAIN candidates \subseteq DOMAIN m /\ \A c \in DOMAIN candidates : m[c] = candidates[c]
           /\ \A c \in DOMAIN m : c \notin DOMAIN candidates => DOMAIN m[c] = {"type", "step", "status"} /\ m[c].status = "proposed"
           /\ \A c, k \in DOMAIN m : c # k => m[c].step # m[k].step \/ m[c].type # m[k].type
<1> DEFINE fresh == {c \in new : ~Optimize!Listed(c)}
           n == Cardinality(fresh)
           order == CHOOSE f \in [1..n -> fresh] : {f[i] : i \in DOMAIN f} = fresh
           added == [i \in DOMAIN order |-> [type |-> order[i].type, step |-> order[i].step, status |-> "proposed"]]
<1>1. m = candidates \o added
  BY OptimizeCardinality DEF Optimize!Merged
<1>2. IsFiniteSet(fresh)
  BY FS_Subset
<1> HIDE DEF fresh
<1>3. /\ n \in Nat /\ order \in [1..n -> fresh] /\ \A i, k \in 1..n : order[i] = order[k] => i = k
  BY <1>2, Listing
<1> HIDE DEF n, order
<1>4. /\ added = [i \in 1..n |-> added[i]]
      /\ \A i \in 1..n : /\ DOMAIN added[i] = {"type", "step", "status"} /\ added[i].status = "proposed"
                         /\ added[i].type = order[i].type /\ added[i].step = order[i].step
  BY <1>3
<1> HIDE DEF added
<1>5. IsSeq(added) /\ Len(added) = n /\ DOMAIN added = 1..n
  BY <1>3, <1>4, SeqMade
<1>6. IsSeq(candidates) /\ Len(candidates) \in Nat /\ DOMAIN candidates = 1..Len(candidates)
  BY SeqIs DEF CandidatesOk
<1>7. /\ IsSeq(m) /\ DOMAIN m = 1..(Len(candidates) + n)
      /\ \A i \in DOMAIN candidates : m[i] = candidates[i]
      /\ \A i \in DOMAIN m : i \notin DOMAIN candidates => i - Len(candidates) \in 1..n /\ m[i] = added[i - Len(candidates)]
  BY <1>1, <1>5, <1>6, SeqJoined
<1>8. DOMAIN candidates \subseteq DOMAIN m
  BY <1>3, <1>6, <1>7
<1>9. /\ \A f, g \in fresh : f = g \/ f.step # g.step \/ f.type # g.type
      /\ \A f \in fresh, c \in DOMAIN candidates : candidates[c].type # f.type \/ candidates[c].step # f.step
  <2>1. \A f \in fresh : f \in new /\ ~Optimize!Listed(f)
    BY DEF fresh
  <2>2. \A f, g \in fresh : f.step = g.step /\ f.type = g.type => f = g
    BY <2>1
  <2> QED BY <2>1, <2>2 DEF Optimize!Listed
<1>10. ASSUME NEW c \in DOMAIN m, c \notin DOMAIN candidates
       PROVE  /\ c - Len(candidates) \in 1..n /\ order[c - Len(candidates)] \in fresh
              /\ DOMAIN m[c] = {"type", "step", "status"} /\ m[c].status = "proposed"
              /\ m[c].type = order[c - Len(candidates)].type /\ m[c].step = order[c - Len(candidates)].step
  <2>1. c - Len(candidates) \in 1..n /\ m[c] = added[c - Len(candidates)]
    BY <1>7, <1>10
  <2> QED BY <1>3, <1>4, <2>1
<1>11. ASSUME NEW c \in DOMAIN m, NEW k \in DOMAIN m, c # k PROVE m[c].step # m[k].step \/ m[c].type # m[k].type
  <2>1. CASE c \in DOMAIN candidates /\ k \in DOMAIN candidates
    BY <1>7, <1>11, <2>1 DEF CandidatesOk
  <2>2. CASE c \in DOMAIN candidates /\ k \notin DOMAIN candidates
    BY <1>7, <1>9, <1>10, <2>2
  <2>3. CASE c \notin DOMAIN candidates /\ k \in DOMAIN candidates
    BY <1>7, <1>9, <1>10, <2>3
  <2>4. CASE c \notin DOMAIN candidates /\ k \notin DOMAIN candidates
    <3>1. order[c - Len(candidates)] # order[k - Len(candidates)]
      <4>1. c - Len(candidates) # k - Len(candidates)
        BY <1>6, <1>7, <1>11
      <4> QED BY <1>3, <1>10, <2>4, <4>1
    <3> QED BY <1>9, <1>10, <2>4, <3>1
  <2> QED BY <2>1, <2>2, <2>3, <2>4
<1> QED BY <1>7, <1>8, <1>10, <1>11

LEMMA OptimizerAnalyzeKeeps == ASSUME MaxCalls \in Nat, OptimizerInv, Optimize!Analyze PROVE OptimizerInv'
<1> DEFINE new == UNION {Optimize!Found(plans[p]) : p \in DOMAIN plans}
<1>1. /\ candidates' = Optimize!Merged(new) /\ calls' = calls + 1 /\ calls < MaxCalls /\ marks = {}
      /\ UNCHANGED <<plans, variants, adopted, marks>>
  BY DEF Optimize!Analyze
<1>2. IsFiniteSet(new)
  BY AllFoundFinite DEF OptimizerInv
<1>3. \A c \in new : c = [type |-> c.type, step |-> c.step]
  <2>1. \A plan : \A c \in Optimize!Found(plan) : c = [type |-> c.type, step |-> c.step]
    BY DEF Optimize!Found, Optimize!Duplicates, Optimize!Collapses, Optimize!Weaker
  <2> QED BY <2>1
<1> HIDE DEF new
<1>4. /\ IsSeq(candidates') /\ DOMAIN candidates \subseteq DOMAIN candidates' /\ \A c \in DOMAIN candidates : candidates'[c] = candidates[c]
      /\ \A c \in DOMAIN candidates' : c \notin DOMAIN candidates =>
           DOMAIN candidates'[c] = {"type", "step", "status"} /\ candidates'[c].status = "proposed"
      /\ \A c, k \in DOMAIN candidates' : c # k => candidates'[c].step # candidates'[k].step \/ candidates'[c].type # candidates'[k].type
  BY <1>1, <1>2, <1>3, MergedIs DEF OptimizerInv
<1>5. CandidatesOk'
  <2>1. \A c : InRecord(c) <=> InRecord(c)'
    BY <1>1 DEF InRecord
  <2>2. \A c \in DOMAIN candidates' : /\ DOMAIN candidates'[c] = {"type", "step", "status"}
                                      /\ candidates'[c].status \in {"proposed", "adopted"}
                                      /\ candidates'[c].status = "adopted" => InRecord(c)
    BY <1>4 DEF OptimizerInv, CandidatesOk
  <2>3. IsSeq(candidates)'
    BY <1>4 DEF IsSeq, ElementsOf
  <2> QED BY <1>4, <2>1, <2>2, <2>3 DEF CandidatesOk
<1>6. VariantsOk'
  BY <1>1, <1>4 DEF OptimizerInv, VariantsOk, IsSeq, ElementsOf
<1>7. RecordsOk'
  BY <1>1, <1>4 DEF OptimizerInv, RecordsOk, IsSeq, ElementsOf, InRecord
<1>8. PlansSaved'
  BY <1>1 DEF OptimizerInv, PlansSaved, IsSeq, ElementsOf
<1> QED BY <1>5, <1>6, <1>7, <1>8 DEF OptimizerInv

\* What a step that leaves the plans alone keeps of them; being a sequence is the same before and after.
LEMMA PlansKept == ASSUME OptimizerInv, UNCHANGED plans PROVE PlansSaved'
BY DEF OptimizerInv, PlansSaved, IsSeq, ElementsOf

LEMMA MaterializeKeeps ==
    ASSUME MaxCalls \in Nat, OptimizerInv, NEW made \in SUBSET DOMAIN candidates, NEW p \in DOMAIN plans, Optimize!Materialize(made, p)
    PROVE  OptimizerInv'
<1> DEFINE new == [plan |-> p, made |-> made, result |-> Optimize!Optimized(plans[p], made), status |-> "pending"]
<1>1. marks = {} /\ variants' = Append(variants, new) /\ UNCHANGED <<plans, candidates, adopted, marks, calls>>
  BY DEF Optimize!Materialize
<1>2. DOMAIN new = {"plan", "made", "result", "status"} /\ new.plan = p /\ new.made = made
  OBVIOUS
<1> HIDE DEF new
<1>3. /\ IsSeq(variants') /\ DOMAIN variants' = DOMAIN variants \union {Len(variants) + 1}
      /\ variants'[Len(variants) + 1] = new /\ \A v \in DOMAIN variants : variants'[v] = variants[v]
  BY <1>1, SeqAppended DEF OptimizerInv, VariantsOk
<1>4. VariantsOk'
  <2>1. \A v \in DOMAIN variants' : /\ DOMAIN variants'[v] = {"plan", "made", "result", "status"}
                                    /\ variants'[v].plan \in DOMAIN plans /\ variants'[v].made \subseteq DOMAIN candidates
    BY <1>2, <1>3 DEF OptimizerInv, VariantsOk
  <2>2. IsSeq(variants)'
    BY <1>3 DEF IsSeq, ElementsOf
  <2> QED BY <1>1, <2>1, <2>2 DEF VariantsOk
<1>5. RecordsOk' /\ CandidatesOk'
  <2>1. \A i \in DOMAIN adopted : adopted[i] \in DOMAIN variants' /\ variants'[adopted[i]] = variants[adopted[i]]
    BY <1>3 DEF OptimizerInv, RecordsOk
  <2>2. \A c : InRecord(c)' <=> InRecord(c)
    BY <1>1, <2>1 DEF InRecord
  <2> QED BY <1>1, <2>1, <2>2 DEF OptimizerInv, RecordsOk, CandidatesOk, IsSeq, ElementsOf
<1> QED BY <1>1, <1>4, <1>5, PlansKept DEF OptimizerInv

LEMMA OptimizerVerifyKeeps ==
    ASSUME MaxCalls \in Nat, OptimizerInv, NEW v \in DOMAIN variants, Optimize!Verify(v)
    PROVE  OptimizerInv'
<1> DEFINE new == [variants[v] EXCEPT !.status = "passed"]
<1>1. variants' = [variants EXCEPT ![v] = new] /\ UNCHANGED <<plans, candidates, adopted, marks, calls>>
  BY DEF Optimize!Verify
<1>2. DOMAIN new = {"plan", "made", "result", "status"} /\ new.plan = variants[v].plan /\ new.made = variants[v].made /\ new.status = "passed"
  BY DEF OptimizerInv, VariantsOk
<1> HIDE DEF new
<1>3. /\ IsSeq(variants') /\ DOMAIN variants' = DOMAIN variants
      /\ \A k \in DOMAIN variants : variants'[k] = IF k = v THEN new ELSE variants[k]
  BY <1>1, SeqChanged DEF OptimizerInv, VariantsOk
<1>4. VariantsOk'
  <2>1. \A k \in DOMAIN variants' : /\ DOMAIN variants'[k] = {"plan", "made", "result", "status"}
                                    /\ variants'[k].plan \in DOMAIN plans /\ variants'[k].made \subseteq DOMAIN candidates
    BY <1>2, <1>3 DEF OptimizerInv, VariantsOk
  <2>2. IsSeq(variants)'
    BY <1>3 DEF IsSeq, ElementsOf
  <2> QED BY <1>1, <2>1, <2>2 DEF VariantsOk
<1>5. RecordsOk' /\ CandidatesOk'
  <2>1. \A i \in DOMAIN adopted : adopted[i] \in DOMAIN variants' /\ variants'[adopted[i]].status = "passed"
                                   /\ variants'[adopted[i]].made = variants[adopted[i]].made
    BY <1>2, <1>3 DEF OptimizerInv, RecordsOk
  <2>2. \A c : InRecord(c)' <=> InRecord(c)
    BY <1>1, <2>1 DEF InRecord
  <2> QED BY <1>1, <2>1, <2>2 DEF OptimizerInv, RecordsOk, CandidatesOk, IsSeq, ElementsOf
<1> QED BY <1>1, <1>4, <1>5, PlansKept DEF OptimizerInv

LEMMA OptimizerAdoptKeeps ==
    ASSUME MaxCalls \in Nat, OptimizerInv, NEW v \in DOMAIN variants, Optimize!Adopt(v)
    PROVE  OptimizerInv'
<1>1. /\ marks = {} /\ calls < MaxCalls /\ variants[v].status = "passed" /\ adopted' = Append(adopted, v)
      /\ marks' = variants[v].made /\ calls' = calls + 1 /\ UNCHANGED <<plans, candidates, variants>>
  BY DEF Optimize!Adopt, Optimize!MayAdopt
<1>2. /\ IsSeq(adopted') /\ DOMAIN adopted' = DOMAIN adopted \union {Len(adopted) + 1}
      /\ adopted'[Len(adopted) + 1] = v /\ \A i \in DOMAIN adopted : adopted'[i] = adopted[i]
  BY <1>1, SeqAppended DEF OptimizerInv, RecordsOk
<1>3. \A c : InRecord(c) => InRecord(c)'
  BY <1>1, <1>2 DEF InRecord
<1>4. \A c \in marks' : c \in DOMAIN candidates /\ InRecord(c)'
  <2>1. \A c \in marks' : c \in variants'[adopted'[Len(adopted) + 1]].made
    BY <1>1, <1>2
  <2> QED BY <1>1, <1>2, <2>1 DEF OptimizerInv, VariantsOk, InRecord
<1>5. RecordsOk'
  <2>1. IsSeq(adopted)'
    BY <1>2 DEF IsSeq, ElementsOf
  <2>2. \A i \in DOMAIN adopted' : adopted'[i] \in DOMAIN variants /\ variants[adopted'[i]].status = "passed"
    BY <1>1, <1>2 DEF OptimizerInv, RecordsOk
  <2>3. calls' \in 0..MaxCalls
    BY <1>1 DEF OptimizerInv, RecordsOk
  <2> QED BY <1>1, <1>4, <2>1, <2>2, <2>3 DEF RecordsOk
<1>6. CandidatesOk' /\ VariantsOk'
  BY <1>1, <1>3 DEF OptimizerInv, CandidatesOk, VariantsOk, IsSeq, ElementsOf
<1> QED BY <1>1, <1>5, <1>6, PlansKept DEF OptimizerInv

LEMMA MarkKeeps ==
    ASSUME MaxCalls \in Nat, OptimizerInv, NEW c \in marks, Optimize!Mark(c)
    PROVE  OptimizerInv'
<1> DEFINE new == [candidates[c] EXCEPT !.status = "adopted"]
<1>1. candidates' = [candidates EXCEPT ![c] = new] /\ marks' = marks \ {c} /\ UNCHANGED <<plans, variants, adopted, calls>>
  BY DEF Optimize!Mark
<1>2. c \in DOMAIN candidates /\ InRecord(c)
  BY DEF OptimizerInv, RecordsOk
<1>3. DOMAIN new = {"type", "step", "status"} /\ new.type = candidates[c].type /\ new.step = candidates[c].step /\ new.status = "adopted"
  BY <1>2 DEF OptimizerInv, CandidatesOk
<1> HIDE DEF new
<1>4. /\ IsSeq(candidates') /\ DOMAIN candidates' = DOMAIN candidates
      /\ \A k \in DOMAIN candidates : candidates'[k] = IF k = c THEN new ELSE candidates[k]
  BY <1>1, <1>2, SeqChanged DEF OptimizerInv, CandidatesOk
<1>5. \A k : InRecord(k)' <=> InRecord(k)
  BY <1>1 DEF InRecord
<1>6. CandidatesOk'
  <2>1. IsSeq(candidates)'
    BY <1>4 DEF IsSeq, ElementsOf
  <2>2. \A k \in DOMAIN candidates : candidates'[k].type = candidates[k].type /\ candidates'[k].step = candidates[k].step
    BY <1>3, <1>4
  <2>3. \A k, l \in DOMAIN candidates' : k # l => candidates'[k].step # candidates'[l].step \/ candidates'[k].type # candidates'[l].type
    BY <1>4, <2>2 DEF OptimizerInv, CandidatesOk
  <2>4. \A k \in DOMAIN candidates' : /\ DOMAIN candidates'[k] = {"type", "step", "status"}
                                      /\ candidates'[k].status \in {"proposed", "adopted"}
                                      /\ candidates'[k].status = "adopted" => InRecord(k)
    BY <1>2, <1>3, <1>4 DEF OptimizerInv, CandidatesOk
  <2> QED BY <1>5, <2>1, <2>3, <2>4 DEF CandidatesOk
<1>7. VariantsOk' /\ RecordsOk'
  BY <1>1, <1>4, <1>5 DEF OptimizerInv, VariantsOk, RecordsOk, IsSeq, ElementsOf
<1> QED BY <1>1, <1>6, <1>7, PlansKept DEF OptimizerInv

LEMMA OptimizerStep == ASSUME MaxCalls \in Nat, OptimizerInv, [Optimize!Next]_(Optimize!vars) PROVE OptimizerInv'
<1>1. ASSUME UNCHANGED <<plans, candidates, variants, adopted, calls>>, marks' \subseteq marks PROVE OptimizerInv'
  <2>1. \A c : InRecord(c)' <=> InRecord(c)
    BY <1>1 DEF InRecord
  <2>2. CandidatesOk' /\ VariantsOk'
    BY <1>1, <2>1 DEF OptimizerInv, CandidatesOk, VariantsOk, IsSeq, ElementsOf
  <2>3. RecordsOk'
    BY <1>1, <2>1 DEF OptimizerInv, RecordsOk, IsSeq, ElementsOf
  <2> QED BY <1>1, <2>2, <2>3, PlansKept DEF OptimizerInv
<1>2. CASE UNCHANGED Optimize!vars
  BY <1>1, <1>2 DEF Optimize!vars
<1>3. CASE Optimize!Interrupt
  BY <1>1, <1>3 DEF Optimize!Interrupt
<1>4. CASE Optimize!Next /\ ~Optimize!Interrupt
  BY <1>4, OptimizerAnalyzeKeeps, MaterializeKeeps, OptimizerVerifyKeeps, OptimizerAdoptKeeps, MarkKeeps DEF Optimize!Next
<1> QED BY <1>2, <1>3, <1>4

LEMMA OptimizerInvariant == ASSUME MaxCalls \in Nat PROVE OptimizeSpec => []OptimizerInv
<1>1. ASSUME PlansSaved, Optimize!Init PROVE OptimizerInv
  <2>1. IsSeq(<<>>)
    BY DEF IsSeq
  <2> QED BY <1>1, <2>1 DEF Optimize!Init, OptimizerInv, CandidatesOk, VariantsOk, RecordsOk
<1>2. MaxCalls \in Nat /\ OptimizerInv /\ [Optimize!Next]_(Optimize!vars) => OptimizerInv'
  BY OptimizerStep
<1> QED BY <1>1, <1>2, PTL DEF OptimizeSpec

\* The optimizer's lists agree (optimization/adoption.py): whatever is analysed, made, adopted and cut short, only variants
\* that passed are on record, and a candidate that says it is adopted is in one of them.
THEOREM AdoptionsOnRecord == ASSUME MaxCalls \in Nat PROVE OptimizeSpec => []Optimize!AdoptionsRecorded
<1>1. OptimizerInv => Optimize!AdoptionsRecorded
  BY DEF OptimizerInv, CandidatesOk, RecordsOk, InRecord, Optimize!AdoptionsRecorded
<1> QED BY <1>1, OptimizerInvariant, PTL

\* No candidate is listed twice, and variants are made of listed candidates and saved plans.
THEOREM OptimizerTypeCorrect == ASSUME MaxCalls \in Nat PROVE OptimizeSpec => []Optimize!TypeOK
<1>1. OptimizerInv => Optimize!TypeOK
  BY DEF OptimizerInv, CandidatesOk, VariantsOk, RecordsOk, Optimize!TypeOK
<1> QED BY <1>1, OptimizerInvariant, PTL
=============================================================================
