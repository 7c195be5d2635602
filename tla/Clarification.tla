----------------------------- MODULE Clarification -----------------------------
(***************************************************************************)
(* The questions asked before a request is turned into a draft (Demo10,    *)
(* services/planning): the model splits the request into intents, what     *)
(* they leave open becomes issues, issues that block become questions, and *)
(* the answers are written into the intents, whose plan is built anew.     *)
(* The window does not get this far, since it drops the message that would *)
(* hand it a session; the services and their use by the handlers are what  *)
(* is modelled.  An intent says whether it names a framework, a            *)
(* persistence, a target.                                                  *)
(***************************************************************************)
EXTENDS Naturals, Sequences, FiniteSets

CONSTANTS Requests          \* what the model may make of a request: sequences of intents [id, type, has, hint]

VARIABLES
  request,                  \* NormalizedRequest.intents
  skeleton,                 \* PlanningSkeleton
  issues, questions,        \* of the ClarificationSession
  answers,                  \* which questions are answered
  status

vars == <<request, skeleton, issues, questions, answers, status>>

\* An intent says which of the words it is about it names.
RequestConstants == Requests \subseteq Seq([id : STRING, type : STRING, has : SUBSET {"framework", "persistence", "target", "deferred"}, hint : BOOLEAN])

Has(intent, what) == what \in intent.has
OnTarget == {"fix_bug", "add_feature", "refactor_local"}

\* What an intent of this type must name.
Needs(type) ==
  CASE type = "add_ui"          -> {"framework"}
    [] type = "add_persistence" -> {"persistence"}
    [] type \in OnTarget        -> {"target"}
    [] OTHER                    -> {}

Issue(what, id, i) == [what |-> what, intent |-> id, at |-> i]

\* detect_issues, an intent at a time; the id of an issue is made of its kind and the intent's id.
Detected(r, broad) ==
  {x \in {Issue("broad", "", 0)} : broad}
  \union UNION {{Issue(what, r[i].id, i) : what \in Needs(r[i].type) \ r[i].has} : i \in DOMAIN r}

Blocking(iss) == {x \in iss : x.what # "broad"}

\* A step per intent, each after the one before.
Skeleton(r) ==
  [steps |-> [i \in DOMAIN r |-> [intent |-> r[i].id, deferred |-> Has(r[i], "deferred"), conditional |-> r[i].hint]],
   broad |-> Len(r) > 5]

FirstOf(S) == {x \in S : \A y \in S : x.at <= y.at}

\* Mutant: the other issues of an intent that has a group are forgotten.
Bug_Asked(iss) ==
  LET Of(id, what) == FirstOf({x \in iss : x.intent = id /\ x.what = what})
  IN {IF Of(x.intent, "framework") = {} \/ Of(x.intent, "persistence") = {} THEN {x}
      ELSE Of(x.intent, "framework") \union Of(x.intent, "persistence") : x \in iss}

\* build_minimal_questions: the first framework and the first persistence missing for an id are asked for at once.
Asked(iss) ==
  LET Of(id, what) == FirstOf({x \in iss : x.intent = id /\ x.what = what})
      Stack(id) == Of(id, "framework") \union Of(id, "persistence")
      Grouped(x) == x \in Stack(x.intent) /\ Cardinality(Stack(x.intent)) = 2
  IN {IF Grouped(x) THEN Stack(x.intent) ELSE {x} : x \in iss}

-----------------------------------------------------------------------------
Init ==
  /\ request = <<>> /\ skeleton = Skeleton(<<>>)
  /\ issues = {} /\ questions = {} /\ answers = {} /\ status = "none"

\* normalize, build and create_session, in the worker of decompose_request; an answer of the model that is not JSON
\* leaves a request without intents.
Decompose ==
  /\ status = "none"
  /\ \E r \in Requests \union {<<>>} :
       /\ request' = r /\ skeleton' = Skeleton(r)
       /\ issues' = Detected(r, Skeleton(r).broad)
  /\ questions' = Asked(Blocking(issues'))
  /\ status' = IF questions' = {} THEN "resolved" ELSE "awaiting"
  /\ answers' = {}

\* The first intent of that id.
Holder(id) == CHOOSE i \in DOMAIN request : request[i].id = id /\ \A j \in 1..(i - 1) : request[j].id # id

Gains(x, word) ==
  CASE x.what = "target" /\ word = "defer" -> {"deferred"}
    [] OTHER                               -> {x.what}

\* Mutant: the answer is kept, and changes nothing.
Bug_Applied(q, word) == request

\* apply_answers: a framework, a persistence or a target is written into the intent it was asked for.
Applied(q, word) ==
  [i \in DOMAIN request |->
     [request[i] EXCEPT !.has = @ \union UNION {Gains(x, word) : x \in {y \in q : Holder(y.intent) = i}}]]

\* submit_clarification_answer.  An answered question has no input any more.
Answer ==
  /\ status \in {"awaiting", "partly"}
  /\ \E q \in questions \ answers, word \in {"choice", "defer"} :
       /\ request' = Applied(q, word)
       /\ answers' = answers \union {q}
  /\ skeleton' = Skeleton(request')
  /\ status' = IF answers' = questions THEN "resolved" ELSE "partly"
  /\ UNCHANGED <<issues, questions>>

Next == Decompose \/ Answer
Spec == Init /\ [][Next]_vars

-----------------------------------------------------------------------------
(* Properties.                                                             *)

TypeOK ==
  /\ status \in {"none", "awaiting", "partly", "resolved"}
  /\ answers \subseteq questions /\ UNION questions \subseteq issues

UniqueIds == \A i, j \in DOMAIN request : request[i].id = request[j].id => i = j

\* Every issue that blocks is asked about in one question.  When the session counts as resolved, looking again would
\* find nothing that blocks except targets the user put off, provided the model gave every intent an id of its own
\* (clarification_service.py, question_builder.py); and the plan shown is that of the request as answered.
ClarificationSettles ==
  /\ skeleton = Skeleton(request)
  /\ \A x \in Blocking(issues) : Cardinality({q \in questions : x \in q}) = 1
  /\ status = "resolved" /\ UniqueIds => \A x \in Blocking(Detected(request, FALSE)) : x.what = "target" /\ Has(request[x.at], "deferred")
=============================================================================
