----------------------------- MODULE MacroLibrary -----------------------------
(***************************************************************************)
(* Demo10's macro library: sequences of steps seen in several plans *)
(* are proposed, adopted, verified and activated as macros, one command of *)
(* macro_cli.py at a time.  A command writes its files one after another;  *)
(* it can be interrupted between two of them.                              *)
(***************************************************************************)
EXTENDS Naturals, Sequences, FiniteSets

CONSTANTS
  Recorded,     \* the plans the planner will save, oldest first: sequences of [type, deps]
  Window,       \* how many plans an analysis looks at (10 in the code)
  Ids,          \* the macros a user may propose: [name, version]
  MaxProposals, MaxInterrupts

VARIABLES
  saved,        \* the plans saved so far
  fragments,    \* fragments.json: a set of [types, shape, plans]
  proposals,    \* promotion_candidates.json
  macros,       \* macro.json of each id
  contracts,    \* the ids with a contracts.json
  active,       \* library.json: active_versions
  todo,         \* the files the command still has to write
  revised,      \* history: the ids adopted again while they were active
  halved        \* history: the ids whose deprecation was cut short; how many commands were

vars == <<saved, fragments, proposals, macros, contracts, active, todo, revised, halved>>

\* Recorded plans are sequences of steps that depend on earlier ones; an id is its name and its version, which is never "none".
LibraryConstants ==
  /\ Recorded \in Seq(Seq([type : STRING, deps : SUBSET Nat]))
  /\ \A p \in DOMAIN Recorded : \A k \in DOMAIN Recorded[p] : Recorded[p][k].deps \subseteq 1..(k - 1)
  /\ \A a, b \in Ids : a.name = b.name /\ a.version = b.version => a = b
  /\ \A id \in Ids : id.version # "none"

Names == {id.name : id \in Ids}
NoMacro == [types |-> <<>>, shape |-> <<>>, status |-> "none"]
Threshold == 3                       \* plans that must have held the fragment

-----------------------------------------------------------------------------
(* Fragments.                                                              *)

\* Mutant: the indices of the plan are kept.
Bug_Fragment(plan, i, j) ==
  [types |-> [k \in 1..(j - i + 1) |-> plan[i + k - 1].type],
   shape |-> [k \in 1..(j - i + 1) |-> plan[i + k - 1].deps \intersect (i..j)]]

\* The steps i..j of a plan: dependencies on steps outside are forgotten, the others count from the first.
Fragment(plan, i, j) ==
  [types |-> [k \in 1..(j - i + 1) |-> plan[i + k - 1].type],
   shape |-> [k \in 1..(j - i + 1) |-> {d - i + 1 : d \in plan[i + k - 1].deps \intersect (i..j)}]]

Runs(plan) == UNION {{Fragment(plan, i, j) : j \in (i + 1)..Len(plan)} : i \in DOMAIN plan}

\* _aggregate_fragments: one entry for each structure, with the plans it was seen in.
Aggregated(chosen) ==
  {[types |-> f.types, shape |-> f.shape, plans |-> {p \in chosen : f \in Runs(Recorded[p])}]
     : f \in UNION {Runs(Recorded[p]) : p \in chosen}}

\* _load_plans: the last Window by name.  A plan's name is random, so these may be any, not the recent ones.
Loaded == {chosen \in SUBSET (1..saved) : Cardinality(chosen) = IF saved < Window THEN saved ELSE Window}

Same(f, g) == f.types = g.types /\ f.shape = g.shape

\* Mutant: a fragment of two plans will do.
Bug_Eligible(f) == Cardinality(f.plans) >= 2

\* Every step takes its operation's instruction, so the input contract is never empty.
Eligible(f) == Cardinality(f.plans) >= Threshold

-----------------------------------------------------------------------------
(* The library.                                                            *)

\* get_macro raises when the contracts are missing.
Readable(id) == macros[id].status # "none" /\ id \in contracts
Version(name) == active[name]

\* Mutant: any macro can be activated.
Bug_MayActivate(id) == TRUE

MayActivate(id) == macros[id].status = "verified"

\* add_macro_version: macro.json, then contracts.json.
Store(id, macro) == <<[file |-> "macro", id |-> id, macro |-> macro, at |-> 0],
                      [file |-> "contracts", id |-> id, macro |-> macro, at |-> 0]>>

\* Mutant: a deprecated macro stays active.
Bug_Deprecation(id) == Store(id, [macros[id] EXCEPT !.status = "deprecated"])

Deprecation(id) ==
  Store(id, [macros[id] EXCEPT !.status = "deprecated"])
    \o IF Version(id.name) = id.version THEN <<[file |-> "library", id |-> id, macro |-> NoMacro, at |-> 0]>> ELSE <<>>

Adoption(i) ==
  LET p == proposals[i] IN
  Store(p.id, [types |-> p.types, shape |-> p.shape, status |-> "pending"])
    \o <<[file |-> "proposals", id |-> p.id, macro |-> NoMacro, at |-> i]>>

\* expand_macro: the steps of a macro, their dependencies renamed with them; <<>> when it fails.
Expand(id, given) ==
  IF ~Readable(id) \/ ~given THEN <<>>
  ELSE [i \in DOMAIN macros[id].types |->
          [id |-> <<id, i>>, type |-> macros[id].types[i], deps |-> {<<id, d>> : d \in macros[id].shape[i]}]]

Init ==
  /\ saved = 0 /\ fragments = {} /\ proposals = <<>>
  /\ macros = [id \in Ids |-> NoMacro] /\ contracts = {} /\ active = [n \in Names |-> "none"]
  /\ todo = <<>> /\ revised = {} /\ halved = <<>>

-----------------------------------------------------------------------------
NewPlan ==
  /\ saved < Len(Recorded)
  /\ saved' = saved + 1
  /\ UNCHANGED <<fragments, proposals, macros, contracts, active, todo, revised, halved>>

\* optimize-analyze: the new list replaces the old one.
Analyze ==
  /\ todo = <<>> /\ saved > 0
  /\ \E chosen \in Loaded : fragments' = Aggregated(chosen)
  /\ UNCHANGED <<saved, proposals, macros, contracts, active, todo, revised, halved>>

Propose(f, id) ==
  /\ todo = <<>> /\ Len(proposals) < MaxProposals
  /\ proposals' = Append(proposals, [types |-> f.types, shape |-> f.shape, id |-> id,
                                     status |-> IF Eligible(f) THEN "proposed" ELSE "rejected"])
  /\ UNCHANGED <<saved, fragments, macros, contracts, active, todo, revised, halved>>

Adopt(i) ==
  /\ todo = <<>>
  /\ proposals[i].status = "proposed"
  /\ \E f \in fragments : Same(f, proposals[i])
  /\ todo' = Adoption(i)
  /\ revised' = IF Version(proposals[i].id.name) = proposals[i].id.version THEN revised \union {proposals[i].id} ELSE revised
  /\ UNCHANGED <<saved, fragments, proposals, macros, contracts, active, halved>>

\* Whatever its status was.
Verify(id) ==
  /\ todo = <<>> /\ Readable(id)
  /\ todo' = Store(id, [macros[id] EXCEPT !.status = "verified"])
  /\ UNCHANGED <<saved, fragments, proposals, macros, contracts, active, revised, halved>>

Activate(id) ==
  /\ todo = <<>> /\ Readable(id) /\ MayActivate(id)
  /\ active' = [active EXCEPT ![id.name] = id.version]
  /\ UNCHANGED <<saved, fragments, proposals, macros, contracts, todo, revised, halved>>

Deprecate(id) ==
  /\ todo = <<>> /\ Readable(id)
  /\ todo' = Deprecation(id)
  /\ UNCHANGED <<saved, fragments, proposals, macros, contracts, active, revised, halved>>

\* The next file of the command.
Write ==
  /\ todo # <<>>
  /\ LET w == Head(todo) IN
       /\ macros' = IF w.file = "macro" THEN [macros EXCEPT ![w.id] = w.macro] ELSE macros
       /\ contracts' = IF w.file = "contracts" THEN contracts \union {w.id} ELSE contracts
       /\ active' = IF w.file = "library" THEN [active EXCEPT ![w.id.name] = "none"] ELSE active
       /\ proposals' = IF w.file = "proposals" THEN [proposals EXCEPT ![w.at].status = "adopted"] ELSE proposals
  /\ todo' = Tail(todo)
  /\ UNCHANGED <<saved, fragments, revised, halved>>

\* The command is interrupted between two files.
Interrupt ==
  /\ todo # <<>> /\ Len(halved) < MaxInterrupts
  /\ halved' = Append(halved, Head(todo).id)
  /\ todo' = <<>>
  /\ UNCHANGED <<saved, fragments, proposals, macros, contracts, active, revised>>

Next ==
  \/ NewPlan \/ Analyze \/ Write \/ Interrupt
  \/ \E f \in fragments, id \in Ids : Propose(f, id)
  \/ \E i \in DOMAIN proposals : Adopt(i)
  \/ \E id \in Ids : Verify(id) \/ Activate(id) \/ Deprecate(id)

UnderWay == todo # <<>>

-----------------------------------------------------------------------------
TypeOK ==
  /\ saved \in 0..Len(Recorded)
  /\ \A f \in fragments : f.plans \subseteq 1..saved /\ f.plans # {}
  /\ \A i \in DOMAIN proposals : proposals[i].id \in Ids /\ proposals[i].status \in {"proposed", "rejected", "adopted"}
  /\ \A id \in Ids : macros[id].status \in {"none", "pending", "verified", "deprecated"}
  /\ contracts \subseteq Ids /\ revised \subseteq Ids
  /\ active \in [Names -> {id.version : id \in Ids} \union {"none"}]

(* A macro a plain name resolves to has been verified, unless it was       *)
(* adopted anew while active or a command about it was cut short: what     *)
(* these two leave is the only way an unverified macro is expanded.        *)
Settled(id) == id \notin revised /\ \A i \in DOMAIN halved : halved[i] # id
ActiveVetted ==
  \A id \in Ids : Version(id.name) = id.version /\ Settled(id) /\ todo = <<>> => Readable(id) /\ macros[id].status = "verified"

(* An expansion is closed: every dependency of a step is a step before it  *)
(* in the same expansion, wherever in its plan the fragment was found.     *)
ExpansionClosed ==
  \A id \in Ids :
    LET steps == Expand(id, TRUE) IN
    \A i \in DOMAIN steps : steps[i].deps \subseteq {steps[k].id : k \in 1..(i - 1)}

(* Nothing gets into the library that fewer than Threshold plans held: an  *)
(* adopted structure was at some time in as many of the recorded plans.    *)
WellFounded ==
  \A id \in Ids : macros[id].status # "none" =>
    Cardinality({p \in 1..saved : [types |-> macros[id].types, shape |-> macros[id].shape] \in Runs(Recorded[p])}) >= Threshold

\* The library as a whole: active macros are vetted, expansions closed, fragments seen often enough.
LibrarySound == ActiveVetted /\ ExpansionClosed /\ WellFounded
=============================================================================
