----------------------------- MODULE PersonalStore -----------------------------
(***************************************************************************)
(* Demo5's personal mode: what the user says is kept, a statement as a     *)
(* fact, and a question is answered from the facts that match it best.     *)
(* A text is what the code takes from it: its key (lower case, one blank   *)
(* between words), its words without the stop words, the names it asks     *)
(* after, and whether the name, alias or relationship of the one person    *)
(* the store knows occurs in it, be it inside another word.  Each INSERT   *)
(* commits by itself, and the program may be ended between two.            *)
(***************************************************************************)
EXTENDS Naturals, Sequences, FiniteSets, SequencesExt

CONSTANTS Said,          \* what the user may say
          First, Second, \* the facts of bootstrap_personal_data
          PersonTerms,   \* _entity_terms of the person it inserts
          TopK, MaxSaid, MaxStops

\* The two facts of the bootstrap are two, and the first names the person, so that a later start knows that they were begun.
BootstrapFacts == First.person = TRUE /\ First.key # Second.key

\* A text has finitely many words.
TextsAreFinite == TopK \in Nat /\ \A what \in Said \union {First, Second} : IsFiniteSet(what.words)

VARIABLES person,        \* the person is in the store
          memories,      \* [text, category], in the order they were stored
          doing,         \* what the program is at: "off", "person", "first", "second", "idle", "fact", "search"
          text,          \* what it was last told
          reply,         \* status and memories of the last answer
          told,          \* history: statements the program came to answer
          said, stops

NoReply == [status |-> "none", memories |-> <<>>]
vars == <<person, memories, doing, text, reply, told, said, stops>>

Init ==
  /\ person = FALSE /\ memories = <<>> /\ doing = "off" /\ text = First
  /\ reply = NoReply /\ told = {} /\ said = 0 /\ stops = 0

Insert(what, category) == memories' = Append(memories, [text |-> what, category |-> category])
Facts == {i \in DOMAIN memories : memories[i].category = "fact"}

-----------------------------------------------------------------------------
(* The start of the program.                                               *)

Start ==
  /\ doing = "off" /\ doing' = "person"
  /\ UNCHANGED <<person, memories, text, reply, told, said, stops>>

BootstrapPerson ==
  /\ doing = "person" /\ person' = TRUE
  /\ doing' = IF \E i \in DOMAIN memories : memories[i].text.person THEN "idle" ELSE "first"
  /\ UNCHANGED <<memories, text, reply, told, said, stops>>

BootstrapMemories ==
  /\ \/ doing = "first" /\ Insert(First, "fact") /\ doing' = "second"
     \/ doing = "second" /\ Insert(Second, "fact") /\ doing' = "idle"
  /\ UNCHANGED <<person, text, reply, told, said, stops>>

-----------------------------------------------------------------------------
(* What is said.                                                           *)

PersistUserInput ==
  /\ doing = "idle" /\ said < MaxSaid /\ said' = said + 1
  /\ \E what \in Said : text' = what /\ Insert(what, "user_input")
  /\ doing' = "fact"
  /\ UNCHANGED <<person, reply, told, stops>>

\* Mutant: what was only typed counts as known.
Bug_FactAlreadyExists(what) == \E i \in DOMAIN memories : memories[i].text.key = what.key
FactAlreadyExists(what) == \E i \in Facts : memories[i].text.key = what.key

StoreFactIfStatement ==
  /\ doing = "fact" /\ doing' = "search"
  /\ IF text.question \/ FactAlreadyExists(text) THEN UNCHANGED memories ELSE Insert(text, "fact")
  /\ UNCHANGED <<person, text, reply, told, said, stops>>

Resolved(what) == person /\ what.resolves
Overlap(what, i) == what.words \intersect memories[i].text.words

\* Mutant: a question of one word matches nothing.
Bug_StrongMatch(what, i) == Cardinality(Overlap(what, i)) >= 2
StrongMatch(what, i) == Cardinality(Overlap(what, i)) >= 2 \/ (what.words # {} /\ Overlap(what, i) = what.words)

\* Of the person who was recognised, and of the one who was named.
OfEntity(what, i) ==
  /\ Resolved(what) => PersonTerms \intersect memories[i].text.words # {}
  /\ what.named # {} => what.named \intersect memories[i].text.words # {}

Score(what, i) ==
  Cardinality(Overlap(what, i)) + IF Resolved(what) /\ PersonTerms \intersect memories[i].text.words # {} THEN 2 ELSE 0

\* Mutant: the oldest first.
Bug_Before(what, i, j) == Score(what, i) > Score(what, j) \/ (Score(what, i) = Score(what, j) /\ i < j)
Before(what, i, j) == Score(what, i) > Score(what, j) \/ (Score(what, i) = Score(what, j) /\ i > j)

\* By score and then by time, the best TopK.
Relevant(what) == {i \in Facts : OfEntity(what, i) /\ StrongMatch(what, i)}
FilterRelevant(what) ==
  LET matching == Cardinality(Relevant(what))
  IN [n \in 1..(IF TopK < matching THEN TopK ELSE matching) |->
        CHOOSE i \in Relevant(what) : Cardinality({j \in Relevant(what) : Before(what, j, i)}) = n - 1]

\* The store knows one person, so that it never finds an answer ambiguous.
Retrieve(what) ==
  LET found == FilterRelevant(what)
  IN [memories |-> found,
      status |-> IF found # <<>> THEN "records_found"
                 ELSE IF ~Resolved(what) /\ what.named # {} THEN "no_entity" ELSE "no_fact"]

Answer ==
  /\ doing = "search" /\ doing' = "idle"
  /\ reply' = Retrieve(text)
  /\ told' = IF text.question THEN told ELSE told \union {text.key}
  /\ UNCHANGED <<person, memories, text, said, stops>>

Stop ==
  /\ doing # "off" /\ stops < MaxStops /\ stops' = stops + 1 /\ doing' = "off" /\ reply' = NoReply
  /\ UNCHANGED <<person, memories, text, told, said>>

Work == BootstrapPerson \/ BootstrapMemories \/ StoreFactIfStatement \/ Answer
Next == Start \/ Work \/ PersistUserInput \/ Stop

-----------------------------------------------------------------------------
(* Properties.                                                             *)

TypeOK ==
  /\ person \in BOOLEAN /\ text \in Said \union {First}
  /\ doing \in {"off", "person", "first", "second", "idle", "fact", "search"}
  /\ \A i \in DOMAIN memories : memories[i].category \in {"user_input", "fact"}
  /\ reply.status \in {"none", "records_found", "no_entity", "no_fact"}

\* A statement the program came to answer is a fact of the store, and no fact is there twice, however often it is told
\* and wherever the program was ended (persist_user_input, bootstrap_personal_data).
RemembersOnce ==
  /\ told \subseteq {memories[i].text.key : i \in Facts}
  /\ \A i, j \in Facts : memories[i].text.key = memories[j].text.key => i = j

\* A fact that holds all a question asks for is told: it is among the memories of the answer, or those are TopK newer
\* facts that hold it too (retrieve_personal_store_records).
Holds(what, i) == what.words # {} /\ what.words \subseteq memories[i].text.words
RecallsBest ==
  doing = "idle" /\ reply # NoReply => \A i \in Facts :
    Holds(text, i) /\ OfEntity(text, i) /\ i \notin ToSet(reply.memories) =>
      /\ Len(reply.memories) = TopK
      /\ \A j \in ToSet(reply.memories) : Holds(text, j) /\ j > i

\* What is said is answered, and a start comes to its end, unless the program is ended first.
UnderWay == doing \notin {"off", "idle"}
=============================================================================
