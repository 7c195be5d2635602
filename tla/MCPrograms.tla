------------------------------ MODULE MCPrograms ------------------------------
(***************************************************************************)
(* Small instances of the programs, for TLC.                               *)
(***************************************************************************)
EXTENDS Programs

(* The single-file orchestrator: a spec with one retry, and one without that wants main() and may use input(). *)
File(path, content) == [path |-> path, content |-> content]
TwoSpecs == <<[allowed |-> {"main", "test"}, input |-> FALSE, entry |-> FALSE, budget |-> 1],
              [allowed |-> {"main", "test"}, input |-> TRUE, entry |-> TRUE, budget |-> 0]>>
ModelAnswers == {<<>>, <<File("main", "plain")>>, <<File("main", "entry"), File("test", "suite")>>,
                 <<File("main", "asks"), File("test", "suite of main")>>, <<File("main", "entry"), File("main", "entry")>>,
                 <<File("unsafe", "plain")>>, <<File("outside", "plain")>>}

(* Demo5: two files that can be indexed, one of them with a block that sums it up, and two that cannot; a narrow    *)
(* question, and one for rows that needs coverage.                                                                 *)
Text(strong, score) == [strong |-> strong, score |-> score, block |-> FALSE]
Sum(strong, score) == [strong |-> strong, score |-> score, block |-> TRUE]
Uploads == <<[kind |-> "pdf", pieces |-> <<Text(FALSE, 5), Text(TRUE, 1), Text(TRUE, 4)>>],
             [kind |-> "xlsx", pieces |-> <<Text(FALSE, 3), Sum(TRUE, 0)>>],
             [kind |-> "unsupported", pieces |-> <<>>], [kind |-> "xls", pieces |-> <<>>]>>
LookUps == {[top |-> 2, cap |-> 2, most |-> 2, coverage |-> FALSE, attempts |-> 3, rows |-> FALSE],
            [top |-> 2, cap |-> 1, most |-> 3, coverage |-> TRUE, attempts |-> 4, rows |-> TRUE]}
Sayings == {[about |-> "a", question |-> FALSE], [about |-> "a", question |-> TRUE]}

(* Its personal store, which knows Cornelia: statements about her and about a midwife, in whose name the store reads *)
(* "wife", and questions after them.                                                                               *)
Told(key, words, named, resolves, name, question) ==
  [key |-> key, words |-> words, named |-> named, resolves |-> resolves, person |-> name, question |-> question]
Birthday == Told("cornelia's birthday is on 22 november.", {"cornelia", "birthday", "22", "november"}, {"cornelia"}, TRUE, TRUE, FALSE)
Family == Told("we decided to use whatsapp for family communication.", {"decided", "use", "whatsapp", "family", "communication"}, {}, FALSE, FALSE, FALSE)
Sentences == {Birthday,
  Told("my midwife is anna", {"midwife", "anna"}, {}, TRUE, FALSE, FALSE),
  Told("anna will call me", {"anna", "call"}, {}, FALSE, FALSE, FALSE),
  Told("anna lives in utrecht", {"anna", "live", "utrecht"}, {}, FALSE, FALSE, FALSE),
  Told("who is anna?", {"anna"}, {"anna"}, FALSE, FALSE, TRUE),
  Told("who is my midwife?", {"midwife"}, {}, TRUE, FALSE, TRUE),
  Told("when is cornelia's birthday?", {"cornelia", "birthday"}, {"cornelia"}, TRUE, FALSE, TRUE)}

(* Demo8: a folder r with the subdirectory a, which has c and d, of which d cannot be read, scanned by one worker, *)
(* then opened again while that scan goes on; and the same folder with b beside a, which has two more, scanned by  *)
(* two workers.                                                                                                    *)
Folder == {"r", "a", "c", "d"}
WideFolder == Folder \union {"b", "e", "f"}
Above == [x \in Folder \ {"r"} |-> IF x = "a" THEN "r" ELSE "a"]
WideAbove == [x \in WideFolder \ {"r"} |-> CASE x \in {"a", "b"} -> "r" [] x \in {"c", "d"} -> "a" [] OTHER -> "b"]

\* The proofs' assumptions hold of these.
ASSUME ProgramsGiven == ProgramsConstants
=============================================================================
