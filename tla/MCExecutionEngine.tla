------------------------- MODULE MCExecutionEngine --------------------------
(***************************************************************************)
(* Plans for the model checker: every sequence of N steps from a menu of   *)
(* the step shapes the repository's tests and templates use, on one or two *)
(* files, each step depending on the one before it.                        *)
(***************************************************************************)
EXTENDS ExecutionEngine

CONSTANTS f1, f2, a

Shape(type, target, content, pre, post, comp, template) ==
    [type |-> type, target |-> target, content |-> content, deps |-> {},
     pre |-> pre, post |-> post, comp |-> comp, template |-> template]

Create(f)    == Shape("create_file", f, a, {"path_valid", "file_not_exists"}, {"file_created"},
                      "reversible", "delete_created_file")
Overwrite(f) == Shape("create_file", f, a, {}, {"file_created"}, "reversible", "delete_created_file")
WriteIt(f)   == Shape("write_file", f, Absent, {}, {}, "reversible", "restore_file_backup")
Modify(f)    == Shape("modify_file", f, a, {"file_exists"}, {}, "compensatable", "restore_file_backup")
Verify(f)    == Shape("validate_output", f, Absent, {}, {"file_created"}, "reversible", "none")
Read(f)      == Shape("read_file", f, Absent, {}, {}, "non_reversible", "none")
Command      == Shape("run_command", NoTarget, Absent, {"path_valid"}, {}, "non_reversible", "none")
Shell        == Shape("run_command", NoTarget, Absent, {}, {}, "non_reversible", "none")
ReadBack(f)  == Shape("verify_changes", f, Absent, {}, {}, "non_reversible", "none")
Custom(f)    == Shape("analyze_code", f, Absent, {}, {}, "reversible", "other")

Chain(s) == [k \in Steps |-> [s[k] EXCEPT !.deps = IF k = 1 THEN {} ELSE {k - 1}]]

PlansFrom(menu) == {Chain(s) : s \in [Steps -> menu]}

\* One file, every shape; commands and checks between.
OneFile == PlansFrom({Create(f1), Overwrite(f1), WriteIt(f1), Modify(f1), Verify(f1), Read(f1),
                      Shell, Command, ReadBack(f1), Custom(f1)})

\* Two files, the shapes that write.
TwoFiles == PlansFrom({Create(f1), WriteIt(f1), Modify(f1), Overwrite(f2), Modify(f2), Shell})

\* Both.
AllPlans == OneFile \cup TwoFiles
=============================================================================
