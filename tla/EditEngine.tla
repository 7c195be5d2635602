------------------------------ MODULE EditEngine ------------------------------
(***************************************************************************)
(* The structured edits of Demo10/editing: an instruction names an anchor  *)
(* in a Python file and what to do there.  A text is a sequence of lines,  *)
(* a line one of the kinds the resolver, the parser and the symbol check   *)
(* tell apart; the anchors name the function f, the class C, one import,   *)
(* one line and one region.                                                *)
(***************************************************************************)
EXTENDS Integers, FiniteSets, SequencesExt

Heads == {"def f", "class C"}
Binds == Heads \union {"x = 1"}
Lines == Binds \union {"@d", "    pass", "import m", "# BEGIN", "# END", "", "("}

-----------------------------------------------------------------------------
(* What the parser says of a text.                                         *)

Next1(text, i) == {j \in i + 1..Len(text) : text[j] # "" /\ \A k \in i + 1..j - 1 : text[k] = ""}
Prev1(text, i) == {j \in 1..i - 1 : text[j] # "" /\ \A k \in j + 1..i - 1 : text[k] = ""}

IsBlank(text) == \A i \in DOMAIN text : text[i] = ""

\* ast.parse: a head needs a body, a body a head, a decorator something to decorate.
Parses(text) == \A i \in DOMAIN text :
  /\ text[i] # "("
  /\ text[i] \in Heads => \E j \in Next1(text, i) : text[j] = "    pass"
  /\ text[i] = "    pass" => \E j \in Prev1(text, i) : text[j] \in Heads \union {"    pass"}
  /\ text[i] = "@d" => \E j \in Next1(text, i) : text[j] \in Heads \union {"@d"}

Defines(text, head) == Parses(text) /\ \E i \in DOMAIN text : text[i] = head
DuplicateSymbols(text) == \E i, j \in DOMAIN text : i # j /\ text[i] = text[j] /\ text[i] \in Binds

-----------------------------------------------------------------------------
(* Where an anchor is: the set of line ranges it matches.                  *)

Least(S) == CHOOSE x \in S : \A y \in S : x <= y
Greatest(S) == CHOOSE x \in S : \A y \in S : y <= x

BlockStart(text, i) == Least({k \in 1..i : \A j \in k..i - 1 : text[j] = "@d"})
BlockEnd(text, i) ==
  LET stop == Least({j \in i + 1..Len(text) : text[j] \notin {"", "    pass"}} \union {Len(text) + 1})
  IN Greatest({i} \union {j \in i + 1..stop - 1 : text[j] # ""})

Where(text, line) == {i \in DOMAIN text : text[i] = line}
Blocks(text, head) == {<<BlockStart(text, i), BlockEnd(text, i)>> : i \in Where(text, head)}
Regions(text) == {r \in Where(text, "# BEGIN") \X Where(text, "# END") :
  r[1] < r[2] /\ \A k \in r[1] + 1..r[2] - 1 : text[k] \notin {"# BEGIN", "# END"}}

Resolve(text, anchor) ==
  CASE anchor = "file_start" -> {<<1, 1>>}
    [] anchor = "file_end" -> {<<Greatest({1, Len(text)}), Greatest({1, Len(text)})>>}
    [] anchor = "function" -> Blocks(text, "def f")
    [] anchor = "class" -> Blocks(text, "class C")
    [] anchor = "import" -> {<<i, i>> : i \in Where(text, "import m")}
    [] anchor = "line_match" -> {<<i, i>> : i \in Where(text, "x = 1")}
    [] anchor = "region_marker" -> Regions(text)

-----------------------------------------------------------------------------
(* What an operation does there.                                           *)

\* Blank lines at the ends go, a run of them inside counts as one.
Normal(text) ==
  LET kept == {i \in DOMAIN text : text[i] # "" \/ (Prev1(text, i) # {} /\ Next1(text, i) # {} /\ text[i - 1] # "")}
  IN [n \in 1..Cardinality(kept) |-> text[CHOOSE i \in kept : Cardinality({j \in kept : j <= i}) = n]]
Stripped(text) == IF IsBlank(text) THEN <<>> ELSE SubSeq(text, Least({i \in DOMAIN text : text[i] # ""}),
                                                               Greatest({i \in DOMAIN text : text[i] # ""}))
Holds(text, part) == \E i \in 0..Len(text) - Len(part) : SubSeq(text, i + 1, i + Len(part)) = part

Failed(text, why) == [status |-> "failed", text |-> text, why |-> why]
NoOp(text) == [status |-> "no_op", text |-> text, why |-> ""]
Edited(text) == [status |-> "applied", text |-> text, why |-> ""]

Spliced(text, first, last, payload) == SubSeq(text, 1, first - 1) \o payload \o SubSeq(text, last + 1, Len(text))

Replace(text, range, payload) ==
  IF Normal(SubSeq(text, range[1], range[2])) = Normal(payload) THEN NoOp(text)
  ELSE Edited(Spliced(text, range[1], range[2], payload))

Bug_AppendIfMissing(text, payload) == IF Normal(payload) = Normal(text) THEN NoOp(text) ELSE Edited(text \o payload)
AppendIfMissing(text, payload) ==
  IF (Holds(text, payload) \/ Normal(payload) = Normal(text)) /\ Holds(text, Stripped(payload)) THEN NoOp(text)
  ELSE Edited(text \o payload)

EnsureImport(text, payload) ==
  IF \E i \in DOMAIN text : <<text[i]>> = payload THEN NoOp(text)
  ELSE LET at == Greatest({0} \union Where(text, "import m")) IN Edited(Spliced(text, at + 1, at, payload))

EnsureSymbol(text, head, payload) ==
  LET found == Blocks(text, head)
  IN IF Cardinality(found) = 1 THEN Replace(text, CHOOSE r \in found : TRUE, payload) ELSE AppendIfMissing(text, payload)

Anchored == {"insert_before", "insert_after", "replace_block", "delete_block"}
Ensuring == {"append_if_missing", "ensure_import", "ensure_function", "ensure_class"}

Edit(text, op, anchor, payload) ==
  LET found == Resolve(text, anchor)
      at == CHOOSE r \in found : TRUE
  IN IF op \in Anchored /\ found = {} THEN Failed(text, "patch_target_not_found")
     ELSE IF Cardinality(found) > 1 THEN Failed(text, "patch_match_count_mismatch")
     ELSE
       CASE op = "insert_before" -> Edited(Spliced(text, at[1], at[1] - 1, payload))
       [] op = "insert_after" -> Edited(Spliced(text, at[2] + 1, at[2], payload))
       [] op = "replace_block" -> Replace(text, at, payload)
       [] op = "delete_block" -> Edited(Spliced(text, at[1], at[2], <<>>))
       [] op = "append_if_missing" -> AppendIfMissing(text, payload)
       [] op = "ensure_import" -> EnsureImport(text, payload)
       [] op = "ensure_function" -> EnsureSymbol(text, "def f", payload)
       [] op = "ensure_class" -> EnsureSymbol(text, "class C", payload)
=============================================================================
