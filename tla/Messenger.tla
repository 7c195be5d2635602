------------------------------ MODULE Messenger ------------------------------
(***************************************************************************)
(* Demo2: each click on Send or Get History puts a coroutine on the event  *)
(* loop, and all of them drive one browser page: its search box, its open  *)
(* chat, its keyboard.  Every await may let another coroutine go on.  The  *)
(* page is a web site's; it is modelled from how the code uses it.  The    *)
(* listener only reads the page, and is left out.                          *)
(***************************************************************************)
EXTENDS Naturals, Sequences, FiniteSets

CONSTANTS Contacts, None,
          Length,              \* characters of a message
          MaxAsked, MaxOpen    \* bounds on the clicks, and on the coroutines at one time

\* A message has a character, and no contact is the mark for none.
MessagesAreTexts == Length \in Nat \ {0} /\ None \notin Contacts \union {"search", "box"}

VARIABLES
  search, open, focus,         \* of the page: the search box, the open chat, what the keyboard goes to
  box,                         \* of the page: what is typed and not sent, for each chat
  ops,                         \* the coroutines: [id, kind, to, at, next]
  sent, histories, reported,   \* what left, what was read, and the replies logged as "Message sent."
  asked, crossed               \* history: who each click was for; those that were not alone on the page

page == <<search, open, focus, box>>
results == <<sent, histories, reported>>
vars == <<page, ops, results, asked, crossed>>

Init ==
  /\ search = None /\ open = None /\ focus = None /\ box = [c \in Contacts |-> <<>>]
  /\ ops = {} /\ sent = {} /\ histories = {} /\ reported = {}
  /\ asked = <<>> /\ crossed = {}

Stray == "stray"               \* a search for characters that were not meant for it
Shown == IF search = None THEN Contacts ELSE {search} \intersect Contacts
Onward(op, at) == ops' = (ops \ {op}) \union {[op EXCEPT !.at = at]}
Over(op) == ops' = ops \ {op}

\* send_message_callback and get_history_callback.
Click(kind, c) ==
  LET op == [id |-> Len(asked) + 1, kind |-> kind, to |-> c, at |-> "search", next |-> 1]
  IN /\ Len(asked) < MaxAsked /\ Cardinality(ops) < MaxOpen /\ asked' = Append(asked, c)
     /\ ops' = ops \union {op}
     /\ crossed' = IF ops = {} THEN crossed ELSE crossed \union {o.id : o \in ops'}
     /\ UNCHANGED <<page, results>>

Search(op) ==
  /\ op.at = "search" /\ search' = op.to /\ focus' = "search" /\ Onward(op, "chat")
  /\ UNCHANGED <<open, box, results, asked, crossed>>

ClickChat(op) ==
  /\ op.at = "chat" /\ op.to \in Shown /\ open' = op.to /\ focus' \in {None, "box"}
  /\ Onward(op, IF op.kind = "send" THEN "box" ELSE "read")
  /\ UNCHANGED <<search, box, results, asked, crossed>>

\* Mutant: the box is taken to have the keyboard once its chat is open.
Bug_BoxFocus == focus
BoxFocus == "box"

ClickBox(op) ==
  /\ op.at = "box" /\ focus' = BoxFocus /\ Onward(op, "type")
  /\ UNCHANGED <<search, open, box, results, asked, crossed>>

\* One character after the other, with a delay after each.
Type(op) ==
  /\ op.at = "type"
  /\ box' = IF focus = "box" THEN [box EXCEPT ![open] = Append(@, <<op.id, op.next>>)] ELSE box
  /\ search' = IF focus = "search" THEN Stray ELSE search
  /\ ops' = (ops \ {op}) \union {[op EXCEPT !.at = IF op.next = Length THEN "enter" ELSE "type", !.next = @ + 1]}
  /\ UNCHANGED <<open, focus, results, asked, crossed>>

\* "Message sent." is logged whatever the key did.
Enter(op) ==
  /\ op.at = "enter" /\ Onward(op, "clear") /\ reported' = reported \union {op.id}
  /\ IF focus = "box" /\ box[open] # <<>>
     THEN sent' = sent \union {[by |-> op.id, to |-> open, text |-> box[open]]} /\ box' = [box EXCEPT ![open] = <<>>]
     ELSE UNCHANGED <<sent, box>>
  /\ UNCHANGED <<search, open, focus, histories, asked, crossed>>

ClearSearch(op) ==
  /\ op.at = "clear" /\ search' = None /\ focus' = "search" /\ Over(op)
  /\ UNCHANGED <<open, box, results, asked, crossed>>

\* The messages of the chat that is open by now; the search is left as it is.
Read(op) ==
  /\ op.at = "read" /\ Over(op) /\ histories' = histories \union {[by |-> op.id, of |-> open]}
  /\ UNCHANGED <<page, sent, reported, asked, crossed>>

\* What is waited for does not appear in time, or the click finds no such chat: the operation is over, the page stays.
TimeOut(op) ==
  /\ op.at \in {"search", "chat", "box", "read", "clear"} /\ Over(op)
  /\ UNCHANGED <<page, results, asked, crossed>>

Step(op) ==
  Search(op) \/ ClickChat(op) \/ ClickBox(op) \/ Type(op) \/ Enter(op) \/ ClearSearch(op) \/ Read(op) \/ TimeOut(op)
Loop == \E op \in ops : Step(op)
Next == Loop \/ \E kind \in {"send", "history"}, c \in Contacts : Click(kind, c)

-----------------------------------------------------------------------------
(* Properties.                                                             *)

TypeOK ==
  /\ search \in Contacts \union {None, Stray} /\ open \in Contacts \union {None} /\ focus \in {None, "search", "box"}
  /\ \A op \in ops : op.at \in {"search", "chat", "box", "type", "enter", "clear", "read"} /\ op.next \in 1..Length + 1
  /\ reported \subseteq DOMAIN asked /\ crossed \subseteq DOMAIN asked

\* A reply that had the page to itself, from its click to its end, and is logged as sent went to its contact, whole and
\* after nothing but what replies that did not had left in the box; a history is then its contact's (send_reply,
\* get_history).  Nothing keeps two operations from overlapping, and then neither holds.
Whole(id) == [n \in 1..Length |-> <<id, n>>]
RepliesReach ==
  /\ \A id \in reported \ crossed : \E m \in sent :
       /\ m.by = id /\ m.to = asked[id]
       /\ \E k \in 0..Len(m.text) : SubSeq(m.text, k + 1, Len(m.text)) = Whole(id) /\ \A n \in 1..k : m.text[n][1] \in crossed
  /\ \A h \in histories : h.by \notin crossed => h.of = asked[h.by]

\* Every operation comes to its end.
UnderWay == ops # {}
=============================================================================
