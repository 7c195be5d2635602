-------------------------------- MODULE WebPage --------------------------------
(***************************************************************************)
(* The page of the retrieval server (Demo5, static/app.js).  Its handlers  *)
(* are coroutines of one thread: whenever one awaits the answer to a       *)
(* request the user may click on and another may resume.  Requests reach   *)
(* the server and answers the page in any order, and either may be lost.   *)
(***************************************************************************)
EXTENDS Naturals, FiniteSets

CONSTANTS
  Stored,       \* the documents the server has at the start
  Uploaded,     \* the ids new documents may get
  MaxClicks, MaxOpen     \* bounds: what the user does, the handlers that await at a time

VARIABLES
  corpus,       \* the server's documents
  list,         \* allDocuments, as of the last list that came
  selected,     \* selectedDocumentIds
  count,        \* the size of the working set the page shows, 0 for the full corpus
  removable,    \* the button "Remove selected" is enabled
  mode,         \* modeSelect
  chatDoc,      \* chatDocumentId
  label,        \* the document named under the chat
  handlers,     \* the handlers that await an answer: [n, kind, at, left, cur, answer, data]
  unloaded,     \* history: the list was not loaded again after a removal
  used

vars == <<corpus, list, selected, count, removable, mode, chatDoc, label, handlers, unloaded, used>>
panel == <<selected, count, removable>>
chat == <<mode, chatDoc, label>>

None == 0
Ids == Stored \union Uploaded

Awaiting(kind, at, left, cur) ==
  [n |-> used + 1, kind |-> kind, at |-> at, left |-> left, cur |-> cur, answer |-> "pending", data |-> {}]
Begin(kind, at, left, cur) == Cardinality(handlers) < MaxOpen /\ handlers' = handlers \union {Awaiting(kind, at, left, cur)}
Running(kind) == \E h \in handlers : h.kind = kind
Replace(h, g) == handlers' = (handlers \ {h}) \union {g}

Init ==
  /\ corpus = Stored /\ list = {} /\ selected = {} /\ count = 0 /\ removable = FALSE
  /\ mode = "document" /\ chatDoc = None /\ label = None
  /\ handlers = {[n |-> 0, kind |-> "load", at |-> "load", left |-> {}, cur |-> None, answer |-> "pending", data |-> {}]}
  /\ unloaded = FALSE /\ used = 0

-----------------------------------------------------------------------------
(* What the page shows.                                                    *)

\* Mutant: a selected document stays selected whatever the list says.
Bug_Kept(sel, docs) == sel

\* loadIndexedDocs: documents that are gone leave the selection; the chat's document is not looked at.
Kept(sel, docs) == sel \intersect docs

\* updateScopeStatus
ShowScope(sel) == count' = Cardinality(sel) /\ removable' = (sel # {})

\* Mutant: the scope shown is left as it was.
Bug_Select(sel) == selected' = sel /\ UNCHANGED <<count, removable, unloaded>>

Select(sel) == selected' = sel /\ ShowScope(sel) /\ unloaded' = FALSE

\* Mutant: the label goes with the mode alone.
Bug_ShowChat(doc) == chatDoc' = doc /\ label' = label

\* updateChatGroundingDisplay: a document that is not in the list is forgotten.
ShowChat(doc) == LET shown == IF doc \in list THEN doc ELSE None IN chatDoc' = shown /\ label' = shown

-----------------------------------------------------------------------------
(* What the user does.                                                     *)

Click == used < MaxClicks /\ used' = used + 1

\* toggleDocumentSelection: in chat mode it is the document of the chat.
Toggle(id) ==
  /\ Click /\ id \in list
  /\ IF mode = "chat" THEN ShowChat(IF chatDoc = id THEN None ELSE id) /\ UNCHANGED <<panel, unloaded>>
     ELSE Select(IF id \in selected THEN selected \ {id} ELSE selected \union {id}) /\ UNCHANGED <<chatDoc, label>>
  /\ UNCHANGED <<corpus, list, mode, handlers>>

SelectAll == Click /\ Select(selected \union list) /\ UNCHANGED <<corpus, list, chat, handlers>>
ClearSelection == Click /\ Select({}) /\ UNCHANGED <<corpus, list, chat, handlers>>
ClearChatDoc == Click /\ ShowChat(None) /\ UNCHANGED <<corpus, list, panel, mode, handlers, unloaded>>

\* modeSelect's change: the label is hidden outside chat mode, the chat's document stays.
ChangeMode(m) ==
  /\ Click /\ m # mode /\ mode' = m
  /\ IF m = "chat" THEN ShowChat(chatDoc) ELSE label' = None /\ UNCHANGED chatDoc
  /\ UNCHANGED <<corpus, list, panel, handlers, unloaded>>

Refresh == Click /\ Begin("load", "load", {}, None) /\ UNCHANGED <<corpus, list, panel, chat, unloaded>>

\* The documents to remove are those selected when it begins, one request after the other.
RemoveSelected ==
  /\ Click /\ removable /\ selected # {}
  /\ removable' = FALSE
  /\ \E id \in selected : Begin("remove", "act", selected \ {id}, id)
  /\ UNCHANGED <<corpus, list, selected, count, chat, unloaded>>

ClearCorpus == Click /\ Begin("clear", "act", {}, None) /\ UNCHANGED <<corpus, list, panel, chat, unloaded>>

\* Both buttons of the upload are disabled while one goes on; a batch of two.
Upload == Click /\ ~Running("upload") /\ Begin("upload", "act", {1}, None) /\ UNCHANGED <<corpus, list, panel, chat, unloaded>>

\* sendMessage: the question carries the selection, and the chat's document in chat mode.
Ask ==
  /\ Click /\ ~Running("ask")
  /\ Begin("ask", "act", selected, IF mode = "chat" THEN chatDoc ELSE None)
  /\ UNCHANGED <<corpus, list, panel, chat, unloaded>>

-----------------------------------------------------------------------------
(* The server and the network.                                             *)

After(h) ==
  IF h.at = "load" THEN {corpus}
  ELSE IF h.kind = "remove" THEN {corpus \ {h.cur}}
  ELSE IF h.kind = "clear" THEN {{}}
  ELSE IF h.kind = "upload" THEN {corpus \union {id} : id \in Uploaded}     \* indexed now, or skipped as known
  ELSE {corpus}

\* The server acts and answers.
Serve(h) ==
  /\ h.answer = "pending"
  /\ \E docs \in After(h) : corpus' = docs
  /\ Replace(h, [h EXCEPT !.answer = "ok", !.data = IF h.at = "load" THEN corpus ELSE {}])
  /\ UNCHANGED <<list, panel, chat, unloaded, used>>

\* The server fails without acting, or the connection breaks, before or after it acted.
Lose(h) ==
  /\ h.answer \in {"pending", "ok"}
  /\ Replace(h, [h EXCEPT !.answer = "failed", !.data = {}])
  /\ UNCHANGED <<corpus, list, panel, chat, unloaded, used>>

-----------------------------------------------------------------------------
(* The handlers resume.                                                    *)

End(h) == handlers' = handlers \ {h}
Load(h) == Replace(h, [h EXCEPT !.at = "load", !.left = {}, !.cur = None, !.answer = "pending"])

\* Mutant: a list that does not come is waited for again, without end.
Bug_Loaded(h) ==
  /\ h.at = "load" /\ h.answer # "pending"
  /\ IF h.answer = "ok" THEN End(h) /\ list' = h.data /\ Select(Kept(selected, h.data))
     ELSE Load(h) /\ UNCHANGED <<list, panel, unloaded>>
  /\ UNCHANGED <<corpus, chat, used>>

\* loadIndexedDocs; when it fails the page stays as it is.
Loaded(h) ==
  /\ h.at = "load" /\ h.answer # "pending"
  /\ End(h)
  /\ IF h.answer = "ok" THEN list' = h.data /\ Select(Kept(selected, h.data))
     ELSE UNCHANGED <<list, panel>> /\ unloaded' = (unloaded \/ h.kind \in {"remove", "clear"})
  /\ UNCHANGED <<corpus, chat, used>>

\* One document removed, or not: then the next, and at the end the list.
RemovedOne(h) ==
  /\ h.kind = "remove" /\ h.at = "act" /\ h.answer # "pending"
  /\ selected' = IF h.answer = "ok" THEN selected \ {h.cur} ELSE selected
  /\ IF h.left = {} THEN Load(h)
     ELSE \E id \in h.left : Replace(h, [h EXCEPT !.left = @ \ {id}, !.cur = id, !.answer = "pending"])
  /\ UNCHANGED <<corpus, list, count, removable, chat, unloaded, used>>

Cleared(h) ==
  /\ h.kind = "clear" /\ h.at = "act" /\ h.answer # "pending"
  /\ IF h.answer = "ok" THEN selected' = {} /\ Load(h) ELSE UNCHANGED selected /\ End(h)
  /\ UNCHANGED <<corpus, list, count, removable, chat, unloaded, used>>

UploadedOne(h) ==
  /\ h.kind = "upload" /\ h.at = "act" /\ h.answer # "pending"
  /\ IF h.left = {} THEN Load(h) ELSE Replace(h, [h EXCEPT !.left = {}, !.answer = "pending"])
  /\ UNCHANGED <<corpus, list, panel, chat, unloaded, used>>

\* The answer is shown and the input enabled again, whatever came.
Answered(h) ==
  /\ h.kind = "ask" /\ h.answer # "pending" /\ End(h)
  /\ UNCHANGED <<corpus, list, panel, chat, unloaded, used>>

Resume == \E h \in handlers : Loaded(h) \/ RemovedOne(h) \/ Cleared(h) \/ UploadedOne(h) \/ Answered(h)
Network == \E h \in handlers : Serve(h) \/ Lose(h)

Next ==
  \/ \E id \in Ids : Toggle(id)
  \/ SelectAll \/ ClearSelection \/ ClearChatDoc \/ Refresh \/ RemoveSelected \/ ClearCorpus \/ Upload \/ Ask
  \/ \E m \in {"document", "chat"} : ChangeMode(m)
  \/ Network \/ Resume

-----------------------------------------------------------------------------
TypeOK ==
  /\ corpus \subseteq Ids /\ list \subseteq Ids /\ selected \subseteq Ids /\ count \in 0..Cardinality(Ids) /\ removable \in BOOLEAN
  /\ mode \in {"document", "chat"} /\ chatDoc \in Ids \union {None} /\ label \in Ids \union {None}
  /\ \A h \in handlers : h.at \in {"act", "load"} /\ h.answer \in {"pending", "ok", "failed"} /\ h.left \subseteq Ids \union {1}
  /\ Cardinality({h \in handlers : h.kind = "ask"}) <= 1

(* A selected document is one the page lists, however the lists arrive.    *)
SelectionListed == selected \subseteq list

(* What a question is asked about is what the page shows: the label names  *)
(* the chat's document, and the working set has the size shown, except     *)
(* while a removal goes on or when the list after one did not arrive.      *)
ScopeShown ==
  /\ mode = "chat" => label = chatDoc
  /\ count # Cardinality(selected) => unloaded \/ Running("remove") \/ Running("clear")

UnderWay == handlers # {}
=============================================================================
