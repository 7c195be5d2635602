------------------------------- MODULE Retrieval -------------------------------
(***************************************************************************)
(* The retrieval server (Demo5).  Its handlers run on one event loop and   *)
(* do their work on the index without giving the loop up, so an upload, a  *)
(* deletion or the search of a question is never interleaved with another  *)
(* request; only the answer of the model and the rebuilding of the session *)
(* are awaited.  The index is written a statement at a time with no        *)
(* transaction around them, and the server may be killed between any two.  *)
(***************************************************************************)
EXTENDS Integers, FiniteSets, SequencesExt

CONSTANTS
  Files,       \* what is uploaded: its kind, and its pieces of text: strong (a lexical hit on the question), score,
               \* block (one that sums rows of a sheet up)
  Modes,       \* the ways a question is looked up: top, cap, most, coverage, attempts, rows (it asks for rows)
  Pool,        \* nearest pieces that are candidates at the first attempt
  Floor,       \* the lowest score that is of use to a question that needs coverage
  Steep,       \* the drop between two scores that counts against going on
  Messages,    \* what is said in personal mode: whom it is about, and whether it is a question
  MaxUploads, MaxTurns, MaxRemoved, MaxSessions, MaxCrashes   \* bounds

\* A file's text comes in finitely many pieces.
FilesInPieces == MaxUploads \in Nat /\ \A f \in DOMAIN Files : Len(Files[f].pieces) \in Nat

\* Scores can be compared, and what a mode allows are numbers; there is an attempt at least.
QuestionsAllowed ==
  /\ \A f \in DOMAIN Files : \A i \in 1..Len(Files[f].pieces) : Files[f].pieces[i].strong \in BOOLEAN /\ Files[f].pieces[i].score \in Int
  /\ \A m \in Modes : m.top \in Nat /\ m.cap \in Nat /\ m.most \in Nat /\ m.coverage \in BOOLEAN /\ m.attempts \in Nat \ {0}

VARIABLES
  documents,   \* rows: the document's id, the file its hash stands for, the chunks it says it has
  chunks,      \* rows: id of the document, index
  copies,      \* the files kept in rag_uploads, by the id they were stored for
  job,         \* the handler that holds the event loop
  facts,       \* personal store: the facts, in the order they were stored
  turns,       \* questions whose answer is awaited: the prompts that were sent
  session,     \* the session in place and the turns it counts
  resets,      \* sessions being built
  told,        \* history: documents reported as indexed
  hurt,        \* history: documents whose removal was begun
  uploads, answered, sessions, removals, crashes

history == <<told, hurt>>
bounds == <<uploads, answered, sessions, removals, crashes>>
store == <<documents, chunks, copies>>
vars == <<store, job, facts, turns, session, resets, history, bounds>>

Ids == 1..MaxUploads
Idle == [at |-> "idle", file |-> 0, id |-> 0, next |-> 0]
Piece(c) == Files[(CHOOSE d \in documents : d.id = c[1]).file].pieces[c[2]]

Init ==
  /\ documents = {} /\ chunks = {} /\ copies = {} /\ job = Idle /\ facts = <<>> /\ turns = <<>>
  /\ session = [id |-> 0, count |-> 0] /\ resets = {} /\ told = {} /\ hurt = {}
  /\ uploads = 0 /\ answered = 0 /\ sessions = 0 /\ removals = 0 /\ crashes = 0

-----------------------------------------------------------------------------
(* Uploads.                                                                *)

Free == job = Idle
Job(at) == job' = [job EXCEPT !.at = at]

\* A file of a kind that is not supported is refused; another is saved under temp_uploads.
Upload(f) ==
  /\ Free /\ uploads < MaxUploads /\ uploads' = uploads + 1
  /\ IF Files[f].kind = "unsupported" THEN UNCHANGED job
     ELSE job' = [at |-> "hash", file |-> f, id |-> uploads', next |-> 1]
  /\ UNCHANGED <<store, facts, turns, session, resets, history, answered, sessions, removals, crashes>>

Duplicate(f) == \E d \in documents : d.file = f

\* A file whose hash the index knows is skipped, another is copied to rag_uploads.
CheckAndCopy ==
  /\ job.at = "hash"
  /\ IF Duplicate(job.file) THEN job' = Idle /\ UNCHANGED copies
     ELSE Job("extract") /\ copies' = copies \union {job.id}
  /\ UNCHANGED <<documents, chunks, facts, turns, session, resets, history, bounds>>

\* What an extractor may return: the pieces of the file, nothing of use, or an error.  A workbook and a Word file
\* have one each; a PDF that yields too little goes to OCR, whose pages read "[Page n]" even when every page
\* failed, so that its text is never empty; a legacy workbook is refused.
Extracts(kind) == CASE kind = "xls" -> {"error"}
                    [] kind = "pdf" -> {"text", "markers", "error"}
                    [] OTHER -> {"text", "nothing", "error"}

\* The pieces of text are embedded by a pool of threads and put back in order; one that fails fails them all.
Extract ==
  /\ job.at = "extract"
  /\ \E outcome \in Extracts(Files[job.file].kind), embedded \in BOOLEAN :
       IF outcome \in {"text", "markers"} /\ embedded THEN Job("document") ELSE Job("failed")
  /\ UNCHANGED <<store, facts, turns, session, resets, history, bounds>>

Count(f) == Len(Files[f].pieces)

\* insert_document, and then insert_chunk for one chunk after the other: each commits by itself.
InsertDocument ==
  /\ job.at = "document"
  /\ \/ documents' = documents \union {[id |-> job.id, file |-> job.file, count |-> Count(job.file)]} /\ Job("chunks")
     \/ Job("failed") /\ UNCHANGED documents
  /\ UNCHANGED <<chunks, copies, facts, turns, session, resets, history, bounds>>

InsertChunk ==
  /\ job.at = "chunks" /\ job.next <= Count(job.file)
  /\ \/ chunks' = chunks \union {<<job.id, job.next>>} /\ job' = [job EXCEPT !.next = @ + 1]
     \/ Job("failed") /\ UNCHANGED chunks
  /\ UNCHANGED <<documents, copies, facts, turns, session, resets, history, bounds>>

Bug_Indexed == job.at = "chunks" /\ job.next >= Count(job.file)
Indexed == job.at = "chunks" /\ job.next > Count(job.file)

Report ==
  /\ Indexed /\ told' = told \union {job.id} /\ job' = Idle
  /\ UNCHANGED <<store, facts, turns, session, resets, hurt, bounds>>

\* An ingestion that failed takes back the copy, and nothing else.
TakeBack ==
  /\ job.at = "failed" /\ copies' = copies \ {job.id} /\ job' = Idle
  /\ UNCHANGED <<documents, chunks, facts, turns, session, resets, history, bounds>>

-----------------------------------------------------------------------------
(* Removal: the chunks first, then the documents they belong to.           *)

Removed == IF job.id = 0 THEN {d.id : d \in documents} ELSE {job.id}

\* One document, or the whole index (id 0).
StartRemoval(id) ==
  /\ Free /\ removals < MaxRemoved /\ removals' = removals + 1
  /\ job' = [Idle EXCEPT !.at = "remove", !.id = id]
  /\ hurt' = hurt \union IF id = 0 THEN {d.id : d \in documents} ELSE {id}
  /\ UNCHANGED <<store, facts, turns, session, resets, told, uploads, answered, sessions, crashes>>

Bug_DeleteChunks ==
  /\ job.at = "remove" /\ Job("removed")
  /\ documents' = {d \in documents : d.id \notin Removed} /\ UNCHANGED <<chunks, copies>>
  /\ UNCHANGED <<facts, turns, session, resets, history, bounds>>

DeleteChunks ==
  /\ job.at = "remove" /\ Job("removed")
  /\ chunks' = {c \in chunks : c[1] \notin Removed} /\ UNCHANGED <<documents, copies>>
  /\ UNCHANGED <<facts, turns, session, resets, history, bounds>>

DeleteDocuments ==
  /\ job.at = "removed" /\ job' = Idle
  /\ documents' = {d \in documents : d.id \notin Removed}
  /\ UNCHANGED <<chunks, copies, facts, turns, session, resets, history, bounds>>

-----------------------------------------------------------------------------
(* Questions.                                                              *)

Greater(a, b) == IF a < b THEN b ELSE a
Lesser(a, b) == IF a < b THEN a ELSE b

\* A strong hit before one that is only near, then by score; the sorts are stable, so that of two alike the one
\* stored first comes first.
Older(c, d) == c[1] < d[1] \/ (c[1] = d[1] /\ c[2] < d[2])
Nearer(c, d) == Piece(c).score > Piece(d).score \/ (Piece(c).score = Piece(d).score /\ Older(c, d))
Before(c, d) == IF Piece(c).strong # Piece(d).strong THEN Piece(c).strong ELSE Nearer(c, d)
Ranked(cs) == [i \in 1..Cardinality(cs) |-> CHOOSE c \in cs : Cardinality({d \in cs : Before(d, c)}) = i - 1]
Prefix(seq, n) == SubSeq(seq, 1, IF n < Len(seq) THEN n ELSE Len(seq))
OfDocument(seq, id) == {i \in DOMAIN seq : seq[i][1] = id}

\* The pieces of the documents a question is restricted to, which may be gone by now; of all if it names none.
InScope(ids) == {c \in chunks : ids = {} \/ c[1] \in ids}

\* A question for rows (the largest, the transactions) leaves out what only sums them up.
Bug_Eligible(ids, m) == InScope(ids)
Eligible(ids, m) == {c \in InScope(ids) : ~(m.rows /\ Piece(c).block)}

\* search: the strong hits and the nearest pool of the pieces (a weaker lexical hit is never added: the
\* statement that would add it follows a break); the best of them in order, no document beyond its cap.
Near(ids, m, pool) == {c \in Eligible(ids, m) : Cardinality({d \in Eligible(ids, m) : Nearer(d, c)}) < pool}
Bug_Candidates(ids, m, pool) == Near(ids, m, pool)
Candidates(ids, m, pool) == {c \in Eligible(ids, m) : Piece(c).strong} \union Near(ids, m, pool)
Within(cs, cap) == {c \in cs : Cardinality({d \in cs : d[1] = c[1] /\ Before(d, c)}) < cap}
Search(ids, m, pool, top, cap) == Prefix(Ranked(Within(Candidates(ids, m, pool), cap)), top)

\* _apply_coverage_stabilization: up to the first piece that scores too low, or with five already taken to the second
\* steep drop in a row; a strong hit scores more than it is near.
Weight(c) == Piece(c).score + IF Piece(c).strong THEN Floor ELSE 0
Drops(seq, i) == i > 1 /\ Weight(seq[i-1]) - Weight(seq[i]) >= Steep
Useful(seq, i) == Weight(seq[i]) >= Floor /\ ~(i > 5 /\ Drops(seq, i-1) /\ Drops(seq, i))
Stable(seq, most) == Prefix(seq, Lesser(most, Cardinality({i \in DOMAIN seq : \A j \in 1..i : Useful(seq, j)})))

\* The attempts, with a pool that grows from one to the next; the last that found anything is used, cut to what the mode
\* allows, and there is no further attempt when that is enough or every piece stored could have been a candidate.
Pools(m) == LET pool[n \in 1..m.attempts] == IF n = 1 THEN Greater(Pool, m.top) ELSE Greater(2 * pool[n-1], 2 * m.top * n) IN pool

Attempt(ids, m, n) ==
  Search(ids, m, Pools(m)[n], Lesser(IF m.coverage THEN m.most ELSE m.top, 2 * m.top * n),
         Greater(m.cap, IF m.coverage THEN m.top * n ELSE m.top))
Cut(best, m) == IF m.coverage THEN Stable(best, m.most) ELSE Prefix(best, m.top)

Attempts(ids, m) == [n \in 1..m.attempts |-> Attempt(ids, m, n)]
Best(found, n) == LET some == {k \in 1..n : found[k] # <<>>} IN IF some = {} THEN <<>> ELSE found[Max(some)]
Retrieve(found, m, n) == Cut(Best(found, n), m)

Enough(ids, m, found, n) ==
  \/ InScope(ids) # {} /\ Pools(m)[n] >= Cardinality(InScope(ids))
  \/ Len(Retrieve(found, m, n)) >= IF m.coverage THEN m.most ELSE m.top
Attempted(ids, m, found) == Min({n \in 1..m.attempts : Enough(ids, m, found, n) \/ n = m.attempts})

Live == {d.id : d \in documents}

Send(prompt) ==
  /\ answered' = answered + 1 /\ turns' = Append(turns, prompt)
  /\ UNCHANGED <<session, facts>>

\* A turn the model is not asked about is answered and counted at once.
Skip == /\ answered' = answered + 1 /\ session' = [session EXCEPT !.count = @ + 1] /\ UNCHANGED <<turns, facts>>

\* Document mode.  What the last attempt found decides, before it is cut: where all of it scores too low the model is
\* still asked, with a prompt that holds no piece.  If the lookup itself fails (the question cannot be embedded), what
\* an earlier attempt found is used; without any there is no early answer either, and the bare question goes out.
AskDocuments ==
  \E ids \in SUBSET (1..uploads), m \in Modes :
    LET found == Attempts(ids, m) IN
      \E n \in 0..Attempted(ids, m, found) :
        IF n > 0 /\ Best(found, n) # <<>> THEN Send("grounded")
        ELSE IF n = Attempted(ids, m, found) THEN Skip ELSE Send("bare")

\* Chat mode, perhaps with the whole text of a document: the chunks that are there, in order.
Chat ==
  \/ Send("bare")
  \/ \E id \in 1..uploads : IF id \in Live THEN Send("whole") ELSE Skip

\* Personal mode: a statement not yet known is stored as a fact before the facts are searched, so it finds itself.
AskPersonal ==
  \E msg \in Messages :
    LET known == \E i \in DOMAIN facts : facts[i] = msg.about
        kept == IF msg.question \/ known THEN facts ELSE Append(facts, msg.about)
        found == \E i \in DOMAIN kept : kept[i] = msg.about
    IN /\ facts' = kept /\ answered' = answered + 1
       /\ IF found THEN turns' = Append(turns, "facts") /\ UNCHANGED session
          ELSE session' = [session EXCEPT !.count = @ + 1] /\ UNCHANGED turns

Ask ==
  /\ Free /\ answered < MaxTurns
  /\ AskDocuments \/ Chat \/ AskPersonal
  /\ UNCHANGED <<store, job, resets, history, uploads, sessions, removals, crashes>>

\* The model answers, fails, or runs into the timeout of five minutes; the turn counts for the session then in place.
Answer ==
  /\ Free
  /\ \E i \in DOMAIN turns : turns' = RemoveAt(turns, i)
  /\ session' = [session EXCEPT !.count = @ + 1]
  /\ UNCHANGED <<store, job, facts, resets, history, bounds>>

\* A new session is in place only when the models have been listed; of two, the one that ends last.
Reset ==
  /\ Free /\ sessions < MaxSessions /\ sessions' = sessions + 1 /\ resets' = resets \union {sessions'}
  /\ UNCHANGED <<store, job, facts, turns, session, history, uploads, answered, removals, crashes>>

EndReset ==
  /\ Free
  /\ \E s \in resets : session' = [id |-> s, count |-> 0] /\ resets' = resets \ {s}
  /\ UNCHANGED <<store, job, facts, turns, history, bounds>>

\* The server is killed and started again: what was written stays, everything else is gone.
Crash ==
  /\ crashes < MaxCrashes /\ crashes' = crashes + 1
  /\ job' = Idle /\ turns' = <<>> /\ resets' = {} /\ session' = [id |-> 0, count |-> 0]
  /\ UNCHANGED <<store, facts, history, uploads, answered, sessions, removals>>

Step == CheckAndCopy \/ Extract \/ InsertDocument \/ InsertChunk \/ Report \/ TakeBack \/ DeleteChunks \/ DeleteDocuments
Next == (\E f \in DOMAIN Files : Upload(f)) \/ (\E id \in {0} \union Live : StartRemoval(id))
        \/ Step \/ Ask \/ Answer \/ Reset \/ EndReset \/ Crash

\* The handler runs on, and every awaited call has a timeout.
Fairness == WF_vars(Step) /\ WF_vars(Answer) /\ WF_vars(EndReset)
Spec == Init /\ [][Next]_vars /\ Fairness

-----------------------------------------------------------------------------
(* Properties.                                                             *)

TypeOK ==
  /\ documents \subseteq [id : Ids, file : DOMAIN Files, count : Nat] /\ copies \subseteq Ids
  /\ chunks \subseteq Ids \X Nat /\ job.id \in {0} \union Ids /\ told \subseteq Ids /\ session.count \in Nat

\* Whatever fails or is killed half-way, no chunk is left without its document, no file is in the index twice, and
\* a document that was reported as indexed has every chunk, and its copy, until its removal is begun
\* (ingest_file, ingest_document, delete_document, clear_corpus).
IndexSound ==
  /\ \A c \in chunks : \E d \in documents : d.id = c[1] /\ c[2] <= d.count
  /\ \A d, e \in documents : d.file = e.file => d = e
  /\ \A d \in documents : d.id \in told \ hurt =>
       d.id \in copies /\ Cardinality({c \in chunks : c[1] = d.id}) = d.count

\* For every set of documents a question may be restricted to and every attempt whose pieces may be the ones used: the
\* evidence is of those documents and no block that the question leaves out, names no piece twice, fills no more than
\* its mode allows, and leaves out a piece that holds what was asked only for others that hold it too or because its
\* document is at its cap (get_rag_context, search).
EvidenceSound == \A ids \in SUBSET (1..uploads), m \in Modes : \A n \in 1..m.attempts :
  LET cut == Cut(Attempt(ids, m, n), m) IN
  /\ \A c \in ToSet(cut) : c \in chunks /\ (ids = {} \/ c[1] \in ids) /\ ~(m.rows /\ Piece(c).block)
  /\ Cardinality(ToSet(cut)) = Len(cut) /\ Len(cut) <= (IF m.coverage THEN m.most ELSE m.top)
  /\ \A c \in Eligible(ids, m) : Piece(c).strong /\ c \notin ToSet(cut) =>
       \/ \A i \in DOMAIN cut : Piece(cut[i]).strong
       \/ Cardinality(OfDocument(cut, c[1])) >= Greater(m.cap, m.top)

\* Every question is answered or skipped, and every upload or removal gives the event loop back.
Awaited == turns # <<>>
Blocked == ~Free
=============================================================================
