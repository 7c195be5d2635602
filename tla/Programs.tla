-------------------------------- MODULE Programs --------------------------------
(***************************************************************************)
(* The programs that share nothing with each other, checked side by side:  *)
(* which says whose behaviour this is, the others keep their initial       *)
(* state, so the state space is the sum of theirs and not the product.     *)
(***************************************************************************)
EXTENDS SpecFactory, ChessGame, Workbench

CONSTANTS
  Files, Modes, Nearest, Floor, Steep, Messages,                   \* Demo5's server
  MaxUploads, MaxTurns, MaxRemoved, MaxSessions, MaxCrashes,
  Stored, Uploaded, PageClicks, PageWaits,                         \* its page
  Said, First, Second, PersonTerms, TopK, MaxSaid, MaxStops,       \* its personal store
  Contacts, Nobody, Length, MaxAsked, MaxOpen,                     \* Demo2's assistant
  Dirs, Root, Parent, Forbidden, MaxOutstanding, MaxDepth, Threshold, MaxSplits,   \* Demo8's scanner:
  Scans, MaxWorkers,                                               \* many scans of a tree,
  PoolScans, PoolWorkers, PoolOutstanding, PoolDirs, PoolParent    \* or many workers on another

VARIABLES which,
  documents, chunks, copies, job, facts, turns, session, resets, told, hurt,
  uploads, answered, sessions, removals, crashes,
  scan, cancelled, events, active_scan_id, scanning, polling, keep_polling, shown,
  corpus, list, selected, count, removable, mode, chatDoc, label, handlers, unloaded, used,
  person, memories, doing, text, reply, recalled, said, stops,
  search, open, focus, box, ops, sent, histories, reported, ordered, crossedOps

-----------------------------------------------------------------------------
Server == INSTANCE Retrieval WITH Pool <- Nearest
Page == INSTANCE WebPage WITH MaxClicks <- PageClicks, MaxOpen <- PageWaits
Personal == INSTANCE PersonalStore WITH told <- recalled
Assistant == INSTANCE Messenger WITH None <- Nobody, asked <- ordered, crossed <- crossedOps
Scanner == INSTANCE ScanWindow WITH Unreadable <- Forbidden
Pool == INSTANCE ScanWindow WITH Unreadable <- Forbidden, Scans <- PoolScans, MaxWorkers <- PoolWorkers,
          MaxOutstanding <- PoolOutstanding, Dirs <- PoolDirs, Parent <- PoolParent

\* There are finitely many documents, a message has a character, files have finitely many pieces with scores, the store
\* starts with two facts, texts have finitely many words, the orchestrator has a spec, and scans are of a tree, within
\* limits that are numbers.
ProgramsConstants ==
  /\ IsFiniteSet(Page!Ids) /\ Assistant!MessagesAreTexts
  /\ Server!FilesInPieces /\ Server!QuestionsAllowed /\ Personal!BootstrapFacts /\ Personal!TextsAreFinite
  /\ SpecsGiven /\ Scanner!ScanConstants /\ Pool!ScanConstants

-----------------------------------------------------------------------------
server == <<documents, chunks, copies, job, facts, turns, session, resets, told, hurt,
            uploads, answered, sessions, removals, crashes>>
scanner == <<scan, cancelled, events, active_scan_id, scanning, polling, keep_polling, shown>>
page == <<corpus, list, selected, count, removable, mode, chatDoc, label, handlers, unloaded, used>>
personal == <<person, memories, doing, text, reply, recalled, said, stops>>
messenger == <<search, open, focus, box, ops, sent, histories, reported, ordered, crossedOps>>
rest == <<personal, messenger>>
programs == <<which, chessVars, benchVars, vars, server, scanner, page, rest>>

ProgramsInit ==
  /\ which \in {"chess", "bench", "factory", "server", "scanner", "pool", "page", "personal", "messenger"}
  /\ ChessInit /\ BenchInit /\ Init /\ Server!Init /\ Page!Init /\ Personal!Init /\ Assistant!Init
  /\ IF which = "pool" THEN Pool!Init ELSE Scanner!Init
  /\ which # "factory" => disk = [p \in {"main", "test"} |-> "absent"]

MatchNext == which = "chess" /\ ChessNext /\ UNCHANGED <<which, benchVars, vars, server, scanner, page, rest>>
WindowNext == which = "bench" /\ BenchNext /\ UNCHANGED <<which, chessVars, vars, server, scanner, page, rest>>
FactoryNext == which = "factory" /\ Next /\ UNCHANGED <<which, chessVars, benchVars, server, scanner, page, rest>>
ServerNext == which = "server" /\ Server!Next /\ UNCHANGED <<which, chessVars, benchVars, vars, scanner, page, rest>>

ScannerNext ==
  /\ (which = "scanner" /\ Scanner!Next) \/ (which = "pool" /\ Pool!Next)
  /\ UNCHANGED <<which, chessVars, benchVars, vars, server, page, rest>>
PageNext == which = "page" /\ Page!Next /\ UNCHANGED <<which, chessVars, benchVars, vars, server, scanner, rest>>

PersonalNext == which = "personal" /\ Personal!Next /\ UNCHANGED <<which, chessVars, benchVars, vars, server, scanner, page, messenger>>
MessengerNext == which = "messenger" /\ Assistant!Next /\ UNCHANGED <<which, chessVars, benchVars, vars, server, scanner, page, personal>>

ProgramsNext ==
  \/ MatchNext \/ WindowNext \/ FactoryNext \/ ServerNext \/ ScannerNext \/ PageNext \/ PersonalNext
  \/ MessengerNext

\* The fairness of each program.
ProgramsFairness ==
  /\ WF_programs(\/ which = "chess" /\ Gui /\ UNCHANGED <<which, benchVars, vars, server, scanner, page, rest>>
                 \/ which = "bench" /\ HandleUiMessage /\ UNCHANGED <<which, chessVars, vars, server, scanner, page, rest>>
                 \/ which = "factory" /\ Work /\ UNCHANGED <<which, chessVars, benchVars, server, scanner, page, rest>>
                 \/ which = "server" /\ Server!Step /\ UNCHANGED <<which, chessVars, benchVars, vars, scanner, page, rest>>
                 \/ which = "page" /\ Page!Network /\ UNCHANGED <<which, chessVars, benchVars, vars, server, scanner, rest>>
                 \/ which = "personal" /\ Personal!Work /\ UNCHANGED <<which, chessVars, benchVars, vars, server, scanner, page, messenger>>
                 \/ which = "messenger" /\ Assistant!Loop /\ UNCHANGED <<which, chessVars, benchVars, vars, server, scanner, page, personal>>
                 \/ which \in {"scanner", "pool"} /\ Scanner!Poll /\ UNCHANGED <<which, chessVars, benchVars, vars, server, page, rest>>)
  /\ WF_programs(\/ which = "chess" /\ Match /\ UNCHANGED <<which, benchVars, vars, server, scanner, page, rest>>
                 \/ which = "bench" /\ Threads /\ UNCHANGED <<which, chessVars, vars, server, scanner, page, rest>>
                 \/ which = "server" /\ Server!Answer /\ UNCHANGED <<which, chessVars, benchVars, vars, scanner, page, rest>>
                 \/ which = "page" /\ Page!Resume /\ UNCHANGED <<which, chessVars, benchVars, vars, server, scanner, rest>>
                 \/ which = "scanner" /\ Scanner!WindowQuiet /\ Scanner!ScanThreads /\ UNCHANGED <<which, chessVars, benchVars, vars, server, page, rest>>
                 \/ which = "pool" /\ Pool!WindowQuiet /\ Pool!ScanThreads /\ UNCHANGED <<which, chessVars, benchVars, vars, server, page, rest>>)

ProgramsSpec == ProgramsInit /\ [][ProgramsNext]_programs /\ ProgramsFairness

-----------------------------------------------------------------------------
\* Every part's variables have their types.
ProgramsTypeOK ==
  /\ ChessTypeOK /\ BenchTypeOK /\ TypeOK /\ Server!TypeOK /\ Page!TypeOK
  /\ Personal!TypeOK /\ Assistant!TypeOK
  /\ IF which = "pool" THEN Pool!TypeOK ELSE Scanner!TypeOK

\* Of the program that runs: a question is asked about what the page shows; the index is whole whatever fails, and the
\* evidence of an answer is the best that was asked for (document server); a statement is remembered once and recalled
\* first (personal store); a reply that was left alone reaches its contact.
AnswersSound ==
  /\ which = "page" => Page!SelectionListed /\ Page!ScopeShown
  /\ which = "server" => Server!IndexSound /\ Server!EvidenceSound
  /\ which = "personal" => Personal!RemembersOnce /\ Personal!RecallsBest
  /\ which = "messenger" => Assistant!RepliesReach

\* A result of a scan is whole, shown once, and never replaced by an older one (disk scanner).
ScanSound == [][(IF which = "pool" THEN Pool!ScanWhole' ELSE Scanner!ScanWhole') /\ Scanner!NewestWins]_<<which, scanner>>

\* What is under way comes to an end: a turn of the match, an index build and a selection of the window, a run of
\* the orchestrator, a request of the server and the questions it awaits answers to, a handler of its page, what the
\* user tells its personal store, an operation of the assistant, the scans and what their window
\* waits for.
SomeUnderWay ==
  \/ which = "chess" /\ InTurn
  \/ which = "bench" /\ (Busy("index") \/ Busy("selection"))
  \/ which = "factory" /\ Running
  \/ which = "server" /\ (Server!Blocked \/ Server!Awaited)
  \/ which = "page" /\ Page!UnderWay
  \/ which = "personal" /\ Personal!UnderWay
  \/ which = "messenger" /\ Assistant!UnderWay
  \/ which = "scanner" /\ (Scanner!AnyAlive \/ Scanner!Scanning)
  \/ which = "pool" /\ (Pool!AnyAlive \/ Pool!Scanning)
Settles == SomeUnderWay ~> ~SomeUnderWay
=============================================================================
