------------------------------ MODULE ChessGame ------------------------------
(***************************************************************************)
(* Demo3: a chess match between two language models.  The buttons act in   *)
(* the GUI thread, the match is played by a thread of its own, and both    *)
(* write GameController.state without a lock.                              *)
(*                                                                         *)
(* Every call of the match thread into Tk (_safe_gui_call, the delay       *)
(* slider) waits until the GUI thread turns its event loop; what it asks   *)
(* for with after(0, ...) runs in a later turn.  Of these callbacks only   *)
(* set_control_state is modelled, the others redraw.                       *)
(***************************************************************************)
EXTENDS Integers, Sequences

CONSTANTS MaxAttempts,         \* MAX_MOVE_RETRIES
          Strict,              \* WATCHER_STRICT_EXTRA_TEXT
          MaxPlies, MaxClicks  \* bounds: plies of a match, clicks of the user

ASSUME ChessConstants == MaxAttempts \in Nat \ {0} /\ Strict \in BOOLEAN /\ MaxPlies \in Nat \ {0}

VARIABLES
  state, plies, over, move_history, stop_event,
  control,             \* the state of the buttons
  callbacks,           \* set_control_state calls waiting in the event loop
  gui,                 \* "free", or the handler the GUI thread is in
  thread, matchPc,          \* what the match thread runs, and where it is
  calling,             \* the Tk calls it waits for, one after the other
  turn,                \* its turn: the ply it was started at, its attempts
  held,                \* history: turns begun since a pause, -1 if there is none
  presses

window == <<control, callbacks, gui>>
match == <<plies, over, move_history>>
runner == <<thread, matchPc, calling, turn>>
chessVars == <<state, match, stop_event, window, runner, held, presses>>

GameState == {"IDLE", "RUNNING", "PAUSED", "FINISHED", "ERROR"}
Controls == {"idle", "running", "paused", "finished", "error"}
Failures == {"timeout", "connection_error"}
Classes == Failures \cup {"empty", "selection_out_of_range",
                         "illegal", "unparsed", "legal", "legal_with_extra_text"}

ChessInit ==
  /\ state = "IDLE" /\ plies = 0 /\ over = FALSE /\ move_history = <<>> /\ stop_event = FALSE
  /\ control = "idle" /\ callbacks = <<"idle">> /\ gui = "free"
  /\ thread = "none" /\ matchPc = "dead" /\ calling = <<>> /\ turn = [ply |-> 0, attempt |-> 0, bad |-> 0]
  /\ held = -1 /\ presses = 0

is_alive == matchPc # "dead" \/ calling # <<>>

\* ControlPanel.set_control_state: the buttons each state leaves enabled.
Enabled(button) ==
  control \in CASE button \in {"start"} -> {"idle"}
                [] button = "pause" -> {"running"}
                [] button = "resume" -> {"paused"}
                [] button = "reset" -> {"running", "paused", "finished", "error"}
                [] button = "step" -> {"idle", "paused"}

Click(button) == gui = "free" /\ presses < MaxClicks /\ presses' = presses + 1 /\ Enabled(button)
---------------------------------------------------------------------------
(* The GUI thread. *)

RunCallback ==
  /\ gui = "free" /\ callbacks # <<>>
  /\ control' = Head(callbacks) /\ callbacks' = Tail(callbacks)
  /\ UNCHANGED <<state, match, stop_event, gui, runner, held, presses>>

ServeCall ==
  /\ gui = "free" /\ calling # <<>>
  /\ calling' = Tail(calling)
  /\ callbacks' = IF Head(calling) \in Controls THEN Append(callbacks, Head(calling)) ELSE callbacks
  /\ UNCHANGED <<state, match, stop_event, control, gui, thread, matchPc, turn, held, presses>>

\* start_game and reset_game: both join the match thread in the GUI thread.
Join ==
  /\ \/ Click("start") /\ state \in {"IDLE", "FINISHED", "ERROR"} /\ gui' = "start"
     \/ Click("reset") /\ gui' = "reset"
  /\ stop_event' = TRUE
  /\ UNCHANGED <<state, match, control, callbacks, runner, held>>

\* Mutant: the thread is told to stop and not waited for.
Bug_Joinable == matchPc \in {"dead", "ask"}

Joinable == ~is_alive

\* reset_game leaves the buttons to a callback, start_game sets them itself.
Joined ==
  /\ gui \in {"start", "reset"} /\ Joinable
  /\ plies' = 0 /\ over' = FALSE /\ move_history' = <<>> /\ stop_event' = FALSE
  /\ callbacks' = Append(callbacks, "idle")
  /\ IF gui = "start"
     THEN state' = "RUNNING" /\ control' = "running" /\ thread' = "loop" /\ matchPc' = "top"
     ELSE state' = "IDLE" /\ UNCHANGED <<control, thread, matchPc>>
  /\ gui' = "free" /\ held' = -1
  /\ UNCHANGED <<calling, turn, presses>>

\* pause_game and resume_game read the state, then write it.
Toggle ==
  /\ \/ Click("pause") /\ state = "RUNNING" /\ gui' = "pause"
     \/ Click("resume") /\ state = "PAUSED" /\ gui' = "resume"
  /\ UNCHANGED <<state, match, stop_event, control, callbacks, runner, held>>

Toggled ==
  /\ gui \in {"pause", "resume"} /\ gui' = "free"
  /\ IF gui = "pause" THEN state' = "PAUSED" /\ control' = "paused" /\ held' = 0
                      ELSE state' = "RUNNING" /\ control' = "running" /\ held' = -1
  /\ UNCHANGED <<match, stop_event, callbacks, runner, presses>>

StepTurn ==
  /\ Click("step") /\ state \in {"IDLE", "PAUSED"} /\ ~is_alive
  /\ thread' = "step" /\ matchPc' = "turn"
  /\ UNCHANGED <<state, match, stop_event, window, calling, turn, held>>
---------------------------------------------------------------------------
(* The match thread; a step needs the Tk calls before it to be over. *)

\* Mutant: inside a turn the thread waits for the user to resume.
Bug_At(label) == matchPc = label /\ calling = <<>> /\ (label = "ask" => state # "PAUSED")

At(label) == matchPc = label /\ calling = <<>>

\* Mutant: the loop goes on in every state but IDLE.
Bug_MayTurn == state # "IDLE"

MayTurn == state = "RUNNING"

\* The loop of play_game_loop; while it may not turn it sleeps.
LoopTop ==
  /\ At("top")
  /\ \/ (over \/ stop_event) /\ matchPc' = "end"
     \/ ~over /\ ~stop_event /\ MayTurn /\ matchPc' = "turn"
  /\ UNCHANGED <<state, match, stop_event, window, thread, calling, turn, held, presses>>

BeginTurn ==
  /\ At("turn")
  /\ IF over THEN matchPc' = "returned" /\ UNCHANGED <<calling, turn, held>>
     ELSE /\ matchPc' = "ask" /\ calling' = <<"redraw">>
          /\ turn' = [ply |-> plies, attempt |-> 1, bad |-> 0]
          /\ held' = IF held = -1 THEN held ELSE held + 1
  /\ UNCHANGED <<state, match, stop_event, window, thread, presses>>

\* Mutant: the last attempt is not used.
Bug_HasAttemptsRemaining(attempt) == attempt + 1 < MaxAttempts

HasAttemptsRemaining(attempt) == attempt < MaxAttempts

\* MoveWatcher.inspect.  That an answer repeats an earlier one only changes
\* the reason it is rejected for.
Decision(answer, attempt) ==
  IF answer = "legal" \/ (answer = "legal_with_extra_text" /\ ~Strict) THEN "allow"
  ELSE IF HasAttemptsRemaining(attempt) THEN "retry" ELSE "forfeit"

\* One round of the loop over attempts, up to the watcher's decision.
Attempt ==
  /\ At("ask")
  /\ \E answer \in Classes :
       LET decision == Decision(answer, turn.attempt)
           again == decision = "retry" /\ turn.attempt < MaxAttempts
       IN  /\ matchPc' = IF decision = "allow" THEN "push" ELSE IF again THEN "ask" ELSE "forfeit"
           /\ turn' = [turn EXCEPT !.attempt = IF again THEN @ + 1 ELSE @,
                                   !.bad = IF decision = "allow" THEN @ ELSE @ + 1]
  /\ calling' = <<"redraw">>
  /\ UNCHANGED <<state, match, stop_event, window, thread, held, presses>>

\* The move is on the board; python-chess says whether that ends the game.
Push ==
  /\ At("push")
  /\ plies' = plies + 1 /\ over' \in (IF plies + 1 = MaxPlies THEN {TRUE} ELSE BOOLEAN)
  /\ move_history' = Append(move_history, turn.ply)
  /\ matchPc' = "returned" /\ calling' = <<"redraw">>
  /\ UNCHANGED <<state, stop_event, window, thread, turn, held, presses>>

\* Mutant: the error is shown, the buttons are left as they are.
Bug_ForfeitCalls == <<"redraw">>

ForfeitCalls == <<"redraw", "error">>

Forfeit ==
  /\ At("forfeit")
  /\ state' = "ERROR" /\ calling' = ForfeitCalls /\ matchPc' = "returned"
  /\ UNCHANGED <<match, stop_event, window, thread, turn, held, presses>>

\* The loop reads the delay slider before it sleeps.
Returned ==
  /\ At("returned")
  /\ \/ thread = "step" /\ matchPc' = "dead" /\ UNCHANGED calling
     \/ thread = "loop" /\ (stop_event \/ over) /\ matchPc' = "end" /\ UNCHANGED calling
     \/ thread = "loop" /\ ~stop_event /\ ~over /\ matchPc' = "top" /\ calling' = <<"get delay">>
  /\ UNCHANGED <<state, match, stop_event, window, thread, turn, held, presses>>

EndLoop ==
  /\ At("end") /\ matchPc' = "dead"
  /\ IF ~stop_event /\ over THEN state' = "FINISHED" /\ calling' = <<"redraw", "finished">>
                            ELSE UNCHANGED <<state, calling>>
  /\ UNCHANGED <<match, stop_event, window, thread, turn, held, presses>>

Gui == RunCallback \/ ServeCall \/ Joined \/ Toggled
User == Join \/ Toggle \/ StepTurn
Match == LoopTop \/ BeginTurn \/ Attempt \/ Push \/ Forfeit \/ Returned \/ EndLoop

ChessNext == Gui \/ User \/ Match

\* The event loop turns and the match thread gets on.
ChessFairness == WF_chessVars(Gui) /\ WF_chessVars(Match)

ChessSpec == ChessInit /\ [][ChessNext]_chessVars /\ ChessFairness
---------------------------------------------------------------------------
(* Properties. *)

\* Types; a turn counts its rejected answers within the attempts it has.
ChessTypeOK ==
  /\ state \in GameState /\ control \in Controls /\ plies \in 0..MaxPlies
  /\ thread \in {"none", "loop", "step"} /\ turn.bad \in 0..turn.attempt /\ turn.attempt \in 0..MaxAttempts

\* Every move was chosen in the position it is played in: no thread of an
\* earlier match moves on the board of the next (reset_game's join).
MovesInTurn == move_history = [i \in 1..plies |-> i - 1]

\* After a pause at most the turn that was already due is begun, until the
\* user resumes or starts over, though the match thread overwrites the pause
\* when it forfeits or finishes.
PauseHolds == held <= 1

\* A player forfeits after MaxAttempts rejected answers, no earlier.
ForfeitsLate == matchPc = "forfeit" => turn.bad = MaxAttempts

\* A match that is finished or forfeited can be reset, once the window has
\* run the callbacks it was sent, whatever the user clicked meanwhile.
ResetOffered ==
  state \in {"FINISHED", "ERROR"} /\ gui = "free" /\ callbacks = <<>> /\ calling = <<>> => Enabled("reset")

\* Moves answer the position on the board, a pause holds, a player forfeits no
\* earlier than its last attempt, and a match that is over can be reset.
TurnsHold == MovesInTurn /\ PauseHolds /\ ForfeitsLate /\ ResetOffered

\* A turn ends, unless the GUI thread waits for it in reset or start.
InTurn == matchPc = "ask" /\ gui \notin {"start", "reset"}
=============================================================================
