----------------------------- MODULE TurnTasks -----------------------------
(***************************************************************************)
(* The turn handlers of backend/game_engine.py as coroutines.  A handler   *)
(* runs until it awaits a broadcast that publishes to Redis: that happens  *)
(* when Redis is enabled and some player has websocket None, because it is *)
(* on another worker or disconnected.  Other coroutines run meanwhile, and *)
(* the handler goes on with what it read before.                           *)
(*                                                                         *)
(* g.suspends says whether broadcasts suspend: the run begins in both      *)
(* settings.  Where they do not, each handler is one step, as in module    *)
(* GameRoom.                                                               *)
(*                                                                         *)
(* A coroutine that cancels its own task (turn_timer through end_turn,     *)
(* auto_select through handle_word_selection) runs on to its first         *)
(* suspension and ends there: CancelledError is not an Exception, so no    *)
(* handler on the way catches it.                                          *)
(***************************************************************************)
EXTENDS Integers, FiniteSets

CONSTANTS
    N,           \* players 1..N of the room, in list order
    Rounds       \* GameConfig.num_rounds of a game whose broadcasts do, or do
                 \* not, suspend

ASSUME TurnTasksAssumption == N \in Nat \ {0} /\ Rounds \in [BOOLEAN -> Nat \ {0}]

VARIABLE g       \* the Room object, its sleeping tasks, suspended coroutines

(***************************************************************************)
(* TurnStates and auto_select tasks are told apart by numbers; turn 0 is   *)
(* room.turn is None.  paid, repaid and ended are history: the turns whose *)
(* scores were added, whether some were added again, and the turns for     *)
(* which end_turn has run.                                                 *)
(***************************************************************************)

Seats == 1..N
NumRounds(s) == Rounds[s.suspends]

\* Who runs a coroutine besides the connection of a player: an engine task,
\* or one that has cancelled itself.
EngineTask == 0
Cancelled == -1

\* A broadcast in handler `by': suspend it at `at', or go on with the rest.
Await(s, by, at, arg, rest) ==
    IF ~s.suspends THEN rest
    ELSE IF by = Cancelled THEN s
    ELSE [s EXCEPT !.procs = @ \cup {[by |-> by, at |-> at, arg |-> arg]}]
-----------------------------------------------------------------------------
\* start_turn after its broadcast: the task is created and referred to.
AfterSelecting(s, seat) ==
    [s EXCEPT !.autos = @ \cup {[id |-> s.made + 1, drawer |-> seat]},
              !.autoRef = s.made + 1, !.made = @ + 1]

StartTurn(s, by) ==
    LET r == [s EXCEPT !.pending = TRUE, !.state = "WORD_SELECTION"]
    IN  Await(r, by, "drawer_selecting", r.seat, AfterSelecting(r, r.seat))

AfterWaiting(s) == [s EXCEPT !.countdown = TRUE]

\* _end_game_insufficient_players: one countdown at a time.
WaitForPlayers(s, by) ==
    IF s.countdown THEN s ELSE Await(s, by, "waiting_for_reconnect", 0, AfterWaiting(s))

FirstOf(S) == CHOOSE i \in S : \A j \in S : i <= j

\* Mutant of Advance: the round is not compared with the last one.
AdvanceUnchecked(s, by) ==
    LET ahead == {i \in s.connected : i > s.seat}
    IN  IF Cardinality(s.connected) < 2 THEN WaitForPlayers(s, by)
        ELSE StartTurn(IF ahead # {} THEN [s EXCEPT !.seat = FirstOf(ahead)]
                       ELSE [s EXCEPT !.seat = FirstOf(s.connected), !.round = @ + 1], by)

\* advance_turn_or_round, its skip loop included.
Advance(s, by) ==
    LET ahead == {i \in s.connected : i > s.seat}
        wrap  == [s EXCEPT !.seat = FirstOf(s.connected), !.round = @ + 1]
    IN  IF Cardinality(s.connected) < 2 THEN WaitForPlayers(s, by)
        ELSE IF ahead # {} /\ s.round <= NumRounds(s)
             THEN StartTurn([s EXCEPT !.seat = FirstOf(ahead)], by)
        ELSE IF wrap.round > NumRounds(s) THEN [wrap EXCEPT !.state = "GAME_OVER"]
        ELSE StartTurn(wrap, by)

\* end_turn after its broadcast clears whatever turn the room has by then.
AfterTurnEnded(s, by) == Advance([s EXCEPT !.turn = 0, !.drawer = 0], by)

\* end_turn: timers cancelled and scores added before the broadcast.
EndTurn(s, by, scores) ==
    LET r == [s EXCEPT !.timers = @ \ {s.turn},
                       !.ended  = @ \cup {s.turn},
                       !.repaid = @ \/ (scores /\ s.turn \in s.paid),
                       !.paid   = IF scores THEN @ \cup {s.turn} ELSE @]
    IN  IF s.turn = 0 THEN s
        ELSE Await(r, by, "turn_ended", 0, AfterTurnEnded(r, by))

AllGuessed(s) == s.connected \ {s.drawer} \subseteq s.guessed

\* handle_guess after its broadcast.  A turn cleared meanwhile makes it fail
\* on room.turn.drawer_id; the connection survives.
AfterGuessCorrect(s, by) ==
    IF s.turn # 0 /\ AllGuessed(s) THEN EndTurn(s, by, TRUE) ELSE s

\* handle_disconnect after its broadcast of the player list.
AfterPlayerList(s, p) ==
    CASE s.state = "GAME_OVER" -> s
      [] s.state # "GAME_OVER" /\ s.turn # 0 /\ s.drawer = p -> EndTurn(s, p, FALSE)
      [] s.state # "GAME_OVER" /\ ~(s.turn # 0 /\ s.drawer = p) ->
            IF Cardinality(s.connected) < 2 THEN WaitForPlayers(s, p)
            ELSE IF s.turn # 0 /\ s.state = "PLAYING" /\ AllGuessed(s)
                 THEN EndTurn(s, p, TRUE)
                 ELSE s

\* Mutant of AfterTurnStarted: no turn timer is created.
TurnStartedUntimed(s, turn) == s

\* handle_word_selection after its two broadcasts: the timer is created for
\* the turn this coroutine began.
AfterTurnStarted(s, turn) == [s EXCEPT !.timers = @ \cup {turn}]

\* handle_word_selection, its checks passed.
BeginTurn(s, by) ==
    LET r == [s EXCEPT !.autos   = {t \in @ : t.id # s.autoRef},
                       !.autoRef = 0,
                       !.turn    = s.begun + 1,
                       !.begun   = @ + 1,
                       !.drawer  = s.seat,
                       !.state   = "PLAYING",
                       !.guessed = {},
                       !.pending = FALSE]
    IN  Await(r, by, "turn_started", r.turn, AfterTurnStarted(r, r.turn))

EndGameImmediately(s) ==
    [s EXCEPT !.timers = @ \ {s.turn}, !.turn = 0, !.drawer = 0,
              !.autos = {t \in @ : t.id # s.autoRef}, !.autoRef = 0,
              !.state = "GAME_OVER"]
-----------------------------------------------------------------------------
\* The host has just started a game with all players connected.
Init ==
    \E redis \in BOOLEAN :
    g = [suspends |-> redis,
         state |-> "WORD_SELECTION", connected |-> Seats, seat |-> 1, round |-> 1,
         pending |-> TRUE, turn |-> 0, begun |-> 0, drawer |-> 0, guessed |-> {},
         timers |-> {}, autos |-> {[id |-> 1, drawer |-> 1]}, autoRef |-> 1,
         made |-> 1, countdown |-> FALSE, paid |-> {}, repaid |-> FALSE,
         ended |-> {}, procs |-> {}]

\* A connection reads its next message when the last one is dealt with.
Free(p) == \A q \in g.procs : q.by # p

\* Mutant of SelectWord: a word may be selected when none is pending.
SelectWordAgain(p) ==
    /\ Free(p) /\ p \in g.connected
    /\ p = g.seat
    /\ g' = BeginTurn(g, p)

SelectWord(p) ==
    /\ Free(p) /\ p \in g.connected
    /\ p = g.seat /\ g.pending
    /\ g' = BeginTurn(g, p)

GuessCorrectly(p) ==
    /\ Free(p) /\ p \in g.connected
    /\ g.turn # 0 /\ g.state = "PLAYING"
    /\ p # g.drawer /\ p \notin g.guessed
    /\ LET r == [g EXCEPT !.guessed = @ \cup {p}]
       IN  g' = Await(r, p, "guess_correct", 0, AfterGuessCorrect(r, p))

Disconnect(p) ==
    /\ Free(p) /\ p \in g.connected
    /\ LET r == [g EXCEPT !.connected = @ \ {p}]
       IN  g' = Await(r, p, "player_list", 0, AfterPlayerList(r, p))

\* end_game_now from the host, player 1.
EndGameNow ==
    /\ Free(1) /\ 1 \in g.connected /\ g.state # "GAME_OVER"
    /\ g' = [EndGameImmediately(g) EXCEPT !.countdown = FALSE]

AutoSelectFires(t) ==
    /\ t \in g.autos
    /\ LET r == [g EXCEPT !.autos = @ \ {t}]
       IN  g' = IF r.state = "WORD_SELECTION" /\ r.pending /\ t.drawer = r.seat
                THEN BeginTurn(r, IF r.autoRef = t.id THEN Cancelled ELSE EngineTask)
                ELSE r

TurnTimerFires(k) ==
    /\ k \in g.timers
    /\ LET r == [g EXCEPT !.timers = @ \ {k}]
       IN  g' = IF r.turn = k /\ r.state = "PLAYING" THEN EndTurn(r, Cancelled, TRUE) ELSE r

CountdownFires ==
    /\ g.countdown
    /\ LET r == [g EXCEPT !.countdown = FALSE]
       IN  g' = IF Cardinality(g.connected) < 2 THEN EndGameImmediately(r) ELSE r

\* The publish of a suspended coroutine is answered.
Resume(q) ==
    /\ q \in g.procs
    /\ LET r == [g EXCEPT !.procs = @ \ {q}]
       IN  g' = CASE q.at = "drawer_selecting"      -> AfterSelecting(r, q.arg)
                  [] q.at = "waiting_for_reconnect" -> AfterWaiting(r)
                  [] q.at = "turn_ended"            -> AfterTurnEnded(r, q.by)
                  [] q.at = "guess_correct"         -> AfterGuessCorrect(r, q.by)
                  [] q.at = "player_list"           -> AfterPlayerList(r, q.by)
                  [] q.at = "turn_started"          -> AfterTurnStarted(r, q.arg)

Next ==
    \/ \E p \in Seats : SelectWord(p) \/ GuessCorrectly(p) \/ Disconnect(p)
    \/ EndGameNow
    \/ \E t \in g.autos : AutoSelectFires(t)
    \/ \E k \in g.timers : TurnTimerFires(k)
    \/ CountdownFires
    \/ \E q \in g.procs : Resume(q)

Spec == Init /\ [][Next]_g
-----------------------------------------------------------------------------
\* No selection phase is past the last round, however the handlers interleave.
LastRoundHolds == g.state = "WORD_SELECTION" => g.round <= NumRounds(g)

\* The room has a turn only while it is PLAYING.
TurnOnlyInPlay == g.turn # 0 => g.state = "PLAYING"

\* Handlers that suspend and go on with what they read neither leave a turn
\* in a room that is not PLAYING nor select past the last round.
TurnsInOrder == TurnOnlyInPlay /\ LastRoundHolds

\* docs/game-logic.md:38-41: a turn that nobody finishes ends by its timer.
\* While broadcasts do not suspend, the timer of the current turn sleeps.
TurnHasTimer ==
    ~g.suspends /\ g.turn # 0 => g.turn \in g.timers

\* docs/game-logic.md:38: while broadcasts do not suspend, a turn disappears
\* only because end_turn was called for it, or the whole game is ended.
NoTurnIsLost ==
    [][ (~g.suspends /\ g.turn # 0 /\ g'.turn # g.turn)
            => g.turn \in g'.ended \/ g'.state = "GAME_OVER" ]_g
-----------------------------------------------------------------------------
(* What the documentation says and the code does not do. *)

\* docs/game-logic.md:67: "Score range: 45-750 points per correct guess", so
\* the scores of a turn are added to the players' totals once.  Between
\* adding them and clearing room.turn, end_turn awaits its broadcast.
ScoredOnce == ~g.repaid

\* requirements.md:81: "WHEN a Turn begins, THE Game_Server SHALL start a
\* countdown timer equal to the configured Turn duration."  Once no handler
\* is on its way, the current turn has its timer.
TurnTimesOut == g.turn # 0 /\ g.procs = {} => g.turn \in g.timers
=============================================================================
