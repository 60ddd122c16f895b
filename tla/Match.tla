-------------------------------- MODULE Match --------------------------------
(***************************************************************************)
(* The scores of a match (end_turn, build_game_over_payload and            *)
(* handle_rematch of backend/), on top of the room of module GameRoom: who *)
(* guessed when, what the end of the turn pays, what the end of the game   *)
(* adds to the session, and what a rematch clears, while players join,     *)
(* drop out, come back and are removed at any point.                       *)
(*                                                                         *)
(* Times are whole seconds.  Rounding is Python's: half to even.           *)
(***************************************************************************)
EXTENDS GameRoom, SequencesExt, FiniteSetsExt

CONSTANTS
    Duration,    \* GameConfig.turn_duration
    Times,       \* seconds after the start of a turn at which guesses arrive
    MaxGuesses,  \* bound: correct guesses in one game
    MaxGames,    \* bound: games started in one session
    MaxDrops     \* bound: connections lost in one session

ASSUME MatchAssumption ==
    /\ Duration \in Nat \ {0} /\ Times \subseteq 0..Duration
    /\ MaxGuesses \in Nat /\ MaxGames \in Nat /\ MaxDrops \in Nat

VARIABLES
    board,     \* board[p]: the scores kept on the Player object
    times,     \* _guess_time - start_time of the players in guess_order
    started,   \* history: games started so far
    drops      \* history: connections lost so far

mvars == <<vars, board, times, started, drops>>

\* score, streak, max_streak and correct_guesses_count start again with every
\* game; session_wins and session_games stay.
Line == [score : Nat, streak : Nat, best : Nat, hits : Nat, wins : Nat, games : Nat]

Fresh == [score |-> 0, streak |-> 0, best |-> 0, hits |-> 0, wins |-> 0, games |-> 0]

MTypeOK ==
    /\ TypeOK
    /\ board \in [Players -> Line]
    /\ times \in Seq(Times) /\ Len(times) = Len(room.guessOrder)
    /\ started \in 0..MaxGames /\ drops \in 0..MaxDrops
-----------------------------------------------------------------------------
(* compute_guesser_score and compute_drawer_bonus.                         *)

\* round(n / d), a half going to the even neighbour.
Round(n, d) ==
    LET q == n \div d
        r == n % d
    IN  IF 2 * r < d \/ (2 * r = d /\ q % 2 = 0) THEN q ELSE q + 1

\* Ten times the multiplier of a position in the guess order.
Multiplier(position) ==
    CASE position = 1 -> 15
      [] position = 2 -> 12
      [] position = 3 -> 10
      [] OTHER        -> 9

BaseScore(elapsed) ==
    Max({50, Round(500 * (Duration - elapsed) * (Duration - elapsed),
                   Duration * Duration)})

\* Mutant of GuesserScore: the multiplier of the position is turned around.
LateScoresMore(elapsed, position) ==
    Round(BaseScore(elapsed) * 10, Multiplier(position))

GuesserScore(elapsed, position) ==
    Round(BaseScore(elapsed) * Multiplier(position), 10)

DrawerBonus(total, guessers) == IF guessers = 0 THEN 0 ELSE Round(total, guessers)
-----------------------------------------------------------------------------
(* end_turn: what a turn pays.                                             *)

\* The positions in the guess order of those who are still in the room.
Paid(order, members) == {i \in DOMAIN order : order[i] \in members}

\* The sum of guesser_scores, which is filled along the guess order: each
\* guesser still in the room scores for the position it had.
Collected(order, at, members) ==
    LET sum[n \in 0..Len(order)] ==
            IF n = 0 THEN 0
            ELSE IF order[n] \in members THEN sum[n - 1] + GuesserScore(at[n], n)
            ELSE sum[n - 1]
    IN  sum[Len(order)]

\* A guesser's line: the score is added and the streak goes on.
Scored(line, score) ==
    [line EXCEPT !.score = @ + score, !.hits = @ + 1, !.streak = @ + 1,
                 !.best = Max({@, line.streak + 1})]

\* The drawer gets the average, a player who has not guessed loses the streak.
PayTurn(order, at, drawer, members) ==
    LET position(p) == CHOOSE i \in DOMAIN order : order[i] = p
        bonus == DrawerBonus(Collected(order, at, members), Cardinality(Paid(order, members)))
    IN  [p \in Players |->
            IF p \notin members THEN Fresh
            ELSE IF p = drawer THEN [board[p] EXCEPT !.score = @ + bonus]
            ELSE IF p \in ToSet(order)
                 THEN Scored(board[p], GuesserScore(at[position(p)], position(p)))
            ELSE [board[p] EXCEPT !.streak = 0]]

\* Mutant of CloseGame: only the winners have played.
CloseGameUncounted(lines, players) ==
    LET top == Max({lines[p].score : p \in players} \cup {0})
    IN  [p \in Players |->
            IF p \in players /\ top > 0 /\ lines[p].score = top
            THEN [lines[p] EXCEPT !.wins = @ + 1] ELSE lines[p]]

\* build_game_over_payload: the best of the players win, all have played.
CloseGame(lines, players) ==
    LET top == Max({lines[p].score : p \in players} \cup {0})
    IN  [p \in Players |->
            IF p \notin players THEN lines[p]
            ELSE [lines[p] EXCEPT !.games = @ + 1,
                                  !.wins  = IF top > 0 /\ lines[p].score = top
                                            THEN @ + 1 ELSE @]]

\* The books after a step that ends the turn with this guess order: a turn
\* that ended because its drawer left pays nobody, and the last turn of the
\* last round closes the game.
Settled(order, at, abandoned) ==
    LET lines == IF abandoned THEN board
                 ELSE PayTurn(order, at, room.turnDrawer, Members(room))
    IN  IF room'.state = "GAME_OVER" THEN CloseGame(lines, ActiveSeats(room)) ELSE lines

TurnEnds == room.turnDrawer # NoPlayer /\ room'.turnDrawer = NoPlayer
-----------------------------------------------------------------------------
MInit ==
    /\ Init
    /\ board = [p \in Players |-> Fresh]
    /\ times = <<>> /\ started = 0 /\ drops = 0

GuessesInGame == FoldSet(LAMBDA p, n : n + board[p].hits, 0, Players) + Len(times)

\* handle_guess, t seconds into the turn.
GuessAt(p, t) ==
    /\ GuessCorrectly(p)
    /\ GuessesInGame < MaxGuesses
    /\ \A u \in ToSet(times) : u <= t
    /\ LET order == Append(room.guessOrder, p)
           at    == Append(times, t)
       IN  IF TurnEnds
           THEN times' = <<>> /\ board' = Settled(order, at, FALSE)
           ELSE times' = at /\ UNCHANGED board
    /\ UNCHANGED <<started, drops>>

TurnTimeUp ==
    /\ TurnTimerFires
    /\ times' = <<>> /\ board' = Settled(room.guessOrder, times, FALSE)
    /\ UNCHANGED <<started, drops>>

\* handle_disconnect: of the drawer, or of the last one still guessing.
PlayerDrops(p) ==
    /\ ConnectionClosed(p)
    /\ drops < MaxDrops
    /\ IF TurnEnds
       THEN times' = <<>> /\ board' = Settled(room.guessOrder, times, p = room.turnDrawer)
       ELSE UNCHANGED <<board, times>>
    /\ drops' = drops + 1
    /\ UNCHANGED started

\* handle_rematch clears what belongs to the game.
Rematched(line) == [line EXCEPT !.score = 0, !.streak = 0, !.best = 0, !.hits = 0]

Rematch(p) ==
    /\ HandleRematch(p)
    /\ board' = [q \in Players |-> Rematched(board[q])]
    /\ times' = <<>>
    /\ UNCHANGED <<started, drops>>

GameStarts(p) ==
    /\ StartGame(p)
    /\ started < MaxGames
    /\ started' = started + 1
    /\ UNCHANGED <<board, times, drops>>

\* The turn of a game that is ended or of a room that is gone pays nobody;
\* the Player object of a removed player goes with its scores.
OtherStep ==
    /\ \/ \E p \in Players, b \in BOOLEAN : JoinRoom(p, b)
       \/ \E h, p \in Players, b \in BOOLEAN : RespondJoinRequest(h, p, b)
       \/ \E h, p \in Players : RespondSpectatorRoleRequest(h, p)
       \/ \E p \in Players : SelectWord(p)
       \/ \E p \in Players : EndGameNow(p)
       \/ \E p, q \in Players : TransferHost(p, q)
       \/ \E p, q \in Players : KickPlayer(p, q)
       \/ \E p \in Players : LeaveRoom(p)
       \/ \E n \in Names : Reconnect(n)
       \/ AutoSelectFires
       \/ CountdownFires
       \/ \E p \in Players : CleanupFires(p)
       \/ \E p \in Players : HostReassignFires(p)
    /\ board' = [p \in Players |-> IF p \in Members(room') THEN board[p] ELSE Fresh]
    /\ times' = IF room'.turnDrawer = NoPlayer THEN <<>> ELSE times
    /\ UNCHANGED <<started, drops>>

MNext ==
    \/ \E p \in Players, t \in Times : GuessAt(p, t)
    \/ TurnTimeUp
    \/ \E p \in Players : PlayerDrops(p)
    \/ \E p \in Players : Rematch(p)
    \/ \E p \in Players : GameStarts(p)
    \/ OtherStep

MSpec == MInit /\ [][MNext]_mvars
-----------------------------------------------------------------------------
(* Properties.                                                             *)

Gain(p) == board'[p].score - board[p].score

\* p was in the guess order before q, who may have guessed in this very step.
GuessedBefore(p, q) ==
    LET order == room.guessOrder
    IN  \E i \in DOMAIN order :
            /\ order[i] = p
            /\ q \in {order[j] : j \in (i + 1)..Len(order)} \/ q \notin ToSet(order)

\* Of two guessers still in the room the earlier one never gets less, although
\* the scores are rounded and have a floor, and players in front of them in the
\* order may have been removed.
OrderPays ==
    \A p, q \in Members(room') \ {room.turnDrawer} :
        GuessedBefore(p, q) => Gain(p) >= Gain(q)

\* A drawer still in the room never gets more than the best paid guesser of
\* the turn nor less than the worst paid one, and nothing when nobody is paid.
DrawerShares ==
    room.turnDrawer \in Members(room') =>
        LET d    == room.turnDrawer
            paid == {Gain(p) : p \in Members(room') \ {d}} \ {0}
        IN  IF paid = {} THEN Gain(d) = 0
            ELSE Min(paid) <= Gain(d) /\ Gain(d) <= Max(paid)

\* Whichever step ends a turn (the last guess, the timer, a disconnection), it
\* pays guessers by their order and the drawer by the guessers.
TurnPaysFairly == [][ TurnEnds => OrderPays /\ DrawerShares ]_mvars

\* A game begins even: in the lobby nobody has points, hits or a streak left
\* of an earlier game, however that game ended and whoever came and went.
LobbyIsEven ==
    room.alive /\ room.state = "LOBBY" =>
        \A p \in Players : board[p] = Rematched(board[p])

\* The session counts a game at most once for a player and a win only in a
\* counted game, also when the host ends a game, a late select_word brings an
\* ended game back, or the room runs out of players.
CountedOnce ==
    \A p \in Players : board[p].wins <= board[p].games /\ board[p].games <= started

\* A spectator is never credited with a guess, a game or a win, before and
\* after the host lets it play.  (Points it can get: a removal may move the
\* drawer's seat to a spectator, whose select_word is then accepted.)
WatchersScoreNothing ==
    room.alive =>
        \A p \in Members(room) \cap room.spectators :
            [board[p] EXCEPT !.score = 0] = Fresh

\* The board: even before a game, every game counted once, nothing counted for
\* who only watched.
BoardIsFair == MTypeOK /\ LobbyIsEven /\ CountedOnce /\ WatchersScoreNothing
=============================================================================
