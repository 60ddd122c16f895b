-------------------------- MODULE TurnTasksProofs --------------------------
(***************************************************************************)
(* Theorems about TurnTasks, for every number of players and rounds: what  *)
(* the turn handlers keep whether or not they suspend, and what they keep  *)
(* where each of them is one step.                                         *)
(***************************************************************************)
EXTENDS TurnTasks, WellFoundedInduction, FiniteSetTheorems, TLAPS

Points == {"drawer_selecting", "waiting_for_reconnect", "turn_ended", "guess_correct",
           "player_list", "turn_started"}

Game == [suspends  : BOOLEAN,
         state     : {"WORD_SELECTION", "PLAYING", "GAME_OVER"},
         connected : SUBSET Seats,
         seat      : Seats,
         round     : Nat,
         pending   : BOOLEAN,
         turn      : Nat,
         begun     : Nat,
         drawer    : 0..N,
         guessed   : SUBSET Seats,
         timers    : SUBSET Nat,
         autos     : SUBSET [id : Nat, drawer : Nat],
         autoRef   : Nat,
         made      : Nat,
         countdown : BOOLEAN,
         paid      : SUBSET Nat,
         repaid    : BOOLEAN,
         ended     : SUBSET Nat,
         procs     : SUBSET [by : Int, at : Points, arg : Nat]]

\* However the handlers interleave: a turn is one that has begun, in a room that
\* is PLAYING with no word to be chosen, and no selection is past the last round.
Orderly(s) ==
    /\ s \in Game
    /\ s.turn <= s.begun
    /\ s.turn # 0 => s.state = "PLAYING" /\ ~s.pending
    /\ s.state = "WORD_SELECTION" => s.round <= NumRounds(s)

\* Where a handler is one step nothing is suspended, the current turn is
\* unpaid, and no turn was paid before it began or paid twice.
Payable(s) ==
    ~s.suspends =>
        /\ s.procs = {}
        /\ s.turn # 0 => s.turn \notin s.paid
        /\ \A k \in s.paid : k <= s.begun
        /\ ~s.repaid

\* And the current turn has its timer.
Timed(s) == ~s.suspends /\ s.turn # 0 => s.turn \in s.timers

Kept(s) == Orderly(s) /\ Payable(s) /\ Timed(s)

TurnInv == Kept(g)

\* What a handler does with the turn where it is one step: end_turn has run for
\* a turn that is gone, or the game is over.
NotLost(s, r) ==
    ~s.suspends /\ s.turn # 0 /\ r.turn # s.turn
        => s.turn \in r.ended \/ r.state = "GAME_OVER"
-----------------------------------------------------------------------------
\* A non-empty set of seats has a first one.
LEMMA FirstOfIs ==
    ASSUME NEW S \in SUBSET Seats, S # {}
    PROVE  FirstOf(S) \in S
<1> DEFINE Less == {ss \in Nat \X Nat : ss[1] < ss[2]}
<1>1. S \in SUBSET Nat BY TurnTasksAssumption DEF Seats
<1>2. IsWellFoundedOn(Less, Nat) BY NatLessThanWellFounded DEF OpToRel
<1>3. \A x, y \in Nat : y < x => <<y, x>> \in Less OBVIOUS
<1> HIDE DEF Less
<1>4. PICK x \in S : \A y \in S : ~ (<<y, x>> \in Less) BY <1>1, <1>2, WFMin
<1>5. ASSUME NEW y \in S PROVE x <= y
  <2>1. x \in Nat /\ y \in Nat BY <1>1
  <2>2. ~ (y < x) BY <1>3, <1>4, <2>1
  <2> QED BY <2>1, <2>2
<1> QED BY <1>5 DEF FirstOf

\* A handler suspends, or goes on.
LEMMA AwaitKept ==
    ASSUME NEW s, Orderly(s), NEW by \in Int, NEW at \in Points, NEW arg \in Nat, NEW rest,
           ~s.suspends => Kept(rest) /\ rest.ended = s.ended
    PROVE  LET r == Await(s, by, at, arg, rest) IN
           /\ Kept(r) /\ r.ended = s.ended
           /\ ~s.suspends => r = rest
<1> DEFINE q == [by |-> by, at |-> at, arg |-> arg]
           r == Await(s, by, at, arg, rest)
<1>1. s \in Game BY DEF Orderly
<1>2. CASE ~s.suspends BY <1>2 DEF Await
<1>3. CASE s.suspends /\ by = Cancelled
  <2>1. r = s BY <1>3 DEF Await
  <2>2. Kept(s) BY <1>3 DEF Kept, Payable, Timed
  <2> QED BY <1>3, <2>1, <2>2
<1>4. CASE s.suspends /\ by # Cancelled
  <2>1. q \in [by : Int, at : Points, arg : Nat] OBVIOUS
  <2>2. r = [s EXCEPT !.procs = s.procs \cup {q}] BY <1>4 DEF Await
  <2> HIDE DEF q, r
  <2>3. /\ r \in Game /\ r.suspends = s.suspends /\ r.turn = s.turn /\ r.begun = s.begun
        /\ r.state = s.state /\ r.round = s.round /\ r.ended = s.ended
        /\ r.pending = s.pending
        BY <1>1, <2>1, <2>2 DEF Game
  <2>4. Orderly(r) BY <2>3 DEF Orderly, NumRounds
  <2>5. Kept(r) BY <1>4, <2>3, <2>4 DEF Kept, Payable, Timed
  <2> QED BY <1>4, <2>3, <2>5 DEF r
<1> QED BY <1>2, <1>3, <1>4

\* start_turn, with no turn in the room and a round that is still to be played.
LEMMA StartTurnKept ==
    ASSUME NEW s \in Game, s.turn = 0, Payable(s), s.round <= NumRounds(s), NEW by \in Int
    PROVE  LET r == StartTurn(s, by) IN Kept(r) /\ r.ended = s.ended
<1> DEFINE t == [s EXCEPT !.pending = TRUE, !.state = "WORD_SELECTION"]
           u == AfterSelecting(t, t.seat)
<1>1. /\ t \in Game /\ t.suspends = s.suspends /\ t.turn = 0 /\ t.begun = s.begun
      /\ t.round = s.round /\ t.ended = s.ended /\ t.procs = s.procs /\ t.paid = s.paid
      /\ t.seat \in Seats
      BY DEF Game
<1>1a. t.repaid = s.repaid BY DEF Game
<1>2. StartTurn(s, by) = Await(t, by, "drawer_selecting", t.seat, u) BY DEF StartTurn
<1> HIDE DEF t
<1>3. Kept(t)
  <2>1. t.begun \in Nat BY <1>1 DEF Game
  <2>2. Orderly(t) BY <1>1, <2>1 DEF Orderly, NumRounds
  <2> QED BY <1>1, <1>1a, <2>2 DEF Kept, Payable, Timed
<1>4. t.seat \in Nat BY <1>1, TurnTasksAssumption DEF Seats
<1>5. Kept(u) /\ u.ended = t.ended
  <2> DEFINE a == [id |-> t.made + 1, drawer |-> t.seat]
             k == t.made + 1
  <2>1. a \in [id : Nat, drawer : Nat] /\ k \in Nat BY <1>1, <1>4 DEF Game
  <2>2. u = [t EXCEPT !.autos = t.autos \cup {a}, !.autoRef = k, !.made = k]
        BY <1>1 DEF AfterSelecting, Game
  <2> HIDE DEF a, k, u
  <2>3. /\ u \in Game /\ u.suspends = t.suspends /\ u.turn = t.turn /\ u.begun = t.begun
        /\ u.state = t.state /\ u.round = t.round /\ u.ended = t.ended /\ u.procs = t.procs
        /\ u.paid = t.paid /\ u.timers = t.timers
        BY <1>1, <2>1, <2>2 DEF Game
  <2>4. u.pending = t.pending /\ u.repaid = t.repaid BY <1>1, <2>2 DEF Game
  <2>5. Orderly(u) BY <1>3, <2>3, <2>4 DEF Kept, Orderly, NumRounds
  <2> QED BY <1>3, <2>3, <2>4, <2>5 DEF Kept, Payable, Timed
<1> HIDE DEF u
<1>6. Orderly(t) /\ "drawer_selecting" \in Points BY <1>3 DEF Kept, Points
<1> QED BY <1>1, <1>2, <1>4, <1>5, <1>6, AwaitKept

\* _end_game_insufficient_players.
LEMMA WaitKept ==
    ASSUME NEW s, Kept(s), NEW by \in Int
    PROVE  LET r == WaitForPlayers(s, by) IN
           /\ Kept(r) /\ r.ended = s.ended
           /\ ~s.suspends => r.turn = s.turn
<1> DEFINE u == AfterWaiting(s)
<1>1. s \in Game /\ Orderly(s) BY DEF Kept, Orderly
<1>2. /\ u \in Game /\ u.suspends = s.suspends /\ u.turn = s.turn /\ u.begun = s.begun
      /\ u.state = s.state /\ u.round = s.round /\ u.ended = s.ended /\ u.procs = s.procs
      /\ u.paid = s.paid /\ u.timers = s.timers
      BY <1>1 DEF AfterWaiting, Game
<1>3. u.pending = s.pending /\ u.repaid = s.repaid BY <1>1 DEF AfterWaiting, Game
<1> HIDE DEF u
<1>4. Kept(u)
  <2>1. Orderly(u) BY <1>1, <1>2, <1>3 DEF Orderly, NumRounds
  <2> QED BY <1>2, <1>3, <2>1 DEF Kept, Payable, Timed
<1>5. CASE s.countdown BY <1>5 DEF WaitForPlayers
<1>6. CASE ~s.countdown
  <2>1. WaitForPlayers(s, by) = Await(s, by, "waiting_for_reconnect", 0, u)
        BY <1>6 DEF WaitForPlayers, u
  <2>2. "waiting_for_reconnect" \in Points BY DEF Points
  <2> QED BY <1>1, <1>2, <1>4, <2>1, <2>2, AwaitKept
<1> QED BY <1>5, <1>6

\* advance_turn_or_round: a turn is started only in a round that is to be played.
LEMMA AdvanceKept ==
    ASSUME NEW s, Kept(s), s.turn = 0, NEW by \in Int
    PROVE  LET r == Advance(s, by) IN Kept(r) /\ r.ended = s.ended
<1> DEFINE ahead == {i \in s.connected : i > s.seat}
           on    == [s EXCEPT !.seat = FirstOf(ahead)]
           wrap  == [s EXCEPT !.seat = FirstOf(s.connected), !.round = @ + 1]
           over  == [wrap EXCEPT !.state = "GAME_OVER"]
           r     == Advance(s, by)
<1>1. s \in Game /\ Payable(s) BY DEF Kept, Orderly
<1>2. r = IF Cardinality(s.connected) < 2 THEN WaitForPlayers(s, by)
          ELSE IF ahead # {} /\ s.round <= NumRounds(s) THEN StartTurn(on, by)
          ELSE IF wrap.round > NumRounds(s) THEN over
          ELSE StartTurn(wrap, by)
      BY DEF Advance
<1>3. ahead \in SUBSET Seats /\ s.connected \in SUBSET Seats BY <1>1 DEF Game
<1>4. ahead # {} => FirstOf(ahead) \in Seats
  <2> HIDE DEF ahead
  <2> QED BY <1>3, FirstOfIs
<1>5. CASE Cardinality(s.connected) < 2
  <2>1. r = WaitForPlayers(s, by) BY <1>2, <1>5
  <2> QED BY <2>1, WaitKept
<1>6. CASE ~(Cardinality(s.connected) < 2) /\ ahead # {} /\ s.round <= NumRounds(s)
  <2> DEFINE k == FirstOf(ahead)
  <2>1. r = StartTurn(on, by) BY <1>2, <1>6
  <2>2. k \in Seats /\ on = [s EXCEPT !.seat = k] BY <1>4, <1>6
  <2> HIDE DEF k, on
  <2>3. /\ on \in Game /\ on.turn = 0 /\ on.round = s.round /\ on.suspends = s.suspends
        /\ on.ended = s.ended /\ on.procs = s.procs /\ on.paid = s.paid /\ on.begun = s.begun
        BY <1>1, <2>2 DEF Game
  <2>4. on.repaid = s.repaid BY <1>1, <2>2 DEF Game
  <2>5. Payable(on) /\ on.round <= NumRounds(on) BY <1>1, <1>6, <2>3, <2>4 DEF Payable, NumRounds
  <2> QED BY <2>1, <2>3, <2>5, StartTurnKept
<1>7. CASE ~(Cardinality(s.connected) < 2) /\ ~(ahead # {} /\ s.round <= NumRounds(s))
  <2> DEFINE k == FirstOf(s.connected)
             n == s.round + 1
  <2>1. s.connected # {}
    <3> SUFFICES ASSUME s.connected = {} PROVE FALSE OBVIOUS
    <3>1. Cardinality(s.connected) = 0 BY FS_EmptySet
    <3> QED BY <1>7, <3>1
  <2>2. k \in Seats /\ n \in Nat BY <1>1, <1>3, <2>1, FirstOfIs DEF Game
  <2>3. wrap = [s EXCEPT !.seat = k, !.round = n] BY <1>1 DEF Game
  <2>4. r = IF wrap.round > NumRounds(s) THEN over ELSE StartTurn(wrap, by) BY <1>2, <1>7
  <2>5. over = [wrap EXCEPT !.state = "GAME_OVER"] OBVIOUS
  <2> HIDE DEF k, n, wrap, over
  <2>6. /\ wrap \in Game /\ wrap.turn = 0 /\ wrap.round = n /\ wrap.suspends = s.suspends
        /\ wrap.ended = s.ended /\ wrap.procs = s.procs /\ wrap.paid = s.paid
        /\ wrap.begun = s.begun
        BY <1>1, <2>2, <2>3 DEF Game
  <2>7. wrap.repaid = s.repaid BY <1>1, <2>2, <2>3 DEF Game
  <2>8. Payable(wrap) BY <1>1, <2>6, <2>7 DEF Payable
  <2>9. CASE wrap.round > NumRounds(s)
    <3>1. r = over BY <2>4, <2>9
    <3>2. /\ over \in Game /\ over.turn = 0 /\ over.suspends = s.suspends
          /\ over.state = "GAME_OVER" /\ over.begun \in Nat
          /\ over.ended = s.ended /\ over.procs = s.procs /\ over.paid = s.paid
          /\ over.begun = s.begun
          BY <2>5, <2>6 DEF Game
    <3>3. over.repaid = s.repaid BY <2>5, <2>6, <2>7 DEF Game
    <3>4. Orderly(over) BY <3>2 DEF Orderly
    <3>5. Kept(over) BY <1>1, <3>2, <3>3, <3>4 DEF Kept, Payable, Timed
    <3> QED BY <3>1, <3>2, <3>5
  <2>10. CASE ~(wrap.round > NumRounds(s))
    <3>1. r = StartTurn(wrap, by) BY <2>4, <2>10
    <3>2. NumRounds(s) \in Nat /\ NumRounds(wrap) = NumRounds(s)
          BY <1>1, <2>6, TurnTasksAssumption DEF Game, NumRounds
    <3>3. wrap.round <= NumRounds(wrap) BY <2>2, <2>6, <2>10, <3>2
    <3> QED BY <2>6, <2>8, <3>1, <3>3, StartTurnKept
  <2> QED BY <2>9, <2>10
<1> QED BY <1>5, <1>6, <1>7

\* end_turn after its broadcast.
LEMMA TurnEndedKept ==
    ASSUME NEW s, Orderly(s), ~s.suspends => s.procs = {} /\ ~s.repaid /\ \A k \in s.paid : k <= s.begun,
           NEW by \in Int
    PROVE  LET r == AfterTurnEnded(s, by) IN Kept(r) /\ r.ended = s.ended
<1> DEFINE t == [s EXCEPT !.turn = 0, !.drawer = 0]
<1>1. s \in Game /\ 0 \in 0..N /\ 0 \in Nat BY TurnTasksAssumption DEF Orderly
<1>2. /\ t \in Game /\ t.turn = 0 /\ t.suspends = s.suspends /\ t.state = s.state
      /\ t.round = s.round /\ t.ended = s.ended /\ t.procs = s.procs /\ t.paid = s.paid
      /\ t.begun = s.begun /\ t.begun \in Nat
      BY <1>1 DEF Game
<1>3. t.repaid = s.repaid BY <1>1 DEF Game
<1>4. AfterTurnEnded(s, by) = Advance(t, by) BY DEF AfterTurnEnded
<1> HIDE DEF t
<1>5. Orderly(t) BY <1>2 DEF Orderly, NumRounds
<1>6. Kept(t) BY <1>2, <1>3, <1>5 DEF Kept, Payable, Timed
<1> QED BY <1>2, <1>4, <1>6, AdvanceKept

\* end_turn of the room's turn.
LEMMA EndTurnKept ==
    ASSUME NEW s, Orderly(s), Payable(s), s.turn # 0, NEW by \in Int, NEW scores \in BOOLEAN
    PROVE  LET r == EndTurn(s, by, scores) IN
           /\ Kept(r)
           /\ s.turn \in r.ended
<1> DEFINE T == s.timers \ {s.turn}
           E == s.ended \cup {s.turn}
           R == s.repaid \/ (scores /\ s.turn \in s.paid)
           P == IF scores THEN s.paid \cup {s.turn} ELSE s.paid
           t == [s EXCEPT !.timers = T, !.ended = E, !.repaid = R, !.paid = P]
           u == AfterTurnEnded(t, by)
<1>1. s \in Game /\ s.turn \in Nat /\ s.begun \in Nat /\ s.turn <= s.begun BY DEF Orderly, Game
<1>2. EndTurn(s, by, scores) = Await(t, by, "turn_ended", 0, u) BY <1>1 DEF EndTurn, Game
<1>3. T \in SUBSET Nat /\ E \in SUBSET Nat /\ P \in SUBSET Nat /\ s.turn \in E
      BY <1>1 DEF Game
<1>4. R \in BOOLEAN BY <1>1 DEF Game
<1>5. ~s.suspends => ~R /\ \A k \in P : k <= s.begun BY <1>1 DEF Payable
<1> HIDE DEF T, E, R, P
<1>6. /\ t \in Game /\ t.turn = s.turn /\ t.suspends = s.suspends /\ t.state = s.state
      /\ t.round = s.round /\ t.ended = E /\ t.procs = s.procs /\ t.paid = P
      /\ t.begun = s.begun
      BY <1>1, <1>3, <1>4 DEF Game
<1>7. t.pending = s.pending /\ t.repaid = R BY <1>1, <1>3, <1>4 DEF Game
<1> HIDE DEF t, u
<1>8. Orderly(t) BY <1>6, <1>7 DEF Orderly, NumRounds
<1>9. ~t.suspends => t.procs = {} /\ ~t.repaid /\ \A k \in t.paid : k <= t.begun
      BY <1>5, <1>6, <1>7 DEF Payable
<1>10. Kept(u) /\ u.ended = t.ended BY <1>8, <1>9, TurnEndedKept DEF u
<1>11. "turn_ended" \in Points BY DEF Points
<1> QED BY <1>2, <1>3, <1>6, <1>8, <1>10, <1>11, AwaitKept

\* handle_guess after its broadcast.
LEMMA GuessedKept ==
    ASSUME NEW s, Kept(s), NEW by \in Int
    PROVE  LET r == AfterGuessCorrect(s, by) IN Kept(r) /\ NotLost(s, r)
<1>1. CASE s.turn # 0 /\ AllGuessed(s)
  <2>1. AfterGuessCorrect(s, by) = EndTurn(s, by, TRUE) BY <1>1 DEF AfterGuessCorrect
  <2> QED BY <1>1, <2>1, EndTurnKept DEF Kept, NotLost
<1>2. CASE ~(s.turn # 0 /\ AllGuessed(s))
  <2>1. AfterGuessCorrect(s, by) = s BY <1>2 DEF AfterGuessCorrect
  <2> QED BY <2>1 DEF NotLost
<1> QED BY <1>1, <1>2

\* handle_disconnect after its broadcast.
LEMMA ListedKept ==
    ASSUME NEW s, Kept(s), NEW p \in Int
    PROVE  LET r == AfterPlayerList(s, p) IN Kept(r) /\ NotLost(s, r)
<1> DEFINE r == AfterPlayerList(s, p)
<1>1. \/ r = s
      \/ s.turn # 0 /\ r = EndTurn(s, p, FALSE)
      \/ r = WaitForPlayers(s, p)
      \/ s.turn # 0 /\ r = EndTurn(s, p, TRUE)
  <2>1. CASE s.state = "GAME_OVER" BY <2>1 DEF AfterPlayerList
  <2>2. CASE s.state # "GAME_OVER" /\ s.turn # 0 /\ s.drawer = p BY <2>2 DEF AfterPlayerList
  <2>3. CASE s.state # "GAME_OVER" /\ ~(s.turn # 0 /\ s.drawer = p)
    <3>1. r = IF Cardinality(s.connected) < 2 THEN WaitForPlayers(s, p)
              ELSE IF s.turn # 0 /\ s.state = "PLAYING" /\ AllGuessed(s)
                   THEN EndTurn(s, p, TRUE)
                   ELSE s
          BY <2>3 DEF AfterPlayerList
    <3> QED BY <3>1
  <2> QED BY <2>1, <2>2, <2>3
<1>2. CASE r = s BY <1>2 DEF NotLost
<1>3. CASE r = WaitForPlayers(s, p) BY <1>3, WaitKept DEF NotLost
<1>4. CASE s.turn # 0 /\ r = EndTurn(s, p, FALSE) BY <1>4, EndTurnKept DEF Kept, NotLost
<1>5. CASE s.turn # 0 /\ r = EndTurn(s, p, TRUE) BY <1>5, EndTurnKept DEF Kept, NotLost
<1> QED BY <1>1, <1>2, <1>3, <1>4, <1>5

\* handle_word_selection, its checks passed.
LEMMA BeginTurnKept ==
    ASSUME NEW s, Orderly(s), Payable(s), NEW by \in Int
    PROVE  Kept(BeginTurn(s, by))
<1> DEFINE A == {t \in s.autos : t.id # s.autoRef}
           n == s.begun + 1
           d == s.seat
           r == [s EXCEPT !.autos = A, !.autoRef = 0, !.turn = n, !.begun = n, !.drawer = d,
                          !.state = "PLAYING", !.guessed = {}, !.pending = FALSE]
           u == AfterTurnStarted(r, r.turn)
<1>1. s \in Game /\ s.begun \in Nat BY DEF Orderly, Game
<1>2. BeginTurn(s, by) = Await(r, by, "turn_started", r.turn, u) BY <1>1 DEF BeginTurn, Game
<1>3. A \in SUBSET [id : Nat, drawer : Nat] /\ n \in Nat /\ n # 0 /\ 0 \in Nat BY <1>1 DEF Game
<1>4. d \in 0..N BY <1>1, TurnTasksAssumption DEF Game, Seats
<1>5. ~s.suspends => \A k \in s.paid : k <= n /\ k # n
  <2> SUFFICES ASSUME ~s.suspends, NEW k \in s.paid PROVE k <= n /\ k # n OBVIOUS
  <2>1. k \in Nat /\ k <= s.begun BY <1>1 DEF Payable, Game
  <2> QED BY <1>1, <2>1
<1> HIDE DEF A, n, d
<1>6. /\ r \in Game /\ r.turn = n /\ r.begun = n /\ r.state = "PLAYING"
      /\ r.suspends = s.suspends /\ r.procs = s.procs /\ r.paid = s.paid /\ r.ended = s.ended
      BY <1>1, <1>3, <1>4 DEF Game
<1>7. ~r.pending /\ r.repaid = s.repaid BY <1>1, <1>3, <1>4 DEF Game
<1> HIDE DEF r
<1>8. Orderly(r) BY <1>3, <1>6, <1>7 DEF Orderly
<1>9. Payable(r) BY <1>5, <1>6, <1>7 DEF Payable
<1>10. Kept(u) /\ u.ended = r.ended
  <2> DEFINE T == r.timers \cup {n}
  <2>1. u = [r EXCEPT !.timers = T] /\ T \in SUBSET Nat /\ n \in T
        BY <1>3, <1>6 DEF AfterTurnStarted, Game
  <2> HIDE DEF T, u
  <2>2. /\ u \in Game /\ u.turn = n /\ u.begun = n /\ u.state = "PLAYING" /\ u.timers = T
        /\ u.suspends = r.suspends /\ u.procs = r.procs /\ u.paid = r.paid /\ u.ended = r.ended
        BY <1>6, <2>1 DEF Game
  <2>3. ~u.pending /\ u.repaid = r.repaid BY <1>6, <1>7, <2>1 DEF Game
  <2>4. Orderly(u) BY <1>3, <2>2, <2>3 DEF Orderly
  <2>5. Payable(u) BY <1>6, <1>9, <2>2, <2>3 DEF Payable
  <2>6. Timed(u) BY <2>1, <2>2 DEF Timed
  <2> QED BY <2>2, <2>4, <2>5, <2>6 DEF Kept
<1> HIDE DEF u
<1>11. "turn_started" \in Points /\ r.turn \in Nat BY <1>3, <1>6 DEF Points
<1> QED BY <1>2, <1>8, <1>10, <1>11, AwaitKept

\* end_game_immediately.
LEMMA EndGameKept ==
    ASSUME NEW s, Orderly(s), Payable(s)
    PROVE  LET r == EndGameImmediately(s) IN Kept(r) /\ r.state = "GAME_OVER"
<1> DEFINE A == {t \in s.autos : t.id # s.autoRef}
           T == s.timers \ {s.turn}
           r == EndGameImmediately(s)
<1>1. s \in Game BY DEF Orderly
<1>2. A \in SUBSET [id : Nat, drawer : Nat] /\ T \in SUBSET Nat /\ 0 \in 0..N /\ 0 \in Nat
      BY <1>1, TurnTasksAssumption DEF Game
<1>3. r = [s EXCEPT !.timers = T, !.turn = 0, !.drawer = 0, !.autos = A, !.autoRef = 0,
                    !.state = "GAME_OVER"]
      BY <1>1 DEF EndGameImmediately, Game
<1> HIDE DEF A, T, r
<1>4. /\ r \in Game /\ r.turn = 0 /\ r.state = "GAME_OVER" /\ r.begun = s.begun /\ r.begun \in Nat
      /\ r.suspends = s.suspends /\ r.procs = s.procs /\ r.paid = s.paid
      BY <1>1, <1>2, <1>3 DEF Game
<1>5. r.repaid = s.repaid BY <1>1, <1>2, <1>3 DEF Game
<1>6. Orderly(r) BY <1>4 DEF Orderly
<1>7. Kept(r) BY <1>4, <1>5, <1>6 DEF Kept, Payable, Timed
<1> QED BY <1>4, <1>7 DEF r
-----------------------------------------------------------------------------
(* Steps.                                                                  *)

\* A change that is not about turns, rounds or scores.
LEMMA AlikeKept ==
    ASSUME NEW s, NEW r \in Game, Orderly(s), Payable(s),
           r.suspends = s.suspends, r.state = s.state, r.round = s.round, r.turn = s.turn,
           r.begun = s.begun, r.paid = s.paid, r.repaid = s.repaid, r.pending = s.pending,
           r.procs \subseteq s.procs
    PROVE  /\ Orderly(r) /\ Payable(r)
           /\ Timed(s) /\ r.timers = s.timers => Kept(r)
<1>1. Orderly(r) BY DEF Orderly, NumRounds
<1>2. Payable(r) BY DEF Payable
<1> QED BY <1>1, <1>2 DEF Kept, Timed

\* Messages of clients.
LEMMA ClientKept ==
    ASSUME TurnInv, NEW p \in Seats, SelectWord(p) \/ GuessCorrectly(p) \/ Disconnect(p)
    PROVE  TurnInv' /\ NotLost(g, g')
<1>1. g \in Game /\ Orderly(g) /\ Payable(g) /\ Timed(g) BY DEF TurnInv, Kept, Orderly
<1>2. p \in Int BY TurnTasksAssumption DEF Seats
<1>3. CASE SelectWord(p)
  <2>1. g' = BeginTurn(g, p) /\ g.turn = 0 BY <1>1, <1>3 DEF SelectWord, Orderly
  <2> QED BY <1>1, <1>2, <2>1, BeginTurnKept DEF TurnInv, NotLost
<1>4. CASE GuessCorrectly(p)
  <2> DEFINE r == [g EXCEPT !.guessed = @ \cup {p}]
             u == AfterGuessCorrect(r, p)
  <2>1. g' = Await(r, p, "guess_correct", 0, u) BY <1>4 DEF GuessCorrectly
  <2>2. /\ r \in Game /\ r.suspends = g.suspends /\ r.state = g.state /\ r.round = g.round
        /\ r.turn = g.turn /\ r.begun = g.begun /\ r.paid = g.paid /\ r.procs = g.procs
        /\ r.timers = g.timers /\ r.ended = g.ended
        BY <1>1 DEF Game
  <2>3. r.repaid = g.repaid /\ r.pending = g.pending BY <1>1 DEF Game
  <2> HIDE DEF r
  <2>4. Kept(r) BY <1>1, <2>2, <2>3, AlikeKept
  <2>5. Kept(u) /\ NotLost(r, u) BY <1>2, <2>4, GuessedKept
  <2> HIDE DEF u
  <2>6. CASE g.suspends
    <3>1. "guess_correct" \in Points BY DEF Points
    <3>2. Kept(g') BY <1>2, <2>1, <2>2, <2>4, <2>6, <3>1, AwaitKept DEF Kept
    <3> QED BY <2>6, <3>2 DEF TurnInv, NotLost
  <2>7. CASE ~g.suspends
    <3>1. g' = u BY <2>1, <2>2, <2>7 DEF Await
    <3> QED BY <2>2, <2>5, <3>1 DEF TurnInv, NotLost
  <2> QED BY <2>6, <2>7
<1>5. CASE Disconnect(p)
  <2> DEFINE r == [g EXCEPT !.connected = @ \ {p}]
             u == AfterPlayerList(r, p)
  <2>1. g' = Await(r, p, "player_list", 0, u) BY <1>5 DEF Disconnect
  <2>2. /\ r \in Game /\ r.suspends = g.suspends /\ r.state = g.state /\ r.round = g.round
        /\ r.turn = g.turn /\ r.begun = g.begun /\ r.paid = g.paid /\ r.procs = g.procs
        /\ r.timers = g.timers /\ r.ended = g.ended
        BY <1>1 DEF Game
  <2>3. r.repaid = g.repaid /\ r.pending = g.pending BY <1>1 DEF Game
  <2> HIDE DEF r
  <2>4. Kept(r) BY <1>1, <2>2, <2>3, AlikeKept
  <2>5. Kept(u) /\ NotLost(r, u) BY <1>2, <2>4, ListedKept
  <2> HIDE DEF u
  <2>6. CASE g.suspends
    <3>1. "player_list" \in Points BY DEF Points
    <3>2. Kept(g') BY <1>2, <2>1, <2>2, <2>4, <2>6, <3>1, AwaitKept DEF Kept
    <3> QED BY <2>6, <3>2 DEF TurnInv, NotLost
  <2>7. CASE ~g.suspends
    <3>1. g' = u BY <2>1, <2>2, <2>7 DEF Await
    <3> QED BY <2>2, <2>5, <3>1 DEF TurnInv, NotLost
  <2> QED BY <2>6, <2>7
<1> QED BY <1>3, <1>4, <1>5

\* The host ends the game, or a sleeping task fires.
LEMMA TaskKept ==
    ASSUME TurnInv,
           \/ EndGameNow \/ CountdownFires
           \/ \E t \in g.autos : AutoSelectFires(t)
           \/ \E k \in g.timers : TurnTimerFires(k)
    PROVE  TurnInv' /\ NotLost(g, g')
<1>1. g \in Game /\ Orderly(g) /\ Payable(g) /\ Timed(g) BY DEF TurnInv, Kept, Orderly
<1>2. CASE EndGameNow
  <2> DEFINE r == EndGameImmediately(g)
  <2>1. g' = [r EXCEPT !.countdown = FALSE] BY <1>2 DEF EndGameNow
  <2>2. Kept(r) /\ r.state = "GAME_OVER" BY <1>1, EndGameKept
  <2> HIDE DEF r
  <2>3. r \in Game BY <2>2 DEF Kept, Orderly
  <2>4. /\ g' \in Game /\ g'.suspends = r.suspends /\ g'.state = r.state /\ g'.round = r.round
        /\ g'.turn = r.turn /\ g'.begun = r.begun /\ g'.paid = r.paid /\ g'.procs = r.procs
        /\ g'.timers = r.timers
        BY <2>1, <2>3 DEF Game
  <2>5. g'.repaid = r.repaid /\ g'.pending = r.pending BY <2>1, <2>3 DEF Game
  <2>6. Kept(g') BY <2>2, <2>4, <2>5, AlikeKept DEF Kept
  <2> QED BY <2>2, <2>4, <2>6 DEF TurnInv, NotLost
<1>3. CASE CountdownFires
  <2> DEFINE r == [g EXCEPT !.countdown = FALSE]
  <2>1. g' = IF Cardinality(g.connected) < 2 THEN EndGameImmediately(r) ELSE r
        BY <1>3 DEF CountdownFires
  <2>2. /\ r \in Game /\ r.suspends = g.suspends /\ r.state = g.state /\ r.round = g.round
        /\ r.turn = g.turn /\ r.begun = g.begun /\ r.paid = g.paid /\ r.procs = g.procs
        /\ r.timers = g.timers
        BY <1>1 DEF Game
  <2>3. r.repaid = g.repaid /\ r.pending = g.pending BY <1>1 DEF Game
  <2> HIDE DEF r
  <2>4. Kept(r) BY <1>1, <2>2, <2>3, AlikeKept
  <2>5. CASE g' = r BY <2>2, <2>4, <2>5 DEF TurnInv, NotLost
  <2>6. CASE g' = EndGameImmediately(r) BY <2>4, <2>6, EndGameKept DEF Kept, TurnInv, NotLost
  <2> QED BY <2>1, <2>5, <2>6
<1>4. ASSUME NEW t \in g.autos, AutoSelectFires(t) PROVE TurnInv' /\ NotLost(g, g')
  <2> DEFINE A == g.autos \ {t}
             r == [g EXCEPT !.autos = A]
             by == IF r.autoRef = t.id THEN Cancelled ELSE EngineTask
  <2>0. A \in SUBSET [id : Nat, drawer : Nat] BY <1>1 DEF Game
  <2>1. \/ g' = r
        \/ r.pending /\ g' = BeginTurn(r, by)
    <3>1. r = [g EXCEPT !.autos = @ \ {t}] BY <1>1 DEF Game
    <3> HIDE DEF A, r
    <3> QED BY <1>4, <3>1 DEF AutoSelectFires
  <2> HIDE DEF A
  <2>2. /\ r \in Game /\ r.suspends = g.suspends /\ r.state = g.state /\ r.round = g.round
        /\ r.turn = g.turn /\ r.begun = g.begun /\ r.paid = g.paid /\ r.procs = g.procs
        /\ r.timers = g.timers
        BY <1>1, <2>0 DEF Game
  <2>3. r.repaid = g.repaid /\ r.pending = g.pending BY <1>1, <2>0 DEF Game
  <2> HIDE DEF r
  <2>4. by \in Int
    <3>1. Cancelled \in Int /\ EngineTask \in Int BY DEF Cancelled, EngineTask
    <3> QED BY <3>1
  <2> HIDE DEF by
  <2>5. Kept(r) BY <1>1, <2>2, <2>3, AlikeKept
  <2>6. CASE g' = r BY <2>2, <2>5, <2>6 DEF TurnInv, NotLost
  <2>7. CASE r.pending /\ g' = BeginTurn(r, by)
    <3>1. g.turn = 0 BY <1>1, <2>3, <2>7 DEF Orderly
    <3> QED BY <2>4, <2>5, <2>7, <3>1, BeginTurnKept DEF Kept, TurnInv, NotLost
  <2> QED BY <2>1, <2>6, <2>7
<1>5. ASSUME NEW k \in g.timers, TurnTimerFires(k) PROVE TurnInv' /\ NotLost(g, g')
  <2> DEFINE T == g.timers \ {k}
             r == [g EXCEPT !.timers = T]
  <2>0. T \in SUBSET Nat BY <1>1 DEF Game
  <2>1. g' = IF r.turn = k /\ r.state = "PLAYING" THEN EndTurn(r, Cancelled, TRUE) ELSE r
        BY <1>1, <1>5 DEF TurnTimerFires, Game
  <2> HIDE DEF T
  <2>2. /\ r \in Game /\ r.suspends = g.suspends /\ r.state = g.state /\ r.round = g.round
        /\ r.turn = g.turn /\ r.begun = g.begun /\ r.paid = g.paid /\ r.procs = g.procs
        /\ r.timers = T
        BY <1>1, <2>0 DEF Game
  <2>3. r.repaid = g.repaid /\ r.pending = g.pending BY <1>1, <2>0 DEF Game
  <2>4. Cancelled \in Int /\ k \in Nat BY <1>1 DEF Cancelled, Game
  <2> HIDE DEF r
  <2>5. Orderly(r) /\ Payable(r) BY <1>1, <2>2, <2>3, AlikeKept
  <2>6. CASE r.turn # 0 /\ r.turn = k /\ r.state = "PLAYING"
    <3>1. g' = EndTurn(r, Cancelled, TRUE) BY <2>1, <2>6
    <3>2. Kept(g') /\ r.turn \in g'.ended BY <2>4, <2>5, <2>6, <3>1, EndTurnKept
    <3> QED BY <2>2, <3>2 DEF TurnInv, NotLost
  <2>7. CASE ~(r.turn # 0 /\ r.turn = k /\ r.state = "PLAYING")
    <3>1. r.turn = 0 \/ r.turn # k BY <2>5, <2>7 DEF Orderly
    <3>2. g' = r
      <4>1. CASE r.turn # k BY <2>1, <4>1
      <4>2. CASE r.turn = 0 BY <2>1, <4>2 DEF EndTurn
      <4> QED BY <3>1, <4>1, <4>2
    <3>3. Timed(r) BY <1>1, <2>2, <3>1 DEF Timed, T
    <3>4. Kept(r) BY <2>5, <3>3 DEF Kept
    <3> QED BY <2>2, <3>2, <3>4 DEF TurnInv, NotLost
  <2> QED BY <2>6, <2>7
<1> QED BY <1>2, <1>3, <1>4, <1>5

\* A suspended handler goes on.
LEMMA ResumeKept ==
    ASSUME TurnInv, NEW q \in g.procs, Resume(q)
    PROVE  TurnInv' /\ NotLost(g, g')
<1> DEFINE Q == g.procs \ {q}
           r == [g EXCEPT !.procs = Q]
<1>1. g \in Game /\ Orderly(g) /\ Payable(g) /\ Timed(g) BY DEF TurnInv, Kept, Orderly
<1>2. g.suspends = TRUE BY <1>1 DEF Payable, Game
<1>3. q.by \in Int /\ q.arg \in Nat /\ q.at \in Points BY <1>1 DEF Game
<1>4. Q \in SUBSET [by : Int, at : Points, arg : Nat] BY <1>1 DEF Game
<1>5. r = [g EXCEPT !.procs = @ \ {q}] BY <1>1 DEF Game
<1> HIDE DEF Q
<1>6. /\ r \in Game /\ r.suspends = g.suspends /\ r.state = g.state /\ r.round = g.round
      /\ r.turn = g.turn /\ r.begun = g.begun /\ r.paid = g.paid /\ r.timers = g.timers
      /\ r.procs = Q
      BY <1>1, <1>4 DEF Game
<1>7. r.repaid = g.repaid /\ r.pending = g.pending BY <1>1, <1>4 DEF Game
<1> HIDE DEF r
<1>8. Kept(r) BY <1>1, <1>6, <1>7, AlikeKept DEF Q
<1>9. g' = CASE q.at = "drawer_selecting"      -> AfterSelecting(r, q.arg)
             [] q.at = "waiting_for_reconnect" -> AfterWaiting(r)
             [] q.at = "turn_ended"            -> AfterTurnEnded(r, q.by)
             [] q.at = "guess_correct"         -> AfterGuessCorrect(r, q.by)
             [] q.at = "player_list"           -> AfterPlayerList(r, q.by)
             [] q.at = "turn_started"          -> AfterTurnStarted(r, q.arg)
      BY <1>5 DEF Resume
<1>10. Kept(g')
  <2>1. CASE q.at = "drawer_selecting"
    <3> DEFINE k == r.made + 1
               A == r.autos \cup {[id |-> k, drawer |-> q.arg]}
    <3>1. g' = AfterSelecting(r, q.arg) BY <1>9, <2>1
    <3>2. g' = [r EXCEPT !.autos = A, !.autoRef = k, !.made = k]
          BY <1>6, <3>1 DEF AfterSelecting, Game
    <3>3. k \in Nat /\ A \in SUBSET [id : Nat, drawer : Nat] BY <1>3, <1>6 DEF Game
    <3> HIDE DEF k, A
    <3>4. /\ g' \in Game /\ g'.suspends = r.suspends /\ g'.state = r.state /\ g'.round = r.round
          /\ g'.turn = r.turn /\ g'.begun = r.begun /\ g'.paid = r.paid /\ g'.timers = r.timers
          /\ g'.procs = r.procs
          BY <1>6, <3>2, <3>3 DEF Game
    <3>5. g'.repaid = r.repaid /\ g'.pending = r.pending BY <1>6, <3>2, <3>3 DEF Game
    <3> QED BY <1>8, <3>4, <3>5, AlikeKept DEF Kept
  <2>2. CASE q.at = "waiting_for_reconnect"
    <3>1. g' = AfterWaiting(r) BY <1>9, <2>2
    <3>2. /\ g' \in Game /\ g'.suspends = r.suspends /\ g'.state = r.state /\ g'.round = r.round
          /\ g'.turn = r.turn /\ g'.begun = r.begun /\ g'.paid = r.paid /\ g'.timers = r.timers
          /\ g'.procs = r.procs
          BY <1>6, <3>1 DEF Game, AfterWaiting
    <3>3. g'.repaid = r.repaid /\ g'.pending = r.pending BY <1>6, <3>1 DEF Game, AfterWaiting
    <3> QED BY <1>8, <3>2, <3>3, AlikeKept DEF Kept
  <2>3. CASE q.at = "turn_ended"
    <3>1. g' = AfterTurnEnded(r, q.by) BY <1>9, <2>3
    <3> QED BY <1>2, <1>3, <1>6, <1>8, <3>1, TurnEndedKept DEF Kept
  <2>4. CASE q.at = "guess_correct"
    <3>1. g' = AfterGuessCorrect(r, q.by) BY <1>9, <2>4
    <3> QED BY <1>3, <1>8, <3>1, GuessedKept
  <2>5. CASE q.at = "player_list"
    <3>1. g' = AfterPlayerList(r, q.by) BY <1>9, <2>5
    <3> QED BY <1>3, <1>8, <3>1, ListedKept
  <2>6. CASE q.at = "turn_started"
    <3> DEFINE T == r.timers \cup {q.arg}
    <3>1. g' = AfterTurnStarted(r, q.arg) BY <1>9, <2>6
    <3>2. g' = [r EXCEPT !.timers = T] BY <1>6, <3>1 DEF AfterTurnStarted, Game
    <3>3. T \in SUBSET Nat BY <1>3, <1>6 DEF Game
    <3> HIDE DEF T
    <3>4. /\ g' \in Game /\ g'.suspends = r.suspends /\ g'.state = r.state /\ g'.round = r.round
          /\ g'.turn = r.turn /\ g'.begun = r.begun /\ g'.paid = r.paid
          /\ g'.procs = r.procs
          BY <1>6, <3>2, <3>3 DEF Game
    <3>5. g'.repaid = r.repaid /\ g'.pending = r.pending BY <1>6, <3>2, <3>3 DEF Game
    <3>6. Orderly(g') /\ Payable(g') BY <1>8, <3>4, <3>5, AlikeKept DEF Kept
    <3> QED BY <1>2, <1>6, <3>4, <3>6 DEF Kept, Timed
  <2> QED BY <1>3, <2>1, <2>2, <2>3, <2>4, <2>5, <2>6 DEF Points
<1> QED BY <1>2, <1>10 DEF TurnInv, NotLost

\* Every step.
LEMMA TurnStep ==
    ASSUME TurnInv, [Next]_g
    PROVE  TurnInv' /\ NotLost(g, g')
<1>1. CASE Next BY <1>1, ClientKept, TaskKept, ResumeKept DEF Next
<1>2. CASE g' = g BY <1>2 DEF TurnInv, NotLost
<1> QED BY <1>1, <1>2

\* A game that has just started.
LEMMA InitTurn == Init => TurnInv
<1> SUFFICES ASSUME NEW redis \in BOOLEAN,
        g = [suspends |-> redis,
             state |-> "WORD_SELECTION", connected |-> Seats, seat |-> 1, round |-> 1,
             pending |-> TRUE, turn |-> 0, begun |-> 0, drawer |-> 0, guessed |-> {},
             timers |-> {}, autos |-> {[id |-> 1, drawer |-> 1]}, autoRef |-> 1,
             made |-> 1, countdown |-> FALSE, paid |-> {}, repaid |-> FALSE,
             ended |-> {}, procs |-> {}]
    PROVE TurnInv
    BY DEF Init
<1>1. 1 \in Seats /\ 0 \in 0..N BY TurnTasksAssumption DEF Seats
<1>2. g \in Game BY <1>1 DEF Game
<1>3. /\ g.turn = 0 /\ g.begun = 0 /\ g.round = 1 /\ g.suspends = redis /\ g.procs = {}
      /\ g.paid = {}
      OBVIOUS
<1>4. g.repaid = FALSE OBVIOUS
<1>5. 1 <= NumRounds(g) BY <1>3, TurnTasksAssumption DEF NumRounds
<1>6. Orderly(g) BY <1>2, <1>3, <1>5 DEF Orderly
<1> QED BY <1>3, <1>4, <1>6 DEF TurnInv, Kept, Payable, Timed
-----------------------------------------------------------------------------
\* The handlers keep their invariant, suspended or not.
THEOREM TurnsAreInductive == Spec => []TurnInv
<1>1. Init => TurnInv BY InitTurn
<1>2. TurnInv /\ [Next]_g => TurnInv' BY TurnStep
<1> QED BY <1>1, <1>2, PTL DEF Spec

\* However handlers suspend and go on with what they read, a turn is there only
\* in a room that is PLAYING and nothing is selected past the last round.
THEOREM TurnsAlwaysInOrder == Spec => []TurnsInOrder
<1>1. TurnInv => TurnsInOrder
      BY DEF TurnInv, Kept, Orderly, TurnsInOrder, TurnOnlyInPlay, LastRoundHolds
<1> QED BY <1>1, TurnsAreInductive, PTL

\* Where broadcasts do not suspend, the current turn has its timer.
THEOREM TurnAlwaysTimed == Spec => []TurnHasTimer
<1>1. TurnInv => TurnHasTimer BY DEF TurnInv, Kept, Timed, TurnHasTimer
<1> QED BY <1>1, TurnsAreInductive, PTL

\* Where broadcasts do not suspend, a turn goes only through end_turn or with
\* the game.
THEOREM TurnNeverLost == Spec => NoTurnIsLost
<1>1. TurnInv /\ [Next]_g =>
        [ (~g.suspends /\ g.turn # 0 /\ g'.turn # g.turn)
            => g.turn \in g'.ended \/ g'.state = "GAME_OVER" ]_g
      BY TurnStep DEF NotLost
<1> QED BY <1>1, TurnsAreInductive, PTL DEF Spec, NoTurnIsLost
=============================================================================
