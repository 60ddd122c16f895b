--------------------------- MODULE GameRoomProofs ---------------------------
(***************************************************************************)
(* Theorems about GameRoom and VoteKick for every set of players, number   *)
(* of rounds and number of connections.                                    *)
(*                                                                         *)
(* First the room: InductiveInv is preserved by every action; each handler *)
(* has a lemma that says what it does to the invariant of the room, cited  *)
(* by the actions that call it.  Then its books: who is counted as         *)
(* connected, who has guessed, what a round owes its players, and that the *)
(* room implements the abstract rotation.  Last the ballots: the room      *)
(* keeps its invariant and its books when players are voted out of it, a   *)
(* ballot stays about players who are there, and the game goes on after a  *)
(* kick.                                                                   *)
(***************************************************************************)
EXTENDS VoteKick, TLAPS, WellFoundedInduction, FiniteSetTheorems

\* A handler brings in no player that the room does not know, and gives the
\* turn to nobody; only BeginTurn does that.
Within(r, s) ==
    /\ Members(s) \cup s.drawn \subseteq Members(r) \cup r.drawn
    /\ s.turnDrawer \in {r.turnDrawer, NoPlayer}
-----------------------------------------------------------------------------
(* Seats.                                                                  *)

\* A non-empty set of naturals has a least element.
LEMMA LeastNat ==
    ASSUME NEW T \in SUBSET Nat, T # {}
    PROVE  \E x \in T : \A y \in T : x <= y
<1> DEFINE Less == {ss \in Nat \X Nat : ss[1] < ss[2]}
<1>1. IsWellFoundedOn(Less, Nat) BY NatLessThanWellFounded DEF OpToRel
<1>2. \A x, y \in Nat : y < x => <<y, x>> \in Less OBVIOUS
<1> HIDE DEF Less
<1>3. PICK x \in T : \A y \in T : ~ (<<y, x>> \in Less) BY <1>1, WFMin
<1>4. ASSUME NEW y \in T PROVE x <= y
  <2>1. x \in Nat /\ y \in Nat OBVIOUS
  <2>2. ~ (y < x) BY <1>2, <1>3, <2>1
  <2> QED BY <2>1, <2>2
<1> QED BY <1>4

\* FirstSeat finds a listed player of S if there is one (next(...) in the code).
LEMMA FirstSeatIs ==
    ASSUME NEW r \in Room, NEW S, Members(r) \cap S # {}
    PROVE  /\ FirstSeat(r, S) \in DOMAIN r.players
           /\ r.players[FirstSeat(r, S)] \in S \cap Members(r)
<1> DEFINE T == {i \in DOMAIN r.players : r.players[i] \in S}
<1>1. r.players \in Seq(Players) BY DEF Room
<1>2. T \in SUBSET Nat /\ T # {} BY <1>1 DEF Members
<1>3. PICK x \in T : \A y \in T : x <= y BY <1>2, LeastNat
<1>4. \E i \in DOMAIN r.players :
        /\ r.players[i] \in S
        /\ \A j \in DOMAIN r.players : r.players[j] \in S => i <= j
      BY <1>3
<1> QED BY <1>4 DEF FirstSeat, Members

\* The new host is a connected player of the room.
LEMMA NewHostIs ==
    ASSUME NEW r \in Room, r.connected \subseteq Members(r), r.connected # {}
    PROVE  NewHost(r) \in r.connected
<1> DEFINE S == IF Active(r) # {} THEN Active(r) ELSE r.connected
<1>1. Members(r) \cap S # {} /\ S \subseteq r.connected BY DEF Active
<1>2. r.players[FirstSeat(r, S)] \in S BY <1>1, FirstSeatIs
<1> QED BY <1>1, <1>2 DEF NewHost

\* The player in the drawer's seat is a member.
LEMMA SeatedIs ==
    ASSUME NEW r \in Room, HasSeat(r)
    PROVE  /\ r.drawerIndex + 1 \in DOMAIN r.players
           /\ Seated(r) \in Members(r)
           /\ Seated(r) \in Players
<1>1. r.players \in Seq(Players) /\ r.drawerIndex \in Nat BY DEF Room
<1> QED BY <1>1 DEF HasSeat, Seated, Members

\* Members are ids.
LEMMA MembersArePlayers ==
    ASSUME NEW r \in Room
    PROVE  Members(r) \subseteq Players
<1>1. r.players \in Seq(Players) BY DEF Room
<1> QED BY <1>1 DEF Members

\* The skip loop's target seat lies ahead and holds an active player.
LEMMA SeatNextIs ==
    ASSUME NEW r \in Room, SeatsAhead(r) # {}
    PROVE  /\ SeatNext(r) \in Room
           /\ SeatNext(r).drawerIndex \in Nat
           /\ SeatNext(r).drawerIndex >= r.drawerIndex
           /\ HasSeat(SeatNext(r))
           /\ Seated(SeatNext(r)) \in Active(r)
<1>1. r.players \in Seq(Players) /\ r.drawerIndex \in Nat BY DEF Room
<1>2. SeatsAhead(r) \in SUBSET Nat BY <1>1 DEF SeatsAhead
<1>3. \E i \in SeatsAhead(r) : \A j \in SeatsAhead(r) : i <= j BY <1>2, LeastNat
<1> DEFINE k == CHOOSE i \in SeatsAhead(r) : \A j \in SeatsAhead(r) : i <= j
<1>4. k \in SeatsAhead(r) BY <1>3
<1>5. SeatNext(r) = [r EXCEPT !.drawerIndex = k - 1] BY DEF SeatNext
<1> HIDE DEF k
<1>6. k \in DOMAIN r.players /\ k > r.drawerIndex /\ r.players[k] \in Active(r)
      BY <1>4 DEF SeatsAhead
<1>7. k - 1 \in Nat /\ k - 1 >= r.drawerIndex /\ k - 1 < Len(r.players)
      BY <1>1, <1>6
<1>8. /\ SeatNext(r) \in Room
      /\ SeatNext(r).drawerIndex = k - 1
      /\ SeatNext(r).players = r.players
      BY <1>5, <1>7 DEF Room
<1>9. (k - 1) + 1 = k BY <1>1, <1>6
<1> QED BY <1>6, <1>7, <1>8, <1>9 DEF HasSeat, Seated
-----------------------------------------------------------------------------
(* Taking a player out of the list.                                        *)

\* Without deletes one position and closes the gap.
LEMMA WithoutIs ==
    ASSUME NEW s \in Seq(Players), NEW p, \E i \in DOMAIN s : s[i] = p,
           \A i, j \in DOMAIN s : s[i] = s[j] => i = j
    PROVE  /\ Without(s, p) \in Seq(Players)
           /\ \A i, j \in DOMAIN Without(s, p) : Without(s, p)[i] = Without(s, p)[j] => i = j
           /\ {Without(s, p)[i] : i \in DOMAIN Without(s, p)} = {s[i] : i \in DOMAIN s} \ {p}
           /\ \A i \in DOMAIN Without(s, p) :
                 \E j \in DOMAIN s : i <= j /\ s[j] = Without(s, p)[i]
                 
<1> DEFINE k == CHOOSE i \in DOMAIN s : s[i] = p
           w == [i \in 1..(Len(s) - 1) |-> IF i < k THEN s[i] ELSE s[i + 1]]
<1>1. k \in DOMAIN s /\ s[k] = p OBVIOUS
<1>2. Without(s, p) = w BY DEF Without
<1> HIDE DEF k
<1>3. DOMAIN s = 1..Len(s) /\ Len(s) \in Nat /\ Len(s) >= 1 /\ k \in 1..Len(s) BY <1>1
<1>4. DOMAIN w = 1..(Len(s) - 1) OBVIOUS
<1>5. \A i \in 1..(Len(s) - 1) :
        /\ i \in 1..Len(s) /\ i + 1 \in 1..Len(s)
        /\ w[i] = IF i < k THEN s[i] ELSE s[i + 1]
      BY <1>3
<1>6. w \in [1..(Len(s) - 1) -> Players] BY <1>3, <1>5
<1>7. w \in Seq(Players) BY <1>3, <1>6
<1>8. \A i, j \in DOMAIN w : w[i] = w[j] => i = j
      BY <1>1, <1>3, <1>4, <1>5
<1>9. \A i \in DOMAIN w : \E j \in DOMAIN s : i <= j /\ s[j] = w[i] /\ j # k
      BY <1>3, <1>4, <1>5
<1>10. \A j \in DOMAIN s : j # k => \E i \in DOMAIN w : w[i] = s[j]
  <2> SUFFICES ASSUME NEW j \in DOMAIN s, j # k PROVE \E i \in DOMAIN w : w[i] = s[j]
      OBVIOUS
  <2>1. CASE j < k BY <1>3, <1>4, <1>5, <2>1
  <2>2. CASE j > k
    <3>1. j - 1 \in DOMAIN w /\ ~ (j - 1 < k) /\ (j - 1) + 1 = j BY <1>3, <1>4, <2>2
    <3>2. w[j - 1] = s[j] BY <1>4, <1>5, <3>1
    <3> QED BY <3>1, <3>2
  <2> QED BY <1>3, <2>1, <2>2
<1> HIDE DEF w
<1>11. {w[i] : i \in DOMAIN w} = {s[i] : i \in DOMAIN s} \ {p}
  <2>1. ASSUME NEW i \in DOMAIN w PROVE w[i] \in {s[j] : j \in DOMAIN s} /\ w[i] # p
        BY <1>1, <1>9
  <2>2. ASSUME NEW j \in DOMAIN s, s[j] # p PROVE s[j] \in {w[i] : i \in DOMAIN w}
    <3>1. j # k BY <1>1, <2>2
    <3>2. PICK i \in DOMAIN w : w[i] = s[j] BY <1>10, <3>1
    <3> QED BY <3>2
  <2> QED BY <2>1, <2>2
<1>12. Without(s, p) \in Seq(Players) BY <1>2, <1>7
<1>13. \A i, j \in DOMAIN Without(s, p) : Without(s, p)[i] = Without(s, p)[j] => i = j
       BY <1>2, <1>8
<1>14. {Without(s, p)[i] : i \in DOMAIN Without(s, p)} = {s[i] : i \in DOMAIN s} \ {p}
       BY <1>2, <1>11
<1>15. \A i \in DOMAIN Without(s, p) :
          \E j \in DOMAIN s : i <= j /\ s[j] = Without(s, p)[i]
       BY <1>2, <1>9
<1> QED BY <1>12, <1>13, <1>14, <1>15
-----------------------------------------------------------------------------
(* game_engine.py: handlers that leave the list alone.                     *)

\* What a change keeps that touches neither the list nor the host.
LEMMA SeatingKept ==
    ASSUME NEW r, NEW s, Seating(r), s \in Room, s.players = r.players,
           s.connected \cup Cleanups(s) \subseteq Members(r),
           s.alive => r.alive, s.host = r.host
    PROVE  Seating(s) /\ Members(s) = Members(r)
<1>1. Members(s) = Members(r) BY DEF Members
<1> QED BY <1>1 DEF Seating

\* start_turn opens a selection phase for a seat nobody before has drawn past.
LEMMA StartTurnInv ==
    ASSUME NEW r, Seating(r), HasSeat(r), r.turnDrawer = NoPlayer,
           r.round <= NumRounds, DrawnUpTo(r, r.drawerIndex)
    PROVE  RoomInv(StartTurn(r)) /\ Within(r, StartTurn(r))
<1> DEFINE s == StartTurn(r)
<1>1. r \in Room BY DEF Seating
<1>2. Seated(r) \in Players BY <1>1, SeatedIs
<1>3. Cleanups(r) \subseteq Players BY <1>1 DEF Cleanups, Room
<1>4. /\ s \in Room /\ s.players = r.players /\ s.connected = r.connected
      /\ s.cleanup = r.cleanup /\ s.lostCleanup = r.lostCleanup
      /\ s.alive = r.alive /\ s.host = r.host /\ s.state = "WORD_SELECTION"
      /\ s.turnDrawer = NoPlayer /\ s.pending = TRUE /\ s.round = r.round
      /\ s.drawerIndex = r.drawerIndex /\ s.drawn = r.drawn
      BY <1>1, <1>2, <1>3 DEF StartTurn, Room, RoomState
<1> HIDE DEF s
<1>5. Seating(s) /\ Members(s) = Members(r)
      BY <1>4, SeatingKept DEF Seating, Cleanups
<1>6. PhaseOf(s) BY <1>4 DEF PhaseOf
<1>7. Rotating(s) BY <1>4 DEF Rotating, DrawnUpTo
<1> QED BY <1>4, <1>5, <1>6, <1>7 DEF RoomInv, Within, s

\* handle_word_selection starts the turn of somebody who has not drawn.
LEMMA BeginTurnInv ==
    ASSUME NEW r, RoomInv(r), HasSeat(r), r.pending
    PROVE  /\ RoomInv(BeginTurn(r)) /\ Members(BeginTurn(r)) = Members(r)
           /\ BeginTurn(r).drawn = r.drawn \cup {Seated(r)}
           /\ BeginTurn(r).turnDrawer = Seated(r)
           /\ Seated(r) \in Members(r) /\ Seated(r) \notin r.drawn
<1> DEFINE s == BeginTurn(r)
<1>1. r \in Room BY DEF RoomInv, Seating
<1>2. /\ r.players \in Seq(Players) /\ r.drawerIndex \in Nat /\ r.round \in Nat
      BY <1>1 DEF Room
<1>3. Seated(r) \in Players /\ Seated(r) \in Members(r) /\ r.drawerIndex + 1 \in DOMAIN r.players
      BY <1>1, SeatedIs
<1>4. /\ s \in Room /\ s.players = r.players /\ s.connected = r.connected
      /\ s.cleanup = r.cleanup /\ s.lostCleanup = r.lostCleanup
      /\ s.alive = r.alive /\ s.host = r.host /\ s.state = "PLAYING"
      /\ s.turnDrawer = Seated(r) /\ s.pending = FALSE /\ s.round = r.round
      /\ s.autoSelect = NoPlayer
      /\ s.drawerIndex = r.drawerIndex /\ s.drawn = r.drawn \cup {Seated(r)}
  <2>1. <<>> \in Seq(Players) OBVIOUS
  <2>2. r.drawn \cup {Seated(r)} \in SUBSET Players /\ r.owed \ {Seated(r)} \in SUBSET Players
        BY <1>1, <1>3 DEF Room
  <2> QED BY <1>1, <1>3, <2>1, <2>2 DEF BeginTurn, Room, RoomState
<1> HIDE DEF s
<1>5. Seating(s) /\ Members(s) = Members(r)
      BY <1>4, SeatingKept DEF RoomInv, Seating, Cleanups
<1>6. PhaseOf(s) BY <1>4 DEF PhaseOf
<1>7. DrawnUpTo(r, r.drawerIndex) /\ r.round <= NumRounds BY DEF RoomInv, Rotating
<1>8. Seated(r) \notin r.drawn BY <1>2, <1>3, <1>7 DEF DrawnUpTo, Seated
<1>9. DrawnUpTo(s, s.drawerIndex + 1)
  <2> SUFFICES ASSUME NEW i \in DOMAIN r.players, r.players[i] \in r.drawn \cup {Seated(r)}
               PROVE  i <= r.drawerIndex + 1
      BY <1>4 DEF DrawnUpTo
  <2>1. CASE r.players[i] \in r.drawn BY <1>2, <1>7, <2>1 DEF DrawnUpTo
  <2>2. CASE r.players[i] = Seated(r)
    <3>1. i = r.drawerIndex + 1 BY <1>3, <2>2 DEF RoomInv, Seating, Seated
    <3> QED BY <1>2, <3>1
  <2> QED BY <2>1, <2>2
<1>10. Rotating(s) BY <1>4, <1>7, <1>9 DEF Rotating
<1> QED BY <1>3, <1>4, <1>5, <1>6, <1>8, <1>10 DEF RoomInv, s

\* The room between two turns.
Idle(r) ==
    /\ Seating(r) /\ r.state = "PLAYING" /\ r.turnDrawer = NoPlayer
    /\ ~r.pending /\ r.autoSelect = NoPlayer /\ r.round <= NumRounds

\* A room between turns satisfies the invariant, with a countdown or without.
LEMMA IdleInv ==
    ASSUME NEW r, Idle(r)
    PROVE  RoomInv(r) /\ RoomInv(StartCountdown(r)) /\ Within(r, StartCountdown(r))
<1> DEFINE s == StartCountdown(r)
<1>1. r \in Room BY DEF Idle, Seating
<1>2. RoomInv(r) BY DEF Idle, RoomInv, PhaseOf, Rotating
<1>3. Cleanups(r) \subseteq Players BY <1>1 DEF Cleanups, Room
<1>4. /\ s \in Room /\ s.players = r.players /\ s.connected = r.connected
      /\ s.cleanup = r.cleanup /\ s.lostCleanup = r.lostCleanup
      /\ s.alive = r.alive /\ s.host = r.host /\ s.state = r.state
      /\ s.turnDrawer = r.turnDrawer /\ s.pending = r.pending /\ s.round = r.round
      /\ s.autoSelect = r.autoSelect /\ s.drawn = r.drawn
      BY <1>1, <1>3 DEF StartCountdown, Room
<1> HIDE DEF s
<1>5. Seating(s) /\ Members(s) = Members(r)
      BY <1>4, SeatingKept DEF Idle, Seating, Cleanups
<1>6. RoomInv(s) BY <1>4, <1>5 DEF Idle, RoomInv, PhaseOf, Rotating
<1> QED BY <1>2, <1>4, <1>5, <1>6 DEF Within, s

\* The wrap to the next round: its seats start over and nobody has drawn.
LEMMA NextRoundIs ==
    ASSUME NEW r, Idle(r)
    PROVE  LET s == NextRound(r) IN
           /\ s \in Room /\ Seating(s) /\ Members(s) = Members(r) /\ Active(s) = Active(r)
           /\ s.players = r.players /\ s.round = r.round + 1 /\ s.drawerIndex = 0
           /\ s.drawn = {} /\ s.state = "PLAYING" /\ s.turnDrawer = NoPlayer
           /\ ~s.pending /\ s.autoSelect = NoPlayer
<1> DEFINE s == NextRound(r)
<1>1. r \in Room BY DEF Idle, Seating
<1>2. Active(r) \subseteq Players BY <1>1, MembersArePlayers DEF Active
<1>3. /\ s \in Room /\ s.players = r.players /\ s.connected = r.connected
      /\ s.spectators = r.spectators
      /\ s.cleanup = r.cleanup /\ s.lostCleanup = r.lostCleanup
      /\ s.alive = r.alive /\ s.host = r.host /\ s.state = r.state
      /\ s.turnDrawer = r.turnDrawer /\ s.pending = r.pending /\ s.round = r.round + 1
      /\ s.autoSelect = r.autoSelect /\ s.drawn = {} /\ s.drawerIndex = 0
  <2>1. r.round + 1 \in Nat BY <1>1 DEF Room
  <2> QED BY <1>1, <1>2, <2>1 DEF NextRound, Room
<1> HIDE DEF s
<1>4. Seating(s) /\ Members(s) = Members(r)
      BY <1>3, SeatingKept DEF Idle, Seating, Cleanups
<1>5. Active(s) = Active(r) BY <1>3, <1>4 DEF Active
<1> QED BY <1>3, <1>4, <1>5 DEF Idle, s

\* The last round's end.
LEMMA GameOverInv ==
    ASSUME NEW r, Idle(r)
    PROVE  RoomInv(GameOver(NextRound(r))) /\ Within(r, GameOver(NextRound(r)))
<1> DEFINE n == NextRound(r)
           s == GameOver(n)
<1>1. /\ n \in Room /\ Seating(n) /\ Members(n) = Members(r) /\ n.drawn = {}
      /\ n.turnDrawer = NoPlayer /\ ~n.pending /\ n.autoSelect = NoPlayer
      BY NextRoundIs
<1> HIDE DEF n
<1>2. /\ s \in Room /\ s.players = n.players /\ s.connected = n.connected
      /\ s.cleanup = n.cleanup /\ s.lostCleanup = n.lostCleanup
      /\ s.alive = n.alive /\ s.host = n.host /\ s.state = "GAME_OVER"
      /\ s.turnDrawer = NoPlayer /\ ~s.pending
      /\ s.autoSelect = NoPlayer /\ s.drawn = {}
      BY <1>1 DEF GameOver, Room, RoomState
<1> HIDE DEF s
<1>3. Seating(s) /\ Members(s) = Members(n)
      BY <1>1, <1>2, SeatingKept DEF Seating, Cleanups
<1>4. RoomInv(s) BY <1>2, <1>3 DEF RoomInv, PhaseOf, Rotating, InGame
<1> QED BY <1>1, <1>2, <1>3, <1>4 DEF Within, s, n

\* SeatNext changes the index only.
LEMMA SeatNextSeating ==
    ASSUME NEW r, Seating(r), SeatsAhead(r) # {}, r.turnDrawer = NoPlayer,
           r.round <= NumRounds, DrawnUpTo(r, r.drawerIndex)
    PROVE  RoomInv(StartTurn(SeatNext(r))) /\ Within(r, StartTurn(SeatNext(r)))
<1> DEFINE s == SeatNext(r)
<1>1. r \in Room BY DEF Seating
<1>2. s \in Room /\ s.drawerIndex \in Nat /\ s.drawerIndex >= r.drawerIndex /\ HasSeat(s)
      BY <1>1, SeatNextIs
<1>3. /\ s.players = r.players /\ s.connected = r.connected
      /\ s.cleanup = r.cleanup /\ s.lostCleanup = r.lostCleanup
      /\ s.alive = r.alive /\ s.host = r.host /\ s.drawn = r.drawn
      /\ s.turnDrawer = r.turnDrawer /\ s.round = r.round
      BY <1>1 DEF SeatNext, Room
<1>4. r.drawerIndex \in Nat /\ r.players \in Seq(Players) BY <1>1 DEF Room
<1> HIDE DEF s
<1>5. Seating(s) /\ Members(s) = Members(r)
      BY <1>2, <1>3, SeatingKept DEF Seating, Cleanups
<1>6. DrawnUpTo(s, s.drawerIndex)
      BY <1>2, <1>3, <1>4 DEF DrawnUpTo
<1>7. RoomInv(StartTurn(s)) /\ Within(s, StartTurn(s))
      BY <1>2, <1>3, <1>5, <1>6, StartTurnInv
<1> QED BY <1>3, <1>5, <1>7 DEF Within, s

\* The skip loop ends in a selection phase or in the end of the game.
LEMMA SkipAndStartInv ==
    ASSUME NEW r, Idle(r), DrawnUpTo(r, r.drawerIndex), Active(r) # {}
    PROVE  RoomInv(SkipAndStart(r)) /\ Within(r, SkipAndStart(r))
<1> DEFINE n == NextRound(r)
<1>1. CASE SeatsAhead(r) # {}
      BY <1>1, SeatNextSeating DEF SkipAndStart, Idle
<1>2. CASE SeatsAhead(r) = {} /\ n.round > NumRounds
      BY <1>2, GameOverInv DEF SkipAndStart
<1>3. CASE SeatsAhead(r) = {} /\ ~ (n.round > NumRounds)
  <2>1. /\ n \in Room /\ Seating(n) /\ Members(n) = Members(r) /\ Active(n) = Active(r)
        /\ n.drawerIndex = 0 /\ n.drawn = {} /\ n.turnDrawer = NoPlayer
        BY NextRoundIs
  <2>2. n.round \in Nat /\ n.players \in Seq(Players) BY <2>1 DEF Room
  <2>3. SkipAndStart(r) = StartTurn(SeatNext(n)) BY <1>3 DEF SkipAndStart
  <2>4. n.round <= NumRounds BY <1>3, <2>2, ConfigAssumption
  <2> HIDE DEF n
  <2>5. SeatsAhead(n) # {}
    <3>1. PICK p \in Active(n) : TRUE BY <2>1
    <3>2. PICK i \in DOMAIN n.players : n.players[i] = p BY <3>1 DEF Active, Members
    <3>3. i > n.drawerIndex BY <2>1, <2>2
    <3> QED BY <3>1, <3>2, <3>3 DEF SeatsAhead
  <2>6. DrawnUpTo(n, n.drawerIndex) BY <2>1 DEF DrawnUpTo
  <2>7. RoomInv(StartTurn(SeatNext(n))) /\ Within(n, StartTurn(SeatNext(n)))
        BY <2>1, <2>4, <2>5, <2>6, SeatNextSeating
  <2> QED BY <2>1, <2>3, <2>7 DEF Within
<1> QED BY <1>1, <1>2, <1>3

\* advance_turn_or_round after a turn.
LEMMA AdvanceInv ==
    ASSUME NEW r, Idle(r), DrawnUpTo(r, r.drawerIndex + 1)
    PROVE  RoomInv(AdvanceTurnOrRound(r)) /\ Within(r, AdvanceTurnOrRound(r))
<1> DEFINE n == AdvanceSeat(r)
<1>1. r \in Room BY DEF Idle, Seating
<1>2. /\ r.drawerIndex \in Nat /\ r.players \in Seq(Players) /\ r.round \in Nat
      BY <1>1 DEF Room
<1>2a. ~ (Cardinality(Active(r)) < 2) => Active(r) # {}
  <2>1. Cardinality({}) = 0 BY FS_EmptySet
  <2> QED BY <2>1
<1>3. CASE Cardinality(Active(r)) < 2
      BY <1>3, IdleInv DEF AdvanceTurnOrRound
<1>4. CASE ~ (Cardinality(Active(r)) < 2) /\ r.drawerIndex + 1 >= Len(r.players)
  <2>1. n = NextRound(r) BY <1>4 DEF AdvanceSeat
  <2>2. /\ n \in Room /\ Seating(n) /\ Members(n) = Members(r) /\ Active(n) = Active(r)
        /\ n.drawerIndex = 0 /\ n.drawn = {} /\ n.turnDrawer = NoPlayer
        /\ n.state = "PLAYING" /\ ~n.pending /\ n.autoSelect = NoPlayer
        BY <2>1, NextRoundIs
  <2>3. Active(r) # {} BY <1>4, <1>2a
  <2>4. n.round \in Nat BY <2>2 DEF Room
  <2> HIDE DEF n
  <2>5. CASE n.round > NumRounds
    <3>1. AdvanceTurnOrRound(r) = GameOver(n) BY <1>4, <2>5 DEF AdvanceTurnOrRound, n
    <3> QED BY <2>1, <3>1, GameOverInv
  <2>6. CASE ~ (n.round > NumRounds)
    <3>1. AdvanceTurnOrRound(r) = SkipAndStart(n) BY <1>4, <2>6 DEF AdvanceTurnOrRound, n
    <3>2. Idle(n) BY <2>2, <2>4, <2>6, ConfigAssumption DEF Idle
    <3>3. DrawnUpTo(n, n.drawerIndex) BY <2>2 DEF DrawnUpTo
    <3>4. RoomInv(SkipAndStart(n)) /\ Within(n, SkipAndStart(n))
          BY <2>2, <2>3, <3>2, <3>3, SkipAndStartInv
    <3> QED BY <2>2, <3>1, <3>4 DEF Within
  <2> QED BY <2>5, <2>6
<1>5. CASE ~ (Cardinality(Active(r)) < 2) /\ ~ (r.drawerIndex + 1 >= Len(r.players))
  <2>1. n = [r EXCEPT !.drawerIndex = @ + 1] BY <1>5 DEF AdvanceSeat
  <2>2. /\ n \in Room /\ n.drawerIndex = r.drawerIndex + 1
        /\ n.players = r.players /\ n.connected = r.connected /\ n.spectators = r.spectators
        /\ n.cleanup = r.cleanup /\ n.lostCleanup = r.lostCleanup
        /\ n.alive = r.alive /\ n.host = r.host /\ n.drawn = r.drawn
        /\ n.turnDrawer = r.turnDrawer /\ n.round = r.round /\ n.state = r.state
        /\ n.pending = r.pending /\ n.autoSelect = r.autoSelect
    <3>1. r.drawerIndex + 1 \in Nat BY <1>2
    <3> QED BY <1>1, <2>1, <3>1 DEF Room
  <2>3. Active(r) # {} BY <1>5, <1>2a
  <2> HIDE DEF n
  <2>4. Seating(n) /\ Members(n) = Members(r)
        BY <2>2, SeatingKept DEF Idle, Seating, Cleanups
  <2>5. Active(n) = Active(r) BY <2>2, <2>4 DEF Active
  <2>6. AdvanceTurnOrRound(r) = SkipAndStart(n)
        BY <1>2, <1>5, <2>2, ConfigAssumption DEF AdvanceTurnOrRound, Idle, n
  <2>7. Idle(n) BY <2>2, <2>4 DEF Idle
  <2>8. DrawnUpTo(n, n.drawerIndex) BY <2>2 DEF DrawnUpTo
  <2>9. RoomInv(SkipAndStart(n)) /\ Within(n, SkipAndStart(n))
        BY <2>3, <2>5, <2>7, <2>8, SkipAndStartInv
  <2> QED BY <2>2, <2>4, <2>6, <2>9 DEF Within
<1> QED BY <1>3, <1>4, <1>5

\* end_turn, called with a turn.
LEMMA EndTurnInv ==
    ASSUME NEW r, RoomInv(r), r.turnDrawer # NoPlayer
    PROVE  RoomInv(EndTurn(r)) /\ Within(r, EndTurn(r))
<1> DEFINE s == [r EXCEPT !.turnDrawer = NoPlayer, !.guessOrder = <<>>]
<1>1. r \in Room BY DEF RoomInv, Seating
<1>2. /\ s \in Room /\ s.players = r.players /\ s.connected = r.connected
      /\ s.cleanup = r.cleanup /\ s.lostCleanup = r.lostCleanup
      /\ s.alive = r.alive /\ s.host = r.host /\ s.drawn = r.drawn
      /\ s.turnDrawer = NoPlayer /\ s.round = r.round /\ s.state = r.state
      /\ s.pending = r.pending /\ s.autoSelect = r.autoSelect
      /\ s.drawerIndex = r.drawerIndex
  <2>1. <<>> \in Seq(Players) OBVIOUS
  <2> QED BY <1>1, <2>1 DEF Room
<1>3. EndTurn(r) = AdvanceTurnOrRound(s) BY DEF EndTurn
<1> HIDE DEF s
<1>4. Seating(s) /\ Members(s) = Members(r)
      BY <1>2, SeatingKept DEF RoomInv, Seating, Cleanups
<1>5. Idle(s) BY <1>2, <1>4 DEF Idle, RoomInv, PhaseOf, Rotating, InGame
<1>6. DrawnUpTo(s, s.drawerIndex + 1) BY <1>2 DEF RoomInv, Rotating, DrawnUpTo
<1>7. RoomInv(AdvanceTurnOrRound(s)) /\ Within(s, AdvanceTurnOrRound(s))
      BY <1>5, <1>6, AdvanceInv
<1> QED BY <1>2, <1>3, <1>4, <1>7 DEF Within

\* The same, when it is called only if everybody has guessed.
LEMMA EndTurnIfAllGuessedInv ==
    ASSUME NEW r, RoomInv(r), r.turnDrawer # NoPlayer
    PROVE  RoomInv(EndTurnIfAllGuessed(r)) /\ Within(r, EndTurnIfAllGuessed(r))
BY EndTurnInv DEF EndTurnIfAllGuessed, Within

\* Two rooms that differ in nothing the invariant reads but who is connected
\* and which cleanups sleep.
Alike(r, s) ==
    /\ s \in Room /\ s.players = r.players /\ s.host = r.host /\ s.alive = r.alive
    /\ s.state = r.state /\ s.round = r.round /\ s.drawerIndex = r.drawerIndex
    /\ s.turnDrawer = r.turnDrawer /\ s.pending = r.pending
    /\ s.autoSelect = r.autoSelect /\ s.drawn = r.drawn

\* Connecting, disconnecting and scheduling members keeps the invariant.
LEMMA AlikeInv ==
    ASSUME NEW r, NEW s, RoomInv(r), Alike(r, s),
           s.connected \cup Cleanups(s) \subseteq Members(r)
    PROVE  RoomInv(s) /\ Members(s) = Members(r) /\ Within(r, s) /\ InGame(s) = InGame(r)
<1>1. Seating(s) /\ Members(s) = Members(r) BY SeatingKept DEF Alike, RoomInv
<1>2. InGame(s) = InGame(r) BY DEF Alike, InGame
<1>3. PhaseOf(s) BY DEF Alike, PhaseOf, RoomInv
<1>4. Rotating(s) BY <1>2 DEF Alike, Rotating, RoomInv, DrawnUpTo
<1> QED BY <1>1, <1>2, <1>3, <1>4 DEF RoomInv, Within, Alike

\* _end_game_insufficient_players only starts a task.
LEMMA StartCountdownInv ==
    ASSUME NEW r, RoomInv(r)
    PROVE  RoomInv(StartCountdown(r)) /\ Within(r, StartCountdown(r))
<1> DEFINE s == StartCountdown(r)
<1>1. r \in Room BY DEF RoomInv, Seating
<1>2. Cleanups(r) \subseteq Players BY <1>1 DEF Cleanups, Room
<1>3. Alike(r, s) /\ s.connected = r.connected /\ Cleanups(s) = Cleanups(r)
      BY <1>1, <1>2 DEF StartCountdown, Alike, Room, Cleanups
<1> HIDE DEF s
<1> QED BY <1>3, AlikeInv DEF RoomInv, Seating, s

\* The end of the countdown leaves the players and the host as they are.
LEMMA EndGameImmediatelyInv ==
    ASSUME NEW r, RoomInv(r)
    PROVE  /\ RoomInv(EndGameImmediately(r)) /\ Within(r, EndGameImmediately(r))
           /\ Members(EndGameImmediately(r)) = Members(r)
<1> DEFINE s == EndGameImmediately(r)
<1>1. r \in Room BY DEF RoomInv, Seating
<1>2. /\ s \in Room /\ s.players = r.players /\ s.connected = r.connected
      /\ s.cleanup = r.cleanup /\ s.lostCleanup = r.lostCleanup
      /\ s.alive = r.alive /\ s.host = r.host /\ s.drawn = r.drawn
      /\ s.turnDrawer = NoPlayer /\ s.round = r.round /\ s.state = "GAME_OVER"
      /\ s.pending = r.pending /\ s.autoSelect = NoPlayer
      /\ s.drawerIndex = r.drawerIndex
  <2>1. <<>> \in Seq(Players) OBVIOUS
  <2> QED BY <1>1, <2>1 DEF Room, RoomState, EndGameImmediately
<1> HIDE DEF s
<1>3. Seating(s) /\ Members(s) = Members(r)
      BY <1>2, SeatingKept DEF RoomInv, Seating, Cleanups
<1>4. PhaseOf(s) BY <1>2 DEF PhaseOf
<1>5. Rotating(s) BY <1>2 DEF Rotating, RoomInv, InGame, DrawnUpTo
<1> QED BY <1>2, <1>3, <1>4, <1>5 DEF RoomInv, Within, s
-----------------------------------------------------------------------------
(* room_manager.py: connections and the list.                              *)

\* is_connected is cleared.
LEMMA MarkDisconnectedInv ==
    ASSUME NEW r, RoomInv(r), NEW p
    PROVE  LET s == MarkDisconnected(r, p) IN
           RoomInv(s) /\ Members(s) = Members(r) /\ Within(r, s)
<1> DEFINE s == MarkDisconnected(r, p)
<1>1. r \in Room BY DEF RoomInv, Seating
<1>2. Alike(r, s) /\ s.connected = r.connected \ {p} /\ Cleanups(s) = Cleanups(r)
      BY <1>1 DEF MarkDisconnected, Alike, Room, Cleanups
<1> HIDE DEF s
<1>3. s.connected \cup Cleanups(s) \subseteq Members(r) BY <1>2 DEF RoomInv, Seating
<1> QED BY <1>2, <1>3, AlikeInv DEF s

\* The host and cleanup tasks of a player of the room are scheduled.
LEMMA ScheduleTasksInv ==
    ASSUME NEW r, RoomInv(r), NEW p \in Members(r)
    PROVE  LET s == ScheduleTasks(r, p) IN
           RoomInv(s) /\ Members(s) = Members(r) /\ Within(r, s)
<1> DEFINE s == ScheduleTasks(r, p)
<1>1. r \in Room BY DEF RoomInv, Seating
<1>2. p \in Players BY <1>1, MembersArePlayers
<1>3. Alike(r, s) /\ s.connected = r.connected /\ Cleanups(s) = Cleanups(r) \cup {p}
      BY <1>1, <1>2 DEF ScheduleTasks, Alike, Room, Cleanups
<1> HIDE DEF s
<1>4. s.connected \cup Cleanups(s) \subseteq Members(r) BY <1>3 DEF RoomInv, Seating
<1> QED BY <1>3, <1>4, AlikeInv DEF s

\* The in-game part of handle_disconnect.
LEMMA AfterDisconnectInv ==
    ASSUME NEW r, RoomInv(r), NEW p \in Players
    PROVE  RoomInv(AfterDisconnect(r, p)) /\ Within(r, AfterDisconnect(r, p))
<1>1. CASE ~InGame(r) BY <1>1 DEF AfterDisconnect, Within
<1>2. CASE InGame(r) /\ r.turnDrawer = p
  <2>1. r.turnDrawer # NoPlayer BY <1>2, NoPlayerAssumption
  <2>2. AfterDisconnect(r, p) = EndTurn(r) BY <1>2 DEF AfterDisconnect
  <2> QED BY <2>1, <2>2, EndTurnInv
<1>3. CASE InGame(r) /\ r.turnDrawer # p /\ Cardinality(Active(r)) < 2
  <2>1. AfterDisconnect(r, p) = StartCountdown(r) BY <1>3 DEF AfterDisconnect
  <2> QED BY <2>1, StartCountdownInv
<1>4. CASE InGame(r) /\ r.turnDrawer # p /\ ~ (Cardinality(Active(r)) < 2)
  <2>1. \/ AfterDisconnect(r, p) = r
        \/ r.turnDrawer # NoPlayer /\ AfterDisconnect(r, p) = EndTurnIfAllGuessed(r)
        BY <1>4 DEF AfterDisconnect
  <2> QED BY <2>1, EndTurnIfAllGuessedInv DEF Within
<1> QED BY <1>1, <1>2, <1>3, <1>4

\* handle_disconnect from the host check on.
LEMMA FinishDisconnectInv ==
    ASSUME NEW r, RoomInv(r), NEW p \in Members(r)
    PROVE  RoomInv(FinishDisconnect(r, p)) /\ Within(r, FinishDisconnect(r, p))
<1>1. r \in Room BY DEF RoomInv, Seating
<1>2. p \in Players BY <1>1, MembersArePlayers
<1>3. CASE r.host = p /\ r.connected = {} /\ ~InGame(r)
  <2> DEFINE s == Deleted(r)
  <2>1. FinishDisconnect(r, p) = s BY <1>3 DEF FinishDisconnect
  <2>2. /\ s \in Room /\ s.players = r.players /\ s.connected = r.connected
        /\ s.cleanup = r.cleanup /\ s.lostCleanup = r.lostCleanup
        /\ s.alive = FALSE /\ s.host = r.host /\ s.drawn = r.drawn
        /\ s.turnDrawer = r.turnDrawer /\ s.round = r.round /\ s.state = r.state
        /\ s.pending = r.pending /\ s.autoSelect = r.autoSelect
        /\ s.drawerIndex = r.drawerIndex
        BY <1>1 DEF Deleted, Room
  <2> HIDE DEF s
  <2>3. Seating(s) /\ Members(s) = Members(r)
        BY <2>2, SeatingKept DEF RoomInv, Seating, Cleanups
  <2>4. PhaseOf(s) BY <2>2 DEF PhaseOf, RoomInv
  <2>5. Rotating(s) BY <2>2 DEF Rotating, RoomInv, InGame, DrawnUpTo
  <2> QED BY <2>1, <2>2, <2>3, <2>4, <2>5 DEF RoomInv, Within
<1>4. CASE ~ (r.host = p /\ r.connected = {} /\ ~InGame(r))
  <2> DEFINE t == ScheduleTasks(r, p)
             n == AfterDisconnect(t, p)
             s == IF p \in n.lostCleanup THEN n ELSE [n EXCEPT !.ripe = @ \ {p}]
  <2>1. FinishDisconnect(r, p) = s BY <1>4 DEF FinishDisconnect
  <2>2. RoomInv(t) /\ Within(r, t) BY ScheduleTasksInv
  <2> HIDE DEF t
  <2>3. RoomInv(n) /\ Within(t, n) BY <1>2, <2>2, AfterDisconnectInv
  <2> HIDE DEF n
  <2>4. Alike(n, s) /\ s.connected = n.connected /\ Cleanups(s) = Cleanups(n)
    <3>1. n \in Room BY <2>3 DEF RoomInv, Seating
    <3> QED BY <3>1 DEF Alike, Room, Cleanups
  <2> HIDE DEF s
  <2>5. RoomInv(s) /\ Within(n, s) BY <2>3, <2>4, AlikeInv DEF RoomInv, Seating
  <2> QED BY <2>1, <2>2, <2>3, <2>5 DEF Within
<1> QED BY <1>3, <1>4

\* A disconnection as a whole.
LEMMA HandleDisconnectInv ==
    ASSUME NEW r, RoomInv(r), NEW p \in Members(r)
    PROVE  RoomInv(HandleDisconnect(r, p)) /\ Within(r, HandleDisconnect(r, p))
<1> DEFINE s == MarkDisconnected(r, p)
<1>1. RoomInv(s) /\ Members(s) = Members(r) /\ Within(r, s) BY MarkDisconnectedInv
<1> HIDE DEF s
<1>2. RoomInv(FinishDisconnect(s, p)) /\ Within(s, FinishDisconnect(s, p))
      BY <1>1, FinishDisconnectInv
<1> QED BY <1>1, <1>2 DEF HandleDisconnect, Within, s

\* handle_reconnect restores a player of the room.
LEMMA HandleReconnectInv ==
    ASSUME NEW r, RoomInv(r), NEW p \in Members(r)
    PROVE  RoomInv(HandleReconnect(r, p)) /\ Within(r, HandleReconnect(r, p))
<1> DEFINE s == HandleReconnect(r, p)
<1>1. r \in Room BY DEF RoomInv, Seating
<1>2. p \in Players BY <1>1, MembersArePlayers
<1>3. /\ Alike(r, s) /\ s.connected = r.connected \cup {p}
      /\ Cleanups(s) \subseteq Cleanups(r)
      BY <1>1, <1>2 DEF HandleReconnect, ResumeIfEnough, Alike, Room, Cleanups
<1> HIDE DEF s
<1>4. s.connected \cup Cleanups(s) \subseteq Members(r) BY <1>3 DEF RoomInv, Seating
<1> QED BY <1>3, <1>4, AlikeInv DEF s

\* Room.remove_player: all but the host's membership is kept.  Whoever sits
\* behind the removed player moves up, away from the drawer's seat.
LEMMA RemovedIs ==
    ASSUME NEW r, RoomInv(r), NEW p \in Members(r)
    PROVE  LET s == Removed(r, p) IN
           /\ s \in Room
           /\ \A i, j \in DOMAIN s.players : s.players[i] = s.players[j] => i = j
           /\ Members(s) = Members(r) \ {p}
           /\ s.connected = r.connected \ {p} /\ Cleanups(s) = Cleanups(r) \ {p}
           /\ s.host = r.host /\ s.alive = r.alive /\ s.state = r.state
           /\ s.drawn = r.drawn /\ s.turnDrawer = r.turnDrawer
           /\ PhaseOf(s) /\ Rotating(s)
<1> DEFINE s == Removed(r, p)
           w == Without(r.players, p)
<1>1. r \in Room BY DEF RoomInv, Seating
<1>2. p \in Players BY <1>1, MembersArePlayers
<1>3. r.players \in Seq(Players) /\ r.drawerIndex \in Nat BY <1>1 DEF Room
<1>4. /\ \E i \in DOMAIN r.players : r.players[i] = p
      /\ \A i, j \in DOMAIN r.players : r.players[i] = r.players[j] => i = j
      BY DEF Members, RoomInv, Seating
<1>5. /\ w \in Seq(Players)
      /\ \A i, j \in DOMAIN w : w[i] = w[j] => i = j
      /\ {w[i] : i \in DOMAIN w} = {r.players[i] : i \in DOMAIN r.players} \ {p}
      /\ \A i \in DOMAIN w : \E j \in DOMAIN r.players : i <= j /\ r.players[j] = w[i]
      BY <1>3, <1>4, WithoutIs
<1> HIDE DEF w
<1>6. /\ s \in Room /\ s.players = w
      /\ s.connected = r.connected \ {p} /\ Cleanups(s) = Cleanups(r) \ {p}
      /\ s.host = r.host /\ s.alive = r.alive /\ s.state = r.state
      /\ s.drawn = r.drawn
      /\ s.turnDrawer = r.turnDrawer /\ s.round = r.round
      /\ s.pending = r.pending /\ s.autoSelect = r.autoSelect
      /\ s.drawerIndex = r.drawerIndex
      BY <1>1, <1>2, <1>5 DEF Removed, Room, Cleanups, w
<1> HIDE DEF s
<1>7. Members(s) = Members(r) \ {p}
  <2>1. Members(s) = {w[i] : i \in DOMAIN w} BY <1>6 DEF Members
  <2>2. Members(r) = {r.players[i] : i \in DOMAIN r.players} BY DEF Members
  <2> QED BY <1>5, <2>1, <2>2
<1>8. PhaseOf(s) BY <1>6 DEF PhaseOf, RoomInv
<1>9. \A n \in Nat : DrawnUpTo(r, n) => DrawnUpTo(s, n)
  <2> SUFFICES ASSUME NEW n \in Nat, DrawnUpTo(r, n),
                      NEW i \in DOMAIN w, w[i] \in r.drawn
               PROVE  i <= n
      BY <1>6 DEF DrawnUpTo
  <2>1. PICK j \in DOMAIN r.players : i <= j /\ r.players[j] = w[i] BY <1>5
  <2>2. j <= n BY <2>1 DEF DrawnUpTo
  <2>3. i \in Nat /\ j \in Nat BY <1>3, <1>5
  <2> QED BY <2>1, <2>2, <2>3
<1>10. Rotating(s)
  <2>1. r.drawerIndex + 1 \in Nat BY <1>3
  <2> QED BY <1>3, <1>6, <1>9, <2>1 DEF Rotating, RoomInv, InGame
<1> QED BY <1>5, <1>6, <1>7, <1>8, <1>10 DEF s

\* _permanently_remove_player.
LEMMA PermanentlyRemoveInv ==
    ASSUME NEW r, RoomInv(r), NEW p \in Members(r)
    PROVE  RoomInv(PermanentlyRemove(r, p)) /\ Within(r, PermanentlyRemove(r, p))
<1> DEFINE left == Removed(r, p)
           kept == ReassignHost(left, p)
<1>1. /\ left \in Room
      /\ \A i, j \in DOMAIN left.players : left.players[i] = left.players[j] => i = j
      /\ Members(left) = Members(r) \ {p}
      /\ left.connected = r.connected \ {p} /\ Cleanups(left) = Cleanups(r) \ {p}
      /\ left.host = r.host /\ left.alive = r.alive /\ left.drawn = r.drawn
      /\ left.turnDrawer = r.turnDrawer
      /\ PhaseOf(left) /\ Rotating(left)
      BY RemovedIs
<1>2. left.connected \cup Cleanups(left) \subseteq Members(left)
      BY <1>1 DEF RoomInv, Seating
<1>3. /\ PermanentlyRemove(r, p) =
           IF left.connected = {} THEN Deleted(left)
           ELSE IF InGame(kept) /\ Cardinality(kept.connected) < 2
                THEN StartCountdown(kept) ELSE kept
      BY DEF PermanentlyRemove
<1> HIDE DEF left, kept
<1>4. CASE left.connected = {}
  <2> DEFINE s == Deleted(left)
  <2>1. PermanentlyRemove(r, p) = s BY <1>3, <1>4
  <2>2. /\ s \in Room /\ s.players = left.players /\ s.connected = left.connected
        /\ s.cleanup = left.cleanup /\ s.lostCleanup = left.lostCleanup
        /\ s.alive = FALSE /\ s.drawn = left.drawn
        /\ s.turnDrawer = left.turnDrawer /\ s.round = left.round /\ s.state = left.state
        /\ s.pending = left.pending /\ s.autoSelect = left.autoSelect
        /\ s.drawerIndex = left.drawerIndex
        BY <1>1 DEF Deleted, Room
  <2> HIDE DEF s
  <2>3. Members(s) = Members(left) BY <2>2 DEF Members
  <2>4. Seating(s) BY <1>1, <1>2, <2>2, <2>3 DEF Seating, Cleanups
  <2>5. PhaseOf(s) BY <1>1, <2>2 DEF PhaseOf
  <2>6. Rotating(s) BY <1>1, <2>2 DEF Rotating, InGame, DrawnUpTo
  <2> QED BY <1>1, <2>1, <2>2, <2>3, <2>4, <2>5, <2>6 DEF RoomInv, Within
<1>5. CASE left.connected # {}
  <2>1. /\ kept \in Room /\ kept.players = left.players /\ kept.connected = left.connected
        /\ kept.cleanup = left.cleanup /\ kept.lostCleanup = left.lostCleanup
        /\ kept.alive = left.alive /\ kept.drawn = left.drawn
        /\ kept.turnDrawer = left.turnDrawer /\ kept.round = left.round
        /\ kept.state = left.state
        /\ kept.pending = left.pending /\ kept.autoSelect = left.autoSelect
        /\ kept.drawerIndex = left.drawerIndex
        /\ kept.alive => kept.host \in Members(left)
    <3>1. CASE left.host = p
      <4>1. NewHost(left) \in left.connected BY <1>1, <1>2, <1>5, NewHostIs
      <4>2. NewHost(left) \in Players /\ NewHost(left) \in Members(left)
            BY <1>1, <1>2, <4>1, MembersArePlayers
      <4>3. kept = [left EXCEPT !.host = NewHost(left)] BY <3>1 DEF ReassignHost, kept
      <4> QED BY <1>1, <4>2, <4>3 DEF Room
    <3>2. CASE left.host # p
      <4>1. kept = left BY <3>2 DEF ReassignHost, kept
      <4> QED BY <1>1, <3>2, <4>1 DEF RoomInv, Seating
    <3> QED BY <3>1, <3>2
  <2>2. Members(kept) = Members(left) BY <2>1 DEF Members
  <2>3. Seating(kept) BY <1>1, <1>2, <2>1, <2>2 DEF Seating, Cleanups
  <2>4. PhaseOf(kept) BY <1>1, <2>1 DEF PhaseOf
  <2>5. Rotating(kept) BY <1>1, <2>1 DEF Rotating, InGame, DrawnUpTo
  <2>6. RoomInv(kept) BY <2>3, <2>4, <2>5 DEF RoomInv
  <2>7. Within(r, kept) BY <1>1, <2>1, <2>2 DEF Within
  <2>8. RoomInv(StartCountdown(kept)) /\ Within(kept, StartCountdown(kept))
        BY <2>6, StartCountdownInv
  <2> QED BY <1>3, <1>5, <2>6, <2>7, <2>8 DEF Within
<1> QED BY <1>4, <1>5

\* _reassign_host_if_disconnected.
LEMMA ReassignHostIfDisconnectedInv ==
    ASSUME NEW r, RoomInv(r), NEW p
    PROVE  LET s == ReassignHostIfDisconnected(r, p) IN RoomInv(s) /\ Within(r, s)
<1> DEFINE s == ReassignHostIfDisconnected(r, p)
<1>1. r \in Room BY DEF RoomInv, Seating
<1>2. r.connected # {} => NewHost(r) \in Players /\ NewHost(r) \in Members(r)
      BY <1>1, NewHostIs, MembersArePlayers DEF RoomInv, Seating
<1>3. /\ s \in Room /\ s.players = r.players /\ s.connected = r.connected
      /\ s.cleanup = r.cleanup /\ s.lostCleanup = r.lostCleanup
      /\ s.alive => r.alive /\ s.host \in {r.host} \cup Members(r)
      /\ s.drawn = r.drawn
      /\ s.turnDrawer = r.turnDrawer /\ s.round = r.round /\ s.state = r.state
      /\ s.pending = r.pending /\ s.autoSelect = r.autoSelect
      /\ s.drawerIndex = r.drawerIndex
      BY <1>1, <1>2 DEF ReassignHostIfDisconnected, Deleted, Room
<1> HIDE DEF s
<1>4. Members(s) = Members(r) BY <1>3 DEF Members
<1>5. Seating(s) BY <1>3, <1>4 DEF RoomInv, Seating, Cleanups
<1>6. PhaseOf(s) BY <1>3 DEF PhaseOf, RoomInv
<1>7. Rotating(s) BY <1>3 DEF Rotating, RoomInv, InGame, DrawnUpTo
<1> QED BY <1>3, <1>4, <1>5, <1>6, <1>7 DEF RoomInv, Within, s

\* Room.add_player with an id the room has not seen.
LEMMA AddedInv ==
    ASSUME NEW r, RoomInv(r), NEW p \in Players, p \notin Members(r) \cup r.drawn,
           NEW b \in BOOLEAN
    PROVE  LET s == Added(r, p, b) IN
           RoomInv(s) /\ Members(s) = Members(r) \cup {p} /\ s.drawn = r.drawn
<1> DEFINE s == Added(r, p, b)
<1>1. r \in Room BY DEF RoomInv, Seating
<1>2. r.players \in Seq(Players) /\ r.drawerIndex \in Nat BY <1>1 DEF Room
<1>3. Append(r.players, p) \in Seq(Players) BY <1>2
<1>4. /\ s \in Room /\ s.players = Append(r.players, p)
      /\ s.connected = r.connected \cup {p}
      /\ s.cleanup = r.cleanup /\ s.lostCleanup = r.lostCleanup
      /\ s.alive = r.alive /\ s.host = r.host /\ s.drawn = r.drawn
      /\ s.turnDrawer = r.turnDrawer /\ s.round = r.round /\ s.state = r.state
      /\ s.pending = r.pending /\ s.autoSelect = r.autoSelect
      /\ s.drawerIndex = r.drawerIndex
      BY <1>1, <1>3 DEF Added, Room
<1> HIDE DEF s
<1>5. /\ DOMAIN s.players = 1..(Len(r.players) + 1)
      /\ DOMAIN r.players = 1..Len(r.players) /\ Len(r.players) \in Nat
      /\ \A i \in 1..Len(r.players) : s.players[i] = r.players[i]
      /\ s.players[Len(r.players) + 1] = p
      BY <1>2, <1>4
<1>6. Members(s) = Members(r) \cup {p}
  <2>1. ASSUME NEW i \in DOMAIN s.players PROVE s.players[i] \in Members(r) \cup {p}
        BY <1>5 DEF Members
  <2>2. ASSUME NEW i \in DOMAIN r.players PROVE r.players[i] \in Members(s)
        BY <1>5 DEF Members
  <2>3. p \in Members(s) BY <1>5 DEF Members
  <2> QED BY <2>1, <2>2, <2>3 DEF Members
<1>7. \A i \in 1..Len(r.players) : s.players[i] # p BY <1>5 DEF Members
<1>8. \A i, j \in DOMAIN s.players : s.players[i] = s.players[j] => i = j
      BY <1>5, <1>7 DEF RoomInv, Seating
<1>9. Seating(s) BY <1>4, <1>6, <1>8 DEF RoomInv, Seating, Cleanups
<1>10. PhaseOf(s) BY <1>4 DEF PhaseOf, RoomInv
<1>11. \A n : DrawnUpTo(r, n) => DrawnUpTo(s, n) BY <1>4, <1>5 DEF DrawnUpTo
<1>12. Rotating(s) BY <1>4, <1>11 DEF Rotating, RoomInv, InGame
<1> QED BY <1>4, <1>6, <1>9, <1>10, <1>12 DEF RoomInv, s
-----------------------------------------------------------------------------
(* The actions.                                                            *)

\* A step that keeps the room's invariant, brings in nobody and keeps the
\* sockets well typed keeps the inductive invariant.
LEMMA StepWithin ==
    ASSUME InductiveInv, RoomInv(room'), Within(room, room'),
           sockets' \in [Players -> 0..MaxSockets], issued' = issued
    PROVE  InductiveInv'
BY DEF InductiveInv, Within

\* A room that satisfies the invariant and differs in nothing it reads.
LEMMA RoomAlike ==
    ASSUME InductiveInv, Alike(room, room'),
           room'.connected \cup Cleanups(room') \subseteq Members(room)
    PROVE  RoomInv(room') /\ Within(room, room')
BY AlikeInv DEF InductiveInv

\* A join brings in an id that was never handed out.
LEMMA JoinStep ==
    ASSUME InductiveInv, NEW p \in Players, NEW b \in BOOLEAN, Connect(p),
           room' = Added(room, p, b) \/ room' = ResumeIfEnough(Added(room, p, b))
    PROVE  InductiveInv' /\ room'.turnDrawer = room.turnDrawer
<1> DEFINE r == Added(room, p, b)
<1>1. p \notin Members(room) \cup room.drawn BY DEF InductiveInv, Connect
<1>2. RoomInv(r) /\ Members(r) = Members(room) \cup {p} /\ r.drawn = room.drawn
      BY <1>1, AddedInv DEF InductiveInv
<1>3. r.turnDrawer = room.turnDrawer
  <2>1. room \in Room BY DEF InductiveInv, RoomInv, Seating
  <2> QED BY <2>1 DEF Added, Room
<1>4. r \in Room BY <1>2 DEF RoomInv, Seating
<1>5. \/ room' = r \/ room' = ResumeIfEnough(r) OBVIOUS
<1> HIDE DEF r
<1>6. /\ RoomInv(room') /\ Members(room') = Members(r) /\ room'.drawn = r.drawn
      /\ room'.turnDrawer = r.turnDrawer
  <2>1. CASE room' = r BY <1>2, <2>1
  <2>2. CASE room' = ResumeIfEnough(r)
    <3>1. /\ Alike(r, room') /\ room'.connected = r.connected
          /\ Cleanups(room') = Cleanups(r)
          BY <1>4, <2>2 DEF ResumeIfEnough, Alike, Room, Cleanups
    <3> QED BY <1>2, <3>1, AlikeInv DEF RoomInv, Seating, Alike
  <2> QED BY <1>5, <2>1, <2>2
<1>7. sockets' \in [Players -> 0..MaxSockets]
      BY ConfigAssumption DEF InductiveInv, Connect
<1> QED BY <1>2, <1>3, <1>6, <1>7 DEF InductiveInv, Connect

\* Word selection, by the drawer or by the server.
LEMMA BeginStep ==
    ASSUME InductiveInv, HasSeat(room), room.pending, room' = BeginTurn(room),
           UNCHANGED <<sockets, issued>>
    PROVE  InductiveInv' /\ room'.turnDrawer \notin room.drawn
<1>1. /\ RoomInv(room') /\ Members(room') = Members(room)
      /\ room'.drawn = room.drawn \cup {Seated(room)}
      /\ room'.turnDrawer = Seated(room)
      /\ Seated(room) \in Members(room) /\ Seated(room) \notin room.drawn
      BY BeginTurnInv DEF InductiveInv
<1> QED BY <1>1 DEF InductiveInv

\* The list shrinks in the lobby (kick_player, leave_room).
LEMMA LobbyRemoval ==
    ASSUME InductiveInv, NEW p \in Members(room), NEW h,
           h \in Members(Removed(room, p)),
           room' = [Removed(room, p) EXCEPT !.host = h]
    PROVE  RoomInv(room') /\ Within(room, room')
<1> DEFINE left == Removed(room, p)
<1>1. /\ left \in Room
      /\ \A i, j \in DOMAIN left.players : left.players[i] = left.players[j] => i = j
      /\ Members(left) = Members(room) \ {p}
      /\ left.connected = room.connected \ {p} /\ Cleanups(left) = Cleanups(room) \ {p}
      /\ left.drawn = room.drawn /\ left.turnDrawer = room.turnDrawer
      /\ PhaseOf(left) /\ Rotating(left)
      BY RemovedIs DEF InductiveInv
<1>2. left.connected \cup Cleanups(left) \subseteq Members(left)
      BY <1>1 DEF InductiveInv, RoomInv, Seating
<1>3. room' = [left EXCEPT !.host = h] /\ h \in Members(left) OBVIOUS
<1> HIDE DEF left
<1>4. h \in Players BY <1>1, <1>3, MembersArePlayers
<1>5. /\ room' \in Room /\ room'.players = left.players /\ room'.connected = left.connected
      /\ room'.cleanup = left.cleanup /\ room'.lostCleanup = left.lostCleanup
      /\ room'.host = h /\ room'.drawn = left.drawn /\ room'.state = left.state
      /\ room'.turnDrawer = left.turnDrawer /\ room'.round = left.round
      /\ room'.pending = left.pending /\ room'.autoSelect = left.autoSelect
      /\ room'.drawerIndex = left.drawerIndex
      BY <1>1, <1>3, <1>4 DEF Room
<1>6. Members(room') = Members(left) BY <1>5 DEF Members
<1>7. Seating(room') BY <1>1, <1>2, <1>3, <1>5, <1>6 DEF Seating, Cleanups
<1>8. PhaseOf(room') BY <1>1, <1>5 DEF PhaseOf
<1>9. Rotating(room') BY <1>1, <1>5 DEF Rotating, InGame, DrawnUpTo
<1> QED BY <1>1, <1>5, <1>6, <1>7, <1>8, <1>9 DEF RoomInv, Within

\* The step of NobodyDrawsTwice.
FreshDrawer ==
    (room.turnDrawer = NoPlayer /\ room'.turnDrawer # NoPlayer)
        => room'.turnDrawer \notin room.drawn

\* Messages from clients keep the invariant, and only a drawer who has not
\* drawn in this round gets the turn.
LEMMA ClientsStep ==
    ASSUME InductiveInv, Clients
    PROVE  InductiveInv' /\ FreshDrawer
<1>1. /\ RoomInv(room) /\ room \in Room /\ room.players \in Seq(Players)
      /\ sockets \in [Players -> 0..MaxSockets]
      /\ room.connected \cup Cleanups(room) \subseteq Members(room)
      BY DEF InductiveInv, RoomInv, Seating, Room
<1>2. ASSUME NEW p \in Players, NEW b \in BOOLEAN, JoinRoom(p, b)
      PROVE  InductiveInv' /\ FreshDrawer
      BY <1>2, JoinStep DEF JoinRoom, FreshDrawer
<1>3. ASSUME NEW h \in Players, NEW p \in Players, NEW b \in BOOLEAN,
             RespondJoinRequest(h, p, b)
      PROVE  InductiveInv' /\ FreshDrawer
      BY <1>3, JoinStep DEF RespondJoinRequest, FreshDrawer
<1>4. ASSUME NEW h \in Players, NEW p \in Players, RespondSpectatorRoleRequest(h, p)
      PROVE  InductiveInv' /\ FreshDrawer
  <2>1. /\ Alike(room, room') /\ room'.connected = room.connected
        /\ Cleanups(room') = Cleanups(room)
        BY <1>1, <1>4 DEF RespondSpectatorRoleRequest, Alike, Room, Cleanups
  <2>2. RoomInv(room') /\ Within(room, room') BY <1>1, <2>1, RoomAlike
  <2> QED BY <1>1, <1>4, <2>2, StepWithin DEF RespondSpectatorRoleRequest, Within, FreshDrawer
<1>5. ASSUME NEW p \in Players, StartGame(p)
      PROVE  InductiveInv' /\ FreshDrawer
  <2> DEFINE seat == IF Active(room) # {} THEN FirstSeat(room, Active(room)) - 1
                                          ELSE room.drawerIndex
             r == [room EXCEPT !.round = 1, !.drawerIndex = seat, !.drawn = {},
                               !.owed = Active(room), !.shrunk = FALSE]
  <2>1. seat \in Nat /\ seat < Len(room.players)
    <3>1. CASE Active(room) # {}
      <4>1. Members(room) \cap Active(room) # {} BY <3>1 DEF Active
      <4>2. FirstSeat(room, Active(room)) \in DOMAIN room.players
            BY <1>1, <4>1, FirstSeatIs
      <4> QED BY <1>1, <3>1, <4>2
    <3>2. CASE Active(room) = {}
      <4>1. room.drawerIndex = 0 BY <1>1, <1>5 DEF StartGame, RoomInv, Rotating
      <4>2. p \in Members(room) BY <1>5 DEF StartGame, FromHost, Bound
      <4>3. Len(room.players) > 0 BY <1>1, <4>2 DEF Members
      <4> QED BY <3>2, <4>1, <4>3
    <3> QED BY <3>1, <3>2
  <2>2. room' = StartTurn(r) /\ UNCHANGED <<sockets, issued>> BY <1>5 DEF StartGame
  <2>3. Active(room) \subseteq Players BY <1>1, MembersArePlayers DEF Active
  <2> HIDE DEF seat
  <2>4. /\ r \in Room /\ r.players = room.players /\ r.connected = room.connected
        /\ r.cleanup = room.cleanup /\ r.lostCleanup = room.lostCleanup
        /\ r.alive = room.alive /\ r.host = room.host /\ r.drawn = {}
        /\ r.turnDrawer = room.turnDrawer /\ r.round = 1 /\ r.drawerIndex = seat
        BY <1>1, <2>1, <2>3 DEF Room
  <2> HIDE DEF r
  <2>5. Seating(r) /\ Members(r) = Members(room)
        BY <1>1, <2>4, SeatingKept DEF RoomInv, Seating, Cleanups
  <2>6. r.turnDrawer = NoPlayer BY <1>1, <1>5, <2>4 DEF StartGame, RoomInv, PhaseOf
  <2>7. HasSeat(r) /\ DrawnUpTo(r, r.drawerIndex) BY <2>1, <2>4 DEF HasSeat, DrawnUpTo
  <2>8. r.round <= NumRounds BY <2>4, ConfigAssumption
  <2>9. RoomInv(room') /\ Within(r, room')
        BY <2>2, <2>5, <2>6, <2>7, <2>8, StartTurnInv
  <2>10. Within(room, room') BY <2>4, <2>5, <2>9 DEF Within
  <2> QED BY <1>1, <2>2, <2>9, <2>10, StepWithin DEF Within, FreshDrawer
<1>6. ASSUME NEW p \in Players, SelectWord(p)
      PROVE  InductiveInv' /\ FreshDrawer
      BY <1>6, BeginStep DEF SelectWord, MaySelect, FreshDrawer
<1>7. ASSUME NEW p \in Players, GuessCorrectly(p)
      PROVE  InductiveInv' /\ FreshDrawer
  <2> DEFINE r == [room EXCEPT !.hasGuessed = @ \cup {p}, !.guessOrder = Append(@, p)]
  <2>1. room' = EndTurnIfAllGuessed(r) /\ UNCHANGED <<sockets, issued>>
        BY <1>7 DEF GuessCorrectly
  <2>2. Append(room.guessOrder, p) \in Seq(Players) BY <1>1 DEF Room
  <2>3. Alike(room, r) /\ r.connected = room.connected /\ Cleanups(r) = Cleanups(room)
        BY <1>1, <2>2 DEF Alike, Room, Cleanups
  <2> HIDE DEF r
  <2>4. RoomInv(r) /\ Within(room, r) BY <1>1, <2>3, AlikeInv
  <2>5. r.turnDrawer # NoPlayer BY <1>7, <2>3 DEF GuessCorrectly, Alike
  <2>6. RoomInv(room') /\ Within(r, room') BY <2>1, <2>4, <2>5, EndTurnIfAllGuessedInv
  <2>7. Within(room, room') BY <2>4, <2>6 DEF Within
  <2> QED BY <1>1, <2>1, <2>6, <2>7, StepWithin DEF Within, FreshDrawer
<1>8. ASSUME NEW p \in Players, EndGameNow(p)
      PROVE  InductiveInv' /\ FreshDrawer
  <2> DEFINE r == EndGameImmediately(room)
  <2>1. room' = [r EXCEPT !.countdown = FALSE] /\ UNCHANGED <<sockets, issued>>
        BY <1>8 DEF EndGameNow
  <2>2. RoomInv(r) /\ Within(room, r) BY <1>1, EndGameImmediatelyInv
  <2> HIDE DEF r
  <2>3. Alike(r, room') /\ room'.connected = r.connected /\ Cleanups(room') = Cleanups(r)
    <3>1. r \in Room BY <2>2 DEF RoomInv, Seating
    <3> QED BY <2>1, <3>1 DEF Alike, Room, Cleanups
  <2>4. RoomInv(room') /\ Within(r, room') BY <2>2, <2>3, AlikeInv DEF RoomInv, Seating
  <2>5. Within(room, room') BY <2>2, <2>4 DEF Within
  <2> QED BY <1>1, <2>1, <2>4, <2>5, StepWithin DEF Within, FreshDrawer
<1>9. ASSUME NEW p \in Players, HandleRematch(p)
      PROVE  InductiveInv' /\ FreshDrawer
  <2>1. /\ room' \in Room /\ room'.players = room.players
        /\ room'.connected = room.connected
        /\ room'.cleanup = room.cleanup /\ room'.lostCleanup = room.lostCleanup
        /\ room'.alive = room.alive /\ room'.host = room.host /\ room'.drawn = {}
        /\ room'.turnDrawer = NoPlayer /\ room'.round = 0 /\ room'.drawerIndex = 0
        /\ room'.state = "LOBBY" /\ room'.autoSelect = room.autoSelect
    <3>1. <<>> \in Seq(Players) OBVIOUS
    <3> QED BY <1>1, <1>9, <3>1 DEF HandleRematch, Room, RoomState
  <2>2. Seating(room') /\ Members(room') = Members(room)
        BY <1>1, <2>1, SeatingKept DEF RoomInv, Seating, Cleanups
  <2>3. room.autoSelect = NoPlayer BY <1>1, <1>9 DEF HandleRematch, RoomInv, PhaseOf
  <2>4. PhaseOf(room') BY <2>1, <2>3 DEF PhaseOf
  <2>5. Rotating(room') BY <2>1, ConfigAssumption DEF Rotating, InGame, DrawnUpTo
  <2>6. RoomInv(room') /\ Within(room, room')
        BY <2>1, <2>2, <2>4, <2>5 DEF RoomInv, Within
  <2> QED BY <1>1, <1>9, <2>6, StepWithin DEF HandleRematch, Within, FreshDrawer
<1>10. ASSUME NEW p \in Players, NEW q \in Players, TransferHost(p, q)
       PROVE  InductiveInv' /\ FreshDrawer
  <2>1. /\ room' \in Room /\ room'.players = room.players
        /\ room'.connected = room.connected
        /\ room'.cleanup = room.cleanup /\ room'.lostCleanup = room.lostCleanup
        /\ room'.alive = room.alive /\ room'.host = q /\ room'.drawn = room.drawn
        /\ room'.turnDrawer = room.turnDrawer /\ room'.round = room.round
        /\ room'.drawerIndex = room.drawerIndex /\ room'.pending = room.pending
        /\ room'.state = room.state /\ room'.autoSelect = room.autoSelect
        BY <1>1, <1>10 DEF TransferHost, Room
  <2>2. Members(room') = Members(room) BY <2>1 DEF Members
  <2>3. Seating(room')
        BY <1>1, <1>10, <2>1, <2>2 DEF TransferHost, RoomInv, Seating, Cleanups
  <2>4. PhaseOf(room') BY <1>1, <2>1 DEF PhaseOf, RoomInv
  <2>5. Rotating(room') BY <1>1, <2>1 DEF Rotating, RoomInv, InGame, DrawnUpTo
  <2>6. RoomInv(room') /\ Within(room, room')
        BY <2>1, <2>2, <2>3, <2>4, <2>5 DEF RoomInv, Within
  <2> QED BY <1>1, <1>10, <2>6, StepWithin DEF TransferHost, Within, FreshDrawer
<1>11. ASSUME NEW p \in Players, NEW q \in Players, KickPlayer(p, q)
       PROVE  InductiveInv' /\ FreshDrawer
  <2>1. p \in Members(room) /\ q \in Members(room) /\ q # p /\ room.host = p
        BY <1>11 DEF KickPlayer, FromHost, Bound
  <2>2. /\ Removed(room, q) \in Room /\ Removed(room, q).host = p
        /\ p \in Members(Removed(room, q))
        BY <1>1, <2>1, RemovedIs
  <2>3. room' = [Removed(room, q) EXCEPT !.host = p]
        BY <1>11, <2>2 DEF KickPlayer, Room
  <2>4. RoomInv(room') /\ Within(room, room') BY <2>1, <2>2, <2>3, LobbyRemoval
  <2>5. sockets' \in [Players -> 0..MaxSockets] /\ issued' = issued
        BY <1>1, <1>11, ConfigAssumption DEF KickPlayer
  <2> QED BY <2>4, <2>5, StepWithin DEF Within, FreshDrawer
<1>12. ASSUME NEW p \in Players, LeaveRoom(p)
       PROVE  InductiveInv' /\ FreshDrawer
  <2> DEFINE left == Removed(room, p)
  <2>1. p \in Members(room) BY <1>12 DEF LeaveRoom, Bound
  <2>2. /\ left \in Room
        /\ \A i, j \in DOMAIN left.players : left.players[i] = left.players[j] => i = j
        /\ Members(left) = Members(room) \ {p}
        /\ left.connected = room.connected \ {p} /\ Cleanups(left) = Cleanups(room) \ {p}
        /\ left.host = room.host /\ left.drawn = room.drawn
        /\ left.turnDrawer = room.turnDrawer
        /\ PhaseOf(left) /\ Rotating(left)
        BY <1>1, <2>1, RemovedIs
  <2>3. left.players \in Seq(Players) BY <2>2 DEF Room
  <2>4. room' = IF left.players = <<>> THEN Deleted(left)
                ELSE IF room.host = p THEN [left EXCEPT !.host = left.players[1]]
                ELSE left
        BY <1>12 DEF LeaveRoom
  <2>5. sockets' \in [Players -> 0..MaxSockets] /\ issued' = issued
        BY <1>1, <1>12, ConfigAssumption DEF LeaveRoom
  <2>6. CASE left.players = <<>>
    <3> HIDE DEF left
    <3>1. /\ room' \in Room /\ room'.players = left.players
          /\ room'.connected = left.connected
          /\ room'.cleanup = left.cleanup /\ room'.lostCleanup = left.lostCleanup
          /\ room'.alive = FALSE /\ room'.drawn = left.drawn
          /\ room'.turnDrawer = left.turnDrawer /\ room'.round = left.round
          /\ room'.drawerIndex = left.drawerIndex /\ room'.pending = left.pending
          /\ room'.state = left.state /\ room'.autoSelect = left.autoSelect
          BY <2>2, <2>4, <2>6 DEF Deleted, Room
    <3>2. Members(room') = Members(left) BY <3>1 DEF Members
    <3>3. Seating(room') BY <1>1, <2>2, <3>1, <3>2 DEF Seating, Cleanups
    <3>4. PhaseOf(room') BY <2>2, <3>1 DEF PhaseOf
    <3>5. Rotating(room') BY <2>2, <3>1 DEF Rotating, InGame, DrawnUpTo
    <3>6. RoomInv(room') /\ Within(room, room')
          BY <2>2, <3>1, <3>2, <3>3, <3>4, <3>5 DEF RoomInv, Within
    <3> QED BY <2>5, <3>6, StepWithin DEF Within, FreshDrawer
  <2>7. CASE left.players # <<>>
    <3> DEFINE h == IF room.host = p THEN left.players[1] ELSE room.host
    <3>1. h \in Members(left)
      <4>1. 1 \in DOMAIN left.players BY <2>3, <2>7
      <4>2. left.players[1] \in Members(left) BY <4>1 DEF Members
      <4>3. room.host \in Members(room)
            BY <1>1, <1>12 DEF RoomInv, Seating, LeaveRoom, Bound
      <4> QED BY <2>2, <4>2, <4>3
    <3>2. room' = [left EXCEPT !.host = h] BY <2>2, <2>4, <2>7 DEF Room
    <3>3. RoomInv(room') /\ Within(room, room') BY <2>1, <3>1, <3>2, LobbyRemoval
    <3> QED BY <2>5, <3>3, StepWithin DEF Within, FreshDrawer
  <2> QED BY <2>6, <2>7
<1> QED BY <1>2, <1>3, <1>4, <1>5, <1>6, <1>7, <1>8, <1>9, <1>10, <1>11, <1>12 DEF Clients

\* Connections that close and players that come back.
LEMMA NetworkStep ==
    ASSUME InductiveInv, Network
    PROVE  InductiveInv' /\ FreshDrawer
<1>1. /\ RoomInv(room) /\ room \in Room
      /\ sockets \in [Players -> 0..MaxSockets]
      BY DEF InductiveInv, RoomInv, Seating
<1>2. ASSUME NEW p \in Players, ConnectionClosed(p)
      PROVE  InductiveInv' /\ FreshDrawer
  <2>1. p \in Members(room) /\ sockets[p] > 0 BY <1>2 DEF ConnectionClosed, Bound
  <2>2. RoomInv(room') /\ Within(room, room')
        BY <1>1, <1>2, <2>1, HandleDisconnectInv DEF ConnectionClosed
  <2>3. sockets[p] - 1 \in 0..MaxSockets BY <1>1, <2>1, ConfigAssumption
  <2>4. sockets' \in [Players -> 0..MaxSockets] /\ issued' = issued
        BY <1>1, <1>2, <2>3 DEF ConnectionClosed
  <2> QED BY <2>2, <2>4, StepWithin DEF Within, FreshDrawer
<1>3. ASSUME NEW n \in Names, Reconnect(n)
      PROVE  InductiveInv' /\ FreshDrawer
  <2> DEFINE p == ReconnectTarget(room, n)
             away == Named(room, n) \ room.connected
             S == IF away # {} THEN away ELSE Named(room, n)
  <2>1. Members(room) \cap S # {} BY <1>3 DEF Reconnect, Named
  <2>2. p \in Members(room) BY <1>1, <2>1, FirstSeatIs DEF ReconnectTarget
  <2>3. p \in Players BY <1>1, <2>2, MembersArePlayers
  <2>4. /\ sockets[p] < MaxSockets /\ sockets' = [sockets EXCEPT ![p] = @ + 1]
        /\ room' = HandleReconnect(room, p) /\ issued' = issued
        BY <1>3 DEF Reconnect
  <2> HIDE DEF p
  <2>5. RoomInv(room') /\ Within(room, room') BY <1>1, <2>2, <2>4, HandleReconnectInv
  <2>6. sockets[p] + 1 \in 0..MaxSockets BY <1>1, <2>3, <2>4, ConfigAssumption
  <2>7. sockets' \in [Players -> 0..MaxSockets] BY <1>1, <2>4, <2>6
  <2> QED BY <2>4, <2>5, <2>7, StepWithin DEF Within, FreshDrawer
<1> QED BY <1>2, <1>3 DEF Network

\* Tasks that fire.
LEMMA TasksStep ==
    ASSUME InductiveInv, Tasks
    PROVE  InductiveInv' /\ FreshDrawer
<1>1. /\ RoomInv(room) /\ room \in Room
      /\ sockets \in [Players -> 0..MaxSockets]
      /\ room.connected \cup Cleanups(room) \subseteq Members(room)
      BY DEF InductiveInv, RoomInv, Seating
<1>2. CASE AutoSelectFires
  <2>1. CASE room.state = "WORD_SELECTION" /\ MaySelect(room, room.autoSelect)
        BY <1>2, <2>1, BeginStep DEF AutoSelectFires, MaySelect, FreshDrawer
  <2>2. CASE ~ (room.state = "WORD_SELECTION" /\ MaySelect(room, room.autoSelect))
    <3>1. room' = [room EXCEPT !.autoSelect = NoPlayer] /\ UNCHANGED <<sockets, issued>>
          BY <1>2, <2>2 DEF AutoSelectFires
    <3>2. /\ room' \in Room /\ room'.players = room.players
          /\ room'.connected = room.connected
          /\ room'.cleanup = room.cleanup /\ room'.lostCleanup = room.lostCleanup
          /\ room'.alive = room.alive /\ room'.host = room.host /\ room'.drawn = room.drawn
          /\ room'.turnDrawer = room.turnDrawer /\ room'.round = room.round
          /\ room'.drawerIndex = room.drawerIndex /\ room'.pending = room.pending
          /\ room'.state = room.state /\ room'.autoSelect = NoPlayer
          BY <1>1, <3>1 DEF Room
    <3>3. Seating(room') /\ Members(room') = Members(room)
          BY <1>1, <3>2, SeatingKept DEF RoomInv, Seating, Cleanups
    <3>4. PhaseOf(room') BY <1>1, <3>2 DEF PhaseOf, RoomInv
    <3>5. Rotating(room') BY <1>1, <3>2 DEF Rotating, RoomInv, InGame, DrawnUpTo
    <3>6. RoomInv(room') /\ Within(room, room')
          BY <3>2, <3>3, <3>4, <3>5 DEF RoomInv, Within
    <3> QED BY <1>1, <3>1, <3>6, StepWithin DEF Within, FreshDrawer
  <2> QED BY <2>1, <2>2
<1>3. CASE TurnTimerFires
  <2>1. RoomInv(room') /\ Within(room, room')
        BY <1>1, <1>3, EndTurnInv DEF TurnTimerFires
  <2> QED BY <1>1, <1>3, <2>1, StepWithin DEF TurnTimerFires, Within, FreshDrawer
<1>4. CASE CountdownFires
  <2> DEFINE r == [room EXCEPT !.countdown = FALSE]
  <2>1. /\ room' = IF Cardinality(room.connected) < 2 THEN EndGameImmediately(r) ELSE r
        /\ UNCHANGED <<sockets, issued>>
        BY <1>4 DEF CountdownFires
  <2>2. Alike(room, r) /\ r.connected = room.connected /\ Cleanups(r) = Cleanups(room)
        BY <1>1 DEF Alike, Room, Cleanups
  <2> HIDE DEF r
  <2>3. RoomInv(r) /\ Within(room, r) BY <1>1, <2>2, AlikeInv
  <2>4. RoomInv(EndGameImmediately(r)) /\ Within(r, EndGameImmediately(r))
        BY <2>3, EndGameImmediatelyInv
  <2>5. RoomInv(room') /\ Within(room, room') BY <2>1, <2>3, <2>4 DEF Within
  <2> QED BY <1>1, <2>1, <2>5, StepWithin DEF Within, FreshDrawer
<1>5. ASSUME NEW p \in Players, CleanupFires(p)
      PROVE  InductiveInv' /\ FreshDrawer
  <2>1. p \in Members(room) BY <1>1, <1>5 DEF CleanupFires, CleanupsDue, Cleanups
  <2>2. RoomInv(room') /\ Within(room, room')
        BY <1>1, <1>5, <2>1, PermanentlyRemoveInv DEF CleanupFires
  <2>3. sockets' \in [Players -> 0..MaxSockets] /\ issued' = issued
        BY <1>1, <1>5, ConfigAssumption DEF CleanupFires
  <2> QED BY <2>2, <2>3, StepWithin DEF Within, FreshDrawer
<1>6. ASSUME NEW p \in Players, HostReassignFires(p)
      PROVE  InductiveInv' /\ FreshDrawer
  <2> DEFINE r == [room EXCEPT !.hostTask = @ \ {p}]
  <2>1. room' = ReassignHostIfDisconnected(r, p) /\ UNCHANGED <<sockets, issued>>
        BY <1>6 DEF HostReassignFires
  <2>2. Alike(room, r) /\ r.connected = room.connected /\ Cleanups(r) = Cleanups(room)
        BY <1>1 DEF Alike, Room, Cleanups
  <2> HIDE DEF r
  <2>3. RoomInv(r) /\ Within(room, r) BY <1>1, <2>2, AlikeInv
  <2>4. RoomInv(room') /\ Within(r, room')
        BY <2>1, <2>3, ReassignHostIfDisconnectedInv
  <2>5. Within(room, room') BY <2>3, <2>4 DEF Within
  <2> QED BY <1>1, <2>1, <2>4, <2>5, StepWithin DEF Within, FreshDrawer
<1> QED BY <1>2, <1>3, <1>4, <1>5, <1>6 DEF Tasks

\* create_room.
LEMMA InitInv == Init => InductiveInv
<1> SUFFICES ASSUME Init PROVE InductiveInv OBVIOUS
<1>1. PICK h \in Players :
        /\ room = [alive |-> TRUE, players |-> <<h>>, connected |-> {h},
                   spectators |-> {}, host |-> h, state |-> "LOBBY",
                   round |-> 0, drawerIndex |-> 0, turnDrawer |-> NoPlayer,
                   guessOrder |-> <<>>, hasGuessed |-> {}, pending |-> FALSE,
                   autoSelect |-> NoPlayer, countdown |-> FALSE, cleanup |-> {},
                   lostCleanup |-> {}, hostTask |-> {}, ripe |-> {}, drawn |-> {},
                   owed |-> {}, shrunk |-> FALSE]
        /\ sockets = [p \in Players |-> IF p = h THEN 1 ELSE 0]
        /\ issued = {h}
      BY DEF Init
<1>2. <<h>> \in Seq(Players) /\ <<>> \in Seq(Players) OBVIOUS
<1>3. room \in Room BY <1>1, <1>2 DEF Room, RoomState
<1>4. /\ room.players = <<h>> /\ room.connected = {h} /\ room.cleanup = {}
      /\ room.lostCleanup = {} /\ room.host = h /\ room.state = "LOBBY"
      /\ room.turnDrawer = NoPlayer /\ room.pending = FALSE
      /\ room.autoSelect = NoPlayer /\ room.drawerIndex = 0 /\ room.drawn = {}
      BY <1>1
<1>5. DOMAIN room.players = {1} /\ room.players[1] = h BY <1>4
<1>6. Members(room) = {h} BY <1>5 DEF Members
<1>7. Seating(room) BY <1>3, <1>4, <1>5, <1>6 DEF Seating, Cleanups
<1>8. PhaseOf(room) BY <1>4 DEF PhaseOf
<1>9. Rotating(room) BY <1>4 DEF Rotating, InGame
<1>10. sockets \in [Players -> 0..MaxSockets] BY <1>1, ConfigAssumption
<1> QED BY <1>1, <1>4, <1>6, <1>7, <1>8, <1>9, <1>10 DEF InductiveInv, RoomInv

\* Every step keeps the invariant and gives the turn to a fresh drawer only.
LEMMA InductiveStep ==
    ASSUME InductiveInv, [Next]_vars
    PROVE  InductiveInv' /\ (UNCHANGED vars \/ FreshDrawer)
<1>1. CASE Next BY <1>1, ClientsStep, NetworkStep, TasksStep DEF Next
<1>2. CASE UNCHANGED vars
      BY <1>2 DEF vars, InductiveInv, RoomInv, Seating, PhaseOf, Rotating, Members,
                  Cleanups, DrawnUpTo, InGame
<1> QED BY <1>1, <1>2

\* The inductive invariant holds in every reachable state.
THEOREM RoomIsInductive == Spec => []InductiveInv
<1>1. InductiveInv /\ [Next]_vars => InductiveInv' BY InductiveStep
<1> QED BY <1>1, InitInv, PTL DEF Spec

\* The room, its tasks and its connections are always of their type; in
\* particular no index into the list is taken outside it by a selection.
THEOREM TypeCorrect == Spec => []TypeOK
<1>1. InductiveInv => TypeOK BY DEF InductiveInv, RoomInv, Seating, TypeOK
<1> QED BY <1>1, RoomIsInductive, PTL

\* However players come, go and are replaced, a living room has a host in it.
THEOREM HostAlwaysMember == Spec => []HostIsMember
<1>1. InductiveInv => HostIsMember BY DEF InductiveInv, RoomInv, Seating, HostIsMember
<1> QED BY <1>1, RoomIsInductive, PTL

\* Selection, turn and auto_select task agree with the room's state, and no
\* game goes past its last round, not even one that a late select_word revives.
THEOREM GameAlwaysInBounds == Spec => []GameInBounds
<1>1. InductiveInv => PhasesAgree
      BY DEF InductiveInv, RoomInv, PhasesAgree
<1>2. InductiveInv => RoundsBounded
      BY DEF InductiveInv, RoomInv, Rotating, RoundsBounded
<1>3. InductiveInv => GameInBounds
      BY <1>1, <1>2 DEF GameInBounds
<1> QED BY <1>3, RoomIsInductive, PTL

\* Nobody draws twice in a round, whoever is removed from the list meanwhile.
THEOREM DrawersAreFresh == Spec => NobodyDrawsTwice
<1>1. InductiveInv /\ [Next]_vars => [FreshDrawer]_vars BY InductiveStep
<1> QED BY <1>1, RoomIsInductive, PTL DEF Spec, NobodyDrawsTwice, FreshDrawer
-----------------------------------------------------------------------------
(* What the turn engine does to the list and to the round.                 *)

\* It leaves alone the list, the flags, the host and the cleanups.
Frame(r, s) ==
    /\ s \in Room /\ s.alive = r.alive /\ s.players = r.players
    /\ s.connected = r.connected /\ s.spectators = r.spectators /\ s.host = r.host
    /\ s.hasGuessed = r.hasGuessed /\ s.cleanup = r.cleanup /\ s.lostCleanup = r.lostCleanup

\* Nobody active sits at or before seat n (counted from 0).
ActiveBeyond(r, n) == \A i \in DOMAIN r.players : r.players[i] \in Active(r) => i > n

\* After a turn the round goes on with the next active seat, or waits where it is.
SameRound(r, s) ==
    /\ s.round = r.round /\ s.drawn = r.drawn /\ s.owed = r.owed /\ s.shrunk = r.shrunk
    /\ \/ s.state = r.state /\ s.pending = r.pending
       \/ /\ s.state = "WORD_SELECTION"
          /\ \A i \in DOMAIN r.players :
                i > r.drawerIndex + 1 /\ r.players[i] \in Active(r) => i > s.drawerIndex

\* Or nobody active sits further on, and a new round starts or the game is over.
NewRound(r, s) ==
    /\ \A i \in DOMAIN r.players : i > r.drawerIndex + 1 => r.players[i] \notin Active(r)
    /\ s.round = r.round + 1 /\ s.drawn = {} /\ s.owed = Active(r) /\ ~s.shrunk
    /\ IF s.round > NumRounds THEN s.state = "GAME_OVER" /\ s.pending = r.pending
       ELSE s.state = "WORD_SELECTION" /\ ActiveBeyond(r, s.drawerIndex)
-----------------------------------------------------------------------------
(* The turn engine.                                                        *)

\* start_turn.
LEMMA StartTurnFrame ==
    ASSUME NEW r \in Room, HasSeat(r)
    PROVE  LET s == StartTurn(r) IN
           /\ Frame(r, s) /\ s.turnDrawer = r.turnDrawer /\ s.guessOrder = r.guessOrder
           /\ s.round = r.round /\ s.drawn = r.drawn /\ s.owed = r.owed /\ s.shrunk = r.shrunk
           /\ s.state = "WORD_SELECTION" /\ s.drawerIndex = r.drawerIndex
<1>1. Seated(r) \in Players BY SeatedIs
<1>2. Cleanups(r) \subseteq Players BY DEF Room, Cleanups
<1> QED BY <1>1, <1>2 DEF StartTurn, Frame, Room, RoomState

\* The skip loop stops at the first active seat.
LEMMA SeatNextFrame ==
    ASSUME NEW r \in Room, SeatsAhead(r) # {}
    PROVE  LET s == SeatNext(r) IN
           /\ Frame(r, s) /\ s.turnDrawer = r.turnDrawer /\ s.guessOrder = r.guessOrder
           /\ s.round = r.round /\ s.drawn = r.drawn /\ s.owed = r.owed /\ s.shrunk = r.shrunk
           /\ HasSeat(s) /\ s.drawerIndex \in Nat
           /\ \A i \in SeatsAhead(r) : i > s.drawerIndex
<1>1. r.players \in Seq(Players) /\ r.drawerIndex \in Nat BY DEF Room
<1>2. SeatsAhead(r) \in SUBSET Nat BY <1>1 DEF SeatsAhead
<1>3. \E i \in SeatsAhead(r) : \A j \in SeatsAhead(r) : i <= j BY <1>2, LeastNat
<1> DEFINE k == CHOOSE i \in SeatsAhead(r) : \A j \in SeatsAhead(r) : i <= j
           s == SeatNext(r)
<1>4. k \in SeatsAhead(r) /\ \A j \in SeatsAhead(r) : k <= j BY <1>3
<1>5. s = [r EXCEPT !.drawerIndex = k - 1] BY DEF SeatNext
<1> HIDE DEF k, s
<1>6. k \in Nat /\ k > r.drawerIndex /\ k - 1 \in Nat BY <1>1, <1>2, <1>4 DEF SeatsAhead
<1>7. /\ Frame(r, s) /\ s.turnDrawer = r.turnDrawer /\ s.guessOrder = r.guessOrder
      /\ s.round = r.round /\ s.drawn = r.drawn /\ s.owed = r.owed /\ s.shrunk = r.shrunk
      /\ s.drawerIndex = k - 1
      BY <1>5, <1>6 DEF Frame, Room
<1>8. \A i \in SeatsAhead(r) : i > s.drawerIndex
  <2> SUFFICES ASSUME NEW i \in SeatsAhead(r) PROVE i > k - 1 BY <1>7
  <2>1. i \in Nat /\ k <= i BY <1>2, <1>4
  <2> QED BY <1>6, <2>1
<1>9. HasSeat(s) BY SeatNextIs DEF s
<1> QED BY <1>6, <1>7, <1>8, <1>9 DEF s

\* The wrap to the next round.
LEMMA NextRoundFrame ==
    ASSUME NEW r \in Room
    PROVE  LET s == NextRound(r) IN
           /\ Frame(r, s) /\ s.turnDrawer = r.turnDrawer /\ s.guessOrder = r.guessOrder
           /\ s.round = r.round + 1 /\ s.drawn = {} /\ s.owed = Active(r) /\ ~s.shrunk
           /\ s.drawerIndex = 0 /\ s.pending = r.pending /\ s.state = r.state
           /\ Active(s) = Active(r)
<1> DEFINE s == NextRound(r)
<1>1. Active(r) \subseteq Players BY DEF Active, Room
<1>2. /\ Frame(r, s) /\ s.turnDrawer = r.turnDrawer /\ s.guessOrder = r.guessOrder
      /\ s.round = r.round + 1 /\ s.drawn = {} /\ s.owed = Active(r) /\ ~s.shrunk
      /\ s.drawerIndex = 0 /\ s.pending = r.pending /\ s.state = r.state
  <2>1. ASSUME NEW n \in Nat, NEW A \in SUBSET Players
        PROVE  [r EXCEPT !.round = n, !.drawerIndex = 0, !.drawn = {}, !.owed = A,
                         !.shrunk = FALSE] \in Room
        BY DEF Room
  <2>2. r.round + 1 \in Nat BY DEF Room
  <2>3. s \in Room BY <1>1, <2>1, <2>2, Zenon DEF NextRound
  <2> QED BY <2>3 DEF NextRound, Frame, Room
<1> HIDE DEF s
<1>3. Active(s) = Active(r) BY <1>2 DEF Active, Members, Frame
<1> QED BY <1>2, <1>3 DEF s

\* The end of the last round.
LEMMA GameOverFrame ==
    ASSUME NEW r \in Room
    PROVE  LET s == GameOver(r) IN
           /\ Frame(r, s) /\ s.turnDrawer = r.turnDrawer /\ s.guessOrder = r.guessOrder
           /\ s.round = r.round /\ s.drawn = r.drawn /\ s.owed = r.owed /\ s.shrunk = r.shrunk
           /\ s.state = "GAME_OVER" /\ s.pending = r.pending
BY DEF GameOver, Frame, Room, RoomState

\* A countdown changes no more than its own task.
LEMMA StartCountdownFrame ==
    ASSUME NEW r \in Room
    PROVE  LET s == StartCountdown(r) IN
           /\ Frame(r, s) /\ s.turnDrawer = r.turnDrawer /\ s.guessOrder = r.guessOrder
           /\ s.round = r.round /\ s.drawn = r.drawn /\ s.owed = r.owed /\ s.shrunk = r.shrunk
           /\ s.state = r.state /\ s.pending = r.pending /\ s.drawerIndex = r.drawerIndex
           /\ s.autoSelect = r.autoSelect /\ s.countdown
<1>1. Cleanups(r) \subseteq Players BY DEF Room, Cleanups
<1> QED BY <1>1 DEF StartCountdown, Frame, Room

\* Two active players are at least one.
LEMMA SomebodyActive ==
    ASSUME NEW r, ~(Cardinality(Active(r)) < 2)
    PROVE  Active(r) # {}
<1>1. Cardinality({}) = 0 BY FS_EmptySet
<1> QED BY <1>1

\* end_turn with all it calls: advance_turn_or_round and the skip loop.
LEMMA EndTurnIs ==
    ASSUME NEW r \in Room, r.round <= NumRounds
    PROVE  LET s == EndTurn(r) IN
           /\ Frame(r, s) /\ s.turnDrawer = NoPlayer /\ s.guessOrder = <<>>
           /\ SameRound(r, s) \/ NewRound(r, s)
           /\ Cardinality(Active(r)) < 2 => s.countdown /\ s.state = r.state
<1> DEFINE t == [r EXCEPT !.turnDrawer = NoPlayer, !.guessOrder = <<>>]
           n == AdvanceSeat(t)
<1>1. /\ t \in Room /\ Frame(r, t) /\ t.turnDrawer = NoPlayer /\ t.guessOrder = <<>>
      /\ t.round = r.round /\ t.drawn = r.drawn /\ t.owed = r.owed /\ t.shrunk = r.shrunk
      /\ t.state = r.state /\ t.pending = r.pending /\ t.drawerIndex = r.drawerIndex
  <2>1. <<>> \in Seq(Players) OBVIOUS
  <2> QED BY <2>1 DEF Frame, Room
<1>2. Active(t) = Active(r) BY <1>1 DEF Active, Members, Frame
<1>3. /\ r.drawerIndex \in Nat /\ r.players \in Seq(Players) /\ r.round \in Nat /\ NumRounds \in Nat
      /\ t.players = r.players
      BY <1>1, ConfigAssumption DEF Room, Frame
<1>4. EndTurn(r) = AdvanceTurnOrRound(t) BY DEF EndTurn
<1> HIDE DEF t
<1>5. CASE Cardinality(Active(r)) < 2
  <2>1. EndTurn(r) = StartCountdown(t) BY <1>2, <1>4, <1>5 DEF AdvanceTurnOrRound
  <2> QED BY <1>1, <2>1, StartCountdownFrame DEF Frame, SameRound
<1>6. CASE ~(Cardinality(Active(r)) < 2) /\ r.drawerIndex + 1 >= Len(r.players)
  <2>1. n = NextRound(t) BY <1>1, <1>3, <1>6 DEF AdvanceSeat
  <2>2. /\ Frame(t, n) /\ n.turnDrawer = NoPlayer /\ n.guessOrder = <<>>
        /\ n.round = r.round + 1 /\ n.drawn = {} /\ n.owed = Active(r) /\ ~n.shrunk
        /\ n.drawerIndex = 0 /\ n.pending = r.pending /\ Active(n) = Active(r)
        /\ n \in Room /\ n.players = r.players
        BY <1>1, <1>2, <1>3, <2>1, NextRoundFrame DEF Frame
  <2>3. \A i \in DOMAIN r.players : ~(i > r.drawerIndex + 1) BY <1>3, <1>6
  <2>4. AdvanceTurnOrRound(t) = IF n.round > NumRounds THEN GameOver(n) ELSE SkipAndStart(n)
        BY <1>2, <1>6 DEF AdvanceTurnOrRound
  <2> HIDE DEF n
  <2>5. CASE n.round > NumRounds
    <3>1. EndTurn(r) = GameOver(n) BY <1>4, <2>4, <2>5
    <3> QED BY <1>1, <1>6, <2>2, <2>3, <2>5, <3>1, GameOverFrame DEF Frame, NewRound
  <2>6. CASE ~(n.round > NumRounds)
    <3>1. SeatsAhead(n) = {i \in DOMAIN r.players : r.players[i] \in Active(r)}
          BY <1>3, <2>2 DEF SeatsAhead
    <3>2. SeatsAhead(n) # {}
      <4>1. Active(r) # {} BY <1>6, SomebodyActive
      <4>2. PICK p \in Active(r) : TRUE BY <4>1
      <4>3. PICK i \in DOMAIN r.players : r.players[i] = p BY <4>2 DEF Active, Members
      <4> QED BY <3>1, <4>2, <4>3
    <3> DEFINE m == SeatNext(n)
    <3>3. EndTurn(r) = StartTurn(m) BY <1>4, <2>4, <2>6, <3>2 DEF SkipAndStart
    <3>4. /\ Frame(n, m) /\ m.turnDrawer = NoPlayer /\ m.guessOrder = <<>>
          /\ m.round = n.round /\ m.drawn = n.drawn /\ m.owed = n.owed /\ m.shrunk = n.shrunk
          /\ HasSeat(m) /\ m \in Room
          /\ \A i \in SeatsAhead(n) : i > m.drawerIndex
          BY <2>2, <3>2, SeatNextFrame DEF Frame
    <3> HIDE DEF m
    <3>5. LET s == StartTurn(m) IN
          /\ Frame(m, s) /\ s.turnDrawer = NoPlayer /\ s.guessOrder = <<>>
          /\ s.round = m.round /\ s.drawn = m.drawn /\ s.owed = m.owed /\ s.shrunk = m.shrunk
          /\ s.state = "WORD_SELECTION" /\ s.drawerIndex = m.drawerIndex
          BY <3>4, StartTurnFrame
    <3>6. ActiveBeyond(r, m.drawerIndex) BY <3>1, <3>4 DEF ActiveBeyond
    <3>7. NewRound(r, StartTurn(m)) BY <2>2, <2>3, <2>6, <3>4, <3>5, <3>6 DEF NewRound
    <3>8. Frame(r, StartTurn(m)) BY <1>1, <2>2, <3>4, <3>5 DEF Frame
    <3> QED BY <1>6, <3>3, <3>5, <3>7, <3>8
  <2> QED BY <2>5, <2>6
<1>7. CASE ~(Cardinality(Active(r)) < 2) /\ ~(r.drawerIndex + 1 >= Len(r.players))
  <2>1. n = [t EXCEPT !.drawerIndex = @ + 1] BY <1>1, <1>3, <1>7 DEF AdvanceSeat
  <2>2. /\ Frame(t, n) /\ n.turnDrawer = NoPlayer /\ n.guessOrder = <<>>
        /\ n.round = r.round /\ n.drawn = r.drawn /\ n.owed = r.owed /\ n.shrunk = r.shrunk
        /\ n.drawerIndex = r.drawerIndex + 1 /\ n.pending = r.pending
        /\ n \in Room /\ n.players = r.players
    <3>1. r.drawerIndex + 1 \in Nat /\ n = [t EXCEPT !.drawerIndex = r.drawerIndex + 1]
          BY <1>1, <1>3, <2>1
    <3> HIDE DEF n
    <3>2. n \in Room BY <1>1, <3>1 DEF Room
    <3> QED BY <1>1, <1>3, <3>1, <3>2 DEF Frame, Room
  <2>3. Active(n) = Active(r) BY <1>1, <2>2 DEF Active, Members, Frame
  <2>4. AdvanceTurnOrRound(t) = IF n.round > NumRounds THEN GameOver(n) ELSE SkipAndStart(n)
        BY <1>2, <1>7 DEF AdvanceTurnOrRound
  <2>5. AdvanceTurnOrRound(t) = SkipAndStart(n) BY <1>3, <2>2, <2>4
  <2> HIDE DEF n
  <2>6. SeatsAhead(n) = {i \in DOMAIN r.players : i > r.drawerIndex + 1 /\ r.players[i] \in Active(r)}
        BY <2>2, <2>3 DEF SeatsAhead
  <2>7. CASE SeatsAhead(n) # {}
    <3> DEFINE m == SeatNext(n)
    <3>1. EndTurn(r) = StartTurn(m) BY <1>4, <2>5, <2>7 DEF SkipAndStart
    <3>2. /\ Frame(n, m) /\ m.turnDrawer = NoPlayer /\ m.guessOrder = <<>>
          /\ m.round = n.round /\ m.drawn = n.drawn /\ m.owed = n.owed /\ m.shrunk = n.shrunk
          /\ HasSeat(m) /\ m \in Room
          /\ \A i \in SeatsAhead(n) : i > m.drawerIndex
          BY <2>2, <2>7, SeatNextFrame DEF Frame
    <3> HIDE DEF m
    <3>3. LET s == StartTurn(m) IN
          /\ Frame(m, s) /\ s.turnDrawer = NoPlayer /\ s.guessOrder = <<>>
          /\ s.round = m.round /\ s.drawn = m.drawn /\ s.owed = m.owed /\ s.shrunk = m.shrunk
          /\ s.state = "WORD_SELECTION" /\ s.drawerIndex = m.drawerIndex
          BY <3>2, StartTurnFrame
    <3>4. SameRound(r, StartTurn(m)) BY <2>2, <2>6, <3>2, <3>3 DEF SameRound
    <3>5. Frame(r, StartTurn(m)) BY <1>1, <2>2, <3>2, <3>3 DEF Frame
    <3> QED BY <1>7, <3>1, <3>3, <3>4, <3>5
  <2>8. CASE SeatsAhead(n) = {}
    <3> DEFINE o == NextRound(n)
    <3>1. /\ Frame(n, o) /\ o.turnDrawer = NoPlayer /\ o.guessOrder = <<>>
          /\ o.round = r.round + 1 /\ o.drawn = {} /\ o.owed = Active(r) /\ ~o.shrunk
          /\ o.drawerIndex = 0 /\ o.pending = r.pending /\ Active(o) = Active(r)
          /\ o \in Room /\ o.players = r.players
          BY <2>2, <2>3, NextRoundFrame DEF Frame
    <3>2. SkipAndStart(n) = IF o.round > NumRounds THEN GameOver(o) ELSE StartTurn(SeatNext(o))
          BY <2>8 DEF SkipAndStart
    <3>3. \A i \in DOMAIN r.players : i > r.drawerIndex + 1 => r.players[i] \notin Active(r)
          BY <2>6, <2>8
    <3> HIDE DEF o
    <3>4. CASE o.round > NumRounds
      <4>1. EndTurn(r) = GameOver(o) BY <1>4, <2>5, <3>2, <3>4
      <4>2. LET s == GameOver(o) IN
            /\ Frame(o, s) /\ s.turnDrawer = NoPlayer /\ s.guessOrder = <<>>
            /\ s.round = o.round /\ s.drawn = o.drawn /\ s.owed = o.owed /\ s.shrunk = o.shrunk
            /\ s.state = "GAME_OVER" /\ s.pending = o.pending
            BY <3>1, GameOverFrame
      <4>3. NewRound(r, GameOver(o)) BY <3>1, <3>3, <3>4, <4>2 DEF NewRound
      <4>4. Frame(r, GameOver(o)) BY <1>1, <2>2, <3>1, <4>2 DEF Frame
      <4> QED BY <1>7, <4>1, <4>2, <4>3, <4>4
    <3>5. CASE ~(o.round > NumRounds)
      <4> DEFINE m == SeatNext(o)
      <4>1. EndTurn(r) = StartTurn(m) BY <1>4, <2>5, <3>2, <3>5
      <4>2. SeatsAhead(o) = {i \in DOMAIN r.players : r.players[i] \in Active(r)}
            BY <1>3, <3>1 DEF SeatsAhead
      <4>3. SeatsAhead(o) # {}
        <5>2. Active(r) # {} BY <1>7, SomebodyActive
        <5>3. PICK p \in Active(r) : TRUE BY <5>2
        <5>4. PICK i \in DOMAIN r.players : r.players[i] = p BY <5>3 DEF Active, Members
        <5> QED BY <4>2, <5>3, <5>4
      <4>4. /\ Frame(o, m) /\ m.turnDrawer = NoPlayer /\ m.guessOrder = <<>>
            /\ m.round = o.round /\ m.drawn = o.drawn /\ m.owed = o.owed /\ m.shrunk = o.shrunk
            /\ HasSeat(m) /\ m \in Room
            /\ \A i \in SeatsAhead(o) : i > m.drawerIndex
            BY <3>1, <4>3, SeatNextFrame DEF Frame
      <4> HIDE DEF m
      <4>5. LET s == StartTurn(m) IN
            /\ Frame(m, s) /\ s.turnDrawer = NoPlayer /\ s.guessOrder = <<>>
            /\ s.round = m.round /\ s.drawn = m.drawn /\ s.owed = m.owed /\ s.shrunk = m.shrunk
            /\ s.state = "WORD_SELECTION" /\ s.drawerIndex = m.drawerIndex
            BY <4>4, StartTurnFrame
      <4>6. ActiveBeyond(r, m.drawerIndex) BY <4>2, <4>4 DEF ActiveBeyond
      <4>7. NewRound(r, StartTurn(m)) BY <3>1, <3>3, <3>5, <4>4, <4>5, <4>6 DEF NewRound
      <4>8. Frame(r, StartTurn(m)) BY <1>1, <2>2, <3>1, <4>4, <4>5 DEF Frame
      <4> QED BY <1>7, <4>1, <4>5, <4>7, <4>8
    <3> QED BY <3>4, <3>5
  <2> QED BY <2>7, <2>8
<1> QED BY <1>5, <1>6, <1>7
-----------------------------------------------------------------------------
(* The books: who has guessed, and whom the round still owes a turn.       *)

Guessed(r) == {r.guessOrder[i] : i \in DOMAIN r.guessOrder}

Books(r) ==
    r.turnDrawer # NoPlayer =>
        /\ \A i, j \in DOMAIN r.guessOrder : r.guessOrder[i] = r.guessOrder[j] => i = j
        /\ r.turnDrawer \notin Guessed(r)
        /\ Guessed(r) \cap Members(r) = r.hasGuessed
        /\ r.hasGuessed \cap r.spectators = {}

\* As long as the list has lost nobody, whom the round owes a turn is active
\* and sits further on.
OwedBeyond(r, n) == \A i \in DOMAIN r.players : r.players[i] \in r.owed => i > n

Owing(r) ==
    ~r.shrunk =>
        /\ r.owed \subseteq Active(r)
        /\ r.pending => OwedBeyond(r, r.drawerIndex)
        /\ r.turnDrawer # NoPlayer => OwedBeyond(r, r.drawerIndex + 1)

\* Guessers are ids that were handed out.
BooksInv ==
    /\ InductiveInv /\ Books(room) /\ Owing(room)
    /\ Guessed(room) \subseteq issued

\* What a step does to the rotation: one step of module Rotation, or nothing.
Rotated(r, s) ==
    \/ /\ s.state = r.state /\ s.round = r.round /\ s.turnDrawer = r.turnDrawer /\ s.drawn = r.drawn
    \/ /\ r.state = "LOBBY" /\ r.turnDrawer = NoPlayer /\ s.state = "WORD_SELECTION"
       /\ s.round = 1 /\ s.drawn = {} /\ s.turnDrawer = r.turnDrawer
    \/ /\ r.turnDrawer = NoPlayer /\ s.turnDrawer \in Players \ r.drawn /\ r.round <= NumRounds
       /\ s.drawn = r.drawn \cup {s.turnDrawer} /\ s.state = "PLAYING" /\ s.round = r.round
    \/ /\ r.turnDrawer # NoPlayer /\ s.turnDrawer = NoPlayer
       /\ s.state \in {"WORD_SELECTION", "PLAYING"} /\ s.round = r.round /\ s.drawn = r.drawn
    \/ /\ r.turnDrawer # NoPlayer /\ s.turnDrawer = NoPlayer
       /\ s.round = r.round + 1 /\ s.drawn = {}
       /\ s.state = IF r.round + 1 > NumRounds THEN "GAME_OVER" ELSE "WORD_SELECTION"
    \/ /\ s.state = "GAME_OVER" /\ s.turnDrawer = NoPlayer /\ s.round = r.round /\ s.drawn = r.drawn
    \/ /\ r.state = "GAME_OVER" /\ s.state = "LOBBY" /\ s.round = 0 /\ s.drawn = {}
       /\ s.turnDrawer = r.turnDrawer

\* What a round that ends has done for its players.
Served(r, s) ==
    InGame(r) /\ s.round = r.round + 1 => r.owed \cap s.connected = {} \/ r.shrunk

\* What a step must do to the books of a room.
Booked(r, s) ==
    /\ Books(s) /\ Owing(s) /\ Rotated(r, s) /\ Served(r, s)
    /\ Guessed(s) \subseteq Guessed(r) \cup Members(r)

\* A handler that leaves the turn, the seat and the round alone.
Still(r, s) ==
    /\ s \in Room /\ s.state = r.state /\ s.round = r.round /\ s.turnDrawer = r.turnDrawer
    /\ s.drawn = r.drawn /\ s.guessOrder = r.guessOrder /\ s.drawerIndex = r.drawerIndex
    /\ s.pending = r.pending

\* It keeps the books if it adds no old guesser, forgets only who is gone, and
\* owes no more than before.
LEMMA StillBooked ==
    ASSUME NEW r \in Room, NEW s, Books(r), Owing(r), Still(r, s), NEW N,
           r.turnDrawer # NoPlayer => N \cap Guessed(r) = {},
           Members(s) \subseteq Members(r) \cup N,
           s.spectators \subseteq r.spectators \cup N,
           r.turnDrawer # NoPlayer => s.hasGuessed = r.hasGuessed \cap Members(s),
           \/ s.shrunk
           \/ /\ s.shrunk = r.shrunk /\ s.owed \subseteq r.owed
              /\ ~r.shrunk => s.owed \subseteq Active(s)
              /\ \A i \in DOMAIN s.players : s.players[i] \in s.owed =>
                    i \in DOMAIN r.players /\ r.players[i] = s.players[i]
    PROVE  Booked(r, s)
<1>1. Rotated(r, s) BY DEF Rotated, Still
<1>2. Served(r, s)
  <2>1. r.round \in Nat /\ s.round = r.round BY DEF Room, Still
  <2> QED BY <2>1 DEF Served
<1>3. Guessed(s) = Guessed(r) BY DEF Guessed, Still
<1>4. Books(s)
  <2> SUFFICES ASSUME r.turnDrawer # NoPlayer PROVE Books(s) BY DEF Books, Still
  <2>1. /\ Guessed(r) \cap Members(r) = r.hasGuessed /\ r.hasGuessed \cap r.spectators = {}
        /\ r.turnDrawer \notin Guessed(r)
        /\ \A i, j \in DOMAIN r.guessOrder : r.guessOrder[i] = r.guessOrder[j] => i = j
        BY DEF Books
  <2>2. s.hasGuessed = r.hasGuessed \cap Members(s) /\ N \cap Guessed(r) = {} OBVIOUS
  <2>3. Guessed(s) \cap Members(s) = s.hasGuessed BY <1>3, <2>1, <2>2
  <2>4. s.hasGuessed \cap s.spectators = {} BY <2>1, <2>2
  <2> QED BY <1>3, <2>1, <2>3, <2>4 DEF Books, Still
<1>5. Owing(s)
  <2> SUFFICES ASSUME ~s.shrunk PROVE Owing(s) BY DEF Owing
  <2>1. /\ ~r.shrunk /\ s.owed \subseteq r.owed /\ s.owed \subseteq Active(s)
        /\ \A i \in DOMAIN s.players : s.players[i] \in s.owed =>
              i \in DOMAIN r.players /\ r.players[i] = s.players[i]
        OBVIOUS
  <2>2. \A n : OwedBeyond(r, n) => OwedBeyond(s, n) BY <2>1 DEF OwedBeyond
  <2> QED BY <2>1, <2>2 DEF Owing, Still
<1> QED BY <1>1, <1>2, <1>3, <1>4, <1>5 DEF Booked

\* A handler that also leaves the players and their flags alone.
LEMMA SameBooked ==
    ASSUME NEW r \in Room, NEW s, Books(r), Owing(r), Still(r, s),
           s.players = r.players, s.connected = r.connected, s.spectators = r.spectators,
           s.hasGuessed = r.hasGuessed, s.owed = r.owed, s.shrunk = r.shrunk
    PROVE  Booked(r, s)
<1>1. Members(s) = Members(r) BY DEF Members
<1>2. Active(s) = Active(r) BY <1>1 DEF Active
<1>3. r.turnDrawer # NoPlayer => s.hasGuessed = r.hasGuessed \cap Members(s) BY <1>1 DEF Books
<1>4. ~r.shrunk => s.owed \subseteq Active(s) BY <1>2 DEF Owing
<1>5. /\ r.turnDrawer # NoPlayer => {} \cap Guessed(r) = {}
      /\ Members(s) \subseteq Members(r) \cup {} /\ s.spectators \subseteq r.spectators \cup {}
      BY <1>1
<1>6. /\ s.shrunk = r.shrunk /\ s.owed \subseteq r.owed
      /\ ~r.shrunk => s.owed \subseteq Active(s)
      /\ \A i \in DOMAIN s.players : s.players[i] \in s.owed =>
            i \in DOMAIN r.players /\ r.players[i] = s.players[i]
      BY <1>4
<1> QED BY <1>3, <1>5, <1>6, StillBooked

\* What has kept the books before a handler leaves them alone has kept them after.
LEMMA BookedAfter ==
    ASSUME NEW r, NEW t \in Room, NEW s, Booked(r, t), Still(t, s),
           s.players = t.players, s.connected = t.connected, s.spectators = t.spectators,
           s.hasGuessed = t.hasGuessed, s.owed = t.owed, s.shrunk = t.shrunk
    PROVE  Booked(r, s)
<1>1. Books(s) /\ Owing(s) /\ Guessed(s) = Guessed(t)
  <2>1. Booked(t, s) BY SameBooked DEF Booked
  <2>2. Guessed(s) = Guessed(t) BY DEF Guessed, Still
  <2> QED BY <2>1, <2>2 DEF Booked
<1>2. Rotated(r, s)
  <2>1. Rotated(r, t) BY DEF Booked
  <2>2. s.state = t.state /\ s.round = t.round /\ s.turnDrawer = t.turnDrawer /\ s.drawn = t.drawn
        BY DEF Still
  <2> QED BY <2>1, <2>2 DEF Rotated
<1>3. Served(r, s)
  <2>1. Served(r, t) /\ s.round = t.round BY DEF Booked, Still
  <2> QED BY <2>1 DEF Served
<1> QED BY <1>1, <1>2, <1>3 DEF Booked

\* What keeps the books of a room keeps those of one that had the same round
\* and turn and owed no more to those still connected.
LEMMA BookedBefore ==
    ASSUME NEW r, NEW t, NEW s, Booked(t, s), t.state = r.state, t.round = r.round,
           t.turnDrawer = r.turnDrawer, t.drawn = r.drawn, t.shrunk = r.shrunk,
           r.owed \cap s.connected \subseteq t.owed, Members(t) = Members(r),
           Guessed(t) \subseteq Guessed(r) \cup Members(r)
    PROVE  Booked(r, s)
<1>1. Books(s) /\ Owing(s) /\ Guessed(s) \subseteq Guessed(r) \cup Members(r) BY DEF Booked
<1>2. Rotated(r, s)
  <2>1. Rotated(t, s) BY DEF Booked
  <2> QED BY <2>1 DEF Rotated
<1>3. Served(r, s)
  <2>1. Served(t, s) BY DEF Booked
  <2> QED BY <2>1 DEF Served, InGame
<1> QED BY <1>1, <1>2, <1>3 DEF Booked

\* end_turn closes the book of guesses, and moves on to somebody the round owes
\* a turn or to a new round when nobody is left.
LEMMA EndTurnBooked ==
    ASSUME NEW r, RoomInv(r), Books(r), Owing(r), r.turnDrawer # NoPlayer
    PROVE  Booked(r, EndTurn(r)) /\ Frame(r, EndTurn(r))
<1> DEFINE s == EndTurn(r)
<1>1. /\ r \in Room /\ r.state = "PLAYING" /\ ~r.pending /\ r.round <= NumRounds
      BY DEF RoomInv, Seating, PhaseOf, Rotating, InGame
<1>2. /\ Frame(r, s) /\ s.turnDrawer = NoPlayer /\ s.guessOrder = <<>>
      /\ SameRound(r, s) \/ NewRound(r, s)
      BY <1>1, EndTurnIs
<1> HIDE DEF s
<1>3. Active(s) = Active(r) /\ s.players = r.players /\ s.connected = r.connected
      BY <1>2 DEF Active, Members, Frame
<1>4. r.round \in Nat /\ r.drawerIndex \in Nat /\ r.players \in Seq(Players) /\ s.drawerIndex \in Nat
      BY <1>1, <1>2 DEF Room, Frame
<1>5. Books(s) BY <1>2 DEF Books
<1>6. Guessed(s) = {} BY <1>2 DEF Guessed
<1>7. ASSUME ~r.shrunk
      PROVE  r.owed \subseteq Active(r) /\ OwedBeyond(r, r.drawerIndex + 1)
      BY <1>7 DEF Owing
<1>8. CASE SameRound(r, s)
  <2>1. /\ s.round = r.round /\ s.drawn = r.drawn /\ s.owed = r.owed /\ s.shrunk = r.shrunk
        BY <1>8 DEF SameRound
  <2>2. s.state \in {"PLAYING", "WORD_SELECTION"} BY <1>1, <1>8 DEF SameRound
  <2>3. Rotated(r, s) BY <1>2, <2>1, <2>2 DEF Rotated
  <2>4. Served(r, s) BY <1>4, <2>1 DEF Served
  <2>5. Owing(s)
    <3> SUFFICES ASSUME ~s.shrunk, s.pending PROVE OwedBeyond(s, s.drawerIndex)
        BY <1>2, <1>3, <1>7, <2>1 DEF Owing
    <3>1. \A i \in DOMAIN r.players :
             i > r.drawerIndex + 1 /\ r.players[i] \in Active(r) => i > s.drawerIndex
          BY <1>1, <1>8 DEF SameRound
    <3> QED BY <1>3, <1>7, <2>1, <3>1 DEF OwedBeyond
  <2> QED BY <1>2, <1>5, <1>6, <2>3, <2>4, <2>5 DEF Booked, s
<1>9. CASE NewRound(r, s)
  <2>1. /\ s.round = r.round + 1 /\ s.drawn = {} /\ s.owed = Active(r) /\ ~s.shrunk
        /\ s.state = IF r.round + 1 > NumRounds THEN "GAME_OVER" ELSE "WORD_SELECTION"
        /\ s.round > NumRounds => ~s.pending
        /\ ~(s.round > NumRounds) => ActiveBeyond(r, s.drawerIndex)
        BY <1>1, <1>9 DEF NewRound
  <2>2. Rotated(r, s) BY <1>2, <2>1 DEF Rotated
  <2>3. Served(r, s)
    <3> SUFFICES ASSUME ~r.shrunk, NEW p \in r.owed PROVE FALSE BY DEF Served
    <3>1. p \in Active(r) BY <1>7
    <3>2. PICK i \in DOMAIN r.players : r.players[i] = p BY <3>1 DEF Active, Members
    <3>3. i > r.drawerIndex + 1 BY <1>7, <3>2 DEF OwedBeyond
    <3> QED BY <1>9, <3>1, <3>2, <3>3 DEF NewRound
  <2>4. Owing(s) BY <1>2, <1>3, <2>1 DEF Owing, OwedBeyond, ActiveBeyond
  <2> QED BY <1>2, <1>5, <1>6, <2>2, <2>3, <2>4 DEF Booked, s
<1> QED BY <1>2, <1>8, <1>9

\* A handler that returns early.
LEMMA SelfBooked ==
    ASSUME NEW r \in Room, Books(r), Owing(r)
    PROVE  Booked(r, r) /\ Frame(r, r)
<1>1. Still(r, r) BY DEF Still
<1> QED BY <1>1, SameBooked DEF Frame

\* _end_game_insufficient_players.
LEMMA StartCountdownBooked ==
    ASSUME NEW r \in Room, Books(r), Owing(r)
    PROVE  Booked(r, StartCountdown(r)) /\ Frame(r, StartCountdown(r))
<1> DEFINE s == StartCountdown(r)
<1>1. /\ Frame(r, s) /\ s.turnDrawer = r.turnDrawer /\ s.guessOrder = r.guessOrder
      /\ s.round = r.round /\ s.drawn = r.drawn /\ s.owed = r.owed /\ s.shrunk = r.shrunk
      /\ s.state = r.state /\ s.pending = r.pending /\ s.drawerIndex = r.drawerIndex
      BY StartCountdownFrame
<1> HIDE DEF s
<1>2. Still(r, s) BY <1>1 DEF Still, Frame
<1> QED BY <1>1, <1>2, SameBooked DEF Frame, s

\* The in-game part of handle_disconnect.
LEMMA AfterDisconnectBooked ==
    ASSUME NEW r, RoomInv(r), Books(r), Owing(r), NEW p \in Players
    PROVE  Booked(r, AfterDisconnect(r, p)) /\ Frame(r, AfterDisconnect(r, p))
<1>1. r \in Room BY DEF RoomInv, Seating
<1>2. CASE ~InGame(r) BY <1>1, <1>2, SelfBooked DEF AfterDisconnect
<1>3. CASE InGame(r) /\ r.turnDrawer = p
  <2>1. r.turnDrawer # NoPlayer BY <1>3, NoPlayerAssumption
  <2>2. AfterDisconnect(r, p) = EndTurn(r) BY <1>3 DEF AfterDisconnect
  <2> QED BY <2>1, <2>2, EndTurnBooked
<1>4. CASE InGame(r) /\ r.turnDrawer # p /\ Cardinality(Active(r)) < 2
  <2>1. AfterDisconnect(r, p) = StartCountdown(r) BY <1>4 DEF AfterDisconnect
  <2> QED BY <1>1, <2>1, StartCountdownBooked
<1>5. CASE InGame(r) /\ r.turnDrawer # p /\ ~ (Cardinality(Active(r)) < 2)
  <2>1. \/ AfterDisconnect(r, p) = r
        \/ r.turnDrawer # NoPlayer /\ AfterDisconnect(r, p) = EndTurn(r)
        BY <1>5 DEF AfterDisconnect, EndTurnIfAllGuessed
  <2> QED BY <1>1, <2>1, SelfBooked, EndTurnBooked
<1> QED BY <1>2, <1>3, <1>4, <1>5

\* handle_disconnect from the host check on.
LEMMA FinishDisconnectBooked ==
    ASSUME NEW d, RoomInv(d), Books(d), Owing(d), NEW p \in Members(d)
    PROVE  LET s == FinishDisconnect(d, p) IN
           /\ Booked(d, s) /\ s.players = d.players /\ s.connected = d.connected
           /\ s.alive => d.alive
           /\ s.alive => Cleanups(s) = Cleanups(d) \cup {p}
<1> DEFINE t == ScheduleTasks(d, p)
           n == AfterDisconnect(t, p)
           s == IF p \in n.lostCleanup THEN n ELSE [n EXCEPT !.ripe = @ \ {p}]
<1>1. d \in Room /\ p \in Players BY MembersArePlayers DEF RoomInv, Seating
<1>2. FinishDisconnect(d, p) = IF d.host = p /\ d.connected = {} /\ ~InGame(d) THEN Deleted(d) ELSE s
      BY DEF FinishDisconnect
<1>3. CASE d.host = p /\ d.connected = {} /\ ~InGame(d)
  <2> DEFINE e == Deleted(d)
  <2>1. /\ Still(d, e) /\ e.players = d.players /\ e.connected = d.connected
        /\ e.spectators = d.spectators /\ e.hasGuessed = d.hasGuessed /\ e.owed = d.owed
        /\ e.shrunk = d.shrunk /\ e.alive = FALSE
        BY <1>1 DEF Deleted, Still, Room
  <2>2. FinishDisconnect(d, p) = e BY <1>2, <1>3
  <2> HIDE DEF e
  <2>3. Booked(d, e) BY <1>1, <2>1, SameBooked
  <2> QED BY <2>1, <2>2, <2>3
<1>4. CASE ~ (d.host = p /\ d.connected = {} /\ ~InGame(d))
  <2>1. /\ Still(d, t) /\ t.players = d.players /\ t.connected = d.connected
        /\ t.spectators = d.spectators /\ t.hasGuessed = d.hasGuessed /\ t.owed = d.owed
        /\ t.shrunk = d.shrunk /\ t.alive = d.alive
        BY <1>1 DEF ScheduleTasks, Still, Room
  <2>1a. Cleanups(t) = Cleanups(d) \cup {p} BY <1>1 DEF ScheduleTasks, Room, Cleanups
  <2>2. RoomInv(t) /\ Members(t) = Members(d) BY ScheduleTasksInv
  <2> HIDE DEF t
  <2>3. Booked(d, t) BY <1>1, <2>1, SameBooked
  <2>4. Booked(t, n) /\ Frame(t, n) BY <1>1, <2>2, <2>3, AfterDisconnectBooked DEF Booked
  <2> HIDE DEF n
  <2>5. Booked(d, n)
    <3>1. d.owed \cap n.connected \subseteq t.owed BY <2>1
    <3>2. Guessed(t) = Guessed(d) BY <2>1 DEF Guessed, Still
    <3>3. /\ t.state = d.state /\ t.round = d.round /\ t.turnDrawer = d.turnDrawer
          /\ t.drawn = d.drawn /\ t.shrunk = d.shrunk
          BY <2>1 DEF Still
    <3> QED BY <2>2, <2>4, <3>1, <3>2, <3>3, BookedBefore
  <2>6. n \in Room BY <2>4 DEF Frame
  <2>7. /\ Still(n, s) /\ s.players = n.players /\ s.connected = n.connected
        /\ s.spectators = n.spectators /\ s.hasGuessed = n.hasGuessed /\ s.owed = n.owed
        /\ s.shrunk = n.shrunk /\ s.alive = n.alive
        BY <2>6 DEF Still, Room
  <2>7a. Cleanups(s) = Cleanups(n) BY <2>6 DEF Room, Cleanups
  <2>8. FinishDisconnect(d, p) = s BY <1>2, <1>4
  <2> HIDE DEF s
  <2>9. Booked(d, s) BY <2>5, <2>6, <2>7, BookedAfter
  <2>10. Cleanups(n) = Cleanups(t) BY <2>4 DEF Frame, Cleanups
  <2>11. Cleanups(s) = Cleanups(d) \cup {p} BY <2>1a, <2>7a, <2>10
  <2> QED BY <2>1, <2>4, <2>7, <2>8, <2>9, <2>11 DEF Frame
<1> QED BY <1>3, <1>4

\* Who is marked as disconnected is owed nothing.
LEMMA MarkedBooked ==
    ASSUME NEW r, RoomInv(r), Books(r), Owing(r), NEW p \in Members(r)
    PROVE  LET d == MarkDisconnected(r, p) IN
           /\ Booked(r, d) /\ Still(r, d) /\ RoomInv(d) /\ Members(d) = Members(r)
           /\ d.players = r.players /\ d.connected = r.connected \ {p}
           /\ d.owed = r.owed \ {p} /\ d.shrunk = r.shrunk /\ d.alive = r.alive
           /\ Cleanups(d) = Cleanups(r)
<1> DEFINE d == MarkDisconnected(r, p)
<1>1. r \in Room BY DEF RoomInv, Seating
<1>2. /\ Still(r, d) /\ d.players = r.players /\ d.connected = r.connected \ {p}
      /\ d.spectators = r.spectators /\ d.hasGuessed = r.hasGuessed /\ d.owed = r.owed \ {p}
      /\ d.shrunk = r.shrunk /\ d.alive = r.alive
      BY <1>1 DEF MarkDisconnected, Still, Room
<1>2a. Cleanups(d) = Cleanups(r) BY <1>1 DEF MarkDisconnected, Room, Cleanups
<1>3. RoomInv(d) /\ Members(d) = Members(r) BY MarkDisconnectedInv
<1> HIDE DEF d
<1>4. r.turnDrawer # NoPlayer => d.hasGuessed = r.hasGuessed \cap Members(d)
      BY <1>2, <1>3 DEF Books
<1>5. ~r.shrunk => d.owed \subseteq Active(d) BY <1>2, <1>3 DEF Owing, Active
<1>6. \A i \in DOMAIN d.players : d.players[i] \in d.owed =>
          i \in DOMAIN r.players /\ r.players[i] = d.players[i]
      BY <1>2
<1>7. /\ r.turnDrawer # NoPlayer => {} \cap Guessed(r) = {}
      /\ Members(d) \subseteq Members(r) \cup {} /\ d.spectators \subseteq r.spectators \cup {}
      /\ d.owed \subseteq r.owed
      BY <1>2, <1>3
<1>8. Booked(r, d) BY <1>1, <1>2, <1>4, <1>5, <1>6, <1>7, StillBooked
<1> QED BY <1>2, <1>2a, <1>3, <1>8 DEF d

\* A disconnection as a whole touches nobody else.
LEMMA HandleDisconnectBooked ==
    ASSUME NEW r, RoomInv(r), Books(r), Owing(r), NEW p \in Members(r)
    PROVE  LET s == HandleDisconnect(r, p) IN
           /\ Booked(r, s) /\ s.players = r.players
           /\ s.connected = r.connected \ {p}
           /\ s.alive => r.alive
           /\ s.alive => Cleanups(s) = Cleanups(r) \cup {p}
<1> DEFINE d == MarkDisconnected(r, p)
           s == FinishDisconnect(d, p)
<1>1. /\ Booked(r, d) /\ Still(r, d) /\ RoomInv(d) /\ Members(d) = Members(r)
      /\ d.players = r.players /\ d.connected = r.connected \ {p}
      /\ d.owed = r.owed \ {p} /\ d.shrunk = r.shrunk /\ d.alive = r.alive
      /\ Cleanups(d) = Cleanups(r)
      BY MarkedBooked
<1> HIDE DEF d
<1>2. /\ Booked(d, s) /\ s.players = d.players /\ s.connected = d.connected
      /\ s.alive => d.alive
      /\ s.alive => Cleanups(s) = Cleanups(d) \cup {p}
      BY <1>1, FinishDisconnectBooked DEF Booked
<1>3. HandleDisconnect(r, p) = s BY DEF HandleDisconnect, d
<1> HIDE DEF s
<1>4. Booked(r, s)
  <2>1. r.owed \cap s.connected \subseteq d.owed BY <1>1, <1>2
  <2>2. Guessed(d) = Guessed(r) BY <1>1 DEF Guessed, Still
  <2>3. /\ d.state = r.state /\ d.round = r.round /\ d.turnDrawer = r.turnDrawer
        /\ d.drawn = r.drawn
        BY <1>1 DEF Still
  <2> QED BY <1>1, <1>2, <2>1, <2>2, <2>3, BookedBefore
<1> QED BY <1>1, <1>2, <1>3, <1>4

\* handle_reconnect.
LEMMA HandleReconnectBooked ==
    ASSUME NEW r, RoomInv(r), Books(r), Owing(r), NEW p \in Members(r)
    PROVE  LET s == HandleReconnect(r, p) IN
           /\ Booked(r, s) /\ s.players = r.players /\ s.alive = r.alive
           /\ s.connected = r.connected \cup {p}
           /\ Cleanups(r) \ {p} \subseteq Cleanups(s)
<1> DEFINE s == HandleReconnect(r, p)
<1>1. r \in Room /\ p \in Players BY MembersArePlayers DEF RoomInv, Seating
<1>2. /\ Still(r, s) /\ s.players = r.players /\ s.connected = r.connected \cup {p}
      /\ s.spectators = r.spectators /\ s.hasGuessed = r.hasGuessed /\ s.owed = r.owed
      /\ s.shrunk = r.shrunk /\ s.alive = r.alive
      BY <1>1 DEF HandleReconnect, ResumeIfEnough, Still, Room
<1>2a. Cleanups(r) \ {p} \subseteq Cleanups(s)
       BY <1>1 DEF HandleReconnect, ResumeIfEnough, Room, Cleanups
<1> HIDE DEF s
<1>3. Members(s) = Members(r) BY <1>2 DEF Members
<1>4. r.turnDrawer # NoPlayer => s.hasGuessed = r.hasGuessed \cap Members(s)
      BY <1>2, <1>3 DEF Books
<1>5. ~r.shrunk => s.owed \subseteq Active(s) BY <1>2, <1>3 DEF Owing, Active
<1>6. /\ r.turnDrawer # NoPlayer => {} \cap Guessed(r) = {}
      /\ Members(s) \subseteq Members(r) \cup {} /\ s.spectators \subseteq r.spectators \cup {}
      BY <1>2, <1>3
<1>7. /\ s.shrunk = r.shrunk /\ s.owed \subseteq r.owed
      /\ \A i \in DOMAIN s.players : s.players[i] \in s.owed =>
            i \in DOMAIN r.players /\ r.players[i] = s.players[i]
      BY <1>2
<1>8. Booked(r, s) BY <1>1, <1>2, <1>4, <1>5, <1>6, <1>7, StillBooked
<1> QED BY <1>2, <1>2a, <1>8 DEF s

\* Room.remove_player: the flags of the player go with it.
LEMMA RemovedBooked ==
    ASSUME NEW r, RoomInv(r), Books(r), Owing(r), NEW p \in Members(r)
    PROVE  Booked(r, Removed(r, p))
<1> DEFINE s == Removed(r, p)
<1>1. r \in Room BY DEF RoomInv, Seating
<1>2. s \in Room /\ Members(s) = Members(r) \ {p} BY RemovedIs
<1>3. /\ Still(r, s) /\ s.spectators = r.spectators \ {p} /\ s.hasGuessed = r.hasGuessed \ {p}
      /\ s.shrunk
  <2>1. /\ s.state = r.state /\ s.round = r.round /\ s.turnDrawer = r.turnDrawer
        /\ s.drawn = r.drawn /\ s.guessOrder = r.guessOrder /\ s.drawerIndex = r.drawerIndex
        /\ s.pending = r.pending
        /\ s.spectators = r.spectators \ {p} /\ s.hasGuessed = r.hasGuessed \ {p} /\ s.shrunk
        BY <1>1 DEF Removed, Room
  <2> QED BY <1>2, <2>1 DEF Still
<1> HIDE DEF s
<1>4. r.turnDrawer # NoPlayer => s.hasGuessed = r.hasGuessed \cap Members(s)
      BY <1>2, <1>3 DEF Books
<1>5. /\ r.turnDrawer # NoPlayer => {} \cap Guessed(r) = {}
      /\ Members(s) \subseteq Members(r) \cup {} /\ s.spectators \subseteq r.spectators \cup {}
      BY <1>2, <1>3
<1>6. Booked(r, s) BY <1>1, <1>3, <1>4, <1>5, StillBooked
<1> QED BY <1>6 DEF s

\* What follows a removal: a new host, a countdown, or the end of the room.
LEMMA RemovalBooked ==
    ASSUME NEW r, RoomInv(r), Books(r), Owing(r), NEW p \in Members(r), NEW h \in Players, NEW s,
           s \in {Removed(r, p), [Removed(r, p) EXCEPT !.host = h], Deleted(Removed(r, p))}
    PROVE  /\ Booked(r, s) /\ s \in Room /\ Members(s) = Members(r) \ {p}
           /\ s.connected = r.connected \ {p} /\ Cleanups(s) = Cleanups(r) \ {p}
           /\ s.alive => r.alive
<1> DEFINE t == Removed(r, p)
<1>1. /\ t \in Room /\ Members(t) = Members(r) \ {p} /\ t.connected = r.connected \ {p}
      /\ t.alive = r.alive /\ Cleanups(t) = Cleanups(r) \ {p}
      BY RemovedIs
<1>2. Booked(r, t) BY RemovedBooked
<1>3. s = t \/ s = [t EXCEPT !.host = h] \/ s = Deleted(t) OBVIOUS
<1> HIDE DEF t
<1>4. /\ Still(t, s) /\ s.players = t.players /\ s.connected = t.connected
      /\ s.spectators = t.spectators /\ s.hasGuessed = t.hasGuessed /\ s.owed = t.owed
      /\ s.shrunk = t.shrunk /\ s \in Room
  <2>1. CASE s = t BY <1>1, <2>1 DEF Still
  <2>2. CASE s = [t EXCEPT !.host = h] BY <1>1, <2>2 DEF Still, Room
  <2>3. CASE s = Deleted(t) BY <1>1, <2>3 DEF Still, Room, Deleted
  <2> QED BY <1>3, <2>1, <2>2, <2>3
<1>4a. Cleanups(s) = Cleanups(t)
  <2>1. CASE s = t BY <2>1
  <2>2. CASE s = [t EXCEPT !.host = h] BY <1>1, <2>2 DEF Room, Cleanups
  <2>3. CASE s = Deleted(t) BY <1>1, <2>3 DEF Room, Cleanups, Deleted
  <2> QED BY <1>3, <2>1, <2>2, <2>3
<1>5. s.alive => t.alive
  <2>1. CASE s = t BY <2>1
  <2>2. CASE s = [t EXCEPT !.host = h] BY <1>1, <2>2 DEF Room
  <2>3. CASE s = Deleted(t) BY <1>1, <2>3 DEF Room, Deleted
  <2> QED BY <1>3, <2>1, <2>2, <2>3
<1>6. Booked(r, s) BY <1>1, <1>2, <1>4, BookedAfter
<1>7. Members(s) = Members(t) BY <1>4 DEF Members
<1> QED BY <1>1, <1>4, <1>4a, <1>5, <1>6, <1>7

\* _permanently_remove_player.
LEMMA PermanentlyRemoveBooked ==
    ASSUME NEW r, RoomInv(r), Books(r), Owing(r), NEW p \in Members(r)
    PROVE  LET s == PermanentlyRemove(r, p) IN
           /\ Booked(r, s) /\ Members(s) = Members(r) \ {p}
           /\ s.connected = r.connected \ {p} /\ Cleanups(s) = Cleanups(r) \ {p}
           /\ s.alive => r.alive
<1> DEFINE left == Removed(r, p)
           kept == ReassignHost(left, p)
           s == PermanentlyRemove(r, p)
<1>1. r.host \in Players BY DEF RoomInv, Seating, Room
<1>2. left \in Room /\ left.connected \subseteq Members(left)
  <2>1. left \in Room /\ Members(left) = Members(r) \ {p} /\ left.connected = r.connected \ {p}
        BY RemovedIs
  <2> QED BY <2>1 DEF RoomInv, Seating
<1>3. s = IF left.connected = {} THEN Deleted(left)
          ELSE IF InGame(kept) /\ Cardinality(kept.connected) < 2 THEN StartCountdown(kept) ELSE kept
      BY DEF PermanentlyRemove
<1>4. kept = IF left.host = p THEN [left EXCEPT !.host = NewHost(left)] ELSE left
      BY DEF ReassignHost
<1>5. CASE left.connected = {}
  <2>1. s = Deleted(left) BY <1>3, <1>5
  <2> QED BY <1>1, <2>1, RemovalBooked
<1>6. CASE left.connected # {}
  <2>1. NewHost(left) \in Players
    <3> HIDE DEF left
    <3>1. NewHost(left) \in left.connected BY <1>2, <1>6, NewHostIs
    <3> QED BY <1>2, <3>1, MembersArePlayers
  <2>2. /\ Booked(r, kept) /\ kept \in Room /\ Members(kept) = Members(r) \ {p}
        /\ kept.connected = r.connected \ {p} /\ Cleanups(kept) = Cleanups(r) \ {p}
        /\ kept.alive => r.alive
    <3>1. kept \in {left, [left EXCEPT !.host = NewHost(left)], Deleted(left)} BY <1>4
    <3> QED BY <2>1, <3>1, RemovalBooked
  <2> HIDE DEF kept
  <2>3. CASE s = kept BY <2>2, <2>3
  <2>4. CASE s = StartCountdown(kept)
    <3>1. Frame(kept, StartCountdown(kept)) BY <2>2, StartCountdownFrame
    <3>2. Still(kept, StartCountdown(kept)) BY <2>2, StartCountdownFrame DEF Still, Frame
    <3>3. StartCountdown(kept).owed = kept.owed /\ StartCountdown(kept).shrunk = kept.shrunk
          BY <2>2, StartCountdownFrame
    <3>4. Booked(r, StartCountdown(kept)) BY <2>2, <3>1, <3>2, <3>3, BookedAfter DEF Frame
    <3>5. /\ Members(StartCountdown(kept)) = Members(kept)
          /\ Cleanups(StartCountdown(kept)) = Cleanups(kept)
          BY <3>1 DEF Members, Frame, Cleanups
    <3> QED BY <2>2, <2>4, <3>1, <3>4, <3>5 DEF Frame
  <2> QED BY <1>3, <1>6, <2>3, <2>4
<1> QED BY <1>5, <1>6

\* Room.add_player with an id that nobody has guessed under.
LEMMA AddedBooked ==
    ASSUME NEW r, RoomInv(r), Books(r), Owing(r), NEW p \in Players, NEW b \in BOOLEAN,
           p \notin Members(r) \cup r.drawn, p \notin Guessed(r)
    PROVE  LET s == Added(r, p, b) IN
           /\ Booked(r, s) /\ s \in Room /\ Members(s) = Members(r) \cup {p}
           /\ s.connected = r.connected \cup {p} /\ s.alive = r.alive
           /\ Cleanups(s) = Cleanups(r)
<1> DEFINE s == Added(r, p, b)
<1>1. r \in Room BY DEF RoomInv, Seating
<1>2. r.players \in Seq(Players) BY <1>1 DEF Room
<1>3. s \in Room /\ Members(s) = Members(r) \cup {p} BY AddedInv DEF RoomInv, Seating
<1>4. /\ s.players = Append(r.players, p) /\ s.connected = r.connected \cup {p}
      /\ s.spectators \subseteq r.spectators \cup {p} /\ s.alive = r.alive
      /\ s.hasGuessed = r.hasGuessed /\ s.owed = r.owed /\ s.shrunk = r.shrunk
      BY <1>1 DEF Added, Room
<1>4a. r.spectators \ {p} = s.spectators \ {p} BY <1>1 DEF Added, Room
<1>4b. Cleanups(s) = Cleanups(r) BY <1>1 DEF Added, Room, Cleanups
<1>5. Still(r, s)
  <2>1. /\ s.state = r.state /\ s.round = r.round /\ s.turnDrawer = r.turnDrawer
        /\ s.drawn = r.drawn /\ s.guessOrder = r.guessOrder /\ s.drawerIndex = r.drawerIndex
        /\ s.pending = r.pending
        BY <1>1 DEF Added, Room
  <2> QED BY <1>3, <2>1 DEF Still
<1> HIDE DEF s
<1>6. /\ DOMAIN s.players = 1..(Len(r.players) + 1)
      /\ DOMAIN r.players = 1..Len(r.players) /\ Len(r.players) \in Nat
      /\ \A i \in 1..Len(r.players) : s.players[i] = r.players[i]
      /\ s.players[Len(r.players) + 1] = p
      BY <1>2, <1>4
<1>7. ~r.shrunk => s.owed \subseteq Active(s)
  <2> SUFFICES ASSUME ~r.shrunk, NEW q \in r.owed PROVE q \in Active(s) BY <1>4
  <2>1. q \in Members(r) /\ q \in r.connected /\ q \notin r.spectators BY DEF Owing, Active
  <2>2. q # p BY <2>1
  <2> QED BY <1>3, <1>4, <1>4a, <2>1, <2>2 DEF Active
<1>8. ~r.shrunk => \A i \in DOMAIN s.players : s.players[i] \in s.owed =>
            i \in DOMAIN r.players /\ r.players[i] = s.players[i]
  <2> SUFFICES ASSUME ~r.shrunk, NEW i \in DOMAIN s.players, s.players[i] \in r.owed
               PROVE  i \in DOMAIN r.players /\ r.players[i] = s.players[i]
      BY <1>4
  <2>1. s.players[i] # p BY DEF Owing, Active
  <2> QED BY <1>6, <2>1
<1>9. r.turnDrawer # NoPlayer => s.hasGuessed = r.hasGuessed \cap Members(s)
      BY <1>3, <1>4 DEF Books
<1>10. Booked(r, s)
  <2> DEFINE N == {p}
  <2>0. /\ r.turnDrawer # NoPlayer => N \cap Guessed(r) = {}
        /\ Members(s) \subseteq Members(r) \cup N /\ s.spectators \subseteq r.spectators \cup N
        BY <1>3, <1>4
  <2> HIDE DEF N
  <2>1. CASE r.shrunk
    <3>1. s.shrunk BY <1>4, <2>1
    <3> QED BY <1>1, <1>5, <1>9, <2>0, <3>1, StillBooked
  <2>2. CASE ~r.shrunk
    <3>1. /\ s.shrunk = r.shrunk /\ s.owed \subseteq r.owed
          /\ ~r.shrunk => s.owed \subseteq Active(s)
          /\ \A i \in DOMAIN s.players : s.players[i] \in s.owed =>
                i \in DOMAIN r.players /\ r.players[i] = s.players[i]
          BY <1>4, <1>7, <1>8, <2>2
    <3> QED BY <1>1, <1>5, <1>9, <2>0, <3>1, StillBooked
  <2> QED BY <2>1, <2>2
<1> QED BY <1>3, <1>4, <1>4b, <1>10 DEF s

\* FirstSeat is the first one.
LEMMA FirstSeatLeast ==
    ASSUME NEW r \in Room, NEW S, Members(r) \cap S # {}
    PROVE  \A j \in DOMAIN r.players : r.players[j] \in S => FirstSeat(r, S) <= j
<1> DEFINE T == {i \in DOMAIN r.players : r.players[i] \in S}
<1>1. r.players \in Seq(Players) BY DEF Room
<1>2. T \in SUBSET Nat /\ T # {} BY <1>1 DEF Members
<1>3. PICK x \in T : \A y \in T : x <= y BY <1>2, LeastNat
<1>4. \E i \in DOMAIN r.players :
        /\ r.players[i] \in S
        /\ \A j \in DOMAIN r.players : r.players[j] \in S => i <= j
      BY <1>3
<1> QED BY <1>4 DEF FirstSeat

\* handle_word_selection opens an empty book and pays what the drawer was owed.
LEMMA BeginTurnBooked ==
    ASSUME NEW r, RoomInv(r), Books(r), Owing(r), HasSeat(r), r.pending
    PROVE  LET s == BeginTurn(r) IN
           /\ Booked(r, s) /\ s.players = r.players /\ s.connected = r.connected
           /\ s.alive = r.alive /\ Cleanups(s) = Cleanups(r)
<1> DEFINE s == BeginTurn(r)
<1>1. r \in Room /\ r.turnDrawer = NoPlayer /\ r.round <= NumRounds
      BY DEF RoomInv, Seating, PhaseOf, Rotating
<1>2. /\ Members(s) = Members(r) /\ s.drawn = r.drawn \cup {Seated(r)} /\ s.turnDrawer = Seated(r)
      /\ Seated(r) \in Members(r) /\ Seated(r) \notin r.drawn /\ Seated(r) \in Players
      BY <1>1, BeginTurnInv, SeatedIs
<1>3. /\ s.players = r.players /\ s.connected = r.connected /\ s.spectators = r.spectators
      /\ s.alive = r.alive /\ s.guessOrder = <<>> /\ s.hasGuessed = {} /\ ~s.pending
      /\ s.state = "PLAYING" /\ s.round = r.round /\ s.drawerIndex = r.drawerIndex
      /\ s.owed = r.owed \ {Seated(r)} /\ s.shrunk = r.shrunk
      BY <1>1 DEF BeginTurn, Room
<1>3a. Cleanups(s) = Cleanups(r) BY <1>1 DEF BeginTurn, Room, Cleanups
<1>4. r.round \in Nat /\ r.drawerIndex \in Nat /\ r.players \in Seq(Players) BY <1>1 DEF Room
<1> HIDE DEF s
<1>5. Guessed(s) = {} BY <1>3 DEF Guessed
<1>6. Books(s) BY <1>3, <1>5 DEF Books
<1>7. Rotated(r, s) BY <1>1, <1>2, <1>3 DEF Rotated
<1>8. Served(r, s) BY <1>3, <1>4 DEF Served
<1>9. Owing(s)
  <2> SUFFICES ASSUME ~r.shrunk PROVE Owing(s) BY <1>3 DEF Owing
  <2>1. r.owed \subseteq Active(r) /\ OwedBeyond(r, r.drawerIndex) BY DEF Owing
  <2>2. Active(s) = Active(r) BY <1>2, <1>3 DEF Active
  <2>3. OwedBeyond(s, s.drawerIndex + 1)
    <3> SUFFICES ASSUME NEW i \in DOMAIN r.players, r.players[i] \in r.owed, r.players[i] # Seated(r)
                 PROVE  i > r.drawerIndex + 1
        BY <1>3 DEF OwedBeyond
    <3>1. i > r.drawerIndex BY <2>1 DEF OwedBeyond
    <3>2. i # r.drawerIndex + 1 BY DEF Seated
    <3> QED BY <1>4, <3>1, <3>2
  <2> QED BY <1>3, <2>1, <2>2, <2>3 DEF Owing
<1> QED BY <1>3, <1>3a, <1>5, <1>6, <1>7, <1>8, <1>9 DEF Booked, s

\* Append at the end of a book.
LEMMA GuessAppended ==
    ASSUME NEW g \in Seq(Players), NEW p \in Players, NEW h, h = Append(g, p)
    PROVE  /\ h \in Seq(Players)
           /\ {h[i] : i \in DOMAIN h} = {g[i] : i \in DOMAIN g} \cup {p}
           /\ (\A i, j \in DOMAIN g : g[i] = g[j] => i = j) /\ p \notin {g[i] : i \in DOMAIN g}
                => \A i, j \in DOMAIN h : h[i] = h[j] => i = j
<1>1. /\ h \in Seq(Players) /\ DOMAIN h = 1..(Len(g) + 1) /\ DOMAIN g = 1..Len(g) /\ Len(g) \in Nat
      /\ \A i \in 1..Len(g) : h[i] = g[i]
      /\ h[Len(g) + 1] = p
      OBVIOUS
<1>2. {h[i] : i \in DOMAIN h} = {g[i] : i \in DOMAIN g} \cup {p}
  <2>1. ASSUME NEW i \in DOMAIN h PROVE h[i] \in {g[j] : j \in DOMAIN g} \cup {p} BY <1>1
  <2>2. ASSUME NEW i \in DOMAIN g PROVE g[i] \in {h[j] : j \in DOMAIN h} BY <1>1
  <2>3. p \in {h[j] : j \in DOMAIN h} BY <1>1
  <2> QED BY <2>1, <2>2, <2>3
<1>3. ASSUME \A i, j \in DOMAIN g : g[i] = g[j] => i = j, p \notin {g[i] : i \in DOMAIN g},
             NEW i \in DOMAIN h, NEW j \in DOMAIN h, h[i] = h[j]
      PROVE  i = j
  <2>1. CASE i \in DOMAIN g /\ j \in DOMAIN g BY <1>1, <1>3, <2>1
  <2>2. CASE i = Len(g) + 1 /\ j \in DOMAIN g BY <1>1, <1>3, <2>2
  <2>3. CASE i \in DOMAIN g /\ j = Len(g) + 1 BY <1>1, <1>3, <2>3
  <2>4. CASE i = Len(g) + 1 /\ j = Len(g) + 1 BY <2>4
  <2> QED BY <1>1, <2>1, <2>2, <2>3, <2>4
<1> QED BY <1>1, <1>2, <1>3

\* A right guess is entered once, and may end the turn.
LEMMA GuessBooked ==
    ASSUME NEW r, RoomInv(r), Books(r), Owing(r), NEW p \in Members(r), r.turnDrawer # NoPlayer,
           p # r.turnDrawer, p \notin r.spectators, p \notin r.hasGuessed
    PROVE  LET s == EndTurnIfAllGuessed([r EXCEPT !.hasGuessed = @ \cup {p},
                                                  !.guessOrder = Append(@, p)]) IN
           /\ Booked(r, s) /\ s.players = r.players /\ s.connected = r.connected
           /\ s.alive = r.alive /\ Cleanups(s) = Cleanups(r)
<1> DEFINE t == [r EXCEPT !.hasGuessed = @ \cup {p}, !.guessOrder = Append(@, p)]
           s == EndTurnIfAllGuessed(t)
<1>1. r \in Room /\ p \in Players /\ r.guessOrder \in Seq(Players)
      BY MembersArePlayers DEF RoomInv, Seating, Room
<1>2. Append(r.guessOrder, p) \in Seq(Players) BY <1>1, GuessAppended
<1>3. /\ t \in Room /\ t.guessOrder = Append(r.guessOrder, p) /\ t.hasGuessed = r.hasGuessed \cup {p}
      /\ t.players = r.players /\ t.connected = r.connected /\ t.spectators = r.spectators
      /\ t.owed = r.owed /\ t.shrunk = r.shrunk /\ t.alive = r.alive
      /\ Alike(r, t) /\ Cleanups(t) = Cleanups(r)
      BY <1>1, <1>2 DEF Alike, Room, Cleanups
<1>4. s = IF AllGuessed(t) THEN EndTurn(t) ELSE t BY DEF EndTurnIfAllGuessed
<1> HIDE DEF t
<1>5. RoomInv(t) /\ Members(t) = Members(r) BY <1>3, AlikeInv DEF RoomInv, Seating
<1>6. Guessed(t) = Guessed(r) \cup {p} BY <1>1, <1>3, GuessAppended DEF Guessed
<1>7. /\ \A i, j \in DOMAIN r.guessOrder : r.guessOrder[i] = r.guessOrder[j] => i = j
      /\ r.turnDrawer \notin Guessed(r) /\ Guessed(r) \cap Members(r) = r.hasGuessed
      /\ r.hasGuessed \cap r.spectators = {} /\ p \notin Guessed(r)
      BY DEF Books
<1>8. Books(t)
  <2>1. \A i, j \in DOMAIN t.guessOrder : t.guessOrder[i] = t.guessOrder[j] => i = j
        BY <1>1, <1>3, <1>7, GuessAppended DEF Guessed
  <2>2. t.turnDrawer = r.turnDrawer BY <1>3 DEF Alike
  <2> QED BY <1>3, <1>5, <1>6, <1>7, <2>1, <2>2 DEF Books
<1>9. Owing(t)
  <2>1. Active(t) = Active(r) BY <1>3, <1>5 DEF Active
  <2>2. /\ t.pending = r.pending /\ t.turnDrawer = r.turnDrawer /\ t.drawerIndex = r.drawerIndex
        BY <1>3 DEF Alike
  <2> QED BY <1>3, <2>1, <2>2 DEF Owing, OwedBeyond
<1>10. t.turnDrawer # NoPlayer BY <1>3 DEF Alike
<1>11. Booked(t, s) /\ Frame(t, s)
       BY <1>3, <1>4, <1>5, <1>8, <1>9, <1>10, EndTurnBooked, SelfBooked
<1> HIDE DEF s
<1>12. Booked(r, s)
  <2>1. r.owed \cap s.connected \subseteq t.owed BY <1>3
  <2>2. Guessed(t) \subseteq Guessed(r) \cup Members(r) BY <1>6
  <2>3. /\ t.state = r.state /\ t.round = r.round /\ t.turnDrawer = r.turnDrawer /\ t.drawn = r.drawn
        BY <1>3 DEF Alike
  <2> QED BY <1>3, <1>5, <1>11, <2>1, <2>2, <2>3, BookedBefore
<1>13. Cleanups(s) = Cleanups(t) BY <1>11 DEF Frame, Cleanups
<1> QED BY <1>3, <1>11, <1>12, <1>13 DEF Frame, s, t

\* The host or the countdown ends the game: the selection that is pending then
\* stays pending, for the same seat.
LEMMA EndGameBooked ==
    ASSUME NEW r, RoomInv(r), Books(r), Owing(r)
    PROVE  LET s == EndGameImmediately(r) IN
           /\ Booked(r, s) /\ s \in Room /\ s.players = r.players /\ s.connected = r.connected
           /\ s.alive = r.alive /\ Cleanups(s) = Cleanups(r)
<1> DEFINE s == EndGameImmediately(r)
<1>1. r \in Room BY DEF RoomInv, Seating
<1>2. s \in Room BY EndGameImmediatelyInv DEF RoomInv, Seating
<1>3. /\ s.players = r.players /\ s.connected = r.connected /\ s.spectators = r.spectators
      /\ s.turnDrawer = NoPlayer /\ s.guessOrder = <<>> /\ s.state = "GAME_OVER"
      /\ s.round = r.round /\ s.drawn = r.drawn /\ s.owed = r.owed /\ s.shrunk = r.shrunk
      /\ s.pending = r.pending /\ s.drawerIndex = r.drawerIndex /\ s.alive = r.alive
      BY <1>1 DEF EndGameImmediately, Room
<1>3a. Cleanups(s) = Cleanups(r) BY <1>1 DEF EndGameImmediately, Room, Cleanups
<1> HIDE DEF s
<1>4. Guessed(s) = {} /\ Active(s) = Active(r) /\ r.round \in Nat
      BY <1>1, <1>3 DEF Guessed, Active, Members, Room
<1>5. Books(s) BY <1>3 DEF Books
<1>6. Owing(s) BY <1>3, <1>4 DEF Owing, OwedBeyond
<1>7. Rotated(r, s) BY <1>3 DEF Rotated
<1>8. Served(r, s) BY <1>3, <1>4 DEF Served
<1> QED BY <1>2, <1>3, <1>3a, <1>4, <1>5, <1>6, <1>7, <1>8 DEF Booked, s
-----------------------------------------------------------------------------
(* The actions and the books.                                              *)

\* A step keeps presence true.
Present == PresenceIsTrue => PresenceIsTrue'

\* Nobody who stays loses its connection, and who comes is connected.
Stays(r, s) ==
    /\ s.alive => r.alive
    /\ Members(s) \cap r.connected \subseteq s.connected
    /\ Members(s) \ Members(r) \subseteq s.connected

Attended == Present /\ Stays(room, room')

\* A step that touches neither the list, nor who is connected, nor a socket,
\* nor a cleanup.
LEMMA QuietAttended ==
    ASSUME room'.players = room.players, room'.connected = room.connected,
           Cleanups(room') = Cleanups(room), room'.alive => room.alive, sockets' = sockets
    PROVE  Attended
<1>1. Members(room') = Members(room) BY DEF Members
<1> QED BY <1>1 DEF Attended, Present, Stays, PresenceIsTrue

\* A step in which p comes, or its socket count or its cleanups change as the
\* room says.
LEMMA OneAttended ==
    ASSUME InductiveInv, NEW p \in Players, Members(room') \subseteq Members(room) \cup {p},
           room'.connected \ {p} = room.connected \ {p}, room'.alive => room.alive,
           room'.alive => Cleanups(room) \ {p} \subseteq Cleanups(room'),
           NEW n \in 0..MaxSockets, sockets' = [sockets EXCEPT ![p] = n],
           room'.alive /\ p \in Members(room') =>
               IF p \in room'.connected THEN n > 0 ELSE p \in Cleanups(room')
    PROVE  PresenceIsTrue => PresenceIsTrue'
<1>1. /\ sockets \in [Players -> 0..MaxSockets] /\ Members(room) \subseteq Players
      BY MembersArePlayers DEF InductiveInv, RoomInv, Seating
<1> SUFFICES ASSUME PresenceIsTrue, room'.alive, NEW q \in Members(room')
             PROVE  IF q \in room'.connected THEN sockets'[q] > 0 ELSE q \in Cleanups(room')
    BY DEF PresenceIsTrue
<1>2. CASE q = p
  <2>1. sockets'[p] = n BY <1>1
  <2> QED BY <1>2, <2>1
<1>3. CASE q # p
  <2>1. q \in Members(room) /\ q \in Players BY <1>1, <1>3
  <2>2. sockets'[q] = sockets[q] BY <1>1, <1>3, <2>1
  <2>3. q \in room'.connected <=> q \in room.connected BY <1>3
  <2> QED BY <2>1, <2>2, <2>3 DEF PresenceIsTrue
<1> QED BY <1>2, <1>3

\* A step that leaves turn, seat, round, list and flags alone.
LEMMA QuietStep ==
    ASSUME BooksInv, Still(room, room'),
           room'.players = room.players, room'.connected = room.connected,
           room'.spectators = room.spectators, room'.hasGuessed = room.hasGuessed,
           room'.owed = room.owed, room'.shrunk = room.shrunk, Cleanups(room') = Cleanups(room),
           room'.alive => room.alive, sockets' = sockets
    PROVE  Booked(room, room') /\ Attended
<1>1. room \in Room BY DEF BooksInv, InductiveInv, RoomInv, Seating
<1> QED BY <1>1, SameBooked, QuietAttended DEF BooksInv

\* Joins: the id is new, so it is in no book.
LEMMA JoinBooked ==
    ASSUME BooksInv, NEW p \in Players, NEW b \in BOOLEAN, Connect(p), room.alive,
           room' = Added(room, p, b) \/ room' = ResumeIfEnough(Added(room, p, b))
    PROVE  Booked(room, room') /\ Attended
<1> DEFINE r == Added(room, p, b)
<1>1. RoomInv(room) /\ Books(room) /\ Owing(room) BY DEF BooksInv, InductiveInv
<1>2. p \notin Members(room) \cup room.drawn BY DEF BooksInv, InductiveInv, Connect
<1>2a. p \notin Guessed(room) BY DEF BooksInv, Connect
<1>3. /\ Booked(room, r) /\ r \in Room /\ Members(r) = Members(room) \cup {p}
      /\ r.connected = room.connected \cup {p} /\ r.alive = room.alive
      /\ Cleanups(r) = Cleanups(room)
  <2>1. Booked(room, r) BY <1>1, <1>2, <1>2a, AddedBooked
  <2>2. r \in Room /\ Members(r) = Members(room) \cup {p} BY <1>1, <1>2, <1>2a, AddedBooked
  <2>3. r.connected = room.connected \cup {p} BY <1>1, <1>2, <1>2a, AddedBooked
  <2>4. r.alive = room.alive /\ Cleanups(r) = Cleanups(room) BY <1>1, <1>2, <1>2a, AddedBooked
  <2> QED BY <2>1, <2>2, <2>3, <2>4
<1>4. room' = r \/ room' = ResumeIfEnough(r) OBVIOUS
<1> HIDE DEF r
<1>5. /\ Still(r, room') /\ room'.players = r.players /\ room'.connected = r.connected
      /\ room'.spectators = r.spectators /\ room'.hasGuessed = r.hasGuessed
      /\ room'.owed = r.owed /\ room'.shrunk = r.shrunk /\ room'.alive = r.alive
      /\ Cleanups(room') = Cleanups(r)
  <2>1. CASE room' = r BY <1>3, <2>1 DEF Still
  <2>2. CASE room' = ResumeIfEnough(r)
    <3>1. room' = [r EXCEPT !.countdown = @ /\ Cardinality(r.connected) < 2]
          BY <2>2 DEF ResumeIfEnough
    <3> QED BY <1>3, <3>1 DEF Still, Room, Cleanups
  <2> QED BY <1>4, <2>1, <2>2
<1>6. Booked(room, room') BY <1>3, <1>5, BookedAfter
<1>7. Members(room') = Members(room) \cup {p} BY <1>3, <1>5 DEF Members
<1>8. sockets' = [sockets EXCEPT ![p] = 1] /\ 1 \in 0..MaxSockets
      BY ConfigAssumption DEF Connect
<1>9. PresenceIsTrue => PresenceIsTrue'
  <2>1. room'.connected \ {p} = room.connected \ {p} /\ p \in room'.connected BY <1>3, <1>5
  <2>2. InductiveInv BY DEF BooksInv
  <2>3. Members(room') \subseteq Members(room) \cup {p} /\ (room'.alive => room.alive) BY <1>7
  <2>4. p \in Members(room') => IF p \in room'.connected THEN 1 > 0 ELSE p \in Cleanups(room')
        BY <2>1
  <2>5. Cleanups(room) \ {p} \subseteq Cleanups(room') BY <1>3, <1>5
  <2> QED BY <1>8, <2>1, <2>2, <2>3, <2>4, <2>5, OneAttended
<1>10. Stays(room, room')
  <2>1. room'.connected = room.connected \cup {p} /\ (room'.alive => room.alive) BY <1>3, <1>5
  <2> QED BY <1>7, <2>1 DEF Stays
<1> QED BY <1>6, <1>9, <1>10 DEF Attended, Present

\* Word selection, by the drawer or by the server.
LEMMA BeginBooked ==
    ASSUME BooksInv, HasSeat(room), room.pending, room' = BeginTurn(room),
           UNCHANGED <<sockets, issued>>
    PROVE  Booked(room, room') /\ Attended
<1>1. RoomInv(room) /\ Books(room) /\ Owing(room) BY DEF BooksInv, InductiveInv
<1>2. Booked(room, room') BY <1>1, BeginTurnBooked
<1>3. room'.players = room.players /\ room'.connected = room.connected BY <1>1, BeginTurnBooked
<1>4. room'.alive = room.alive /\ Cleanups(room') = Cleanups(room) BY <1>1, BeginTurnBooked
<1> QED BY <1>2, <1>3, <1>4, QuietAttended

\* start_game owes everybody who is active a turn, from the first one on.
LEMMA StartGameBooked ==
    ASSUME BooksInv, NEW p \in Players, StartGame(p)
    PROVE  Booked(room, room') /\ Attended
<1> DEFINE seat == IF Active(room) # {} THEN FirstSeat(room, Active(room)) - 1
                                        ELSE room.drawerIndex
           r == [room EXCEPT !.round = 1, !.drawerIndex = seat, !.drawn = {},
                             !.owed = Active(room), !.shrunk = FALSE]
<1>1. /\ RoomInv(room) /\ Books(room) /\ Owing(room) /\ room \in Room
      /\ room.players \in Seq(Players) /\ room.state = "LOBBY" /\ room.turnDrawer = NoPlayer
  <2>1. RoomInv(room) /\ Books(room) /\ Owing(room) BY DEF BooksInv, InductiveInv
  <2>2. room \in Room /\ room.state = "LOBBY" BY <2>1 DEF RoomInv, Seating, StartGame
  <2> QED BY <2>1, <2>2 DEF RoomInv, PhaseOf, Room
<1>2. Active(room) \subseteq Players BY <1>1, MembersArePlayers DEF Active
<1>3. /\ seat \in Nat /\ seat < Len(room.players)
      /\ \A i \in DOMAIN room.players : room.players[i] \in Active(room) => i > seat
  <2>1. CASE Active(room) # {}
    <3> DEFINE f == FirstSeat(room, Active(room))
    <3>1. Members(room) \cap Active(room) # {} BY <2>1 DEF Active
    <3>2. f \in DOMAIN room.players BY <1>1, <3>1, FirstSeatIs
    <3>3. \A j \in DOMAIN room.players : room.players[j] \in Active(room) => f <= j
          BY <1>1, <3>1, FirstSeatLeast
    <3>4. seat = f - 1 BY <2>1
    <3> HIDE DEF f, seat
    <3> QED BY <1>1, <3>2, <3>3, <3>4
  <2>2. CASE Active(room) = {}
    <3>1. room.drawerIndex = 0 BY <1>1 DEF RoomInv, Rotating
    <3>2. p \in Members(room) BY DEF StartGame, FromHost, Bound
    <3>3. Len(room.players) > 0 BY <1>1, <3>2 DEF Members
    <3> QED BY <2>2, <3>1, <3>3
  <2> QED BY <2>1, <2>2
<1>4. room' = StartTurn(r) /\ UNCHANGED <<sockets, issued>> BY DEF StartGame
<1> HIDE DEF seat
<1>5. /\ r \in Room /\ r.players = room.players /\ r.connected = room.connected
      /\ r.spectators = room.spectators /\ r.drawn = {} /\ r.owed = Active(room) /\ ~r.shrunk
      /\ r.turnDrawer = NoPlayer /\ r.round = 1 /\ r.drawerIndex = seat
      /\ r.guessOrder = room.guessOrder
      BY <1>1, <1>2, <1>3 DEF Room
<1>6. r.alive = room.alive /\ Cleanups(r) = Cleanups(room) BY <1>1 DEF Room, Cleanups
<1> HIDE DEF r
<1>7. HasSeat(r) BY <1>3, <1>5 DEF HasSeat
<1>8. /\ Frame(r, room') /\ room'.turnDrawer = NoPlayer /\ room'.guessOrder = room.guessOrder
      /\ room'.round = 1 /\ room'.drawn = {} /\ room'.owed = Active(room) /\ ~room'.shrunk
      /\ room'.state = "WORD_SELECTION" /\ room'.drawerIndex = seat
      BY <1>4, <1>5, <1>7, StartTurnFrame
<1>9. room'.players = room.players /\ room'.connected = room.connected
      BY <1>5, <1>8 DEF Frame
<1>10. Active(room') = Active(room) BY <1>5, <1>8 DEF Active, Members, Frame
<1>11. Books(room') BY <1>8 DEF Books
<1>12. Owing(room') BY <1>3, <1>8, <1>9, <1>10 DEF Owing, OwedBeyond
<1>13. Rotated(room, room') BY <1>1, <1>8 DEF Rotated
<1>14. Served(room, room') BY <1>1 DEF Served, InGame
<1>15. Guessed(room') = Guessed(room) BY <1>8 DEF Guessed
<1>16. Booked(room, room') BY <1>11, <1>12, <1>13, <1>14, <1>15 DEF Booked
<1>17. room'.alive = room.alive /\ Cleanups(room') = Cleanups(room)
       BY <1>6, <1>8 DEF Frame, Cleanups
<1> QED BY <1>4, <1>9, <1>16, <1>17, QuietAttended

\* handle_rematch resets the books.
LEMMA RematchBooked ==
    ASSUME BooksInv, NEW p \in Players, HandleRematch(p)
    PROVE  Booked(room, room') /\ Attended
<1>1. RoomInv(room) /\ room \in Room /\ room.state = "GAME_OVER"
      BY DEF BooksInv, InductiveInv, RoomInv, Seating, HandleRematch
<1>2. room.turnDrawer = NoPlayer BY <1>1 DEF RoomInv, PhaseOf
<1>3. /\ room'.players = room.players /\ room'.connected = room.connected
      /\ room'.turnDrawer = NoPlayer /\ room'.guessOrder = <<>> /\ room'.owed = {}
      /\ room'.state = "LOBBY" /\ room'.round = 0 /\ room'.drawn = {}
      /\ sockets' = sockets
      BY <1>1 DEF HandleRematch, Room
<1>4. room'.alive = room.alive /\ Cleanups(room') = Cleanups(room)
      BY <1>1 DEF HandleRematch, Room, Cleanups
<1>5. Guessed(room') = {} BY <1>3 DEF Guessed
<1>6. Books(room') /\ Owing(room') BY <1>3 DEF Books, Owing, OwedBeyond
<1>7. Rotated(room, room') BY <1>1, <1>2, <1>3 DEF Rotated
<1>8. Served(room, room') BY <1>1 DEF Served, InGame
<1> QED BY <1>3, <1>4, <1>5, <1>6, <1>7, <1>8, QuietAttended DEF Booked

\* The host lets a spectator play: it has guessed nothing.
LEMMA RoleBooked ==
    ASSUME BooksInv, NEW h \in Players, NEW p \in Players, RespondSpectatorRoleRequest(h, p)
    PROVE  Booked(room, room') /\ Attended
<1>1. Books(room) /\ Owing(room) /\ room \in Room
      BY DEF BooksInv, InductiveInv, RoomInv, Seating
<1>2. p \in room.spectators BY DEF RespondSpectatorRoleRequest
<1>3. /\ Still(room, room') /\ room'.players = room.players /\ room'.connected = room.connected
      /\ room'.spectators = room.spectators \ {p} /\ room'.hasGuessed = room.hasGuessed \ {p}
      /\ room'.owed = room.owed /\ room'.shrunk = room.shrunk /\ sockets' = sockets
      BY <1>1 DEF RespondSpectatorRoleRequest, Still, Room
<1>4. room'.alive = room.alive /\ Cleanups(room') = Cleanups(room)
      BY <1>1 DEF RespondSpectatorRoleRequest, Room, Cleanups
<1>5. Members(room') = Members(room) BY <1>3 DEF Members
<1>6. room.turnDrawer # NoPlayer => room'.hasGuessed = room.hasGuessed \cap Members(room')
      BY <1>1, <1>2, <1>3, <1>5 DEF Books
<1>7. /\ room.turnDrawer # NoPlayer => {} \cap Guessed(room) = {}
      /\ Members(room') \subseteq Members(room) \cup {}
      /\ room'.spectators \subseteq room.spectators \cup {}
      BY <1>3, <1>5
<1>8. /\ room'.shrunk = room.shrunk /\ room'.owed \subseteq room.owed
      /\ ~room.shrunk => room'.owed \subseteq Active(room')
      /\ \A i \in DOMAIN room'.players : room'.players[i] \in room'.owed =>
            i \in DOMAIN room.players /\ room.players[i] = room'.players[i]
      BY <1>1, <1>3, <1>5 DEF Owing, Active
<1>9. Booked(room, room') BY <1>1, <1>3, <1>6, <1>7, <1>8, StillBooked
<1> QED BY <1>3, <1>4, <1>9, QuietAttended

\* A player is removed and its connections with it.
LEMMA GoneAttended ==
    ASSUME InductiveInv, NEW p \in Players, Members(room') = Members(room) \ {p},
           room'.connected = room.connected \ {p}, room'.alive => room.alive,
           Cleanups(room') = Cleanups(room) \ {p}, sockets' = [sockets EXCEPT ![p] = 0]
    PROVE  Attended
<1>1. 0 \in 0..MaxSockets BY ConfigAssumption
<1>2. /\ Members(room') \subseteq Members(room) \cup {p} /\ p \notin Members(room')
      /\ room'.connected \ {p} = room.connected \ {p}
      OBVIOUS
<1>3. PresenceIsTrue => PresenceIsTrue' BY <1>1, <1>2, OneAttended
<1>4. Present BY <1>3 DEF Present
<1>5. Stays(room, room') BY DEF Stays
<1> QED BY <1>4, <1>5 DEF Attended

\* kick_player and leave_room.
LEMMA LobbyRemovalBooked ==
    ASSUME BooksInv, NEW p \in Members(room), NEW h \in Players,
           room' \in {Removed(room, p), [Removed(room, p) EXCEPT !.host = h], Deleted(Removed(room, p))},
           sockets' = [sockets EXCEPT ![p] = 0]
    PROVE  Booked(room, room') /\ Attended
<1>1. RoomInv(room) /\ Books(room) /\ Owing(room) /\ InductiveInv BY DEF BooksInv, InductiveInv
<1>2. p \in Players BY <1>1, MembersArePlayers DEF RoomInv, Seating
<1>3. Booked(room, room') BY <1>1, RemovalBooked
<1>4. Members(room') = Members(room) \ {p} /\ room'.connected = room.connected \ {p}
      BY <1>1, RemovalBooked
<1>5. (room'.alive => room.alive) /\ Cleanups(room') = Cleanups(room) \ {p}
      BY <1>1, RemovalBooked
<1>6. Attended BY <1>1, <1>2, <1>4, <1>5, GoneAttended
<1> QED BY <1>3, <1>6

\* Messages from clients.
LEMMA ClientsBooked ==
    ASSUME BooksInv, Clients
    PROVE  Booked(room, room') /\ Attended
<1>1. /\ RoomInv(room) /\ Books(room) /\ Owing(room) /\ room \in Room
      BY DEF BooksInv, InductiveInv, RoomInv, Seating
<1>2. ASSUME NEW p \in Players, NEW b \in BOOLEAN, JoinRoom(p, b)
      PROVE  Booked(room, room') /\ Attended
      BY <1>2, JoinBooked DEF JoinRoom
<1>3. ASSUME NEW h \in Players, NEW p \in Players, NEW b \in BOOLEAN,
             RespondJoinRequest(h, p, b)
      PROVE  Booked(room, room') /\ Attended
      BY <1>3, JoinBooked DEF RespondJoinRequest, FromHost, Bound
<1>4. ASSUME NEW h \in Players, NEW p \in Players, RespondSpectatorRoleRequest(h, p)
      PROVE  Booked(room, room') /\ Attended
      BY <1>4, RoleBooked
<1>5. ASSUME NEW p \in Players, StartGame(p)
      PROVE  Booked(room, room') /\ Attended
      BY <1>5, StartGameBooked
<1>6. ASSUME NEW p \in Players, SelectWord(p)
      PROVE  Booked(room, room') /\ Attended
      BY <1>6, BeginBooked DEF SelectWord, MaySelect
<1>7. ASSUME NEW p \in Players, GuessCorrectly(p)
      PROVE  Booked(room, room') /\ Attended
  <2>1. /\ p \in Members(room) /\ room.turnDrawer # NoPlayer /\ p # room.turnDrawer
        /\ p \notin room.spectators /\ p \notin room.hasGuessed
        /\ room' = EndTurnIfAllGuessed([room EXCEPT !.hasGuessed = @ \cup {p},
                                                    !.guessOrder = Append(@, p)])
        /\ sockets' = sockets
        BY <1>7 DEF GuessCorrectly, Bound
  <2>2. Booked(room, room') BY <1>1, <2>1, GuessBooked
  <2>3. room'.players = room.players /\ room'.connected = room.connected
        BY <1>1, <2>1, GuessBooked
  <2>4. room'.alive = room.alive /\ Cleanups(room') = Cleanups(room) BY <1>1, <2>1, GuessBooked
  <2> QED BY <2>1, <2>2, <2>3, <2>4, QuietAttended
<1>8. ASSUME NEW p \in Players, EndGameNow(p)
      PROVE  Booked(room, room') /\ Attended
  <2> DEFINE r == EndGameImmediately(room)
  <2>1. room' = [r EXCEPT !.countdown = FALSE] /\ sockets' = sockets BY <1>8 DEF EndGameNow
  <2>2. Booked(room, r) /\ r \in Room BY <1>1, EndGameBooked
  <2>3. r.players = room.players /\ r.connected = room.connected BY <1>1, EndGameBooked
  <2>4. r.alive = room.alive /\ Cleanups(r) = Cleanups(room) BY <1>1, EndGameBooked
  <2> HIDE DEF r
  <2>5. /\ Still(r, room') /\ room'.players = r.players /\ room'.connected = r.connected
        /\ room'.spectators = r.spectators /\ room'.hasGuessed = r.hasGuessed
        /\ room'.owed = r.owed /\ room'.shrunk = r.shrunk /\ room'.alive = r.alive
        /\ Cleanups(room') = Cleanups(r)
        BY <2>1, <2>2 DEF Still, Room, Cleanups
  <2>6. Booked(room, room') BY <2>2, <2>5, BookedAfter
  <2> QED BY <2>1, <2>3, <2>4, <2>5, <2>6, QuietAttended
<1>9. ASSUME NEW p \in Players, HandleRematch(p)
      PROVE  Booked(room, room') /\ Attended
      BY <1>9, RematchBooked
<1>10. ASSUME NEW p \in Players, NEW q \in Players, TransferHost(p, q)
       PROVE  Booked(room, room') /\ Attended
  <2>1. /\ Still(room, room') /\ room'.players = room.players /\ room'.connected = room.connected
        /\ room'.spectators = room.spectators /\ room'.hasGuessed = room.hasGuessed
        /\ room'.owed = room.owed /\ room'.shrunk = room.shrunk /\ room'.alive = room.alive
        /\ sockets' = sockets /\ Cleanups(room') = Cleanups(room)
        BY <1>1, <1>10 DEF TransferHost, Still, Room, Cleanups
  <2> QED BY <2>1, QuietStep
<1>11. ASSUME NEW p \in Players, NEW q \in Players, KickPlayer(p, q)
       PROVE  Booked(room, room') /\ Attended
       BY <1>11, LobbyRemovalBooked DEF KickPlayer
<1>12. ASSUME NEW p \in Players, LeaveRoom(p)
       PROVE  Booked(room, room') /\ Attended
  <2> DEFINE left == Removed(room, p)
  <2>1. p \in Members(room) /\ sockets' = [sockets EXCEPT ![p] = 0]
        BY <1>12 DEF LeaveRoom, Bound
  <2>2. room' = IF left.players = <<>> THEN Deleted(left)
                ELSE IF room.host = p THEN [left EXCEPT !.host = left.players[1]]
                ELSE left
        BY <1>12 DEF LeaveRoom
  <2>3. room.host \in Players /\ left \in Room BY <1>1, <2>1, RemovedIs DEF Room
  <2>4. left.players # <<>> => left.players[1] \in Players
    <3> HIDE DEF left
    <3>1. left.players \in Seq(Players) BY <2>3 DEF Room
    <3> QED BY <3>1
  <2>5. CASE left.players = <<>> BY <2>1, <2>2, <2>3, <2>5, LobbyRemovalBooked
  <2>6. CASE left.players # <<>> BY <2>1, <2>2, <2>3, <2>4, <2>6, LobbyRemovalBooked
  <2> QED BY <2>5, <2>6
<1> QED BY <1>2, <1>3, <1>4, <1>5, <1>6, <1>7, <1>8, <1>9, <1>10, <1>11, <1>12 DEF Clients

\* Players that come back.
LEMMA ReconnectBooked ==
    ASSUME BooksInv, NEW n \in Names, Reconnect(n)
    PROVE  Booked(room, room') /\ Attended
<1>0. /\ RoomInv(room) /\ Books(room) /\ Owing(room) /\ room \in Room /\ InductiveInv
      /\ sockets \in [Players -> 0..MaxSockets]
      BY DEF BooksInv, InductiveInv, RoomInv, Seating
<1> DEFINE p == ReconnectTarget(room, n)
           away == Named(room, n) \ room.connected
           S == IF away # {} THEN away ELSE Named(room, n)
<1>1. Members(room) \cap S # {} BY DEF Reconnect, Named
<1>2. p \in Members(room) BY <1>0, <1>1, FirstSeatIs DEF ReconnectTarget
<1>3. p \in Players BY <1>0, <1>2, MembersArePlayers
<1>4. /\ sockets[p] < MaxSockets /\ sockets' = [sockets EXCEPT ![p] = sockets[p] + 1]
      /\ room' = HandleReconnect(room, p)
      BY DEF Reconnect
<1> HIDE DEF p
<1>5. Booked(room, room') BY <1>0, <1>2, <1>4, HandleReconnectBooked
<1>6. room'.players = room.players /\ room'.connected = room.connected \cup {p}
      BY <1>0, <1>2, <1>4, HandleReconnectBooked
<1>7. room'.alive = room.alive /\ Cleanups(room) \ {p} \subseteq Cleanups(room')
      BY <1>0, <1>2, <1>4, HandleReconnectBooked
<1>8. PresenceIsTrue => PresenceIsTrue'
  <2> DEFINE k == sockets[p] + 1
  <2>1. k \in 0..MaxSockets /\ k > 0 BY <1>0, <1>3, <1>4, ConfigAssumption
  <2>2. Members(room') \subseteq Members(room) \cup {p} BY <1>6 DEF Members
  <2>3. room'.connected \ {p} = room.connected \ {p} /\ p \in room'.connected BY <1>6
  <2>4. sockets' = [sockets EXCEPT ![p] = k] BY <1>4
  <2> HIDE DEF k
  <2>5. p \in Members(room') => IF p \in room'.connected THEN k > 0 ELSE p \in Cleanups(room')
        BY <2>1, <2>3
  <2> QED BY <1>0, <1>3, <1>7, <2>1, <2>2, <2>3, <2>4, <2>5, OneAttended
<1>9. Stays(room, room')
  <2>1. Members(room') = Members(room) BY <1>6 DEF Members
  <2> QED BY <1>6, <1>7, <2>1 DEF Stays
<1> QED BY <1>5, <1>8, <1>9 DEF Attended, Present

\* Connections that close and players that come back.
LEMMA NetworkBooked ==
    ASSUME BooksInv, Network
    PROVE  Booked(room, room') /\ Present
<1>1. /\ RoomInv(room) /\ Books(room) /\ Owing(room) /\ room \in Room /\ InductiveInv
      /\ sockets \in [Players -> 0..MaxSockets]
      BY DEF BooksInv, InductiveInv, RoomInv, Seating
<1>2. ASSUME NEW p \in Players, ConnectionClosed(p)
      PROVE  Booked(room, room') /\ Present
  <2>1. /\ p \in Members(room) /\ sockets[p] > 0 /\ room' = HandleDisconnect(room, p)
        /\ sockets' = [sockets EXCEPT ![p] = sockets[p] - 1]
        BY <1>2 DEF ConnectionClosed, Bound
  <2>2. Booked(room, room') BY <1>1, <2>1, HandleDisconnectBooked
  <2>3. room'.players = room.players /\ room'.connected = room.connected \ {p}
        BY <1>1, <2>1, HandleDisconnectBooked
  <2>4. room'.alive => room.alive /\ Cleanups(room') = Cleanups(room) \cup {p}
        BY <1>1, <2>1, HandleDisconnectBooked
  <2>5. PresenceIsTrue => PresenceIsTrue'
    <3> DEFINE k == sockets[p] - 1
    <3>1. p \in Players /\ k \in 0..MaxSockets BY <1>1, <1>2, <2>1, ConfigAssumption
    <3>2. sockets' = [sockets EXCEPT ![p] = k] BY <2>1
    <3> HIDE DEF k
    <3>3. Members(room') \subseteq Members(room) \cup {p} BY <2>3 DEF Members
    <3>4. room'.connected \ {p} = room.connected \ {p} /\ p \notin room'.connected BY <2>3
    <3>5. /\ room'.alive => Cleanups(room) \ {p} \subseteq Cleanups(room')
          /\ room'.alive /\ p \in Members(room') =>
                IF p \in room'.connected THEN k > 0 ELSE p \in Cleanups(room')
          BY <2>4, <3>4
    <3> QED BY <1>1, <2>4, <3>1, <3>2, <3>3, <3>4, <3>5, OneAttended
  <2> QED BY <2>2, <2>5 DEF Present
<1>3. ASSUME NEW n \in Names, Reconnect(n)
      PROVE  Booked(room, room') /\ Present
      BY <1>3, ReconnectBooked DEF Attended
<1> QED BY <1>2, <1>3 DEF Network

\* Tasks that fire.
LEMMA TasksBooked ==
    ASSUME BooksInv, Tasks
    PROVE  Booked(room, room') /\ Attended
<1>1. /\ RoomInv(room) /\ Books(room) /\ Owing(room) /\ room \in Room /\ InductiveInv
      /\ Cleanups(room) \subseteq Members(room)
      BY DEF BooksInv, InductiveInv, RoomInv, Seating
<1>2. CASE AutoSelectFires
  <2>1. CASE room.state = "WORD_SELECTION" /\ MaySelect(room, room.autoSelect)
        BY <1>2, <2>1, BeginBooked DEF AutoSelectFires, MaySelect
  <2>2. CASE ~ (room.state = "WORD_SELECTION" /\ MaySelect(room, room.autoSelect))
    <3>1. room' = [room EXCEPT !.autoSelect = NoPlayer] /\ sockets' = sockets
          BY <1>2, <2>2 DEF AutoSelectFires
    <3>2. /\ Still(room, room') /\ room'.players = room.players /\ room'.connected = room.connected
          /\ room'.spectators = room.spectators /\ room'.hasGuessed = room.hasGuessed
          /\ room'.owed = room.owed /\ room'.shrunk = room.shrunk /\ room'.alive = room.alive
          /\ Cleanups(room') = Cleanups(room)
          BY <1>1, <3>1 DEF Still, Room, Cleanups
    <3> QED BY <3>1, <3>2, QuietStep
  <2> QED BY <2>1, <2>2
<1>3. CASE TurnTimerFires
  <2>1. room.turnDrawer # NoPlayer /\ room' = EndTurn(room) /\ sockets' = sockets
        BY <1>3 DEF TurnTimerFires
  <2>2. Booked(room, room') /\ Frame(room, room') BY <1>1, <2>1, EndTurnBooked
  <2>3. Cleanups(room') = Cleanups(room) BY <2>2 DEF Frame, Cleanups
  <2> QED BY <2>1, <2>2, <2>3, QuietAttended DEF Frame
<1>4. CASE CountdownFires
  <2> DEFINE r == [room EXCEPT !.countdown = FALSE]
  <2>1. /\ room' = r \/ room' = EndGameImmediately(r)
        /\ sockets' = sockets
        BY <1>4 DEF CountdownFires
  <2>2. /\ Still(room, r) /\ r.players = room.players /\ r.connected = room.connected
        /\ r.spectators = room.spectators /\ r.hasGuessed = room.hasGuessed
        /\ r.owed = room.owed /\ r.shrunk = room.shrunk /\ r.alive = room.alive
        /\ Alike(room, r) /\ Cleanups(r) = Cleanups(room)
        BY <1>1 DEF Still, Alike, Room, Cleanups
  <2> HIDE DEF r
  <2>3. Booked(room, r) BY <1>1, <2>2, SameBooked
  <2>4. RoomInv(r) /\ Members(r) = Members(room) BY <1>1, <2>2, AlikeInv DEF RoomInv, Seating
  <2>5. CASE room' = r BY <2>1, <2>2, <2>3, <2>5, QuietAttended
  <2>6. CASE room' = EndGameImmediately(r)
    <3>1. Books(r) /\ Owing(r) BY <2>3 DEF Booked
    <3>2. Booked(r, room') BY <2>4, <2>6, <3>1, EndGameBooked
    <3>3. room'.players = r.players /\ room'.connected = r.connected
          BY <2>4, <2>6, <3>1, EndGameBooked
    <3>4. room'.alive = r.alive /\ Cleanups(room') = Cleanups(r)
          BY <2>4, <2>6, <3>1, EndGameBooked
    <3>5. /\ r.state = room.state /\ r.round = room.round /\ r.turnDrawer = room.turnDrawer
          /\ r.drawn = room.drawn /\ Guessed(r) = Guessed(room)
          BY <2>2 DEF Still, Guessed
    <3>6. Booked(room, room') BY <2>2, <2>4, <3>2, <3>5, BookedBefore
    <3> QED BY <2>1, <2>2, <3>3, <3>4, <3>6, QuietAttended
  <2> QED BY <2>1, <2>5, <2>6
<1>5. ASSUME NEW p \in Players, CleanupFires(p)
      PROVE  Booked(room, room') /\ Attended
  <2>1. p \in Members(room) BY <1>1, <1>5 DEF CleanupFires, CleanupsDue, Cleanups
  <2>2. room' = PermanentlyRemove(room, p) /\ sockets' = [sockets EXCEPT ![p] = 0]
        BY <1>5 DEF CleanupFires
  <2>3. Booked(room, room') BY <1>1, <2>1, <2>2, PermanentlyRemoveBooked
  <2>4. Members(room') = Members(room) \ {p} /\ room'.connected = room.connected \ {p}
        BY <1>1, <2>1, <2>2, PermanentlyRemoveBooked
  <2>5. (room'.alive => room.alive) /\ Cleanups(room') = Cleanups(room) \ {p}
        BY <1>1, <2>1, <2>2, PermanentlyRemoveBooked
  <2>6. Attended BY <1>1, <2>2, <2>4, <2>5, GoneAttended
  <2> QED BY <2>3, <2>6
<1>6. ASSUME NEW p \in Players, HostReassignFires(p)
      PROVE  Booked(room, room') /\ Attended
  <2> DEFINE r == [room EXCEPT !.hostTask = @ \ {p}]
  <2>1. room' = ReassignHostIfDisconnected(r, p) /\ sockets' = sockets
        BY <1>6 DEF HostReassignFires
  <2>2. /\ Still(room, r) /\ r.players = room.players /\ r.connected = room.connected
        /\ r.spectators = room.spectators /\ r.hasGuessed = room.hasGuessed
        /\ r.owed = room.owed /\ r.shrunk = room.shrunk /\ r.alive = room.alive
        /\ Cleanups(r) = Cleanups(room)
        BY <1>1 DEF Still, Room, Cleanups
  <2> HIDE DEF r
  <2>3. r \in Room /\ Members(r) = Members(room) BY <2>2 DEF Still, Members
  <2>4. r.connected # {} => NewHost(r) \in Players
    <3>1. r.connected \subseteq Members(r) BY <1>1, <2>2, <2>3 DEF RoomInv, Seating
    <3> QED BY <2>3, <3>1, NewHostIs, MembersArePlayers
  <2>5. \/ room' = r
        \/ r.connected # {} /\ room' = [r EXCEPT !.host = NewHost(r)]
        \/ room' = [r EXCEPT !.alive = FALSE]
        BY <2>1 DEF ReassignHostIfDisconnected, Deleted
  <2>6. /\ Still(r, room') /\ room'.players = r.players /\ room'.connected = r.connected
        /\ room'.spectators = r.spectators /\ room'.hasGuessed = r.hasGuessed
        /\ room'.owed = r.owed /\ room'.shrunk = r.shrunk
        /\ Cleanups(room') = Cleanups(r)
        /\ room'.alive => r.alive
    <3>1. CASE room' = r BY <2>3, <3>1 DEF Still
    <3>2. CASE r.connected # {} /\ room' = [r EXCEPT !.host = NewHost(r)]
          BY <2>3, <2>4, <3>2 DEF Still, Room, Cleanups
    <3>3. CASE room' = [r EXCEPT !.alive = FALSE] BY <2>3, <3>3 DEF Still, Room, Cleanups
    <3> QED BY <2>5, <3>1, <3>2, <3>3
  <2>7. Still(room, room') BY <2>2, <2>6 DEF Still
  <2> QED BY <2>1, <2>2, <2>6, <2>7, QuietStep
<1> QED BY <1>2, <1>3, <1>4, <1>5, <1>6 DEF Tasks

\* Every step keeps the books.
LEMMA BooksStep ==
    ASSUME BooksInv, [Next]_vars
    PROVE  BooksInv' /\ (UNCHANGED vars \/ Booked(room, room')) /\ Present
<1>1. CASE Next
  <2>1. Booked(room, room') /\ Present
        BY <1>1, ClientsBooked, NetworkBooked, TasksBooked DEF Next, Attended
  <2>2. InductiveInv' BY <1>1, InductiveStep DEF BooksInv
  <2>3. issued \subseteq issued'
    <3>1. CASE Clients
      <4>1. ASSUME NEW p \in Players, Connect(p) PROVE issued \subseteq issued' BY <4>1 DEF Connect
      <4> QED BY <3>1, <4>1 DEF Clients, JoinRoom, RespondJoinRequest, RespondSpectatorRoleRequest,
                  StartGame, SelectWord, GuessCorrectly, EndGameNow, HandleRematch, TransferHost,
                  KickPlayer, LeaveRoom
    <3>2. CASE Network BY <3>2 DEF Network, ConnectionClosed, Reconnect
    <3>3. CASE Tasks
          BY <3>3 DEF Tasks, AutoSelectFires, TurnTimerFires, CountdownFires, CleanupFires,
                      HostReassignFires
    <3> QED BY <1>1, <3>1, <3>2, <3>3 DEF Next
  <2>4. Guessed(room') \subseteq issued'
    <3>1. Members(room) \subseteq issued /\ Guessed(room) \subseteq issued
          BY DEF BooksInv, InductiveInv
    <3>2. Guessed(room') \subseteq Guessed(room) \cup Members(room) BY <2>1 DEF Booked
    <3> QED BY <2>3, <3>1, <3>2
  <2>5. BooksInv' BY <2>1, <2>2, <2>4 DEF BooksInv, Booked
  <2> QED BY <2>1, <2>5
<1>2. CASE UNCHANGED vars
  <2>1. room' = room /\ sockets' = sockets /\ issued' = issued BY <1>2 DEF vars
  <2>2. InductiveInv' BY InductiveStep DEF BooksInv
  <2>3. BooksInv' BY <2>1, <2>2 DEF BooksInv
  <2>4. Present BY <2>1, QuietAttended DEF Attended
  <2> QED BY <1>2, <2>3, <2>4
<1> QED BY <1>1, <1>2

\* A new room has empty books, and its creator is connected.
LEMMA InitBooks == Init => BooksInv /\ PresenceIsTrue /\ Rotates!Init
<1> SUFFICES ASSUME Init PROVE BooksInv /\ PresenceIsTrue /\ Rotates!Init OBVIOUS
<1>1. PICK h \in Players :
        /\ room.turnDrawer = NoPlayer /\ room.guessOrder = <<>> /\ room.owed = {}
        /\ room.players = <<h>> /\ room.connected = {h}
        /\ sockets = [p \in Players |-> IF p = h THEN 1 ELSE 0]
        /\ room.state = "LOBBY" /\ room.round = 0 /\ room.drawn = {}
      BY DEF Init
<1>2. Guessed(room) = {} BY <1>1 DEF Guessed
<1>3. Books(room) /\ Owing(room) BY <1>1 DEF Books, Owing, OwedBeyond
<1>4. BooksInv BY <1>2, <1>3, InitInv DEF BooksInv
<1>5. Members(room) = {h} BY <1>1 DEF Members
<1>6. PresenceIsTrue BY <1>1, <1>5 DEF PresenceIsTrue
<1>7. Rotates!Init BY <1>1 DEF Rotates!Init
<1> QED BY <1>4, <1>6, <1>7

\* The books are kept in every reachable state.
THEOREM BooksAreInductive == Spec => []BooksInv
<1>1. Init => BooksInv BY InitBooks
<1>2. BooksInv /\ [Next]_vars => BooksInv' BY BooksStep
<1> QED BY <1>1, <1>2, PTL DEF Spec

\* A list without repetition has as many members as places.
LEMMA CountGuesses ==
    ASSUME NEW g \in Seq(Players), \A i, j \in DOMAIN g : g[i] = g[j] => i = j
    PROVE  Cardinality({g[i] : i \in DOMAIN g}) = Len(g)
<1> DEFINE S == {g[i] : i \in DOMAIN g}
           n == Len(g)
<1>1. n \in Nat /\ DOMAIN g = 1..n OBVIOUS
<1>2. g \in [1..n -> S] OBVIOUS
<1>3. \A t \in S : \E s \in 1..n : g[s] = t BY <1>1
<1> HIDE DEF S, n
<1>4. g \in Bijection(1..n, S)
      BY <1>1, <1>2, <1>3 DEF Bijection, Injection, Surjection, IsInjective
<1>5. ExistsBijection(1..n, S) BY <1>4 DEF ExistsBijection
<1>6. Cardinality(S) = n BY <1>1, <1>5, FS_CountingElements
<1> QED BY <1>6 DEF S, n

\* Each guesser is entered once, the drawer never, and the book agrees with the
\* has_guessed flags, whoever joins, leaves or changes role during the turn.
THEOREM GuessBookAlwaysKept == Spec => []GuessBook
<1>1. ASSUME BooksInv PROVE GuessBook
  <2>1. room.guessOrder \in Seq(Players) /\ Books(room)
        BY <1>1 DEF BooksInv, InductiveInv, RoomInv, Seating, Room
  <2> SUFFICES ASSUME room.turnDrawer # NoPlayer PROVE GuessBook BY DEF GuessBook
  <2>2. /\ \A i, j \in DOMAIN room.guessOrder : room.guessOrder[i] = room.guessOrder[j] => i = j
        /\ room.turnDrawer \notin Guessed(room)
        /\ Guessed(room) \cap Members(room) = room.hasGuessed
        BY <2>1 DEF Books
  <2>3. Cardinality(Guessed(room)) = Len(room.guessOrder) BY <2>1, <2>2, CountGuesses DEF Guessed
  <2> QED BY <2>2, <2>3 DEF GuessBook, Guessed
<1> QED BY <1>1, BooksAreInductive, PTL

\* However many connections a name has at a time, and whichever of them closes
\* first, whom the room counts as connected has one, and whom it counts as gone
\* has a cleanup under way.
THEOREM PresenceAlwaysTrue == Spec => []PresenceIsTrue
<1>1. Init => PresenceIsTrue BY InitBooks
<1>2. BooksInv /\ PresenceIsTrue /\ [Next]_vars => PresenceIsTrue' BY BooksStep DEF Present
<1> QED BY <1>1, <1>2, BooksAreInductive, PTL DEF Spec

\* A round that lost no player ends only when everybody who was there all
\* through it has drawn.
THEOREM EveryoneServed == Spec => RoundServesEveryone
<1>1. BooksInv /\ [Next]_vars =>
        [(InGame(room) /\ room'.round = room.round + 1)
            => \/ room.owed \cap room'.connected = {}
               \/ room.shrunk \/ Members(room) \ Members(room') # {}]_vars
      BY BooksStep DEF Booked, Served
<1> QED BY <1>1, BooksAreInductive, PTL DEF Spec, RoundServesEveryone

\* What happens to the rotation is a step of the abstract one, or none.
LEMMA RotatedIs ==
    ASSUME Rotated(room, room')
    PROVE  [Rotates!Next]_(Rotates!rvars)
<1>1. CASE room'.turnDrawer \in Players \ room.drawn /\ room.turnDrawer = NoPlayer
           /\ room.round <= NumRounds /\ room'.drawn = room.drawn \cup {room'.turnDrawer}
           /\ room'.state = "PLAYING" /\ room'.round = room.round
  <2>1. Rotates!Begin(room'.turnDrawer) BY <1>1 DEF Rotates!Begin
  <2> QED BY <1>1, <2>1 DEF Rotates!Next
<1> QED BY <1>1 DEF Rotated, Rotates!Next, Rotates!rvars, Rotates!Start, Rotates!FinishTurn,
                    Rotates!FinishRound, Rotates!Abort, Rotates!Rematch

\* The room implements the abstract rotation: with a list that players join and
\* leave and an index into it, it does what Rotation says of drawers and rounds.
THEOREM RoomImplementsRotation == Spec => ImplementsRotation
<1>1. Init => Rotates!Init BY InitBooks
<1>2. BooksInv /\ [Next]_vars => [Rotates!Next]_(Rotates!rvars)
  <2> SUFFICES ASSUME BooksInv, [Next]_vars PROVE [Rotates!Next]_(Rotates!rvars) OBVIOUS
  <2>1. CASE UNCHANGED vars BY <2>1 DEF vars, Rotates!rvars
  <2>2. CASE Booked(room, room') BY <2>2, RotatedIs DEF Booked
  <2> QED BY <2>1, <2>2, BooksStep
<1> QED BY <1>1, <1>2, BooksAreInductive, PTL DEF Spec, ImplementsRotation, Rotates!Spec
-----------------------------------------------------------------------------
\* Rooms with ballots.
VoteInv == BooksInv /\ VTypeOK

\* And their open ballots.
LiveInv == VoteInv /\ TargetIsLive

\* What a handler may do to a room on the way: keep its invariant and books,
\* bring in nobody and give the turn to nobody.
Sound(r) == RoomInv(r) /\ Books(r) /\ Owing(r)
Passes(r, s) == Sound(s) /\ Within(r, s) /\ Guessed(s) \subseteq Guessed(r) \cup Members(r)

\* The same, and t has gone.
Loses(r, s, t) ==
    /\ Passes(r, s) /\ Members(s) = Members(r) \ {t} /\ s.connected = r.connected \ {t}
    /\ s.alive = r.alive

\* A game that goes on: too few players are counted down, and no turn is left
\* that everybody has finished guessing.
GoesOn(r) ==
    InGame(r) => IF Cardinality(Active(r)) < 2 THEN r.countdown
                 ELSE r.turnDrawer # NoPlayer => ~AllGuessed(r)
-----------------------------------------------------------------------------
\* Somebody goes who is not the last one connected, and the host is replaced if
\* it is the host who goes.
LEMMA KeptIs ==
    ASSUME NEW r, Sound(r), NEW t \in Members(r), r.connected \ {t} # {}, NEW s,
           s = IF r.host = t /\ Removed(r, t).connected # {}
               THEN [Removed(r, t) EXCEPT !.host = NewHost(Removed(r, t))] ELSE Removed(r, t)
    PROVE  Loses(r, s, t) /\ s.turnDrawer = r.turnDrawer
<1> DEFINE left == Removed(r, t)
<1>1. RoomInv(r) /\ Books(r) /\ Owing(r) BY DEF Sound
<1>2. /\ left \in Room
      /\ \A i, j \in DOMAIN left.players : left.players[i] = left.players[j] => i = j
      /\ Members(left) = Members(r) \ {t}
      /\ left.connected = r.connected \ {t} /\ Cleanups(left) = Cleanups(r) \ {t}
      /\ left.host = r.host /\ left.drawn = r.drawn
      /\ left.turnDrawer = r.turnDrawer
      /\ PhaseOf(left) /\ Rotating(left)
      BY <1>1, RemovedIs
<1>2a. left.alive = r.alive BY <1>1, RemovedIs
<1>3. left.connected \cup Cleanups(left) \subseteq Members(left)
      BY <1>1, <1>2 DEF RoomInv, Seating
<1>4. Booked(r, left) BY <1>1, RemovedBooked
<1>5. s = IF r.host = t THEN [left EXCEPT !.host = NewHost(left)] ELSE left BY <1>2
<1> HIDE DEF left
<1>6. NewHost(left) \in Members(left) /\ NewHost(left) \in Players
  <2>1. NewHost(left) \in left.connected BY <1>2, <1>3, NewHostIs
  <2> QED BY <1>2, <1>3, <2>1, MembersArePlayers
<1>7. /\ s \in Room /\ s.players = left.players /\ s.connected = left.connected
      /\ s.cleanup = left.cleanup /\ s.lostCleanup = left.lostCleanup
      /\ s.alive = left.alive /\ Still(left, s) /\ s.spectators = left.spectators
      /\ s.hasGuessed = left.hasGuessed /\ s.owed = left.owed /\ s.shrunk = left.shrunk
      /\ s.autoSelect = left.autoSelect
  <2>1. CASE r.host = t
    <3> DEFINE h == NewHost(left)
    <3>1. s = [left EXCEPT !.host = h] /\ h \in Players BY <1>5, <1>6, <2>1
    <3> HIDE DEF h
    <3>2. s \in Room BY <1>2, <3>1 DEF Room
    <3>3. s.alive = left.alive BY <1>2, <3>1 DEF Room
    <3>4. Still(left, s) BY <1>2, <3>1, <3>2 DEF Room, Still
    <3> QED BY <1>2, <3>1, <3>2, <3>3, <3>4 DEF Room
  <2>2. CASE r.host # t BY <1>2, <1>5, <2>2 DEF Still
  <2> QED BY <2>1, <2>2
<1>8. s.alive => s.host \in Members(left)
  <2>1. CASE r.host = t
    <3>1. s.host = NewHost(left) BY <1>2, <1>5, <2>1 DEF Room
    <3> QED BY <1>6, <3>1
  <2>2. CASE r.host # t
    <3>1. s = left BY <1>5, <2>2
    <3> QED BY <1>1, <1>2, <1>2a, <2>2, <3>1 DEF RoomInv, Seating
  <2> QED BY <2>1, <2>2
<1>9. Members(s) = Members(left) BY <1>7 DEF Members
<1>10. Seating(s) BY <1>2, <1>3, <1>7, <1>8, <1>9 DEF Seating, Cleanups
<1>11. PhaseOf(s) BY <1>2, <1>7 DEF PhaseOf, Still
<1>12. Rotating(s) BY <1>2, <1>7 DEF Rotating, InGame, DrawnUpTo, Still
<1>13. Booked(r, s) BY <1>2, <1>4, <1>7, BookedAfter
<1>14. s.turnDrawer = r.turnDrawer /\ s.drawn = r.drawn BY <1>2, <1>7 DEF Still
<1>15. Passes(r, s)
       BY <1>2, <1>9, <1>10, <1>11, <1>12, <1>13, <1>14 DEF Passes, Sound, RoomInv, Within, Booked
<1> QED BY <1>2, <1>2a, <1>7, <1>9, <1>14, <1>15 DEF Loses

\* Handlers one after the other.
LEMMA PassesOn ==
    ASSUME NEW r, NEW s, NEW u, Passes(r, s), Passes(s, u), Members(s) \subseteq Members(r)
    PROVE  Passes(r, u)
BY DEF Passes, Within

\* end_turn, with nothing left to go on with.
LEMMA EndTurnGoesOn ==
    ASSUME NEW r, Sound(r), r.turnDrawer # NoPlayer
    PROVE  LET s == EndTurn(r) IN
           /\ Passes(r, s) /\ Frame(r, s) /\ GoesOn(s) /\ s.turnDrawer = NoPlayer
<1> DEFINE s == EndTurn(r)
<1>1. RoomInv(r) /\ Books(r) /\ Owing(r) BY DEF Sound
<1>2. Booked(r, s) /\ Frame(r, s) BY <1>1, EndTurnBooked
<1>3. RoomInv(s) /\ Within(r, s) BY <1>1, EndTurnInv
<1>4. r \in Room /\ r.round <= NumRounds BY <1>1 DEF RoomInv, Seating, PhaseOf, Rotating, InGame
<1>5. s.turnDrawer = NoPlayer /\ (Cardinality(Active(r)) < 2 => s.countdown)
      BY <1>4, EndTurnIs
<1> HIDE DEF s
<1>6. Active(s) = Active(r) BY <1>2 DEF Frame, Active, Members
<1>7. Passes(r, s) BY <1>2, <1>3 DEF Passes, Sound, Booked
<1>8. GoesOn(s) BY <1>5, <1>6 DEF GoesOn
<1> QED BY <1>2, <1>5, <1>7, <1>8 DEF s

\* The countdown.
LEMMA CountdownGoesOn ==
    ASSUME NEW r, Sound(r)
    PROVE  LET s == StartCountdown(r) IN
           /\ Passes(r, s) /\ Frame(r, s) /\ s.turnDrawer = r.turnDrawer
           /\ Cardinality(Active(r)) < 2 => GoesOn(s)
<1> DEFINE s == StartCountdown(r)
<1>1. RoomInv(r) /\ Books(r) /\ Owing(r) /\ r \in Room BY DEF Sound, RoomInv, Seating
<1>2. Booked(r, s) /\ Frame(r, s) BY <1>1, StartCountdownBooked
<1>3. RoomInv(s) /\ Within(r, s) BY <1>1, StartCountdownInv
<1>4. s.countdown /\ s.turnDrawer = r.turnDrawer BY <1>1, StartCountdownFrame
<1> HIDE DEF s
<1>5. Active(s) = Active(r) BY <1>2 DEF Frame, Active, Members
<1>6. Passes(r, s) BY <1>2, <1>3 DEF Passes, Sound, Booked
<1> QED BY <1>2, <1>4, <1>5, <1>6 DEF s, GoesOn

\* Nothing at all.
LEMMA SelfPasses ==
    ASSUME NEW r, Sound(r)
    PROVE  Passes(r, r) /\ Frame(r, r)
BY DEF Passes, Within, Sound, Frame, RoomInv, Seating

\* end_turn if everybody has guessed, with enough players to go on.
LEMMA AskGoesOn ==
    ASSUME NEW r, Sound(r), r.turnDrawer # NoPlayer, ~(Cardinality(Active(r)) < 2)
    PROVE  LET s == EndTurnIfAllGuessed(r) IN
           Passes(r, s) /\ Frame(r, s) /\ GoesOn(s)
<1>1. CASE AllGuessed(r) BY <1>1, EndTurnGoesOn DEF EndTurnIfAllGuessed
<1>2. CASE ~AllGuessed(r)
  <2>1. GoesOn(r) BY <1>2 DEF GoesOn
  <2> QED BY <1>2, <2>1, SelfPasses DEF EndTurnIfAllGuessed
<1> QED BY <1>1, <1>2

\* The kick leaves a game that goes on.
LEMMA KickPassedIs ==
    ASSUME NEW r, Sound(r), NEW t \in Members(r), r.connected \ {t} # {}
    PROVE  LET s == KickPassed(r, t) IN
           Loses(r, s, t) /\ GoesOn(s)
<1> DEFINE left  == Removed(r, t)
           kept  == IF r.host = t /\ left.connected # {}
                    THEN [left EXCEPT !.host = NewHost(left)] ELSE left
           ended == IF r.turnDrawer = t THEN EndTurn(kept) ELSE kept
           s == KickPassed(r, t)
<1>2. s = IF ~InGame(ended) THEN ended
          ELSE IF Cardinality(Active(ended)) < 2 THEN StartCountdown(ended)
          ELSE IF r.turnDrawer # t /\ ended.turnDrawer # NoPlayer /\ ended.state = "PLAYING"
               THEN EndTurnIfAllGuessed(ended)
               ELSE ended
      BY DEF KickPassed
<1>0. kept = IF r.host = t /\ Removed(r, t).connected # {}
             THEN [Removed(r, t) EXCEPT !.host = NewHost(Removed(r, t))] ELSE Removed(r, t)
      OBVIOUS
<1>1. /\ Passes(r, kept) /\ Members(kept) = Members(r) \ {t} /\ kept.connected = r.connected \ {t}
      /\ kept.turnDrawer = r.turnDrawer /\ kept.alive = r.alive
  <2> HIDE DEF kept
  <2>1. Loses(r, kept, t) BY <1>0, KeptIs
  <2>2. kept.turnDrawer = r.turnDrawer BY <1>0, KeptIs
  <2> QED BY <2>1, <2>2 DEF Loses
<1>3. t # NoPlayer BY MembersArePlayers, NoPlayerAssumption DEF Sound, RoomInv, Seating
<1> HIDE DEF left, s
<1>4. /\ Passes(kept, ended) /\ Frame(kept, ended)
      /\ r.turnDrawer = t => GoesOn(ended)
      /\ r.turnDrawer # t => ended = kept
  <2> HIDE DEF kept
  <2>1. Sound(kept) BY <1>1 DEF Passes
  <2>2. CASE r.turnDrawer = t
    <3>1. ended = EndTurn(kept) /\ kept.turnDrawer # NoPlayer BY <1>1, <1>3, <2>2
    <3>2. Passes(kept, ended) /\ Frame(kept, ended) /\ GoesOn(ended)
          BY <2>1, <3>1, EndTurnGoesOn
    <3> QED BY <2>2, <3>2
  <2>3. CASE r.turnDrawer # t BY <2>1, <2>3, SelfPasses
  <2> QED BY <2>2, <2>3
<1> HIDE DEF kept, ended
<1>5. Sound(ended) BY <1>4 DEF Passes
<1>6. Passes(ended, s) /\ Frame(ended, s) /\ GoesOn(s)
  <2>1. CASE ~InGame(ended)
    <3>1. s = ended BY <1>2, <2>1
    <3> QED BY <1>5, <2>1, <3>1, SelfPasses DEF GoesOn
  <2>2. CASE InGame(ended) /\ Cardinality(Active(ended)) < 2
    <3>1. s = StartCountdown(ended) BY <1>2, <2>2
    <3> QED BY <1>5, <2>2, <3>1, CountdownGoesOn
  <2>3. CASE InGame(ended) /\ ~(Cardinality(Active(ended)) < 2)
    <3>1. CASE r.turnDrawer # t /\ ended.turnDrawer # NoPlayer /\ ended.state = "PLAYING"
      <4>1. s = EndTurnIfAllGuessed(ended) BY <1>2, <2>3, <3>1
      <4> QED BY <1>5, <2>3, <3>1, <4>1, AskGoesOn
    <3>2. CASE ~(r.turnDrawer # t /\ ended.turnDrawer # NoPlayer /\ ended.state = "PLAYING")
      <4>1. s = ended BY <1>2, <2>3, <3>2
      <4>2. GoesOn(ended)
        <5>1. CASE r.turnDrawer = t BY <1>4, <5>1
        <5>2. CASE r.turnDrawer # t
          <6>1. ended.turnDrawer = NoPlayer BY <1>5, <3>2, <5>2 DEF Sound, RoomInv, PhaseOf
          <6> QED BY <2>3, <6>1 DEF GoesOn
        <5> QED BY <5>1, <5>2
      <4> QED BY <1>5, <4>1, <4>2, SelfPasses
    <3> QED BY <3>1, <3>2
  <2> QED BY <2>1, <2>2, <2>3
<1>7. Members(ended) = Members(kept) /\ Members(s) = Members(ended)
      BY <1>4, <1>6 DEF Frame, Members
<1>8. Passes(r, ended) BY <1>1, <1>4, PassesOn
<1>9. Passes(r, s) BY <1>1, <1>6, <1>7, <1>8, PassesOn
<1>10. s.connected = r.connected \ {t} BY <1>1, <1>4, <1>6 DEF Frame
<1>11. s.alive = r.alive BY <1>1, <1>4, <1>6 DEF Frame
<1>12. GoesOn(s) BY <1>6
<1> QED BY <1>1, <1>7, <1>9, <1>10, <1>11, <1>12 DEF s, Loses

\* handle_disconnect leaves a game that goes on.
LEMMA AfterDisconnectGoesOn ==
    ASSUME NEW r, Sound(r), NEW p \in Players
    PROVE  GoesOn(AfterDisconnect(r, p))
<1>1. CASE ~InGame(r) BY <1>1 DEF AfterDisconnect, GoesOn
<1>2. CASE InGame(r) /\ r.turnDrawer = p
  <2>1. r.turnDrawer # NoPlayer BY <1>2, NoPlayerAssumption
  <2>2. AfterDisconnect(r, p) = EndTurn(r) BY <1>2 DEF AfterDisconnect
  <2> QED BY <2>1, <2>2, EndTurnGoesOn
<1>3. CASE InGame(r) /\ r.turnDrawer # p /\ Cardinality(Active(r)) < 2
  <2>1. AfterDisconnect(r, p) = StartCountdown(r) BY <1>3 DEF AfterDisconnect
  <2> QED BY <1>3, <2>1, CountdownGoesOn
<1>4. CASE InGame(r) /\ r.turnDrawer # p /\ ~(Cardinality(Active(r)) < 2)
  <2>1. CASE r.turnDrawer # NoPlayer /\ r.state = "PLAYING"
    <3>1. AfterDisconnect(r, p) = EndTurnIfAllGuessed(r) BY <1>4, <2>1 DEF AfterDisconnect
    <3> QED BY <1>4, <2>1, <3>1, AskGoesOn
  <2>2. CASE ~(r.turnDrawer # NoPlayer /\ r.state = "PLAYING")
    <3>1. AfterDisconnect(r, p) = r BY <1>4, <2>2 DEF AfterDisconnect
    <3>2. r.turnDrawer = NoPlayer BY <2>2 DEF Sound, RoomInv, PhaseOf
    <3> QED BY <1>4, <3>1, <3>2 DEF GoesOn
  <2> QED BY <2>1, <2>2
<1> QED BY <1>1, <1>2, <1>3, <1>4

\* The rest of handle_disconnect.
LEMMA FinishDisconnectGoesOn ==
    ASSUME NEW d, Sound(d), NEW p \in Members(d)
    PROVE  LET s == FinishDisconnect(d, p) IN
           /\ Passes(d, s) /\ GoesOn(s)
           /\ Members(s) = Members(d) /\ s.connected = d.connected
           /\ s.alive => d.alive
<1> DEFINE t == ScheduleTasks(d, p)
           n == AfterDisconnect(t, p)
           s == FinishDisconnect(d, p)
<1>1. d \in Room /\ RoomInv(d) /\ Books(d) /\ Owing(d) BY DEF Sound, RoomInv, Seating
<1>2. RoomInv(s) /\ Within(d, s) BY <1>1, FinishDisconnectInv
<1>3. Booked(d, s) BY <1>1, FinishDisconnectBooked
<1>4. s.players = d.players /\ s.connected = d.connected BY <1>1, FinishDisconnectBooked
<1>5. s.alive => d.alive BY <1>1, FinishDisconnectBooked
<1>6. Passes(d, s)
  <2> HIDE DEF s
  <2> QED BY <1>2, <1>3 DEF Passes, Sound, Booked
<1>7. p \in Players BY <1>1, MembersArePlayers
<1>8. GoesOn(s)
  <2>1. CASE d.host = p /\ d.connected = {} /\ ~InGame(d)
    <3>1. s = [d EXCEPT !.alive = FALSE] BY <2>1 DEF FinishDisconnect, Deleted
    <3>2. ~InGame(s) BY <1>1, <2>1, <3>1 DEF InGame, Room
    <3> QED BY <3>2 DEF GoesOn
  <2>2. CASE ~(d.host = p /\ d.connected = {} /\ ~InGame(d))
    <3>1. s = IF p \in n.lostCleanup THEN n ELSE [n EXCEPT !.ripe = @ \ {p}]
          BY <2>2 DEF FinishDisconnect
    <3>2. RoomInv(t) BY <1>1, ScheduleTasksInv
    <3>3. /\ Still(d, t) /\ t.players = d.players /\ t.connected = d.connected
          /\ t.spectators = d.spectators /\ t.hasGuessed = d.hasGuessed /\ t.owed = d.owed
          /\ t.shrunk = d.shrunk
          BY <1>1, <1>7 DEF ScheduleTasks, Still, Room
    <3> HIDE DEF t
    <3>4. Booked(d, t) BY <1>1, <3>3, SameBooked
    <3>5. Sound(t) BY <3>2, <3>4 DEF Sound, Booked
    <3>6. GoesOn(n) BY <1>7, <3>5, AfterDisconnectGoesOn
    <3>7. n \in Room BY <1>7, <3>5, AfterDisconnectBooked DEF Sound, Frame
    <3> HIDE DEF n, s
    <3>8. /\ s.state = n.state /\ s.countdown = n.countdown /\ s.turnDrawer = n.turnDrawer
          /\ s.players = n.players /\ s.connected = n.connected
          /\ s.spectators = n.spectators /\ s.hasGuessed = n.hasGuessed
          BY <3>1, <3>7 DEF Room
    <3>9. /\ InGame(s) = InGame(n) /\ Active(s) = Active(n) /\ AllGuessed(s) = AllGuessed(n)
          BY <3>8 DEF InGame, Active, Members, AllGuessed
    <3> QED BY <3>6, <3>8, <3>9 DEF GoesOn
  <2> QED BY <2>1, <2>2
<1>9. Members(s) = Members(d) BY <1>4 DEF Members
<1> QED BY <1>4, <1>5, <1>6, <1>8, <1>9
-----------------------------------------------------------------------------
(* Steps.                                                                  *)

\* A step that brings in nobody keeps the room's invariant and its books.
LEMMA PassesStep ==
    ASSUME BooksInv, Passes(room, room'), sockets' \in [Players -> 0..MaxSockets],
           issued' = issued
    PROVE  BooksInv'
<1>1. InductiveInv /\ Members(room) \subseteq issued /\ Guessed(room) \subseteq issued
      BY DEF BooksInv, InductiveInv
<1>2. RoomInv(room') /\ Within(room, room') /\ Books(room') /\ Owing(room')
      BY DEF Passes, Sound
<1>3. InductiveInv' BY <1>1, <1>2, StepWithin
<1>4. Guessed(room') \subseteq issued' BY <1>1 DEF Passes
<1> QED BY <1>2, <1>3, <1>4 DEF BooksInv

\* The invariant of the room covers the types.
LEMMA BooksTyped == BooksInv => TypeOK /\ Sound(room)
BY DEF BooksInv, InductiveInv, RoomInv, Seating, TypeOK, Sound

\* What every step does.
VoteKept ==
    /\ VoteInv'
    /\ Kicked => GoesOn(room')
    /\ LiveInv => TargetIsLive'

\* No member is called NoPlayer.
LEMMA NobodyIsNobody ==
    ASSUME BooksInv
    PROVE  NoPlayer \notin Members(room) /\ Members(room) \subseteq Players
BY MembersArePlayers, NoPlayerAssumption DEF BooksInv, InductiveInv, RoomInv, Seating

\* The steps of the room that leave the ballot alone.
LEMMA RoomStepKept ==
    ASSUME VoteInv, RoomStep
    PROVE  VoteKept
<1>1. BooksInv /\ VTypeOK BY DEF VoteInv
<1>2. Next BY DEF RoomStep, Next, Network
<1>3. ballot' = ballot /\ cooldown' = cooldown BY DEF RoomStep
<1>4. BooksInv' BY <1>1, <1>2, BooksStep
<1>5. Stays(room, room') BY <1>1, ClientsBooked, TasksBooked, ReconnectBooked DEF RoomStep, Attended
<1>6. TypeOK' BY <1>4, BooksTyped, PTL
<1>7. VoteInv' BY <1>1, <1>3, <1>4, <1>6 DEF VoteInv, VTypeOK
<1>8. ~Kicked BY <1>1, <1>3, NobodyIsNobody DEF Kicked, NoBallot
<1>9. ASSUME LiveInv PROVE TargetIsLive'
      BY <1>3, <1>5, <1>9 DEF LiveInv, TargetIsLive, Stays
<1> QED BY <1>7, <1>8, <1>9 DEF VoteKept

\* Steps that leave the room alone.
LEMMA BallotStep ==
    ASSUME VoteInv, UNCHANGED vars,
           ballot' \in [target : Players \cup {NoPlayer}, votes : SUBSET Players],
           cooldown' \subseteq Players,
           LiveInv => TargetIsLive'
    PROVE  VoteKept
<1>1. room' = room /\ sockets' = sockets /\ issued' = issued BY DEF vars
<1>2. BooksInv' BY BooksStep DEF VoteInv
<1>3. TypeOK' BY <1>1 DEF VoteInv, VTypeOK, TypeOK
<1>4. VoteInv' BY <1>2, <1>3 DEF VoteInv, VTypeOK
<1>5. ~Kicked BY <1>1 DEF Kicked
<1> QED BY <1>4, <1>5 DEF VoteKept

\* A carried ballot.
LEMMA CarryIs ==
    ASSUME NEW r, Sound(r), NEW t, r.connected \ {t} # {}
    PROVE  LET s == Carry(r, t) IN
           /\ Loses(r, s, t)
           /\ t \in Members(r) => GoesOn(s)
<1>1. CASE t \in Members(r)
  <2>1. Loses(r, KickPassed(r, t), t) /\ GoesOn(KickPassed(r, t)) BY <1>1, KickPassedIs
  <2>2. Carry(r, t) = KickPassed(r, t) BY <1>1 DEF Carry
  <2> QED BY <2>1, <2>2
<1>2. CASE t \notin Members(r)
  <2>1. Carry(r, t) = r BY <1>2 DEF Carry
  <2>2. t \notin r.connected BY <1>2 DEF Sound, RoomInv, Seating
  <2>3. Members(r) = Members(r) \ {t} /\ r.connected = r.connected \ {t} BY <1>2, <2>2
  <2>4. Passes(r, r) BY SelfPasses
  <2>5. Loses(r, r, t) BY <2>3, <2>4 DEF Loses
  <2> QED BY <1>2, <2>1, <2>5
<1> QED BY <1>1, <1>2

\* A vote is cast or withdrawn.
LEMMA CastKept ==
    ASSUME VoteInv, NEW p \in Players, NEW vote \in BOOLEAN, CastVoteKick(p, vote)
    PROVE  VoteKept
<1> DEFINE t == ballot.target
           votes == IF vote THEN ballot.votes \cup {p} ELSE ballot.votes \ {p}
<1>1. BooksInv /\ VTypeOK /\ TypeOK /\ Sound(room) BY BooksTyped DEF VoteInv
<1>2. /\ p \in room.connected /\ t # NoPlayer /\ t # p /\ room.alive
      /\ p \in Members(room)
      BY DEF CastVoteKick, Bound
<1>3. ballot \in [target : Players \cup {NoPlayer}, votes : SUBSET Players] /\ cooldown \subseteq Players
      BY <1>1 DEF VTypeOK
<1>4. CASE Carried(room, t, votes)
  <2>1. /\ ballot' = NoBallot /\ room' = Carry(room, t) /\ issued' = issued
        /\ sockets' = [sockets EXCEPT ![t] = 0] /\ cooldown' = cooldown
        BY <1>4 DEF CastVoteKick
  <2>2. t \in Players BY <1>2, <1>3
  <2> HIDE DEF t
  <2>3. Loses(room, room', t) /\ (t \in Members(room) => GoesOn(room'))
        BY <1>1, <1>2, <2>1, CarryIs
  <2>4. sockets' \in [Players -> 0..MaxSockets]
    <3>1. 0 \in 0..MaxSockets BY ConfigAssumption
    <3>2. sockets \in [Players -> 0..MaxSockets] BY <1>1 DEF TypeOK
    <3> QED BY <2>1, <3>1, <3>2
  <2>5. BooksInv' BY <1>1, <2>1, <2>3, <2>4, PassesStep DEF Loses
  <2>6. TypeOK' BY <2>5, BooksTyped, PTL
  <2>7. ballot' \in [target : Players \cup {NoPlayer}, votes : SUBSET Players]
        BY <2>1 DEF NoBallot
  <2>8. VoteInv' BY <1>3, <2>1, <2>5, <2>6, <2>7 DEF VoteInv, VTypeOK
  <2>9. TargetIsLive' BY <2>1 DEF TargetIsLive, NoBallot
  <2>10. Kicked => GoesOn(room') BY <2>3 DEF Kicked, t
  <2> QED BY <2>8, <2>9, <2>10 DEF VoteKept
<1>5. CASE ~Carried(room, t, votes)
  <2>1. /\ ballot' = [ballot EXCEPT !.votes = votes]
        /\ UNCHANGED vars /\ cooldown' = cooldown
        BY <1>5 DEF CastVoteKick
  <2>2. votes \subseteq Players BY <1>3
  <2>3. /\ ballot' \in [target : Players \cup {NoPlayer}, votes : SUBSET Players]
        /\ ballot'.target = ballot.target /\ ballot'.votes = votes
    <3> HIDE DEF votes
    <3> QED BY <1>3, <2>1, <2>2
  <2>4. room' = room BY <2>1 DEF vars
  <2>5. LiveInv => TargetIsLive' BY <1>2, <2>3, <2>4 DEF LiveInv, TargetIsLive
  <2> QED BY <1>3, <2>1, <2>3, <2>5, BallotStep
<1> QED BY <1>4, <1>5

\* A ballot is opened.
LEMMA StartKept ==
    ASSUME VoteInv, NEW p \in Players, NEW t \in Players, StartVoteKick(p, t)
    PROVE  VoteKept
<1>1. /\ p \in Members(room) /\ room.alive /\ sockets[p] > 0
      /\ p # t /\ t \in room.connected /\ cooldown' = cooldown /\ UNCHANGED vars
      /\ ballot' = [target |-> t, votes |-> {p}]
      BY DEF StartVoteKick, Bound
<1>2. /\ ballot' \in [target : Players \cup {NoPlayer}, votes : SUBSET Players]
      /\ ballot'.target = t /\ ballot'.votes = {p}
      BY <1>1
<1>3. room' = room BY <1>1 DEF vars
<1>4. TargetIsLive' BY <1>1, <1>2, <1>3 DEF TargetIsLive
<1>5. cooldown' \subseteq Players BY <1>1 DEF VoteInv, VTypeOK
<1> QED BY <1>1, <1>2, <1>4, <1>5, BallotStep

\* A ballot runs out of time, or a failed one is forgotten.
LEMMA TimesKept ==
    ASSUME VoteInv, VoteTimesOut \/ \E t \in Players : CooldownExpires(t)
    PROVE  VoteKept
<1>1. ballot \in [target : Players \cup {NoPlayer}, votes : SUBSET Players] /\ cooldown \subseteq Players
      BY DEF VoteInv, VTypeOK
<1>2. CASE VoteTimesOut
  <2>1. /\ ballot' = NoBallot /\ UNCHANGED vars /\ ballot.target # NoPlayer
        /\ cooldown' = cooldown \cup {ballot.target}
        BY <1>2 DEF VoteTimesOut
  <2>2. ballot' \in [target : Players \cup {NoPlayer}, votes : SUBSET Players]
        BY <2>1 DEF NoBallot
  <2>3. TargetIsLive' BY <2>1 DEF TargetIsLive, NoBallot
  <2>4. cooldown' \subseteq Players BY <1>1, <2>1
  <2> QED BY <2>1, <2>2, <2>3, <2>4, BallotStep
<1>3. CASE \E t \in Players : CooldownExpires(t)
  <2>1. ballot' = ballot /\ UNCHANGED vars /\ cooldown' \subseteq cooldown
        BY <1>3 DEF CooldownExpires
  <2>2. room' = room BY <2>1 DEF vars
  <2>3. LiveInv => TargetIsLive' BY <2>1, <2>2 DEF TargetIsLive, LiveInv
  <2> QED BY <1>1, <2>1, <2>3, BallotStep
<1> QED BY <1>2, <1>3

\* A connection closes while a ballot may be open: it is settled in between.
LEMMA ClosedKept ==
    ASSUME VoteInv, NEW p \in Players, ConnectionClosedInVote(p)
    PROVE  VoteKept
<1> DEFINE marked  == MarkDisconnected(room, p)
           t       == ballot.target
           carries == DisconnectCarries(marked, p)
           settled == IF carries THEN Carry(marked, t) ELSE marked
<1>1. BooksInv /\ VTypeOK /\ TypeOK /\ Sound(room) BY BooksTyped DEF VoteInv
<1>2. /\ ballot \in [target : Players \cup {NoPlayer}, votes : SUBSET Players]
      /\ cooldown \subseteq Players /\ room \in Room
      /\ sockets \in [Players -> 0..MaxSockets]
      BY <1>1 DEF VTypeOK, TypeOK
<1>3. /\ p \in Members(room) /\ sockets[p] > 0 /\ room.alive /\ issued' = issued
      /\ cooldown' = cooldown
      /\ ballot' = BallotAfterDisconnect(marked, p)
      /\ room' = FinishDisconnect(settled, p)
      /\ sockets' = [q \in Players |->
                       CASE q = p -> sockets[q] - 1
                         [] q # p /\ carries /\ q = t -> 0
                         [] OTHER -> sockets[q]]
      BY DEF ConnectionClosedInVote, Bound
<1>4. Sound(marked) /\ Passes(room, marked)
  <2>1. Booked(room, marked) /\ Still(room, marked) /\ RoomInv(marked) /\ Members(marked) = Members(room)
        BY <1>1, <1>3, MarkedBooked DEF Sound
  <2> HIDE DEF marked
  <2>2. Within(room, marked) BY <2>1 DEF Within, Still
  <2> QED BY <2>1, <2>2 DEF Sound, Passes, Booked
<1>5. Members(marked) = Members(room) /\ marked.connected = room.connected \ {p}
      BY <1>1, <1>3, MarkedBooked DEF Sound
<1>6. marked.alive = room.alive BY <1>1, <1>3, MarkedBooked DEF Sound
<1>7. /\ carries => t # NoPlayer /\ t # p /\ Cardinality(Electorate(marked, t)) >= 2
                    /\ ballot' = NoBallot
      /\ ~carries => \/ ballot' = NoBallot
                     \/ t # p /\ ballot' = [ballot EXCEPT !.votes = ballot.votes \ {p}]
      BY <1>3 DEF DisconnectCarries, BallotAfterDisconnect
<1> HIDE DEF marked, carries
<1>8. carries => marked.connected \ {t} # {}
  <2> SUFFICES ASSUME carries, marked.connected \ {t} = {} PROVE FALSE OBVIOUS
  <2>1. Electorate(marked, t) = {} BY DEF Electorate
  <2>2. Cardinality(Electorate(marked, t)) = 0 BY <2>1, FS_EmptySet
  <2> QED BY <1>7, <2>2
<1>9. /\ Passes(marked, settled) /\ p \in Members(settled)
      /\ settled.alive = marked.alive
      /\ Members(settled) = IF carries THEN Members(room) \ {t} ELSE Members(room)
      /\ settled.connected = (room.connected \ {p}) \ (IF carries THEN {t} ELSE {})
  <2>1. CASE carries
    <3>1. Loses(marked, Carry(marked, t), t) BY <1>4, <1>8, <2>1, CarryIs
    <3>2. settled = Carry(marked, t) /\ t # p BY <1>7, <2>1
    <3> HIDE DEF settled, t
    <3>3. Loses(marked, settled, t) BY <3>1, <3>2
    <3> QED BY <1>3, <1>5, <2>1, <3>2, <3>3 DEF Loses
  <2>2. CASE ~carries
    <3>1. settled = marked BY <2>2
    <3>2. Passes(marked, marked) BY <1>4, SelfPasses
    <3> HIDE DEF settled, t
    <3> QED BY <1>3, <1>5, <2>2, <3>1, <3>2
  <2> QED BY <2>1, <2>2
<1> HIDE DEF settled
<1>10. /\ Passes(settled, room') /\ GoesOn(room')
       /\ Members(room') = Members(settled) /\ room'.connected = settled.connected
       BY <1>3, <1>9, FinishDisconnectGoesOn DEF Passes
<1>11. Passes(room, room')
  <2>1. Passes(room, settled) BY <1>4, <1>5, <1>9, PassesOn
  <2>2. Members(settled) \subseteq Members(room) BY <1>9
  <2> QED BY <1>10, <2>1, <2>2, PassesOn
<1>12. sockets' \in [Players -> 0..MaxSockets]
  <2> SUFFICES ASSUME NEW q \in Players PROVE sockets'[q] \in 0..MaxSockets BY <1>3
  <2>1. sockets[q] \in 0..MaxSockets /\ 0 \in 0..MaxSockets BY <1>2, ConfigAssumption
  <2>2. sockets'[q] = IF q = p THEN sockets[q] - 1 ELSE IF carries /\ q = t THEN 0 ELSE sockets[q]
        BY <1>3
  <2> QED BY <1>3, <2>1, <2>2, ConfigAssumption
<1>13. BooksInv' BY <1>1, <1>3, <1>11, <1>12, PassesStep
<1>14. TypeOK' BY <1>13, BooksTyped, PTL
<1>15. ballot' \in [target : Players \cup {NoPlayer}, votes : SUBSET Players]
  <2>1. NoBallot \in [target : Players \cup {NoPlayer}, votes : SUBSET Players] BY DEF NoBallot
  <2>2. ballot.votes \ {p} \subseteq Players BY <1>2
  <2> QED BY <1>2, <1>7, <2>1, <2>2
<1>16. VoteInv' BY <1>2, <1>3, <1>13, <1>14, <1>15 DEF VoteInv, VTypeOK
<1>17. ASSUME LiveInv PROVE TargetIsLive'
  <2>1. CASE ballot' = NoBallot BY <2>1 DEF TargetIsLive, NoBallot
  <2>2. CASE ~carries /\ t # p /\ ballot' = [ballot EXCEPT !.votes = ballot.votes \ {p}]
    <3>1. ballot'.target = ballot.target /\ ballot'.votes = ballot.votes \ {p} BY <1>2, <2>2
    <3>2. Members(room') = Members(room) /\ room'.connected = room.connected \ {p}
          BY <1>9, <1>10, <2>2
    <3> QED BY <1>3, <1>17, <2>2, <3>1, <3>2 DEF LiveInv, TargetIsLive
  <2> QED BY <1>7, <2>1, <2>2
<1>18. Kicked => GoesOn(room') BY <1>10
<1> QED BY <1>16, <1>17, <1>18 DEF VoteKept

\* Every step.
LEMMA VoteStep ==
    ASSUME VoteInv, [VNext]_vvars
    PROVE  VoteKept
<1>1. CASE VNext
      BY <1>1, RoomStepKept, StartKept, CastKept, TimesKept, ClosedKept DEF VNext
<1>2. CASE UNCHANGED vvars
  <2>1. UNCHANGED vars /\ ballot' = ballot /\ cooldown' = cooldown BY <1>2 DEF vvars
  <2>2. room' = room BY <2>1 DEF vars
  <2>3. LiveInv => TargetIsLive' BY <2>1, <2>2 DEF LiveInv, TargetIsLive
  <2>4. ballot' \in [target : Players \cup {NoPlayer}, votes : SUBSET Players]
        BY <2>1 DEF VoteInv, VTypeOK
  <2>5. cooldown' \subseteq Players BY <2>1 DEF VoteInv, VTypeOK
  <2> QED BY <2>1, <2>3, <2>4, <2>5, BallotStep
<1> QED BY <1>1, <1>2

\* A new room has no ballot.
LEMMA InitVote == VInit => LiveInv
<1> SUFFICES ASSUME VInit PROVE LiveInv OBVIOUS
<1>1. Init /\ ballot = NoBallot /\ cooldown = {} BY DEF VInit
<1>2. BooksInv BY <1>1, InitBooks
<1>3. TypeOK BY <1>2, BooksTyped
<1>4. VTypeOK BY <1>1, <1>3 DEF VTypeOK, NoBallot
<1>5. TargetIsLive BY <1>1 DEF TargetIsLive, NoBallot
<1> QED BY <1>2, <1>4, <1>5 DEF LiveInv, VoteInv

\* Whoever is voted out of it, the room keeps everything it keeps without
\* ballots: its seats, phases and rounds, the order of drawing, the book of
\* guesses and what it owes.
THEOREM VotedRoomIsInductive == VSpec => []VoteInv
<1>1. VInit => VoteInv BY InitVote DEF LiveInv
<1>2. VoteInv /\ [VNext]_vvars => VoteInv' BY VoteStep DEF VoteKept
<1> QED BY <1>1, <1>2, PTL DEF VSpec

\* An open ballot is about a connected player, unless that player has left, and
\* the target does not vote; the host and the phases survive the removal of the
\* host or the drawer, whoever votes and from however many connections.
THEOREM VotesAlwaysSound == VSpec => []VotesAreSound
<1>1. VInit => LiveInv BY InitVote
<1>2. LiveInv /\ [VNext]_vvars => LiveInv' BY VoteStep DEF VoteKept, LiveInv
<1>3. LiveInv => VotesAreSound
      BY DEF LiveInv, VoteInv, VotesAreSound, BooksInv, InductiveInv, RoomInv, Seating,
             HostIsMember, PhasesAgree
<1> QED BY <1>1, <1>2, <1>3, PTL DEF VSpec

\* After a kick, by a vote or by the disconnection of a voter, the game goes on:
\* too few players are counted down, and no finished turn is left running.
THEOREM GameGoesOn == VSpec => KickGoesOn
<1>1. VoteInv /\ [VNext]_vvars =>
        [ (Kicked /\ InGame(room')) =>
            IF Cardinality(Active(room')) < 2 THEN room'.countdown
            ELSE room'.turnDrawer # NoPlayer => ~AllGuessed(room') ]_vvars
      BY VoteStep DEF VoteKept, GoesOn
<1> QED BY <1>1, VotedRoomIsInductive, PTL DEF VSpec, KickGoesOn
=============================================================================
