------------------------------ MODULE GameRoom ------------------------------
(***************************************************************************)
(* A room of the game server and the game played in it, on the worker that *)
(* owns the room: backend/room_manager.py (membership, host, disconnection *)
(* and reconnection) together with backend/game_engine.py (word selection, *)
(* turns, rounds).                                                         *)
(*                                                                         *)
(* Every handler is one step.  This is the code's behaviour when no await  *)
(* inside a handler suspends: all players of the room are local, or Redis  *)
(* is off, so that `broadcast' only fills outbound buffers.  Module        *)
(* TurnTasks models the handlers whose broadcast does suspend.             *)
(*                                                                         *)
(* The Room object is the record `room'.  A handler is an operator from a  *)
(* room to a room, so that it can call the next one as the code does       *)
(* (end_turn calls advance_turn_or_round calls start_turn).  asyncio tasks *)
(* that are still sleeping are fields; their firing is an action.          *)
(***************************************************************************)
EXTENDS Integers, Sequences, FiniteSets

CONSTANTS
    Players,     \* ids the worker may hand out (uuid4 per join)
    Names,       \* display names
    NameOf,      \* the name each id joins under; names need not be distinct
    NoPlayer,    \* Python's None where an id is expected
    NumRounds,   \* GameConfig.num_rounds
    MaxPlayers,  \* min(config.max_players, MAX_PLAYERS_HARD_CAP)
    MaxSockets   \* bound: connections open at once for one player

ASSUME NoPlayerAssumption == NoPlayer \notin Players
ASSUME NameAssumption == NameOf \in [Players -> Names]
ASSUME ConfigAssumption == NumRounds \in Nat \ {0} /\ MaxPlayers \in Nat
                           /\ MaxSockets \in Nat \ {0}

VARIABLES
    room,      \* the Room object, its players and its pending tasks
    sockets,   \* sockets[p]: open connections whose handler is bound to p
    issued     \* ids handed out so far; a later join gets a new one

vars == <<room, sockets, issued>>

RoomState == {"LOBBY", "WORD_SELECTION", "PLAYING", "GAME_OVER"}

(***************************************************************************)
(* players is the ordered list of Room.players; drawerIndex counts from 0  *)
(* as in the code.  turnDrawer = NoPlayer stands for room.turn is None.    *)
(* Time is left out but for one fact: a cleanup sleeps 120 s, auto_select  *)
(* 15 s and the countdown 20 s, so a cleanup wakes before one of these only *)
(* if it is older; ripe has the players of whose cleanup that is true.     *)
(* drawn, owed and shrunk are history: who has drawn in this round, who    *)
(* has been an active connected player since the round began and has not   *)
(* drawn, and whether the list lost a player during the round.             *)
(***************************************************************************)
Room == [alive       : BOOLEAN,               \* RoomManager.rooms has the room
         players     : Seq(Players),
         connected   : SUBSET Players,        \* Player.is_connected
         spectators  : SUBSET Players,        \* Player.is_spectator
         host        : Players,
         state       : RoomState,
         round       : Nat,                   \* current_round
         drawerIndex : Nat,
         turnDrawer  : Players \cup {NoPlayer},
         guessOrder  : Seq(Players),          \* turn.guess_order
         hasGuessed  : SUBSET Players,
         pending     : BOOLEAN,               \* hasattr(room, '_pending_word_choices')
         autoSelect  : Players \cup {NoPlayer},  \* sleeping auto_select: its drawer
         countdown   : BOOLEAN,               \* _insufficient_players_task
         cleanup     : SUBSET Players,        \* Player.cleanup_task is sleeping
         lostCleanup : SUBSET Players,        \* a sleeping cleanup no field refers to
         hostTask    : SUBSET Players,        \* Player.host_reassign_task is sleeping
         ripe        : SUBSET Players,        \* cleanups older than the short timers
         drawn       : SUBSET Players,
         owed        : SUBSET Players,
         shrunk      : BOOLEAN]

TypeOK ==
    /\ room \in Room
    /\ sockets \in [Players -> 0..MaxSockets]
    /\ issued \subseteq Players
-----------------------------------------------------------------------------
(* Reading a room.                                                         *)

Members(r) == {r.players[i] : i \in DOMAIN r.players}

\* Connected players that are not spectators.
Active(r) == (Members(r) \cap r.connected) \ r.spectators

InGame(r) == r.state \in {"WORD_SELECTION", "PLAYING"}

\* The seat (counted from 1) of the first listed player that is in S.
FirstSeat(r, S) ==
    CHOOSE i \in DOMAIN r.players :
        /\ r.players[i] \in S
        /\ \A j \in DOMAIN r.players : r.players[j] \in S => i <= j

\* Who takes over as host: a connected active player, else a connected one.
NewHost(r) ==
    LET S == IF Active(r) # {} THEN Active(r) ELSE r.connected
    IN  r.players[FirstSeat(r, S)]

\* players[drawer_index], where the index may have run past the list.
HasSeat(r) == r.drawerIndex < Len(r.players)
Seated(r) == r.players[r.drawerIndex + 1]

\* The players with a sleeping cleanup, and those for whom it may wake now.
Cleanups(r) == r.cleanup \cup r.lostCleanup
CleanupsDue(r) ==
    IF r.autoSelect = NoPlayer /\ ~r.countdown
    THEN (r.cleanup \ r.hostTask) \cup r.lostCleanup
    ELSE Cleanups(r) \cap r.ripe

\* Every connected guesser has guessed.
AllGuessed(r) == Active(r) \ {r.turnDrawer} \subseteq r.hasGuessed
-----------------------------------------------------------------------------
(* game_engine.py: word selection, turns and rounds.                       *)

StartTurn(r) ==
    [r EXCEPT !.pending = TRUE, !.state = "WORD_SELECTION", !.autoSelect = Seated(r),
              !.ripe = Cleanups(r)]

\* handle_word_selection is accepted from the player in the drawer's seat
\* while choices are pending, whatever the state of the room.
MaySelect(r, p) == HasSeat(r) /\ Seated(r) = p /\ r.pending

\* Mutant of BeginTurn: the has_guessed flags of the last turn stay.
BeginTurnUnreset(r) ==
    [r EXCEPT !.autoSelect = NoPlayer, !.turnDrawer = Seated(r), !.guessOrder = <<>>,
              !.pending = FALSE, !.state = "PLAYING",
              !.drawn = @ \cup {Seated(r)}, !.owed = @ \ {Seated(r)}]

BeginTurn(r) ==
    [r EXCEPT !.autoSelect = NoPlayer,
              !.turnDrawer = Seated(r),
              !.guessOrder = <<>>,
              !.hasGuessed = {},
              !.pending    = FALSE,
              !.state      = "PLAYING",
              !.drawn      = @ \cup {Seated(r)},
              !.owed       = @ \ {Seated(r)}]

NextRound(r) ==
    [r EXCEPT !.round = @ + 1, !.drawerIndex = 0,
              !.drawn = {}, !.owed = Active(r), !.shrunk = FALSE]

GameOver(r) == [r EXCEPT !.state = "GAME_OVER"]

\* A countdown that is already running is left alone.
StartCountdown(r) ==
    IF r.countdown THEN r ELSE [r EXCEPT !.countdown = TRUE, !.ripe = Cleanups(r)]

\* Mutant of SeatsAhead: the search starts one seat too early.
SeatsFromLast(r) ==
    {i \in DOMAIN r.players : i >= r.drawerIndex /\ r.players[i] \in Active(r)}

\* The seats from drawer_index on that hold a connected active player.
SeatsAhead(r) ==
    {i \in DOMAIN r.players : i > r.drawerIndex /\ r.players[i] \in Active(r)}

SeatNext(r) ==
    [r EXCEPT !.drawerIndex =
        (CHOOSE i \in SeatsAhead(r) : \A j \in SeatsAhead(r) : i <= j) - 1]

\* Mutants of SkipAndStart: wrapping past the end of the list forgets to count
\* the round; and the round counted there is not compared with the last one.
SkipUncounted(r) ==
    IF SeatsAhead(r) # {} THEN StartTurn(SeatNext(r))
    ELSE StartTurn(SeatNext([r EXCEPT !.drawerIndex = 0]))

SkipUnchecked(r) ==
    IF SeatsAhead(r) # {} THEN StartTurn(SeatNext(r))
    ELSE StartTurn(SeatNext(NextRound(r)))

\* The skip loop: at most one wrap, since some player is active.
SkipAndStart(r) ==
    IF SeatsAhead(r) # {} THEN StartTurn(SeatNext(r))
    ELSE IF NextRound(r).round > NumRounds THEN GameOver(NextRound(r))
    ELSE StartTurn(SeatNext(NextRound(r)))

\* Mutant of AdvanceSeat: the last seat of the list is never reached.
AdvanceSeatEarly(r) ==
    IF r.drawerIndex + 2 >= Len(r.players)
    THEN NextRound(r)
    ELSE [r EXCEPT !.drawerIndex = @ + 1]

AdvanceSeat(r) ==
    IF r.drawerIndex + 1 >= Len(r.players)
    THEN NextRound(r)
    ELSE [r EXCEPT !.drawerIndex = @ + 1]

AdvanceTurnOrRound(r) ==
    IF Cardinality(Active(r)) < 2 THEN StartCountdown(r)
    ELSE IF AdvanceSeat(r).round > NumRounds THEN GameOver(AdvanceSeat(r))
    ELSE SkipAndStart(AdvanceSeat(r))

\* Mutant of EndTurn: room.turn is not cleared.
EndTurnUncleared(r) == AdvanceTurnOrRound([r EXCEPT !.guessOrder = <<>>])

\* Called with room.turn set.  Scores are left out.
EndTurn(r) ==
    AdvanceTurnOrRound([r EXCEPT !.turnDrawer = NoPlayer, !.guessOrder = <<>>])

EndTurnIfAllGuessed(r) == IF AllGuessed(r) THEN EndTurn(r) ELSE r

EndGameImmediately(r) ==
    [r EXCEPT !.turnDrawer = NoPlayer, !.guessOrder = <<>>,
              !.autoSelect = NoPlayer, !.state = "GAME_OVER"]
-----------------------------------------------------------------------------
(* room_manager.py: what membership changes do to the room.                *)

Added(r, p, asSpectator) ==
    [r EXCEPT !.players    = Append(@, p),
              !.connected  = @ \cup {p},
              !.spectators = IF asSpectator THEN @ \cup {p} ELSE @]

\* Room.remove_player.  Ids are unique in the list, so one seat goes.  The
\* drawer index is left alone.  p's record goes with its flags and tasks:
\* a task of p that still fires finds no room for p and returns.
Without(s, p) ==
    LET k == CHOOSE i \in DOMAIN s : s[i] = p
    IN  [i \in 1..(Len(s) - 1) |-> IF i < k THEN s[i] ELSE s[i + 1]]

Removed(r, p) ==
    [r EXCEPT !.players     = Without(@, p),
              !.connected   = @ \ {p},
              !.spectators  = @ \ {p},
              !.hasGuessed  = @ \ {p},
              !.cleanup     = @ \ {p},
              !.lostCleanup = @ \ {p},
              !.hostTask    = @ \ {p},
              !.ripe        = @ \ {p},
              !.owed        = @ \ {p},
              !.shrunk      = TRUE]

Deleted(r) == [r EXCEPT !.alive = FALSE]

\* The countdown is cancelled when two players are connected, spectators
\* included.
ResumeIfEnough(r) ==
    [r EXCEPT !.countdown = @ /\ Cardinality(r.connected) < 2]

MarkDisconnected(r, p) ==
    [r EXCEPT !.connected = @ \ {p}, !.owed = @ \ {p}]

\* Mutant of ScheduleTasks: a host that disconnects gets no cleanup task.
ScheduleHostOnly(r, p) ==
    IF r.host = p THEN [r EXCEPT !.hostTask = IF r.connected # {} THEN @ \cup {p} ELSE @]
    ELSE [r EXCEPT !.lostCleanup = IF p \in r.cleanup THEN @ \cup {p} ELSE @,
                   !.cleanup     = @ \cup {p}]

\* A cleanup task already sleeping for p is overwritten, not cancelled.
ScheduleTasks(r, p) ==
    [r EXCEPT !.hostTask    = IF r.host = p /\ r.connected # {} THEN @ \cup {p} ELSE @,
              !.lostCleanup = IF p \in r.cleanup THEN @ \cup {p} ELSE @,
              !.cleanup     = @ \cup {p}]

AfterDisconnect(r, p) ==
    IF ~InGame(r) THEN r
    ELSE IF r.turnDrawer = p THEN EndTurn(r)
    ELSE IF Cardinality(Active(r)) < 2 THEN StartCountdown(r)
    ELSE IF r.turnDrawer # NoPlayer /\ r.state = "PLAYING" THEN EndTurnIfAllGuessed(r)
    ELSE r

\* handle_disconnect from the host check on (no vote-kick is under way).
FinishDisconnect(r, p) ==
    IF r.host = p /\ r.connected = {} /\ ~InGame(r)
    THEN Deleted(r)
    ELSE LET next == AfterDisconnect(ScheduleTasks(r, p), p)
         IN  IF p \in next.lostCleanup THEN next ELSE [next EXCEPT !.ripe = @ \ {p}]

HandleDisconnect(r, p) == FinishDisconnect(MarkDisconnected(r, p), p)

\* The player a reconnection under name n restores: the first listed one
\* that is disconnected, else the first listed one (session takeover).
Named(r, n) == {p \in Members(r) : NameOf[p] = n}
ReconnectTarget(r, n) ==
    LET away == Named(r, n) \ r.connected
    IN  r.players[FirstSeat(r, IF away # {} THEN away ELSE Named(r, n))]

\* Mutant of HandleReconnect: the player is not marked connected.
ReconnectUnmarked(r, p) ==
    ResumeIfEnough([r EXCEPT !.cleanup = @ \ {p}, !.hostTask = @ \ {p}])

HandleReconnect(r, p) ==
    ResumeIfEnough([r EXCEPT !.connected = @ \cup {p},
                             !.cleanup   = @ \ {p},
                             !.ripe      = IF p \in r.lostCleanup THEN @ ELSE @ \ {p},
                             !.hostTask  = @ \ {p}])

\* Mutant of ReassignHost: the removed host stays host.
KeepHost(r, p) == r

ReassignHost(r, p) == IF r.host = p THEN [r EXCEPT !.host = NewHost(r)] ELSE r

PermanentlyRemove(r, p) ==
    LET left == Removed(r, p)
        kept == ReassignHost(left, p)
    IN  IF left.connected = {} THEN Deleted(left)
        ELSE IF InGame(kept) /\ Cardinality(kept.connected) < 2
             THEN StartCountdown(kept)
             ELSE kept

ReassignHostIfDisconnected(r, p) ==
    IF r.host # p \/ p \in r.connected THEN r
    ELSE IF r.connected # {} THEN [r EXCEPT !.host = NewHost(r)]
    ELSE IF InGame(r) THEN r
    ELSE Deleted(r)
-----------------------------------------------------------------------------
(* Messages from clients.  A message of p arrives on a connection bound to *)
(* p while p is in the room.                                               *)

\* Mutant of Bound: events are accepted from a connection that has closed.
BoundOnce(p) == room.alive /\ p \in Members(room)

Bound(p) == room.alive /\ sockets[p] > 0 /\ p \in Members(room)

FromHost(p) == Bound(p) /\ room.host = p

ActiveSeats(r) == Members(r) \ r.spectators

\* A new connection joins under a fresh id.
Connect(p) ==
    /\ p \notin issued
    /\ issued' = issued \cup {p}
    /\ sockets' = [sockets EXCEPT ![p] = 1]

\* create_room: the creator is the host and the only player.
Init ==
    \E h \in Players :
        /\ room = [alive |-> TRUE, players |-> <<h>>, connected |-> {h},
                   spectators |-> {}, host |-> h, state |-> "LOBBY",
                   round |-> 0, drawerIndex |-> 0, turnDrawer |-> NoPlayer,
                   guessOrder |-> <<>>, hasGuessed |-> {}, pending |-> FALSE,
                   autoSelect |-> NoPlayer, countdown |-> FALSE, cleanup |-> {},
                   lostCleanup |-> {}, hostTask |-> {}, ripe |-> {}, drawn |-> {}, owed |-> {},
                   shrunk |-> FALSE]
        /\ sockets = [p \in Players |-> IF p = h THEN 1 ELSE 0]
        /\ issued = {h}

\* join_room on the owning worker: players in the lobby, spectators always.
JoinRoom(p, asSpectator) ==
    /\ room.alive /\ Connect(p)
    /\ asSpectator \/ room.state = "LOBBY"
    /\ asSpectator \/ Cardinality(ActiveSeats(room)) < MaxPlayers
    /\ room' = Added(room, p, asSpectator)

\* The host accepts a mid-game join request (its life is in Requests).  The
\* room may be back in the lobby by then.
RespondJoinRequest(h, p, asSpectator) ==
    /\ FromHost(h) /\ Connect(p)
    /\ asSpectator \/ Cardinality(ActiveSeats(room)) < MaxPlayers
    /\ room' = ResumeIfEnough(Added(room, p, asSpectator))

\* The host lets a connected spectator play; the countdown is not touched.
RespondSpectatorRoleRequest(h, p) ==
    /\ FromHost(h)
    /\ p \in Members(room) \cap room.spectators \cap room.connected
    /\ Cardinality(ActiveSeats(room)) < MaxPlayers
    /\ room' = [room EXCEPT !.spectators = @ \ {p}, !.hasGuessed = @ \ {p}]
    /\ UNCHANGED <<sockets, issued>>

StartGame(p) ==
    /\ FromHost(p)
    /\ room.state = "LOBBY"
    /\ Cardinality(ActiveSeats(room)) >= 2
    /\ LET seat == IF Active(room) # {} THEN FirstSeat(room, Active(room)) - 1
                                        ELSE room.drawerIndex
       IN  room' = StartTurn([room EXCEPT !.round = 1, !.drawerIndex = seat,
                                          !.drawn = {}, !.owed = Active(room),
                                          !.shrunk = FALSE])
    /\ UNCHANGED <<sockets, issued>>

SelectWord(p) ==
    /\ Bound(p)
    /\ MaySelect(room, p)
    /\ room' = BeginTurn(room)
    /\ UNCHANGED <<sockets, issued>>

\* handle_guess with the right word.  Wrong guesses change no state.
GuessCorrectly(p) ==
    /\ Bound(p)
    /\ room.turnDrawer # NoPlayer /\ room.state = "PLAYING"
    /\ p # room.turnDrawer
    /\ p \notin room.spectators /\ p \notin room.hasGuessed /\ p \in room.connected
    /\ room' = EndTurnIfAllGuessed([room EXCEPT !.hasGuessed = @ \cup {p},
                                                !.guessOrder = Append(@, p)])
    /\ UNCHANGED <<sockets, issued>>

EndGameNow(p) ==
    /\ FromHost(p)
    /\ room' = [EndGameImmediately(room) EXCEPT !.countdown = FALSE]
    /\ UNCHANGED <<sockets, issued>>

HandleRematch(p) ==
    /\ FromHost(p)
    /\ room.state = "GAME_OVER"
    /\ room' = [room EXCEPT !.hasGuessed = {}, !.round = 0, !.drawerIndex = 0,
                            !.turnDrawer = NoPlayer, !.guessOrder = <<>>,
                            !.state = "LOBBY",
                            !.drawn = {}, !.owed = {}, !.shrunk = FALSE]
    /\ UNCHANGED <<sockets, issued>>

TransferHost(p, q) ==
    /\ FromHost(p)
    /\ p # q /\ q \in Members(room) \cap room.connected /\ q \notin room.spectators
    /\ room' = [room EXCEPT !.host = q]
    /\ UNCHANGED <<sockets, issued>>

KickPlayer(p, q) ==
    /\ FromHost(p)
    /\ room.state = "LOBBY"
    /\ q \in Members(room) /\ q # p
    /\ room' = Removed(room, q)
    /\ sockets' = [sockets EXCEPT ![q] = 0]
    /\ UNCHANGED issued

\* The next host is players[0], connected or not.
LeaveRoom(p) ==
    /\ Bound(p)
    /\ room.state = "LOBBY"
    /\ LET left == Removed(room, p)
       IN  room' = IF left.players = <<>> THEN Deleted(left)
                   ELSE IF room.host = p THEN [left EXCEPT !.host = left.players[1]]
                   ELSE left
    /\ sockets' = [sockets EXCEPT ![p] = 0]
    /\ UNCHANGED issued
-----------------------------------------------------------------------------
(* Connections come and go.                                                *)

\* A connection bound to p ends: the finally block of websocket_handler runs
\* handle_disconnect(p) without asking whether p has moved to another socket.
ConnectionClosed(p) ==
    /\ Bound(p)
    /\ sockets' = [sockets EXCEPT ![p] = @ - 1]
    /\ room' = HandleDisconnect(room, p)
    /\ UNCHANGED issued

Reconnect(n) ==
    /\ room.alive /\ Named(room, n) # {}
    /\ LET p == ReconnectTarget(room, n)
       IN  /\ sockets[p] < MaxSockets
           /\ sockets' = [sockets EXCEPT ![p] = @ + 1]
           /\ room' = HandleReconnect(room, p)
    /\ UNCHANGED issued
-----------------------------------------------------------------------------
(* Sleeping tasks fire.                                                    *)

\* auto_select, 15 s after start_turn.  If the drawer's seat has moved the
\* selection is refused and the task is over all the same.
AutoSelectFires ==
    /\ room.alive /\ room.autoSelect # NoPlayer
    /\ room' = IF room.state = "WORD_SELECTION" /\ MaySelect(room, room.autoSelect)
               THEN BeginTurn(room)
               ELSE [room EXCEPT !.autoSelect = NoPlayer]
    /\ UNCHANGED <<sockets, issued>>

\* turn_timer: the task is created with the turn and cancelled with it.
TurnTimerFires ==
    /\ room.alive /\ room.turnDrawer # NoPlayer /\ room.state = "PLAYING"
    /\ room' = EndTurn(room)
    /\ UNCHANGED <<sockets, issued>>

\* end_after_wait, 20 s after the countdown began; spectators count.
CountdownFires ==
    /\ room.alive /\ room.countdown
    /\ LET r == [room EXCEPT !.countdown = FALSE]
       IN  room' = IF Cardinality(room.connected) < 2 THEN EndGameImmediately(r) ELSE r
    /\ UNCHANGED <<sockets, issued>>

\* cleanup_after_timeout, 120 s after the disconnection that scheduled it.
\* _permanently_remove_player does not ask whether p is connected again.
CleanupFires(p) ==
    /\ room.alive /\ p \in CleanupsDue(room)
    /\ room' = PermanentlyRemove(room, p)
    /\ sockets' = [sockets EXCEPT ![p] = 0]
    /\ UNCHANGED issued

\* reassign_host_after_timeout, 3 s after the host's disconnection.
HostReassignFires(p) ==
    /\ room.alive /\ p \in room.hostTask
    /\ room' = ReassignHostIfDisconnected([room EXCEPT !.hostTask = @ \ {p}], p)
    /\ UNCHANGED <<sockets, issued>>
-----------------------------------------------------------------------------
Tasks ==
    \/ AutoSelectFires
    \/ TurnTimerFires
    \/ CountdownFires
    \/ \E p \in Players : CleanupFires(p)
    \/ \E p \in Players : HostReassignFires(p)

Clients ==
    \/ \E p \in Players, b \in BOOLEAN : JoinRoom(p, b)
    \/ \E h, p \in Players, b \in BOOLEAN : RespondJoinRequest(h, p, b)
    \/ \E h, p \in Players : RespondSpectatorRoleRequest(h, p)
    \/ \E p \in Players : StartGame(p)
    \/ \E p \in Players : SelectWord(p)
    \/ \E p \in Players : GuessCorrectly(p)
    \/ \E p \in Players : EndGameNow(p)
    \/ \E p \in Players : HandleRematch(p)
    \/ \E p, q \in Players : TransferHost(p, q)
    \/ \E p, q \in Players : KickPlayer(p, q)
    \/ \E p \in Players : LeaveRoom(p)

Network ==
    \/ \E p \in Players : ConnectionClosed(p)
    \/ \E n \in Names : Reconnect(n)

Next == Clients \/ Network \/ Tasks

Spec == Init /\ [][Next]_vars

\* asyncio runs every sleeping task at its time unless it was cancelled.
TaskFairness ==
    /\ WF_vars(AutoSelectFires)
    /\ WF_vars(TurnTimerFires)
    /\ WF_vars(CountdownFires)
    /\ \A p \in Players : WF_vars(CleanupFires(p)) /\ WF_vars(HostReassignFires(p))

LiveSpec == Spec /\ TaskFairness
-----------------------------------------------------------------------------
(* Properties.                                                             *)

\* While the room exists its host is one of its players: every way of losing
\* the host (cleanup, leaving, transfer, the 3 s task) finds a successor.
HostIsMember == room.alive => room.host \in Members(room)

\* A selection phase has choices pending and no turn; a turn exists only in
\* PLAYING, with no choices pending; an auto_select task never outlives the
\* selection phase it was started for.
PhaseOf(r) ==
    /\ r.state = "WORD_SELECTION" => r.pending /\ r.turnDrawer = NoPlayer
    /\ r.turnDrawer # NoPlayer => r.state = "PLAYING" /\ ~r.pending
    /\ r.autoSelect # NoPlayer => r.state = "WORD_SELECTION"

PhasesAgree == PhaseOf(room)

\* A game never runs past its last round, not even one that the drawer's
\* late select_word brings back after the host ended it.
RoundsBounded == InGame(room) => room.round <= NumRounds

\* Whatever is cancelled, revived or skipped, the game stays in its phases and
\* within its rounds.
GameInBounds == PhasesAgree /\ RoundsBounded

\* Nobody draws twice in a round, although players are removed from the list
\* that drawer_index points into.
NobodyDrawsTwice ==
    [][ (room.turnDrawer = NoPlayer /\ room'.turnDrawer # NoPlayer)
            => room'.turnDrawer \notin room.drawn ]_vars

\* A round ends only when every player who has been there all through it has
\* drawn, unless the list lost a player before or, by a ballot, with its end.
RoundServesEveryone ==
    [][ (InGame(room) /\ room'.round = room.round + 1)
            => \/ room.owed \cap room'.connected = {}
               \/ room.shrunk \/ Members(room) \ Members(room') # {} ]_vars

\* The room implements the abstract rotation: the list and drawer_index pick,
\* turn after turn, someone who has not drawn in this round.
Rotates ==
    INSTANCE Rotation WITH
        stage <- room.state, round <- room.round,
        drawer <- room.turnDrawer, drawn <- room.drawn

ImplementsRotation == Rotates!Spec

\* The guess order lists each guesser once, never the drawer, and agrees with
\* the has_guessed flags of the players still in the room.
GuessBook ==
    room.turnDrawer # NoPlayer =>
        LET guessed == {room.guessOrder[i] : i \in DOMAIN room.guessOrder}
        IN  /\ Cardinality(guessed) = Len(room.guessOrder)
            /\ room.turnDrawer \notin guessed
            /\ guessed \cap Members(room) = room.hasGuessed

\* A player the room counts as connected has a connection, and one it counts
\* as gone has a cleanup under way, whoever of its connections closed and
\* however often it came back: nobody is waited for in vain, or kept for ever.
PresenceIsTrue ==
    room.alive => \A p \in Members(room) :
        IF p \in room.connected THEN sockets[p] > 0 ELSE p \in Cleanups(room)

\* A turn ends, whoever is connected, joins or leaves and whatever is guessed.
EveryTurnEnds == (room.alive /\ room.turnDrawer # NoPlayer)
                    ~> (~room.alive \/ room.turnDrawer = NoPlayer)

\* A room whose host is gone gets its host back or another one that is there,
\* also when the 3 s task found nobody or a leaving host named an absent one.
HostRecovers == (room.alive /\ room.host \notin room.connected)
                    ~> (~room.alive \/ room.host \in room.connected)

\* A player that stays away is removed: its seat is not kept for ever.
AbsenceEnds ==
    \A p \in Players :
        (room.alive /\ p \in Members(room) \ room.connected)
            ~> (~room.alive \/ p \in room.connected \/ p \notin Members(room))
-----------------------------------------------------------------------------
(***************************************************************************)
(* The inductive invariant behind these properties.  The list has distinct *)
(* players; flags and tasks belong to listed players; and whoever has      *)
(* drawn in this round sits before the drawer's seat while a selection is  *)
(* pending, at most on it during the turn.                                 *)
(***************************************************************************)
Seating(r) ==
    /\ r \in Room
    /\ \A i, j \in DOMAIN r.players : r.players[i] = r.players[j] => i = j
    /\ r.connected \cup Cleanups(r) \subseteq Members(r)
    /\ r.alive => r.host \in Members(r)

DrawnUpTo(r, n) == \A i \in DOMAIN r.players : r.players[i] \in r.drawn => i <= n

Rotating(r) ==
    /\ r.state = "LOBBY" => r.drawerIndex = 0
    /\ r.pending \/ InGame(r) => r.round <= NumRounds
    /\ r.pending => DrawnUpTo(r, r.drawerIndex)
    /\ r.turnDrawer # NoPlayer => DrawnUpTo(r, r.drawerIndex + 1)

RoomInv(r) == Seating(r) /\ PhaseOf(r) /\ Rotating(r)

InductiveInv ==
    /\ RoomInv(room)
    /\ sockets \in [Players -> 0..MaxSockets]
    /\ issued \subseteq Players
    /\ Members(room) \cup room.drawn \subseteq issued
-----------------------------------------------------------------------------
(* What the documentation says of the room and the code does not keep.     *)

\* docs/game-logic.md:26: a selection phase that the drawer does not end is
\* ended by the server, so its auto_select task is there until it is over.
SelectionTimesOut ==
    room.alive /\ room.state = "WORD_SELECTION" => room.autoSelect # NoPlayer

\* backend/tests/test_disconnection.py:532-544: who takes the session over on
\* another connection is connected; here, until the last connection closes.
TakeoverIsPresent ==
    room.alive => \A p \in Members(room) : sockets[p] > 0 => p \in room.connected

\* docs/game-logic.md:170: the cleanup of a player that reconnects is cancelled.
ReconnectCancels == room.alive => room.connected \cap Cleanups(room) = {}
=============================================================================
