------------------------------ MODULE Requests ------------------------------
(***************************************************************************)
(* Requests that wait for the host (backend/room_manager.py): to join a    *)
(* game that is running, and to turn from spectator into player; with the  *)
(* part of backend/ws_handler.py that finds out whose messages a socket    *)
(* carries.  A socket that is accepted is not told so by its own handler:  *)
(* the handler looks it up in _ws_to_player at the next message or at the  *)
(* end of the connection.                                                  *)
(*                                                                         *)
(* The room is reduced to what the requests ask of it.  Module GameRoom    *)
(* has the rest; its RespondJoinRequest and RespondSpectatorRoleRequest    *)
(* are the accepting steps of this module.                                 *)
(***************************************************************************)
EXTENDS Integers, FiniteSets

CONSTANTS
    Sockets,     \* connections; a client may ask again on the one it has,
                 \* as the web client does after a kick
    Ids,         \* a join uses one id, for the request and for its player
    NoId,        \* Python's None
    MaxPlayers   \* seats for players besides the host, who keeps a seat

ASSUME RequestsAssumption ==
    NoId \notin Ids /\ IsFiniteSet(Ids) /\ MaxPlayers \in Nat

VARIABLES
    phase,       \* "LOBBY", "GAME" (any other state), "GONE" (room deleted)
    hostThere,   \* the host is connected
    open,        \* sockets whose handler runs
    speaksFor,   \* the player_id variable of each socket's handler
    wsPlayer,    \* RoomManager._ws_to_player
    wsRequest,   \* RoomManager._ws_to_pending_request
    socketOf,    \* the socket an id was created for, [id -> socket], so far
    pending,     \* RoomManager._pending_join_requests
    listed,      \* Room._pending_join_requests
    timers,      \* join requests whose 30 s task sleeps
    players,     \* players of the room
    spectators,
    connected,
    asking,      \* spectators with a pending role request and its 45 s task
    asked        \* Player.become_player_requests_count

sockVars == <<open, speaksFor, wsPlayer>>
joinVars == <<wsRequest, socketOf, pending, listed, timers>>
roomVars == <<players, spectators, connected>>
roleVars == <<asking, asked>>
qvars == <<phase, hostThere, sockVars, joinVars, roomVars, roleVars>>

QTypeOK ==
    /\ phase \in {"LOBBY", "GAME", "GONE"} /\ hostThere \in BOOLEAN
    /\ open \subseteq Sockets
    /\ speaksFor \in [Sockets -> Ids \cup {NoId}]
    /\ wsPlayer \in [Sockets -> Ids \cup {NoId}]
    /\ wsRequest \in [Sockets -> Ids \cup {NoId}]
    /\ DOMAIN socketOf \subseteq Ids /\ \A i \in DOMAIN socketOf : socketOf[i] \in Sockets
    /\ pending \subseteq DOMAIN socketOf /\ listed \subseteq Ids /\ timers \subseteq Ids
    /\ players \subseteq DOMAIN socketOf /\ spectators \subseteq players
    /\ connected \subseteq players
    /\ asking \subseteq Ids /\ asked \in [Ids -> 0..2]

Init ==
    /\ phase = "LOBBY" /\ hostThere = TRUE
    /\ open = Sockets
    /\ speaksFor = [s \in Sockets |-> NoId]
    /\ wsPlayer = [s \in Sockets |-> NoId]
    /\ wsRequest = [s \in Sockets |-> NoId]
    /\ socketOf = [i \in {} |-> NoId]
    /\ pending = {} /\ listed = {} /\ timers = {}
    /\ players = {} /\ spectators = {} /\ connected = {}
    /\ asking = {} /\ asked = [i \in Ids |-> 0]
-----------------------------------------------------------------------------
Issued == DOMAIN socketOf

HasRoom == Cardinality(players \ spectators) < MaxPlayers

\* Whom the handler of a socket speaks for, once it has looked itself up.
Voice(s) == IF speaksFor[s] # NoId THEN speaksFor[s] ELSE wsPlayer[s]

\* A client without a player.  The server asks nothing of the socket, which
\* may have a pending request or have belonged to a player that left or was
\* kicked.
MayJoin(s) == s \in open /\ Voice(s) \notin players

\* remove_player: the record goes with its count, a pending role request stays.
Unseat(i) ==
    /\ players' = players \ {i}
    /\ spectators' = spectators \ {i}
    /\ connected' = connected \ {i}
    /\ asked' = [asked EXCEPT ![i] = 0]

Issue(i, s) ==
    /\ i \notin Issued
    /\ socketOf' = [j \in Issued \cup {i} |-> IF j = i THEN s ELSE socketOf[j]]

\* join_room where no approval is needed: in the lobby, or to watch.
Join(s, i, watch) ==
    /\ MayJoin(s) /\ Issue(i, s)
    /\ phase = "LOBBY" \/ (phase = "GAME" /\ watch)
    /\ watch \/ HasRoom
    /\ players' = players \cup {i}
    /\ connected' = connected \cup {i}
    /\ spectators' = IF watch THEN spectators \cup {i} ELSE spectators
    /\ wsPlayer' = [wsPlayer EXCEPT ![s] = i]
    /\ speaksFor' = [speaksFor EXCEPT ![s] = i]
    /\ UNCHANGED <<phase, hostThere, open, wsRequest, pending, listed, timers, roleVars>>

\* join_room during a game: a request is left for the host.  A full room does
\* not matter yet: the host may let the joiner watch.
AskToJoin(s, i) ==
    /\ MayJoin(s) /\ Issue(i, s)
    /\ phase = "GAME" /\ hostThere
    /\ pending' = pending \cup {i}
    /\ listed' = listed \cup {i}
    /\ timers' = timers \cup {i}
    /\ wsRequest' = [wsRequest EXCEPT ![s] = i]
    /\ UNCHANGED <<phase, hostThere, sockVars, roomVars, roleVars>>

\* Mutant of Settle: the room's book keeps the request.
SettleUnlisted(i) ==
    /\ pending' = pending \ {i}
    /\ timers' = timers \ {i}
    /\ wsRequest' = [wsRequest EXCEPT ![socketOf[i]] = NoId]
    /\ UNCHANGED <<socketOf, listed>>

\* A settled request leaves all four places.  Its socket's entry goes even if
\* that entry is about a later request of the same socket.
Settle(i) ==
    /\ pending' = pending \ {i}
    /\ listed' = listed \ {i}
    /\ timers' = timers \ {i}
    /\ wsRequest' = [wsRequest EXCEPT ![socketOf[i]] = NoId]
    /\ UNCHANGED socketOf

\* respond_join_request; whether the game still runs is not asked.  A full
\* room leaves the request pending.
Accept(i, watch) ==
    /\ phase # "GONE" /\ hostThere /\ i \in pending
    /\ watch \/ HasRoom
    /\ Settle(i)
    /\ players' = players \cup {i}
    /\ connected' = connected \cup {i}
    /\ spectators' = IF watch THEN spectators \cup {i} ELSE spectators
    /\ wsPlayer' = [wsPlayer EXCEPT ![socketOf[i]] = i]
    /\ UNCHANGED <<phase, hostThere, open, speaksFor, roleVars>>

Decline(i) ==
    /\ phase # "GONE" /\ hostThere /\ i \in pending
    /\ Settle(i)
    /\ UNCHANGED <<phase, hostThere, sockVars, roomVars, roleVars>>

JoinTimesOut(i) ==
    /\ i \in timers /\ i \in pending
    /\ Settle(i)
    /\ UNCHANGED <<phase, hostThere, sockVars, roomVars, roleVars>>

\* cancel_join_request, by request id or by the socket's last request.
CancelJoin(s, i) ==
    /\ s \in open /\ i \in pending
    /\ socketOf[i] = s
    /\ Settle(i)
    /\ UNCHANGED <<phase, hostThere, sockVars, roomVars, roleVars>>

\* Any other message of an accepted socket tells its handler who it is.
Identify(s) ==
    /\ s \in open /\ speaksFor[s] = NoId /\ wsPlayer[s] # NoId
    /\ speaksFor' = [speaksFor EXCEPT ![s] = wsPlayer[s]]
    /\ UNCHANGED <<phase, hostThere, open, wsPlayer, joinVars, roomVars, roleVars>>

\* The finally block: the player is marked disconnected, or else the request
\* of the socket is cancelled.
Close(s) ==
    LET i == Voice(s)
    IN  /\ s \in open
        /\ open' = open \ {s}
        /\ wsPlayer' = [wsPlayer EXCEPT ![s] = NoId]
        /\ connected' = connected \ {i}
        /\ IF i = NoId /\ wsRequest[s] # NoId
           THEN Settle(wsRequest[s])
           ELSE UNCHANGED joinVars
        /\ UNCHANGED <<phase, hostThere, speaksFor, players, spectators, roleVars>>

\* leave_room: the handler forgets its player, _ws_to_player does not.
Leave(s) ==
    /\ s \in open /\ phase = "LOBBY" /\ speaksFor[s] \in players
    /\ Unseat(speaksFor[s])
    /\ speaksFor' = [speaksFor EXCEPT ![s] = NoId]
    /\ UNCHANGED <<phase, hostThere, open, wsPlayer, joinVars, asking>>

\* kick_player by the host in the lobby, or a vote of three or more connected;
\* the socket of the kicked player stays open and bound.
Kick(i) ==
    /\ i \in players
    /\ \/ phase = "LOBBY" /\ hostThere
       \/ phase # "GONE" /\ i \in connected
          /\ Cardinality(connected) + (IF hostThere THEN 1 ELSE 0) >= 3
    /\ Unseat(i)
    /\ UNCHANGED <<phase, hostThere, sockVars, joinVars, asking>>

\* handle_reconnect on a fresh socket does not write _ws_to_player.
Reconnect(s, i) ==
    /\ MayJoin(s) /\ wsRequest[s] = NoId /\ Voice(s) = NoId
    /\ phase # "GONE" /\ i \in players \ connected
    /\ speaksFor' = [speaksFor EXCEPT ![s] = i]
    /\ connected' = connected \cup {i}
    /\ UNCHANGED <<phase, hostThere, open, wsPlayer, joinVars, players, spectators, roleVars>>
-----------------------------------------------------------------------------
\* request_become_player: at most two per game and one at a time.
AskForRole(i) ==
    /\ phase # "GONE" /\ i \in spectators \cap connected
    /\ asked[i] < 2 /\ i \notin asking /\ HasRoom
    /\ asked' = [asked EXCEPT ![i] = @ + 1]
    /\ asking' = asking \cup {i}
    /\ UNCHANGED <<phase, hostThere, sockVars, joinVars, roomVars>>

\* Mutant of GrantRole: the seats are not counted again.
GrantUncounted(i) ==
    /\ phase # "GONE" /\ hostThere /\ i \in asking
    /\ asking' = asking \ {i}
    /\ spectators' = IF i \in connected THEN spectators \ {i} ELSE spectators
    /\ UNCHANGED <<phase, hostThere, sockVars, joinVars, players, connected, asked>>

\* Mutant of GrantRole: the granted request stays pending.
GrantKept(i) ==
    /\ phase # "GONE" /\ hostThere /\ i \in asking
    /\ spectators' = IF i \in connected /\ HasRoom THEN spectators \ {i} ELSE spectators
    /\ UNCHANGED <<phase, hostThere, sockVars, joinVars, players, connected, roleVars>>

\* respond_spectator_role_request, accepting: the request is gone even if its
\* player has left or the room is full by now.
GrantRole(i) ==
    /\ phase # "GONE" /\ hostThere /\ i \in asking
    /\ asking' = asking \ {i}
    /\ spectators' = IF i \in connected /\ HasRoom THEN spectators \ {i} ELSE spectators
    /\ UNCHANGED <<phase, hostThere, sockVars, joinVars, players, connected, asked>>

\* Declined by the host, cancelled by the spectator, or expired after 45 s.
DropRole(i) ==
    /\ i \in asking
    /\ asking' = asking \ {i}
    /\ UNCHANGED <<phase, hostThere, sockVars, joinVars, roomVars, asked>>
-----------------------------------------------------------------------------
(* What the rest of the room does.                                         *)

\* start_game; rematch after the game.  Both reset the counts.
SwitchPhase ==
    /\ hostThere
    /\ \/ phase = "LOBBY" /\ players \ spectators # {} /\ phase' = "GAME"
       \/ phase = "GAME" /\ phase' = "LOBBY"
    /\ asked' = [i \in Ids |-> 0]
    /\ UNCHANGED <<hostThere, sockVars, joinVars, roomVars, asking>>

HostComesOrGoes ==
    /\ phase # "GONE"
    /\ hostThere' = ~hostThere
    /\ UNCHANGED <<phase, sockVars, joinVars, roomVars, roleVars>>

\* _permanently_remove_player, 120 s after a disconnection.
Remove(i) ==
    /\ phase # "GONE" /\ i \in players \ connected
    /\ Unseat(i)
    /\ UNCHANGED <<phase, hostThere, sockVars, joinVars, asking>>

\* _delete_room, when nobody is connected.
DeleteRoom ==
    /\ phase # "GONE" /\ ~hostThere /\ connected = {}
    /\ phase' = "GONE"
    /\ pending' = {} /\ listed' = {} /\ timers' = {}
    /\ wsRequest' = [s \in Sockets |->
                        IF \E i \in pending : socketOf[i] = s THEN NoId ELSE wsRequest[s]]
    /\ players' = {} /\ spectators' = {} /\ asking' = {}
    /\ UNCHANGED <<hostThere, sockVars, socketOf, connected, asked>>

Next ==
    \/ \E s \in Sockets, i \in Ids, w \in BOOLEAN : Join(s, i, w)
    \/ \E s \in Sockets, i \in Ids : AskToJoin(s, i) \/ CancelJoin(s, i) \/ Reconnect(s, i)
    \/ \E i \in Ids, w \in BOOLEAN : Accept(i, w)
    \/ \E i \in Ids : Decline(i) \/ JoinTimesOut(i) \/ Remove(i) \/ Kick(i)
    \/ \E i \in Ids : AskForRole(i) \/ GrantRole(i) \/ DropRole(i)
    \/ \E s \in Sockets : Identify(s) \/ Leave(s) \/ Close(s)
    \/ SwitchPhase \/ HostComesOrGoes \/ DeleteRoom

Spec == Init /\ [][Next]_qvars
-----------------------------------------------------------------------------
\* The manager's book, the room's book and the sleeping tasks list the same
\* requests, and a socket's entry is a pending request of that socket: after
\* any answer, cancellation or deletion nothing is left in one of them.
BooksAgree ==
    /\ pending = listed /\ pending = timers
    /\ \A s \in Sockets :
           wsRequest[s] # NoId => wsRequest[s] \in pending /\ socketOf[wsRequest[s]] = s

\* Requests that were made while there was room never overfill it, although
\* join and role requests are granted in any order and players join meanwhile.
SeatsSuffice == Cardinality(players \ spectators) <= MaxPlayers

\* A pending role request is one of a spectator, or of a player who is gone;
\* someone who plays is never asked about again.
OnlySpectatorsAsk == asking \cap players \subseteq spectators
-----------------------------------------------------------------------------
(* What the documentation says and the code does not do. *)

\* requirements.md:212: "WHEN a WebSocket connection drops unexpectedly, THE
\* Game_Server SHALL treat the event as a Player disconnection": a player is
\* connected only while a socket is open that it came with or that speaks for
\* it.
DropIsNoticed == \A i \in connected : \E s \in open : s = socketOf[i] \/ Voice(s) = i

\* backend/room_manager.py:778, "Cancel a pending join request when the joiner
\* cancels or disconnects": the request of a closed socket is not pending.
RequestsHaveSockets == \A i \in pending : socketOf[i] \in open
=============================================================================
