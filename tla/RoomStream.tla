----------------------------- MODULE RoomStream -----------------------------
(***************************************************************************)
(* A worker's end of the gateway streams (backend/grpc_server.py,          *)
(* virtual_transport.py and room_manager.broadcast): the inbound task, the *)
(* outbound loop and the bounded send queue of every RoomStream call, for  *)
(* one room whose players are all reached through gateways.                *)
(*                                                                         *)
(* A client is one browser connection: it makes one identity call (join or *)
(* reconnect) over one stream, for the player who[c].  Its transport       *)
(* addresses the gateway's pending id until the call has been answered and *)
(* the player's real id afterwards.  Of the other commands only what they  *)
(* put on the queues is kept: what they do to the room is in GameRoom,     *)
(* VoteKick and Requests.                                                  *)
(***************************************************************************)
EXTENDS Integers, Sequences, FiniteSets, SequencesExt

CONSTANTS
    Players,
    MaxStreams, \* bound: RoomStream calls, numbered as they begin
    MaxClients, \* bound: connections; a player's are numbered as they are made
    Who,        \* the player behind a client
    MaxQueue,   \* GRPC_SEND_QUEUE_MAXSIZE (0 would be no bound at all)
    MaxEvents,  \* bound: commands, faults and breakdowns
    None

ASSUME RoomStreamAssumption ==
    /\ {MaxStreams, MaxClients} \subseteq Nat
    /\ IsFiniteSet(Players) /\ Who \in [1..MaxClients -> Players]
    /\ MaxEvents \in Nat /\ MaxQueue \in Nat \ {0}
    /\ MaxQueue >= Cardinality(Players)
    /\ None \notin Nat

Streams == 1..MaxStreams
Clients == 1..MaxClients

VARIABLES
    phase,      \* the RoomStream coroutine: its outbound loop, then its finally
    inbound,    \* its inbound task
    asking,     \* the client whose identity call the inbound task waits for
    queue,      \* send_queue
    transports, \* the players registered for the stream's clean-up
    ws,         \* player.websocket: a client's transport; None when disconnected
    via,        \* the stream a client's transport writes to
    rebound,    \* clients whose transport carries the player's real id
    events,     \* commands, faults and breakdowns so far
    client,     \* a client's session at its gateway; "filed": under its real id
    lost        \* history: clients whose identity answer was evicted, or left in
                \* the queue of a stream that closed

rvars == <<phase, inbound, asking, queue, transports, ws, via,
           rebound, events, client, lost>>

Lossy == {"stroke"}                       \* LOSSY_BROADCAST_TYPES
All   == 0                                \* an empty target_player_ids
Message ==
    [type : {"answer", "news", "end"} \cup Lossy,  \* "end": the None sentinel
     to   : Clients \cup {All},
     real : BOOLEAN]                      \* addressed to the real id

RTypeOK ==
    /\ phase \in [Streams -> {"idle", "open", "closing", "ended"}]
    /\ inbound \in [Streams -> {"reading", "asking", "erring", "ending", "done"}]
    /\ asking \in [Streams -> Clients \cup {None}]
    /\ queue \in [Streams -> Seq(Message)]
    /\ \A s \in Streams : Len(queue[s]) <= MaxQueue
    /\ transports \in [Streams -> SUBSET Players]
    /\ ws \in [Players -> Clients \cup {None}]
    /\ via \in [Clients -> Streams \cup {None}] /\ rebound \subseteq Clients
    /\ events \in 0..MaxEvents
    /\ client \in [Clients -> {"new", "pending", "filed", "gone"}]
    /\ lost \subseteq Clients

Init ==
    /\ phase = [s \in Streams |-> "idle"]
    /\ inbound = [s \in Streams |-> "reading"]
    /\ asking = [s \in Streams |-> None]
    /\ queue = [s \in Streams |-> <<>>]
    /\ transports = [s \in Streams |-> {}]
    /\ ws = [p \in Players |-> None]
    /\ via = [c \in Clients |-> None] /\ rebound = {}
    /\ events = 0
    /\ client = [c \in Clients |-> "new"] /\ lost = {}
-----------------------------------------------------------------------------
(* Sending.                                                                *)

\* _enqueue_with_backpressure: on a full queue a lossy message is dropped, and
\* any other takes the place of the oldest message, whatever that is.
Offer(q, m) ==
    IF Len(q) < MaxQueue THEN Append(q, m)
    ELSE IF m.type \in Lossy THEN q
    ELSE Append(Tail(q), m)

Plain(t)     == [type |-> t, to |-> All, real |-> FALSE]
To(c, m, rb) == [m EXCEPT !.to = c, !.real = c \in rb]

Reached(w)       == {p \in Players : w[p] # None}
SeenQueues(w, v) == {v[w[p]] : p \in Reached(w)}

\* Mutant of Puts: one room-wide message for every queue in use.
PutsPerQueue(w, v, m) == SeenQueues(w, v) \X {m}

\* broadcast: one room-wide message when all players share a queue, otherwise
\* one message addressed to each.
Puts(w, v, m) ==
    IF Cardinality(SeenQueues(w, v)) = 1
    THEN SeenQueues(w, v) \X {m}
    ELSE {<<v[w[p]], To(w[p], m, rebound)>> : p \in Reached(w)}

\* A stream that is closing reads its queue no more: only its length matters.
Unread(q) == [i \in DOMAIN q |-> Plain("news")]
Kept(s, q) == IF phase[s] = "open" THEN q ELSE Unread(q)

\* Messages are offered one after the other.
OfferAll(q, ms) ==
    LET after[n \in 0..Len(ms)] == IF n = 0 THEN q ELSE Offer(after[n - 1], ms[n])
    IN  after[Len(ms)]

Offered(q, s, puts) ==
    LET ms == {x[2] : x \in {y \in puts : y[1] = s}}
    IN  Kept(s, OfferAll(q[s], SetToSeq(ms)))

Broadcast(q, w, v, m) == [s \in Streams |-> Offered(q, s, Puts(w, v, m))]

\* The queues are replaced; answers that were in one of them and are not there
\* any more are lost.
Answered(q, s)  == {m.to : m \in {x \in ToSet(q[s]) : x.type = "answer"}}
Queued(q) ==
    /\ queue' = q
    /\ lost' = lost \cup
         UNION {Answered(queue, s) \ Answered(q, s) : s \in Streams}
-----------------------------------------------------------------------------
(* handle_disconnect of a player, then the broadcast of the new player list.  *)

Disconnected(p) ==
    LET w == [ws EXCEPT ![p] = None] IN
    /\ ws' = w
    /\ Queued(Broadcast(queue, w, via, Plain("news")))
-----------------------------------------------------------------------------
(* The inbound task.                                                       *)

Event == events < MaxEvents /\ events' = events + 1

Reading(s) == phase[s] = "open" /\ inbound[s] = "reading"

Open(s) ==
    /\ phase[s] = "idle" /\ \A t \in 1..(s - 1) : phase[t] # "idle"
    /\ phase' = [phase EXCEPT ![s] = "open"]
    /\ UNCHANGED <<inbound, asking, queue, transports, ws, via,
                   rebound, events, client, lost>>

\* create_room, join_room or reconnect up to an await after which the player
\* is in the room with the client's transport.  A reconnect, of a connected
\* player too, has announced itself by then; a new player has not.
Ask(s, c) ==
    LET w == [ws EXCEPT ![Who[c]] = c]
        v == [via EXCEPT ![c] = s] IN
    /\ Reading(s) /\ client[c] = "new"
    /\ \A d \in 1..(c - 1) : Who[d] = Who[c] => client[d] # "new"
    /\ client' = [client EXCEPT ![c] = "pending"]
    /\ inbound' = [inbound EXCEPT ![s] = "asking"]
    /\ asking' = [asking EXCEPT ![s] = c]
    /\ via' = v /\ ws' = w
    /\ \/ Queued(Broadcast(queue, w, v, Plain("news")))
       \/ UNCHANGED <<queue, lost>>
    /\ UNCHANGED <<phase, transports, rebound, events>>

\* Mutant of Answer: the transport is bound to the real id first.
AnswerBound(s) ==
    LET c == asking[s] IN
    /\ phase[s] = "open" /\ inbound[s] = "asking"
    /\ inbound' = [inbound EXCEPT ![s] = "reading"]
    /\ asking' = [asking EXCEPT ![s] = None]
    /\ rebound' = rebound \cup {c}
    /\ Queued([Broadcast(queue, ws, via, Plain("news")) EXCEPT
                 ![s] = Offer(@, To(c, Plain("answer"), rebound'))])
    /\ transports' = [transports EXCEPT ![s] = @ \cup {Who[c]}]
    /\ UNCHANGED <<phase, ws, via, events, client>>

\* The identity call returns: the player list, the answer to the pending id,
\* then _rebind_transport and the registration of the real id.
Answer(s) ==
    LET c == asking[s] IN
    /\ phase[s] = "open" /\ inbound[s] = "asking"
    /\ inbound' = [inbound EXCEPT ![s] = "reading"]
    /\ asking' = [asking EXCEPT ![s] = None]
    /\ Queued([Broadcast(queue, ws, via, Plain("news")) EXCEPT
                 ![s] = Offer(@, To(c, Plain("answer"), rebound))])
    /\ rebound' = rebound \cup {c}
    /\ transports' = [transports EXCEPT ![s] = @ \cup {Who[c]}]
    /\ UNCHANGED <<phase, ws, via, events, client>>

\* A client's command arrives.  Envelopes carry the id the session has: the
\* pending one finds no player.
Commands(s, c) == Reading(s) /\ client[c] = "filed"

\* Commands and timers that tell the room something.
Say(m) ==
    /\ Event
    /\ Queued(Broadcast(queue, ws, via, m))
    /\ UNCHANGED <<phase, inbound, asking, transports, ws, via,
                   rebound, client>>

\* Guesses, chat, turn events, settings, reactions and the like; and strokes,
\* fills and clear_canvas, which are passed on whoever sends them.
Tell == Say(Plain("news")) \/ Say(Plain("stroke"))

\* Commands that answer the sender only: results, errors and refusals.
Reply(s, c) ==
    /\ Reading(s) /\ client[c] \in {"pending", "filed"} /\ via[c] = s
    /\ Event
    /\ Queued([queue EXCEPT ![s] = Offer(@, To(c, Plain("news"), rebound))])
    /\ UNCHANGED <<phase, inbound, asking, transports, ws, via, rebound,
                   client>>

\* The client's connection closes.  The gateway reports it over whichever
\* stream it has, if any, with client_disconnected: the envelope names a
\* player, not a connection, and only once the session is filed.
ClientGone(c) ==
    /\ client[c] \in {"pending", "filed"} /\ Event
    /\ client' = [client EXCEPT ![c] = "gone"]
    /\ \/ (\E s \in Streams : Commands(s, c)) /\ Disconnected(Who[c])
       \/ /\ client[c] = "pending" \/ \A s \in Streams : ~Commands(s, c)
          /\ UNCHANGED <<ws, queue, lost>>
    /\ UNCHANGED <<phase, inbound, asking, transports, via, rebound>>

\* A payload that is no JSON, or a handler that raises: the error is put with
\* a blocking put.
Fault(s) ==
    /\ Reading(s) /\ Event
    /\ inbound' = [inbound EXCEPT ![s] = "erring"]
    /\ UNCHANGED <<phase, asking, queue, transports, ws, via,
                   rebound, client, lost>>

PutError(s) ==
    /\ phase[s] = "open" /\ inbound[s] = "erring" /\ Len(queue[s]) < MaxQueue
    /\ queue' = [queue EXCEPT ![s] = Append(@, Plain("news"))]
    /\ inbound' = [inbound EXCEPT ![s] = "reading"]
    /\ UNCHANGED <<phase, asking, transports, ws, via, rebound,
                   events, client, lost>>

\* The gateway sends no more: the iterator ends and the finally clause starts.
HalfClose(s) ==
    /\ Reading(s) /\ Event
    /\ inbound' = [inbound EXCEPT ![s] = "ending"]
    /\ UNCHANGED <<phase, asking, queue, transports, ws, via,
                   rebound, client, lost>>

\* put(None), which waits for room in the queue.
PutEnd(s) ==
    /\ inbound[s] = "ending" /\ Len(queue[s]) < MaxQueue
    /\ queue' = [queue EXCEPT ![s] = Kept(s, Append(@, Plain("end")))]
    /\ inbound' = [inbound EXCEPT ![s] = "done"]
    /\ UNCHANGED <<phase, asking, transports, ws, via, rebound, events, client, lost>>
-----------------------------------------------------------------------------
(* The outbound loop.                                                      *)

\* What inbound_task.cancel() makes of the inbound task: its finally clause
\* still puts the sentinel, unless that put is what is cancelled.
CancelInbound(i) ==
    CASE i = "ending" -> "done" [] i = "done" -> "done" [] OTHER -> "ending"

\* Mutant of Stop: the inbound task is left to itself.
StopAlone(s, q) ==
    /\ phase' = [phase EXCEPT ![s] = "closing"]
    /\ Queued([q EXCEPT ![s] = Unread(@)]) /\ UNCHANGED <<inbound, asking>>

\* The finally clause of RoomStream, up to the wait for the inbound task.
Stop(s, q) ==
    /\ phase' = [phase EXCEPT ![s] = "closing"]
    /\ inbound' = [inbound EXCEPT ![s] = CancelInbound(@)]
    /\ asking' = [asking EXCEPT ![s] = None]
    /\ Queued([q EXCEPT ![s] = Unread(@)])

\* A message is yielded.  The gateway delivers it and, when it is an answer,
\* files the client under its real id.
Yield(s) ==
    LET m == Head(queue[s]) IN
    /\ phase[s] = "open" /\ queue[s] # <<>> /\ m.type # "end"
    /\ queue' = [queue EXCEPT ![s] = Tail(@)]
    /\ client' = IF m.type = "answer" /\ client[m.to] = "pending"
                 THEN [client EXCEPT ![m.to] = "filed"] ELSE client
    /\ UNCHANGED <<phase, inbound, asking, transports, ws, via,
                   rebound, events, lost>>

\* The sentinel ends the loop.
YieldEnd(s) ==
    /\ phase[s] = "open" /\ queue[s] # <<>> /\ Head(queue[s]).type = "end"
    /\ Stop(s, [queue EXCEPT ![s] = Tail(@)])
    /\ UNCHANGED <<transports, ws, via, rebound, events, client>>

\* The context is cancelled: by the gateway, or because the connection broke.
Cancel(s) ==
    /\ phase[s] = "open" /\ Event
    /\ Stop(s, queue)
    /\ UNCHANGED <<transports, ws, via, rebound, client>>

\* _cleanup_stream: one handle_disconnect per registered player.
Cleanup(s, p) ==
    /\ phase[s] = "closing" /\ inbound[s] = "done" /\ p \in transports[s]
    /\ transports' = [transports EXCEPT ![s] = @ \ {p}]
    /\ Disconnected(p)
    /\ UNCHANGED <<phase, inbound, asking, via, rebound, events, client>>

End(s) ==
    /\ phase[s] = "closing" /\ inbound[s] = "done" /\ transports[s] = {}
    /\ phase' = [phase EXCEPT ![s] = "ended"]
    /\ UNCHANGED <<inbound, asking, queue, transports, ws, via,
                   rebound, events, client, lost>>
-----------------------------------------------------------------------------
Next ==
    \/ Tell
    \/ \E c \in Clients : ClientGone(c)
    \/ \E s \in Streams :
         \/ Open(s) \/ Answer(s) \/ Fault(s) \/ PutError(s) \/ HalfClose(s)
         \/ PutEnd(s) \/ Yield(s) \/ YieldEnd(s) \/ Cancel(s) \/ End(s)
         \/ \E p \in Players : Cleanup(s, p)
         \/ \E c \in Clients : Ask(s, c) \/ Reply(s, c)

\* The event loop runs every task that can go on.
Fairness ==
    \A s \in Streams :
        /\ WF_rvars(PutEnd(s)) /\ WF_rvars(End(s))
        /\ \A p \in Players : WF_rvars(Cleanup(s, p))

Spec == Init /\ [][Next]_rvars /\ Fairness
-----------------------------------------------------------------------------
(* Properties.                                                             *)

Reaches(x, c) == x[2].to \in {All, c}

\* A broadcast reaches every connected player exactly once, whatever streams
\* and gateways the players have come through and however often they have
\* moved: a room-wide message is for all sessions of the gateway that reads it
\* (broadcast's choice between one message and one per player).
EveryoneOnce ==
    \A p \in Reached(ws) :
        Cardinality({x \in Puts(ws, via, Plain("news")) : Reaches(x, ws[p])}) = 1

\* A message for a client carries the id its session will have when the message
\* is read: the pending id before the identity answer and the real id after
\* it, in the order of the queue.  Only the loss of the answer breaks this
\* (_rebind_transport after the answer, FIFO order of the queue).
AddressKnown ==
    \A s \in Streams : \A i \in DOMAIN queue[s] :
        LET m == queue[s][i]
            answered == \/ client[m.to] = "filed"
                        \/ \E j \in 1..(i - 1) :
                             queue[s][j].type = "answer" /\ queue[s][j].to = m.to
        IN  (m.to \in Clients /\ client[m.to] # "gone" /\ m.to \notin lost)
              => (m.real <=> answered)

\* The queues keep their bound while messages find their sessions.
QueuesAreSound == RTypeOK /\ AddressKnown

\* A stream that closes is cleaned up, unless its queue fills up: the sentinel
\* of the cancelled inbound task is the only thing it can wait for.
ClosesUnlessFull ==
    \A s \in Streams :
        phase[s] = "closing" ~> (phase[s] = "ended" \/ Len(queue[s]) = MaxQueue)
-----------------------------------------------------------------------------
(* What the documentation says and the code does not do. *)

\* grpc_server.py:12: "On stream context cancellation, all VirtualTransports for
\* the stream's players are cleaned up and players are marked as disconnected":
\* when the clean-up is over, nobody is connected through the stream.
NobodyLeftBehind ==
    \A s \in Streams : phase[s] = "ended" =>
        \A c \in Clients : via[c] = s => ws[Who[c]] # c
=============================================================================
