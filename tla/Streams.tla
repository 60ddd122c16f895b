------------------------------ MODULE Streams ------------------------------
(***************************************************************************)
(* The gateway's gRPC streams to one worker (gateway/stream_manager.go,    *)
(* lifecycle.go, receiver.go, buffer.go): the map entry of the worker, the *)
(* RoomStream objects that have been in it, the goroutines of each, and    *)
(* the clients that open a stream and send through it.                     *)
(*                                                                         *)
(* Streams are numbered as they are created.  A goroutine that has looked  *)
(* a stream up goes on with that stream whatever happens to the map.       *)
(***************************************************************************)
EXTENDS Integers, Sequences, FiniteSets

CONSTANTS
    Clients,
    MaxStreams,   \* bound: streams created
    MaxMsgs,      \* bound: messages accepted for sending
    QueueSize,    \* StreamConfig.BufferSize, for the channel and the buffer
    MaxRetries    \* StreamConfig.MaxRetries

ASSUME StreamsAssumption ==
    {MaxStreams, MaxMsgs, QueueSize, MaxRetries} \subseteq Nat \ {0}

Gens == 1..MaxStreams
Msgs == 1..MaxMsgs

VARIABLES
    current,    \* streams[workerID]; 0 for none
    made,       \* streams created so far
    rs,         \* the RoomStream objects
    pc,         \* where the goroutine of a client is
    what,       \* what it sends: "talk", "bye" when it disconnects, else "join"
    ref,        \* the stream its Send has looked up; 0 for none
    sent,       \* messages accepted
    delivered   \* how often the worker got each message

svars == <<current, made, rs, pc, what, ref, sent, delivered>>

Fresh == [state |-> "healthy", up |-> TRUE, closes |-> 0, queue |-> <<>>,
          loop |-> TRUE, hand |-> 0, recv |-> TRUE, keep |-> FALSE,
          handler |-> "none", tries |-> 0, buffer |-> <<>>, drainer |-> FALSE,
          count |-> 0, idle |-> FALSE]

RoomStream ==
    [state   : {"healthy", "reconnecting", "dead"},
     up      : BOOLEAN,            \* the gRPC stream it holds works
     closes  : Nat,                \* how often sendCh was closed
     queue   : Seq(Msgs),          \* sendCh
     loop    : BOOLEAN,            \* sendLoop runs; done is closed when not
     hand    : 0..MaxMsgs,         \* the message it is about to write
     recv    : BOOLEAN,            \* startStreamReceiver runs
     keep    : BOOLEAN,            \* startKeepalive runs
     handler : {"none", "new", "trying", "replay"},  \* handleStreamDisconnect
     tries   : 0..MaxRetries,
     buffer  : Seq(Msgs),          \* its MessageBuffer
     drainer : BOOLEAN,            \* a buffering goroutine of a finished handler
     count   : Int,                \* playerCount
     idle    : BOOLEAN]            \* an idle close sleeps

STypeOK ==
    /\ made \in 0..MaxStreams /\ current \in 0..made
    /\ rs \in [Gens -> RoomStream]
    /\ \A g \in Gens : Len(rs[g].queue) <= QueueSize /\ Len(rs[g].buffer) <= QueueSize
    /\ pc \in [Clients -> {"out", "wait", "look", "push", "tally", "in", "untally"}]
    /\ what \in [Clients -> {"join", "talk", "bye"}]
    /\ ref \in [Clients -> 0..made]
    /\ sent \in 0..MaxMsgs /\ delivered \in [Msgs -> Nat]

Init ==
    /\ current = 0 /\ made = 0
    /\ rs = [g \in Gens |-> Fresh]
    /\ pc = [c \in Clients |-> "out"]
    /\ what = [c \in Clients |-> "join"]
    /\ ref = [c \in Clients |-> 0]
    /\ sent = 0 /\ delivered = [m \in Msgs |-> 0]
-----------------------------------------------------------------------------
Usable == current # 0 /\ rs[current].state = "healthy"

\* closeStreamLocked: a second close of sendCh would panic.  The count of a
\* stream that has left the map is not read again.
Torn(r) == [r EXCEPT !.state = "dead", !.up = FALSE, !.closes = @ + 1,
                     !.count = 0, !.idle = FALSE]

\* Mutant of MarkUnhealthy: the entry stays in the map.
MarkInPlace(f) ==
    /\ rs' = IF current = 0 THEN f ELSE [f EXCEPT ![current] = Torn(@)]
    /\ current' = current

\* MarkUnhealthy finds its stream by the worker's id: whatever is in the map.
MarkUnhealthy(f) ==
    /\ rs' = IF current = 0 THEN f ELSE [f EXCEPT ![current] = Torn(@)]
    /\ current' = 0
-----------------------------------------------------------------------------
(* Clients.                                                                *)

\* GetOrCreate, fast path.
Reuse(c) ==
    /\ pc[c] = "out" /\ Usable
    /\ pc' = [pc EXCEPT ![c] = "look"]
    /\ UNCHANGED <<current, made, rs, what, ref, sent, delivered>>

\* GetOrCreate, slow path: the client starts or joins the single flight.
Await(c) ==
    /\ pc[c] = "out" /\ ~Usable
    /\ pc' = [pc EXCEPT ![c] = "wait"]
    /\ UNCHANGED <<current, made, rs, what, ref, sent, delivered>>

\* The flight ends for all who wait: with a new stream in the map (the old one
\* is closed even if it has recovered meanwhile), with a stream that was found
\* healthy, or with an error.
Waiting == {c \in Clients : pc[c] = "wait"}
Land(p) == pc' = [c \in Clients |-> IF c \in Waiting THEN p ELSE pc[c]]

Create ==
    /\ Waiting # {} /\ made < MaxStreams
    /\ made' = made + 1 /\ current' = made + 1
    /\ rs' = IF current = 0 THEN rs ELSE [rs EXCEPT ![current] = Torn(@)]
    /\ Land("look")
    /\ UNCHANGED <<what, ref, sent, delivered>>

NoCreate ==
    /\ Waiting # {}
    /\ Land(IF Usable THEN "look" ELSE "out")
    /\ UNCHANGED <<current, made, rs, what, ref, sent, delivered>>

\* What follows a Send that was accepted, and one that failed.  A failed
\* message of a player ends its connection.
Accepted(c) ==
    /\ pc' = [pc EXCEPT ![c] = CASE what[c] = "join" -> "tally"
                                 [] what[c] = "talk" -> "in"
                                 [] what[c] = "bye"  -> "untally"]
    /\ what' = [what EXCEPT ![c] = "join"]

Refused(c) ==
    /\ pc' = [pc EXCEPT ![c] = CASE what[c] = "join" -> "out"
                                 [] what[c] = "talk" -> "look"
                                 [] what[c] = "bye"  -> "untally"]
    /\ what' = [what EXCEPT ![c] = IF @ = "talk" THEN "bye" ELSE "join"]

\* Send, first half: the lookup under the read lock and the health check.
Look(c) ==
    /\ pc[c] = "look"
    /\ IF Usable
       THEN /\ pc' = [pc EXCEPT ![c] = "push"]
            /\ ref' = [ref EXCEPT ![c] = current]
            /\ UNCHANGED what
       ELSE Refused(c) /\ UNCHANGED ref
    /\ UNCHANGED <<current, made, rs, sent, delivered>>

\* Send, second half, without the lock.  A full channel drops a stroke at once
\* and a control message after 2 s; both are refused.
Push(c) ==
    LET g == ref[c] IN
    /\ pc[c] = "push" /\ rs[g].closes = 0
    /\ ref' = [ref EXCEPT ![c] = 0]
    /\ \/ /\ Len(rs[g].queue) < QueueSize /\ sent < MaxMsgs
          /\ rs' = [rs EXCEPT ![g].queue = Append(@, sent + 1)]
          /\ sent' = sent + 1
          /\ Accepted(c)
       \/ /\ Len(rs[g].queue) = QueueSize
          /\ Refused(c)
          /\ UNCHANGED <<rs, sent>>
    /\ UNCHANGED <<current, made, delivered>>

\* A send on a closed channel panics.  The HTTP server recovers the goroutine
\* after its deferred disconnection; a panic in that one skips RemovePlayer.
PushPanics(c) ==
    /\ pc[c] = "push" /\ rs[ref[c]].closes > 0
    /\ ref' = [ref EXCEPT ![c] = 0]
    /\ pc' = [pc EXCEPT ![c] = IF what[c] = "talk" THEN "look" ELSE "out"]
    /\ what' = [what EXCEPT ![c] = IF @ = "talk" THEN "bye" ELSE "join"]
    /\ UNCHANGED <<current, made, rs, sent, delivered>>

AddPlayer(c) ==
    /\ pc[c] = "tally"
    /\ pc' = [pc EXCEPT ![c] = "in"]
    /\ rs' = IF current = 0 THEN rs ELSE [rs EXCEPT ![current].count = @ + 1]
    /\ UNCHANGED <<current, made, what, ref, sent, delivered>>

\* A message of the player, or the end of its connection.
Begin(c, w) ==
    /\ pc[c] = "in" /\ w \in {"talk", "bye"}
    /\ pc' = [pc EXCEPT ![c] = "look"]
    /\ what' = [what EXCEPT ![c] = w]
    /\ UNCHANGED <<current, made, rs, ref, sent, delivered>>

RemovePlayer(c) ==
    /\ pc[c] = "untally"
    /\ pc' = [pc EXCEPT ![c] = "out"]
    /\ rs' = IF current = 0 THEN rs
             ELSE [rs EXCEPT ![current].count = @ - 1,
                             ![current].idle = @ \/ rs[current].count <= 1]
    /\ UNCHANGED <<current, made, what, ref, sent, delivered>>
-----------------------------------------------------------------------------
(* The goroutines of a stream.                                             *)

goVars == <<made, pc, what, ref, sent>>
Step(g, r) == rs' = [rs EXCEPT ![g] = r] /\ UNCHANGED <<current, goVars>>

\* sendLoop reads the next message; a closed and empty channel ends it.
Take(g) ==
    LET r == rs[g] IN
    /\ g <= made /\ r.loop /\ r.hand = 0
    /\ IF r.queue # <<>>
       THEN Step(g, [r EXCEPT !.hand = Head(r.queue), !.queue = Tail(r.queue)])
       ELSE r.closes > 0 /\ Step(g, [r EXCEPT !.loop = FALSE])
    /\ UNCHANGED delivered

\* sendLoop writes it; an error loses the message, evicts and ends the loop.
Write(g) ==
    LET r == rs[g] IN
    /\ g <= made /\ r.loop /\ r.hand # 0
    /\ \/ /\ r.up
          /\ delivered' = [delivered EXCEPT ![r.hand] = @ + 1]
          /\ Step(g, [r EXCEPT !.hand = 0])
       \/ /\ ~r.up
          /\ MarkUnhealthy([rs EXCEPT ![g].hand = 0, ![g].loop = FALSE])
          /\ UNCHANGED <<goVars, delivered>>

\* The worker, the connection or the network fails.
Break(g) ==
    /\ g <= made /\ rs[g].up
    /\ Step(g, [rs[g] EXCEPT !.up = FALSE])
    /\ UNCHANGED delivered

\* The receiver sees the error.  It is silent only if sendLoop has ended.
RecvFails(g) ==
    LET r == rs[g] IN
    /\ g <= made /\ r.recv /\ ~r.up
    /\ Step(g, IF r.loop THEN [r EXCEPT !.recv = FALSE, !.state = "dead", !.handler = "new"]
                         ELSE [r EXCEPT !.recv = FALSE])
    /\ UNCHANGED delivered

\* A ping fails or is not answered in time: the receiver is what notices pongs.
\* If the stream is done at the same moment, select picks either.
KeepFails(g) ==
    LET r == rs[g] IN
    /\ g <= made /\ r.keep /\ r.state = "healthy"
    /\ Step(g, [r EXCEPT !.keep = FALSE, !.state = "dead", !.handler = "new"])
    /\ UNCHANGED delivered

\* Mutant of KeepStops: the end of sendLoop is not looked at.
KeepStopsLate(g) ==
    /\ g <= made /\ rs[g].keep
    /\ rs[g].state # "healthy"
    /\ Step(g, [rs[g] EXCEPT !.keep = FALSE])
    /\ UNCHANGED delivered

\* The keepalive finds the stream unhealthy or done.
KeepStops(g) ==
    /\ g <= made /\ rs[g].keep
    /\ rs[g].state # "healthy" \/ ~rs[g].loop
    /\ Step(g, [rs[g] EXCEPT !.keep = FALSE])
    /\ UNCHANGED delivered

\* handleStreamDisconnect: it goes on unless the stream is healthy again.
StartHandler(g) ==
    LET r == rs[g] IN
    /\ g <= made /\ r.handler = "new"
    /\ Step(g, IF r.state = "healthy" THEN [r EXCEPT !.handler = "none"]
               ELSE [r EXCEPT !.handler = "trying", !.state = "reconnecting",
                              !.tries = MaxRetries, !.buffer = <<>>])
    /\ UNCHANGED delivered

\* Mutant of Drain: the message is copied to the buffer and stays queued.
DrainCopy(g) ==
    LET r == rs[g] IN
    /\ g <= made /\ r.queue # <<>>
    /\ r.handler = "trying" /\ Len(r.buffer) < QueueSize
    /\ Step(g, [r EXCEPT !.buffer = Append(@, Head(r.queue))])
    /\ UNCHANGED delivered

\* MessageBuffer.Push: a full buffer drops its oldest message.
Buffered(b, m) == Append(IF Len(b) < QueueSize THEN b ELSE Tail(b), m)

\* The buffering goroutine takes what is queued.  It goes on after the handler
\* has ended, into a buffer nobody reads.
Drain(g) ==
    LET r == rs[g] IN
    /\ g <= made /\ r.queue # <<>>
    /\ \/ /\ r.handler \in {"trying", "replay"}
          /\ Step(g, [r EXCEPT !.queue = Tail(@), !.buffer = Buffered(@, Head(r.queue))])
       \/ /\ r.drainer
          /\ Step(g, [r EXCEPT !.queue = Tail(@)])
    /\ UNCHANGED delivered

\* An attempt fails; after the last one the stream of the worker is evicted.
RetryFails(g) ==
    LET r == rs[g] IN
    /\ g <= made /\ r.handler = "trying"
    /\ IF r.tries > 1
       THEN Step(g, [r EXCEPT !.tries = @ - 1])
       ELSE /\ MarkUnhealthy([rs EXCEPT ![g].handler = "none", ![g].tries = 0,
                                        ![g].state = "dead", ![g].buffer = <<>>])
            /\ UNCHANGED goVars
    /\ UNCHANGED delivered

\* An attempt succeeds: the stream object gets a new connection.
RetrySucceeds(g) ==
    LET r == rs[g] IN
    /\ g <= made /\ r.handler = "trying"
    /\ Step(g, [r EXCEPT !.handler = "replay", !.tries = 0, !.state = "healthy", !.up = TRUE])
    /\ UNCHANGED delivered

\* Mutant of Replay: the keepalive is not started again.
ReplayUnwatched(g) ==
    LET r == rs[g] IN
    /\ g <= made /\ r.handler = "replay"
    /\ Step(g, [r EXCEPT !.handler = "none", !.buffer = <<>>, !.drainer = TRUE])
    /\ UNCHANGED delivered

\* replayBuffer, up to an error if the new connection is broken by now, and
\* startKeepalive.  The receiver is not started again.
Replay(g) ==
    LET r == rs[g] IN
    \E n \in 0..Len(r.buffer) :
        /\ g <= made /\ r.handler = "replay"
        /\ n = Len(r.buffer) \/ ~r.up
        /\ r.up \/ n < Len(r.buffer) \/ n = 0
        /\ delivered' = [m \in Msgs |-> delivered[m] +
                            Cardinality({k \in 1..n : r.buffer[k] = m})]
        /\ Step(g, [r EXCEPT !.handler = "none", !.buffer = <<>>, !.keep = TRUE,
                             !.drainer = TRUE,
                             !.state = IF n < Len(r.buffer) THEN "dead" ELSE @])

\* scheduleIdleClose, when it wakes.
IdleClose(g) ==
    /\ g <= made /\ rs[g].idle
    /\ IF current = g /\ rs[g].count <= 0
       THEN rs' = [rs EXCEPT ![g] = Torn(@)] /\ current' = 0
       ELSE rs' = [rs EXCEPT ![g].idle = FALSE] /\ UNCHANGED current
    /\ UNCHANGED <<goVars, delivered>>
-----------------------------------------------------------------------------
ClientStep(c) ==
    \/ Reuse(c) \/ Await(c) \/ Look(c) \/ Push(c) \/ PushPanics(c)
    \/ AddPlayer(c) \/ RemovePlayer(c) \/ \E w \in {"talk", "bye"} : Begin(c, w)

SendLoop(g) == Take(g) \/ Write(g)
Handler(g) == StartHandler(g) \/ RetryFails(g) \/ RetrySucceeds(g) \/ Replay(g)

Next ==
    \/ \E c \in Clients : ClientStep(c)
    \/ Create \/ NoCreate
    \/ \E g \in Gens :
           \/ SendLoop(g) \/ RecvFails(g) \/ KeepFails(g) \/ KeepStops(g) \/ Handler(g)
           \/ Drain(g) \/ Break(g) \/ IdleClose(g)

Spec == Init /\ [][Next]_svars

\* Each goroutine runs on and its sleeps end; a ping on a broken stream fails.
\* Strong fairness: select does not pass over a closed done channel for ever.
Fairness ==
    \A g \in Gens :
        /\ WF_svars(SendLoop(g)) /\ WF_svars(RecvFails(g)) /\ WF_svars(Handler(g))
        /\ WF_svars(~rs[g].up /\ KeepFails(g)) /\ SF_svars(KeepStops(g))

LiveSpec == Spec /\ Fairness
-----------------------------------------------------------------------------
\* No channel is closed twice, which would panic with the lock held, and the
\* map never offers a stream whose channel is closed; so many goroutines evict
\* by worker id that the same stream could easily meet two of them.
ClosedOnce == \A g \in Gens : rs[g].closes <= (IF current = g THEN 0 ELSE 1)

\* Every stream that was replaced has been closed: none is left with a
\* connection, a send loop and messages that nobody will ever stop.
ReplacedIsClosed == \A g \in 1..made : current = g \/ rs[g].closes > 0

\* A stream that leaves the map is closed then, once, and never before.
ClosingIsOrderly == STypeOK /\ ClosedOnce /\ ReplacedIsClosed

\* Between send loop, buffering goroutines and replay no message reaches the
\* worker twice.
AtMostOnce == \A m \in Msgs : delivered[m] <= 1

\* A broken stream does not stay in the map as a healthy one: the receiver,
\* and after a reconnection the keepalive, notices.
LooksHealthy(g) == current = g /\ rs[g].state = "healthy" /\ ~rs[g].up
BreakIsNoticed == \A g \in Gens : LooksHealthy(g) ~> ~LooksHealthy(g)

\* The goroutines of a closed stream end, even those that were reconnecting it.
Quiet(r) == ~r.loop /\ ~r.recv /\ ~r.keep /\ r.handler = "none"
ClosedGoesQuiet == \A g \in Gens : rs[g].closes > 0 ~> Quiet(rs[g])
============================================================================
