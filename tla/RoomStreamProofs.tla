-------------------------- MODULE RoomStreamProofs --------------------------
(***************************************************************************)
(* Proofs about module RoomStream, for any number of players, connections, *)
(* streams and events: a broadcast reaches everyone once, and every        *)
(* message in a queue bears the id under which the gateway will know its   *)
(* session.  The first does not depend on what is in the queues.           *)
(***************************************************************************)
EXTENDS RoomStream, FiniteSetTheorems, SequenceTheorems, WellFoundedInduction, TLAPS

\* The types of everything but the queues and the history of lost answers.
Typed ==
    /\ phase \in [Streams -> {"idle", "open", "closing", "ended"}]
    /\ inbound \in [Streams -> {"reading", "asking", "erring", "ending", "done"}]
    /\ asking \in [Streams -> Clients \cup {None}]
    /\ transports \in [Streams -> SUBSET Players]
    /\ ws \in [Players -> Clients \cup {None}]
    /\ via \in [Clients -> Streams \cup {None}] /\ rebound \subseteq Clients
    /\ client \in [Clients -> {"new", "pending", "filed", "gone"}]

\* The identity call an inbound task waits for came over its stream.
Identified ==
    \A s \in Streams :
        /\ asking[s] # None => via[asking[s]] = s /\ client[asking[s]] # "new"
        /\ inbound[s] = "asking" => asking[s] # None

\* A player who is connected through a transport with its real id is registered
\* for the clean-up of the transport's stream, which is still to come.
Registered ==
    \A c \in rebound :
        /\ client[c] # "new" /\ via[c] # None
        /\ ws[Who[c]] = c => phase[via[c]] # "ended" /\ Who[c] \in transports[via[c]]

RoomStreamInv == Typed /\ Identified /\ Registered

\* None is no client.
LEMMA NoneIsNobody ==
    None \notin Clients /\ None \notin Streams /\ \A c \in Clients : Who[c] \in Players
BY RoomStreamAssumption DEF Clients, Streams

\* Steps that leave alone who is connected through what: phases may move on to
\* anything but the end, and inbound tasks may do anything but ask.
LEMMA QuietStep ==
    ASSUME RoomStreamInv, UNCHANGED <<transports, ws, via, rebound>>,
           phase' \in [Streams -> {"idle", "open", "closing", "ended"}],
           \A s \in Streams : phase'[s] = "ended" => phase[s] = "ended",
           inbound' \in [Streams -> {"reading", "asking", "erring", "ending", "done"}],
           asking' \in [Streams -> Clients \cup {None}],
           \A s \in Streams : /\ asking'[s] \in {asking[s], None}
                              /\ inbound'[s] = "asking" => inbound[s] = "asking" /\ asking'[s] = asking[s],
           client' \in [Clients -> {"new", "pending", "filed", "gone"}],
           \A c \in Clients : client'[c] = "new" => client[c] = "new"
    PROVE  RoomStreamInv'
<1>1. Typed /\ Identified /\ Registered BY DEF RoomStreamInv
<1>2. Typed' BY <1>1 DEF Typed
<1>3. Identified' BY <1>1 DEF Identified, Typed
<1>4. Registered'
  <2> SUFFICES ASSUME NEW c \in rebound
               PROVE  /\ client'[c] # "new" /\ via[c] # None
                      /\ ws[Who[c]] = c => phase'[via[c]] # "ended" /\ Who[c] \in transports[via[c]]
    BY DEF Registered
  <2>1. c \in Clients /\ via[c] \in Streams \cup {None} BY <1>1 DEF Typed
  <2>2. QED BY <1>1, <2>1 DEF Registered
<1>5. QED BY <1>2, <1>3, <1>4 DEF RoomStreamInv

\* handle_disconnect of p, with or without its registration: nothing else is
\* taken away.
LEMMA DisconnectStep ==
    ASSUME RoomStreamInv, NEW p \in Players, ws' = [ws EXCEPT ![p] = None],
           transports' \in [Streams -> SUBSET Players],
           \A s \in Streams : transports[s] \subseteq transports'[s] \cup {p},
           UNCHANGED <<phase, inbound, asking, via, rebound>>,
           client' \in [Clients -> {"new", "pending", "filed", "gone"}],
           \A c \in Clients : client'[c] = "new" => client[c] = "new"
    PROVE  RoomStreamInv'
<1>1. Typed /\ Identified /\ Registered BY DEF RoomStreamInv
<1>2. ws' \in [Players -> Clients \cup {None}] /\ ws'[p] = None
      /\ \A q \in Players \ {p} : ws'[q] = ws[q]
  BY <1>1 DEF Typed
<1>3. Typed' BY <1>1, <1>2 DEF Typed
<1>4. Identified' BY <1>1 DEF Identified, Typed
<1>5. Registered'
  <2> SUFFICES ASSUME NEW c \in rebound
               PROVE  /\ client'[c] # "new" /\ via[c] # None
                      /\ ws'[Who[c]] = c => phase[via[c]] # "ended" /\ Who[c] \in transports'[via[c]]
    BY DEF Registered
  <2>1. c \in Clients /\ via[c] \in Streams \cup {None} /\ Who[c] \in Players
    BY <1>1, NoneIsNobody DEF Typed
  <2>2. client'[c] # "new" /\ via[c] # None BY <1>1, <2>1 DEF Registered
  <2>3. ASSUME ws'[Who[c]] = c PROVE phase[via[c]] # "ended" /\ Who[c] \in transports'[via[c]]
    <3>1. Who[c] # p BY <1>2, <2>1, <2>3, NoneIsNobody
    <3>2. ws[Who[c]] = c BY <1>2, <2>1, <2>3, <3>1
    <3>3. phase[via[c]] # "ended" /\ Who[c] \in transports[via[c]] BY <1>1, <3>2 DEF Registered
    <3>4. QED BY <2>1, <2>2, <3>1, <3>3
  <2>4. QED BY <2>2, <2>3
<1>6. QED BY <1>3, <1>4, <1>5 DEF RoomStreamInv

\* An identity call arrives over s: the player's transport is the new one, which
\* is not bound to the real id yet.
LEMMA AskKeeps ==
    ASSUME RoomStreamInv, NEW s \in Streams, NEW c \in Clients, Ask(s, c)
    PROVE  RoomStreamInv'
<1>1. Typed /\ Identified /\ Registered BY DEF RoomStreamInv
<1>2. /\ phase[s] = "open" /\ inbound[s] = "reading" /\ client[c] = "new"
      /\ client' = [client EXCEPT ![c] = "pending"]
      /\ inbound' = [inbound EXCEPT ![s] = "asking"]
      /\ asking' = [asking EXCEPT ![s] = c]
      /\ via' = [via EXCEPT ![c] = s] /\ ws' = [ws EXCEPT ![Who[c]] = c]
      /\ UNCHANGED <<phase, transports, rebound>>
  BY DEF Ask, Reading
<1>3. Who[c] \in Players BY NoneIsNobody
<1>4. /\ via'[c] = s /\ client'[c] = "pending" /\ ws'[Who[c]] = c
      /\ \A d \in Clients \ {c} : via'[d] = via[d] /\ client'[d] = client[d]
      /\ \A q \in Players \ {Who[c]} : ws'[q] = ws[q]
      /\ asking'[s] = c /\ \A t \in Streams \ {s} : asking'[t] = asking[t] /\ inbound'[t] = inbound[t]
  BY <1>1, <1>2, <1>3 DEF Typed
<1>5. Typed' BY <1>1, <1>2, <1>3 DEF Typed
<1>6. c \notin rebound /\ \A t \in Streams : asking[t] # c
  BY <1>1, <1>2, NoneIsNobody DEF Registered, Identified
<1>7. Identified'
  <2> SUFFICES ASSUME NEW t \in Streams
               PROVE  /\ asking'[t] # None => via'[asking'[t]] = t /\ client'[asking'[t]] # "new"
                      /\ inbound'[t] = "asking" => asking'[t] # None
    BY DEF Identified
  <2>1. CASE t = s BY <1>4, <2>1, NoneIsNobody
  <2>2. CASE t # s
    <3>1. asking[t] \in Clients \cup {None} /\ asking[t] # c BY <1>1, <1>6 DEF Typed
    <3>2. QED BY <1>1, <1>4, <2>2, <3>1 DEF Identified
  <2>3. QED BY <2>1, <2>2
<1>8. Registered'
  <2> SUFFICES ASSUME NEW d \in rebound
               PROVE  /\ client'[d] # "new" /\ via'[d] # None
                      /\ ws'[Who[d]] = d => phase[via'[d]] # "ended" /\ Who[d] \in transports[via'[d]]
    BY <1>2 DEF Registered
  <2>1. d \in Clients /\ d # c /\ Who[d] \in Players BY <1>1, <1>6, NoneIsNobody DEF Typed
  <2>2. ws'[Who[d]] = d => ws[Who[d]] = d BY <1>4, <2>1
  <2>3. QED BY <1>1, <1>4, <2>1, <2>2 DEF Registered
<1>9. QED BY <1>5, <1>7, <1>8 DEF RoomStreamInv

\* The identity call returns: _rebind_transport and the registration are one step.
LEMMA AnswerKeeps ==
    ASSUME RoomStreamInv, NEW s \in Streams, Answer(s)
    PROVE  RoomStreamInv'
<1>1. Typed /\ Identified /\ Registered BY DEF RoomStreamInv
<1> DEFINE c == asking[s]
<1>2. /\ phase[s] = "open" /\ inbound[s] = "asking"
      /\ inbound' = [inbound EXCEPT ![s] = "reading"]
      /\ asking' = [asking EXCEPT ![s] = None]
      /\ rebound' = rebound \cup {c}
      /\ transports' = [transports EXCEPT ![s] = @ \cup {Who[c]}]
      /\ UNCHANGED <<phase, ws, via, client>>
  BY DEF Answer
<1>3. c \in Clients /\ via[c] = s /\ client[c] # "new" /\ Who[c] \in Players
  BY <1>1, <1>2, NoneIsNobody DEF Typed, Identified
<1>4. /\ transports' \in [Streams -> SUBSET Players] /\ Who[c] \in transports'[s]
      /\ \A t \in Streams : transports[t] \subseteq transports'[t]
  BY <1>1, <1>2, <1>3 DEF Typed
<1>5. Typed' BY <1>1, <1>2, <1>3, <1>4 DEF Typed
<1>6. Identified' BY <1>1, <1>2 DEF Identified, Typed
<1>7. Registered'
  <2> SUFFICES ASSUME NEW d \in rebound \cup {c}
               PROVE  /\ client[d] # "new" /\ via[d] # None
                      /\ ws[Who[d]] = d => phase[via[d]] # "ended" /\ Who[d] \in transports'[via[d]]
    BY <1>2 DEF Registered
  <2>1. CASE d = c BY <1>2, <1>3, <1>4, <2>1, NoneIsNobody
  <2>2. CASE d \in rebound
    <3>1. via[d] \in Streams BY <1>1, <2>2 DEF Registered, Typed
    <3>2. QED BY <1>1, <1>4, <2>2, <3>1 DEF Registered
  <2>3. QED BY <2>1, <2>2
<1>8. QED BY <1>5, <1>6, <1>7 DEF RoomStreamInv

\* The clean-up is complete: nobody is registered any more.
LEMMA EndKeeps ==
    ASSUME RoomStreamInv, NEW s \in Streams, End(s)
    PROVE  RoomStreamInv'
<1>1. Typed /\ Identified /\ Registered BY DEF RoomStreamInv
<1>2. /\ transports[s] = {} /\ phase' = [phase EXCEPT ![s] = "ended"]
      /\ UNCHANGED <<inbound, asking, transports, ws, via, rebound, client>>
  BY DEF End
<1>3. Typed' BY <1>1, <1>2 DEF Typed
<1>4. Identified' BY <1>1, <1>2 DEF Identified
<1>5. Registered'
  <2> SUFFICES ASSUME NEW c \in rebound
               PROVE  /\ client[c] # "new" /\ via[c] # None
                      /\ ws[Who[c]] = c => phase'[via[c]] # "ended" /\ Who[c] \in transports[via[c]]
    BY <1>2 DEF Registered
  <2>1. via[c] \in Streams BY <1>1 DEF Registered, Typed
  <2>2. ws[Who[c]] = c => via[c] # s BY <1>1, <1>2 DEF Registered
  <2>3. phase'[via[c]] = IF via[c] = s THEN "ended" ELSE phase[via[c]] BY <1>1, <1>2, <2>1 DEF Typed
  <2>4. QED BY <1>1, <2>1, <2>2, <2>3 DEF Registered
<1>6. QED BY <1>3, <1>4, <1>5 DEF RoomStreamInv

\* _cleanup_stream disconnects whom it takes off the register.
LEMMA CleanupKeeps ==
    ASSUME RoomStreamInv, NEW s \in Streams, NEW p \in Players, Cleanup(s, p)
    PROVE  RoomStreamInv'
<1>1. Typed BY DEF RoomStreamInv
<1>2. /\ transports' = [transports EXCEPT ![s] = @ \ {p}] /\ ws' = [ws EXCEPT ![p] = None]
      /\ UNCHANGED <<phase, inbound, asking, via, rebound, client>>
  BY DEF Cleanup, Disconnected
<1>3. /\ transports' \in [Streams -> SUBSET Players]
      /\ \A t \in Streams : transports[t] \subseteq transports'[t] \cup {p}
  BY <1>1, <1>2 DEF Typed
<1>4. client' \in [Clients -> {"new", "pending", "filed", "gone"}] BY <1>1, <1>2 DEF Typed
<1>5. QED BY <1>2, <1>3, <1>4, DisconnectStep

\* A client goes, and its gateway reports it or not.
LEMMA ClientGoneKeeps ==
    ASSUME RoomStreamInv, NEW c \in Clients, ClientGone(c)
    PROVE  RoomStreamInv'
<1>1. Typed BY DEF RoomStreamInv
<1>2. client' = [client EXCEPT ![c] = "gone"] /\ UNCHANGED <<phase, inbound, asking, transports, via, rebound>>
  BY DEF ClientGone
<1>3. /\ client' \in [Clients -> {"new", "pending", "filed", "gone"}]
      /\ \A d \in Clients : client'[d] = "new" => client[d] = "new"
  BY <1>1, <1>2 DEF Typed
<1>4. CASE Disconnected(Who[c])
  <2>1. ws' = [ws EXCEPT ![Who[c]] = None] BY <1>4 DEF Disconnected
  <2>2. transports' \in [Streams -> SUBSET Players] BY <1>1, <1>2 DEF Typed
  <2>3. QED BY <1>2, <1>3, <2>1, <2>2, NoneIsNobody, DisconnectStep
<1>5. CASE ws' = ws
  <2>1. /\ phase' \in [Streams -> {"idle", "open", "closing", "ended"}]
        /\ inbound' \in [Streams -> {"reading", "asking", "erring", "ending", "done"}]
        /\ asking' \in [Streams -> Clients \cup {None}]
    BY <1>1, <1>2 DEF Typed
  <2>2. QED BY <1>2, <1>3, <1>5, <2>1, QuietStep
<1>6. QED BY <1>4, <1>5 DEF ClientGone

\* The finally clause up to the clean-up.
LEMMA StopKeeps ==
    ASSUME RoomStreamInv, NEW s \in Streams, NEW q, Stop(s, q), phase[s] = "open",
           UNCHANGED <<transports, ws, via, rebound, client>>
    PROVE  RoomStreamInv'
<1>1. Typed BY DEF RoomStreamInv
<1>2. /\ phase' = [phase EXCEPT ![s] = "closing"]
      /\ inbound' = [inbound EXCEPT ![s] = CancelInbound(@)]
      /\ asking' = [asking EXCEPT ![s] = None]
  BY DEF Stop
<1>3. CancelInbound(inbound[s]) \in {"done", "ending"} BY DEF CancelInbound
<1>4. /\ phase' \in [Streams -> {"idle", "open", "closing", "ended"}]
      /\ \A t \in Streams : phase'[t] = "ended" => phase[t] = "ended"
  BY <1>1, <1>2 DEF Typed
<1>5. /\ inbound' \in [Streams -> {"reading", "asking", "erring", "ending", "done"}]
      /\ asking' \in [Streams -> Clients \cup {None}]
      /\ \A t \in Streams : /\ asking'[t] \in {asking[t], None}
                            /\ inbound'[t] = "asking" => inbound[t] = "asking" /\ asking'[t] = asking[t]
  BY <1>1, <1>2, <1>3 DEF Typed
<1>6. client' \in [Clients -> {"new", "pending", "filed", "gone"}] BY <1>1 DEF Typed
<1>7. QED BY <1>4, <1>5, <1>6, QuietStep

\* Steps of one inbound task that is not asking, and of nobody else.
LEMMA InboundKeeps ==
    ASSUME RoomStreamInv, NEW s \in Streams, NEW i \in {"reading", "erring", "ending", "done"},
           inbound[s] # "asking", inbound' = [inbound EXCEPT ![s] = i],
           UNCHANGED <<phase, asking, transports, ws, via, rebound, client>>
    PROVE  RoomStreamInv'
<1>1. Typed BY DEF RoomStreamInv
<1>2. /\ inbound' \in [Streams -> {"reading", "asking", "erring", "ending", "done"}]
      /\ \A t \in Streams : inbound'[t] = "asking" => inbound[t] = "asking"
  BY <1>1 DEF Typed
<1>3. /\ phase' \in [Streams -> {"idle", "open", "closing", "ended"}]
      /\ asking' \in [Streams -> Clients \cup {None}]
      /\ client' \in [Clients -> {"new", "pending", "filed", "gone"}]
  BY <1>1 DEF Typed
<1>4. QED BY <1>2, <1>3, QuietStep

\* Steps that only fill and empty queues; a gateway may file a pending session.
LEMMA QueueKeeps ==
    ASSUME RoomStreamInv, UNCHANGED <<phase, inbound, asking, transports, ws, via, rebound>>,
           client' = client \/ \E c : client[c] = "pending" /\ client' = [client EXCEPT ![c] = "filed"]
    PROVE  RoomStreamInv'
<1>1. Typed BY DEF RoomStreamInv
<1>2. /\ client' \in [Clients -> {"new", "pending", "filed", "gone"}]
      /\ \A c \in Clients : client'[c] = "new" => client[c] = "new"
  BY <1>1 DEF Typed
<1>3. /\ phase' \in [Streams -> {"idle", "open", "closing", "ended"}]
      /\ inbound' \in [Streams -> {"reading", "asking", "erring", "ending", "done"}]
      /\ asking' \in [Streams -> Clients \cup {None}]
  BY <1>1 DEF Typed
<1>4. QED BY <1>2, <1>3, QuietStep

\* A stream begins.
LEMMA OpenKeeps ==
    ASSUME RoomStreamInv, NEW s \in Streams, Open(s)
    PROVE  RoomStreamInv'
<1>1. Typed BY DEF RoomStreamInv
<1>2. /\ phase' = [phase EXCEPT ![s] = "open"]
      /\ UNCHANGED <<inbound, asking, transports, ws, via, rebound, client>>
  BY DEF Open
<1>3. /\ phase' \in [Streams -> {"idle", "open", "closing", "ended"}]
      /\ \A t \in Streams : phase'[t] = "ended" => phase[t] = "ended"
  BY <1>1, <1>2 DEF Typed
<1>4. /\ inbound' \in [Streams -> {"reading", "asking", "erring", "ending", "done"}]
      /\ asking' \in [Streams -> Clients \cup {None}]
      /\ client' \in [Clients -> {"new", "pending", "filed", "gone"}]
  BY <1>1, <1>2 DEF Typed
<1>5. QED BY <1>2, <1>3, <1>4, QuietStep
-----------------------------------------------------------------------------
\* Nobody is connected at the start.
LEMMA RoomStreamInit ==
    Init => RoomStreamInv
<1> SUFFICES ASSUME Init PROVE RoomStreamInv OBVIOUS
<1>1. Typed BY DEF Init, Typed
<1>2. Identified BY DEF Init, Identified
<1>3. Registered BY DEF Init, Registered
<1>4. QED BY <1>1, <1>2, <1>3 DEF RoomStreamInv

\* Every step of a stream, a client or the room keeps the invariant.
LEMMA RoomStreamStep ==
    RoomStreamInv /\ [Next]_rvars => RoomStreamInv'
<1> SUFFICES ASSUME RoomStreamInv, [Next]_rvars PROVE RoomStreamInv' OBVIOUS
<1>1. CASE UNCHANGED rvars
  BY <1>1, QueueKeeps DEF rvars
<1>2. CASE Tell BY <1>2, QueueKeeps DEF Tell, Say
<1>3. CASE \E c \in Clients : ClientGone(c) BY <1>3, ClientGoneKeeps
<1>4. ASSUME NEW s \in Streams, Open(s) \/ Answer(s) \/ End(s) PROVE RoomStreamInv'
  BY <1>4, OpenKeeps, AnswerKeeps, EndKeeps
<1>5. ASSUME NEW s \in Streams, Fault(s) \/ PutError(s) \/ HalfClose(s) \/ PutEnd(s) PROVE RoomStreamInv'
  BY <1>5, InboundKeeps DEF Fault, PutError, HalfClose, PutEnd, Reading
<1>6. ASSUME NEW s \in Streams, Yield(s) PROVE RoomStreamInv'
  <2> DEFINE m == Head(queue[s])
  <2>1. /\ UNCHANGED <<phase, inbound, asking, transports, ws, via, rebound>>
        /\ client' = client \/ (client[m.to] = "pending" /\ client' = [client EXCEPT ![m.to] = "filed"])
    BY <1>6 DEF Yield
  <2>2. QED BY <2>1, QueueKeeps
<1>7. ASSUME NEW s \in Streams, YieldEnd(s) \/ Cancel(s) PROVE RoomStreamInv'
  BY <1>7, StopKeeps DEF YieldEnd, Cancel
<1>8. ASSUME NEW s \in Streams, NEW p \in Players, Cleanup(s, p) PROVE RoomStreamInv'
  BY <1>8, CleanupKeeps
<1>9. ASSUME NEW s \in Streams, NEW c \in Clients, Ask(s, c) \/ Reply(s, c) PROVE RoomStreamInv'
  <2>1. CASE Ask(s, c) BY <2>1, AskKeeps
  <2>2. CASE Reply(s, c) BY <2>2, QueueKeeps DEF Reply
  <2>3. QED BY <1>9, <2>1, <2>2
<1>10. QED BY <1>1, <1>2, <1>3, <1>4, <1>5, <1>6, <1>7, <1>8, <1>9 DEF Next

\* Connections and registrations agree throughout, for any number of players,
\* connections, streams and events.
THEOREM RegistrationIsInductive ==
    Spec => []RoomStreamInv
BY RoomStreamInit, RoomStreamStep, PTL DEF Spec

\* broadcast, whatever streams the players use: one message for each.
LEMMA OncePerPlayer ==
    ASSUME Typed, NEW p \in Reached(ws)
    PROVE  Cardinality({x \in Puts(ws, via, Plain("news")) : Reaches(x, ws[p])}) = 1
<1> DEFINE m == Plain("news")
           X == {x \in Puts(ws, via, m) : Reaches(x, ws[p])}
<1>1. \A q \in Reached(ws) : q \in Players /\ ws[q] \in Clients /\ ws[q] # All
  BY RoomStreamAssumption DEF Typed, Reached, Clients, All
<1>2. m.to = All BY DEF Plain
<1>3. \E x : X = {x}
  <2>1. CASE Cardinality(SeenQueues(ws, via)) = 1
    <3>1. IsFiniteSet(SeenQueues(ws, via))
      <4>1. SeenQueues(ws, via) \subseteq Streams \cup {None} BY <1>1 DEF SeenQueues, Typed
      <4>2. IsFiniteSet(Streams) BY RoomStreamAssumption, FS_Interval DEF Streams
      <4>3. IsFiniteSet(Streams \cup {None}) BY <4>2, FS_AddElement
      <4>4. QED BY <4>1, <4>3, FS_Subset
    <3>2. PICK s : SeenQueues(ws, via) = {s} BY <2>1, <3>1, FS_Singleton
    <3>3. Puts(ws, via, m) = {<<s, m>>} BY <2>1, <3>2 DEF Puts
    <3>4. Reaches(<<s, m>>, ws[p]) BY <1>2 DEF Reaches
    <3>5. X = {<<s, m>>} BY <3>3, <3>4
    <3>6. QED BY <3>5
  <2>2. CASE Cardinality(SeenQueues(ws, via)) # 1
    <3> DEFINE put(q) == <<via[ws[q]], To(ws[q], m, rebound)>>
    <3>1. Puts(ws, via, m) = {put(q) : q \in Reached(ws)} BY <2>2 DEF Puts
    <3>2. \A q \in Reached(ws) : put(q)[2].to = ws[q] BY <1>2 DEF To, Plain
    <3>3. \A q \in Reached(ws) : Reaches(put(q), ws[p]) => ws[q] = ws[p]
      BY <1>1, <3>2 DEF Reaches
    <3>4. Reaches(put(p), ws[p]) BY <3>2 DEF Reaches
    <3>5. \A x : x \in X <=> x = put(p)
      <4>1. \A q \in Reached(ws) : Reaches(put(q), ws[p]) => put(q) = put(p) BY <3>3
      <4> HIDE DEF put
      <4>2. QED BY <3>1, <3>4, <4>1
    <3>6. X = {put(p)} BY <3>5
    <3>7. QED BY <3>6
  <2>3. QED BY <2>1, <2>2
<1>4. QED BY <1>3, FS_Singleton

\* RoomManager.broadcast reaches every connected player exactly once.
THEOREM BroadcastReachesOnce ==
    Spec => []EveryoneOnce
<1>1. RoomStreamInv => EveryoneOnce
  BY OncePerPlayer DEF RoomStreamInv, EveryoneOnce
<1>2. QED BY <1>1, RegistrationIsInductive, PTL
-----------------------------------------------------------------------------
(***************************************************************************)
(* What is in the queues.  A queue q is sound for stream s, where l are    *)
(* the clients whose answer is lost, v the streams of the transports, rb   *)
(* the transports with a real id and cl the sessions at the gateway.       *)
(***************************************************************************)
AnswersIn(q) == {q[i].to : i \in {j \in DOMAIN q : q[j].type = "answer"}}

\* Messages to a client are in the queue of its transport; an answer is there
\* once, for a transport that has been bound and a session that is not filed.
Addressed(s, q, v, rb, cl) ==
    \A i \in DOMAIN q :
        /\ q[i].to \in Clients => v[q[i].to] = s /\ cl[q[i].to] # "new"
        /\ q[i].type = "answer" => q[i].to \in rb /\ cl[q[i].to] # "filed"
        /\ q[i].real => q[i].to \in rb
        /\ \A j \in DOMAIN q :
              q[i].type = "answer" /\ q[j].type = "answer" /\ q[i].to = q[j].to => i = j

\* The answer to a bound transport has been read, or is still in the queue.
Awaited(s, q, l, v, rb, cl) ==
    \A c \in Clients :
        c \in rb /\ c \notin l /\ v[c] = s /\ cl[c] \notin {"filed", "gone"} => c \in AnswersIn(q)

\* c's answer comes before place i of q.
AnswerBefore(q, i, c) == \E j \in DOMAIN q : j < i /\ q[j].type = "answer" /\ q[j].to = c

Known(q, l, cl) ==
    \A i \in DOMAIN q :
        q[i].to \in Clients /\ cl[q[i].to] # "gone" /\ q[i].to \notin l
            => (q[i].real <=> cl[q[i].to] = "filed" \/ AnswerBefore(q, i, q[i].to))

Sound(s, q, l, v, rb, cl) ==
    /\ q \in Seq(Message) /\ Len(q) <= MaxQueue
    /\ Addressed(s, q, v, rb, cl)
    /\ Awaited(s, q, l, v, rb, cl)
    /\ Known(q, l, cl)

\* Nothing in q is for a client.
Blank(q) == \A i \in DOMAIN q : q[i].to = All /\ q[i].type # "answer" /\ ~q[i].real

\* A message that a broadcast or a reply may put on the queue of s.
Fits(m, s, v, rb, cl) ==
    /\ m \in Message /\ m.type # "answer"
    /\ m.to \in Clients => v[m.to] = s /\ cl[m.to] # "new"
    /\ m.real <=> m.to \in rb

\* Sessions, calls and transports agree.
Stages ==
    /\ \A c \in Clients : /\ client[c] = "filed" => c \in rebound
                          /\ client[c] = "new" => c \notin rebound
    /\ \A s \in Streams : asking[s] # None => asking[s] \notin rebound
    /\ \A p \in Players : ws[p] # None => client[ws[p]] # "new"

QueueInv ==
    /\ events \in 0..MaxEvents /\ lost \subseteq Clients
    /\ queue \in [Streams -> Seq(Message)]
    /\ \A s \in Streams : Sound(s, queue[s], lost, via, rebound, client)
    /\ \A s \in Streams : phase[s] # "open" => Blank(queue[s])
    /\ Stages

-----------------------------------------------------------------------------
(* Offering messages, one and many.                                        *)

\* Induction up to a bound, over a set.
LEMMA UpTo ==
    ASSUME NEW N \in Nat, NEW S, 0 \in S, \A n \in 0..N : n # N /\ n \in S => n + 1 \in S
    PROVE  \A n \in 0..N : n \in S
<1> DEFINE Less == {ss \in Nat \X Nat : ss[1] < ss[2]}
           T == {n \in 0..N : n \notin S}
<1>1. IsWellFoundedOn(Less, Nat) BY NatLessThanWellFounded DEF OpToRel
<1>2. \A x, y \in Nat : y < x => <<y, x>> \in Less OBVIOUS
<1> HIDE DEF Less
<1>3. SUFFICES ASSUME T # {} PROVE FALSE OBVIOUS
<1>4. T \in SUBSET Nat OBVIOUS
<1>5. PICK x \in T : \A y \in T : ~ (<<y, x>> \in Less) BY <1>1, <1>3, <1>4, WFMin
<1>6. x \in 0..N /\ x \notin S /\ x # 0 OBVIOUS
<1>7. x - 1 \in 0..N /\ x - 1 # N BY <1>6
<1>8. x - 1 \in S
  <2>1. x - 1 \in Nat /\ x \in Nat /\ x - 1 < x BY <1>6
  <2>2. <<x - 1, x>> \in Less BY <1>2, <2>1
  <2>3. x - 1 \notin T BY <1>5, <2>2
  <2> QED BY <1>7, <2>3
<1>9. (x - 1) + 1 = x BY <1>6
<1> QED BY <1>6, <1>7, <1>8, <1>9

\* Offering messages one after the other: there is a queue after each of them.
LEMMA OfferAllIs ==
    ASSUME NEW q, NEW ms, Len(ms) \in Nat
    PROVE  \E f : /\ f[0] = q /\ \A n \in 1..Len(ms) : f[n] = Offer(f[n - 1], ms[n])
                  /\ OfferAll(q, ms) = f[Len(ms)]
<1> DEFINE N == Len(ms)
           Chain(f, k) == f[0] = q /\ \A n \in 1..k : f[n] = Offer(f[n - 1], ms[n])
           S == {k \in 0..N : \E f : Chain(f, k)}
<1>1. 0 \in S
  <2>1. Chain([i \in {0} |-> q], 0) OBVIOUS
  <2> HIDE DEF Chain
  <2>2. \E f : Chain(f, 0) BY <2>1
  <2> QED BY <2>2
<1>2. ASSUME NEW k \in 0..N, k # N, k \in S PROVE k + 1 \in S
  <2>1. PICK f : Chain(f, k) BY <1>2
  <2> DEFINE g == [i \in 0..(k + 1) |-> IF i = k + 1 THEN Offer(f[k], ms[k + 1]) ELSE f[i]]
  <2>2. \A n \in 1..(k + 1) : g[n] = Offer(g[n - 1], ms[n])
    <3> SUFFICES ASSUME NEW n \in 1..(k + 1) PROVE g[n] = Offer(g[n - 1], ms[n]) OBVIOUS
    <3>1. CASE n = k + 1
      <4>1. n - 1 = k /\ g[n - 1] = f[k] BY <3>1
      <4> QED BY <3>1, <4>1
    <3>2. CASE n # k + 1
      <4>1. n \in 1..k /\ g[n] = f[n] /\ g[n - 1] = f[n - 1] BY <3>2
      <4> QED BY <4>1, <2>1
    <3> QED BY <3>1, <3>2
  <2>3. g[0] = q BY <2>1
  <2>4. Chain(g, k + 1) BY <2>2, <2>3
  <2> HIDE DEF Chain, g
  <2>5. \E h : Chain(h, k + 1) BY <2>4
  <2>6. k + 1 \in 0..N BY <1>2
  <2> QED BY <2>5, <2>6
<1>3. PICK f : Chain(f, N)
  <2>1. N \in Nat OBVIOUS
  <2>2. \A k \in 0..N : k # N /\ k \in S => k + 1 \in S BY <1>2
  <2> HIDE DEF S, N
  <2>3. \A k \in 0..N : k \in S BY <1>1, <2>1, <2>2, UpTo
  <2>4. N \in S BY <2>1, <2>3
  <2> QED BY <2>4 DEF S
<1> DEFINE Body(h) == [n \in 0..N |-> IF n = 0 THEN q ELSE Offer(h[n - 1], ms[n])]
           g == [n \in 0..N |-> f[n]]
           after == CHOOSE h : h = Body(h)
<1>5. g = Body(g)
  <2> SUFFICES ASSUME NEW n \in 0..N PROVE g[n] = IF n = 0 THEN q ELSE Offer(g[n - 1], ms[n]) OBVIOUS
  <2>1. CASE n = 0 BY <2>1, <1>3
  <2>2. CASE n # 0
    <3>1. n \in 1..N /\ n - 1 \in 0..N BY <2>2
    <3> QED BY <3>1, <1>3
  <2> QED BY <2>1, <2>2
<1>6. after = Body(after) BY <1>5
<1>7. OfferAll(q, ms) = after[N] BY DEF OfferAll
<1> HIDE DEF after
<1>8. after[0] = q /\ \A n \in 1..N : after[n] = Offer(after[n - 1], ms[n])
  BY <1>6
<1> QED BY <1>7, <1>8

\* More answers may be lost.
LEMMA LostMore ==
    ASSUME NEW s, NEW q, NEW l, NEW l2, NEW v, NEW rb, NEW cl, Sound(s, q, l, v, rb, cl), l \subseteq l2
    PROVE  Sound(s, q, l2, v, rb, cl)
<1>1. Awaited(s, q, l2, v, rb, cl) BY DEF Sound, Awaited
<1>2. Known(q, l2, cl) BY DEF Sound, Known
<1> QED BY <1>1, <1>2 DEF Sound

\* The head of a queue is taken; an answer that goes with it is lost.
LEMMA TailKeeps ==
    ASSUME NEW s, NEW q, NEW l, NEW v, NEW rb, NEW cl, Sound(s, q, l, v, rb, cl), q # <<>>
    PROVE  /\ Sound(s, Tail(q), l \cup (AnswersIn(q) \ AnswersIn(Tail(q))), v, rb, cl)
           /\ AnswersIn(Tail(q)) \subseteq AnswersIn(q)
           /\ Len(Tail(q)) = Len(q) - 1
<1> DEFINE t == Tail(q)
           l2 == l \cup (AnswersIn(q) \ AnswersIn(t))
<1>1. q \in Seq(Message) /\ Len(q) <= MaxQueue /\ Addressed(s, q, v, rb, cl)
      /\ Awaited(s, q, l, v, rb, cl) /\ Known(q, l, cl)
  BY DEF Sound
<1>2. t \in Seq(Message) /\ Len(t) = Len(q) - 1 /\ DOMAIN t = 1..(Len(q) - 1) /\ DOMAIN q = 1..Len(q)
      /\ Len(q) \in Nat /\ \A i \in 1..(Len(q) - 1) : t[i] = q[i + 1]
  BY <1>1
<1>3. \A i \in DOMAIN t : i + 1 \in DOMAIN q /\ t[i] = q[i + 1] BY <1>2
<1> HIDE DEF t
<1>4. AnswersIn(t) \subseteq AnswersIn(q) BY <1>3 DEF AnswersIn
<1>5. Addressed(s, t, v, rb, cl)
  <2> SUFFICES ASSUME NEW i \in DOMAIN t
               PROVE  /\ t[i].to \in Clients => v[t[i].to] = s /\ cl[t[i].to] # "new"
                      /\ t[i].type = "answer" => t[i].to \in rb /\ cl[t[i].to] # "filed"
                      /\ t[i].real => t[i].to \in rb
                      /\ \A j \in DOMAIN t :
                            t[i].type = "answer" /\ t[j].type = "answer" /\ t[i].to = t[j].to => i = j
    BY DEF Addressed
  <2>1. /\ t[i].to \in Clients => v[t[i].to] = s /\ cl[t[i].to] # "new"
        /\ t[i].type = "answer" => t[i].to \in rb /\ cl[t[i].to] # "filed"
        /\ t[i].real => t[i].to \in rb
    BY <1>1, <1>3 DEF Addressed
  <2>2. ASSUME NEW j \in DOMAIN t, t[i].type = "answer" /\ t[j].type = "answer" /\ t[i].to = t[j].to
        PROVE  i = j
    <3>1. i + 1 = j + 1 BY <1>1, <1>3, <2>2 DEF Addressed
    <3> QED BY <1>2, <3>1
  <2> QED BY <2>1, <2>2
<1>6. Awaited(s, t, l2, v, rb, cl) BY <1>1 DEF Awaited
<1>7. Known(t, l2, cl)
  <2> SUFFICES ASSUME NEW i \in DOMAIN t,
                      t[i].to \in Clients, cl[t[i].to] # "gone", t[i].to \notin l2
               PROVE  t[i].real <=> cl[t[i].to] = "filed" \/ AnswerBefore(t, i, t[i].to)
    BY DEF Known
  <2> DEFINE c == t[i].to
  <2>1. t[i].real <=> cl[c] = "filed" \/ AnswerBefore(q, i + 1, c)
    BY <1>1, <1>3 DEF Known
  <2>2. ASSUME AnswerBefore(t, i, c) PROVE AnswerBefore(q, i + 1, c)
    <3>1. PICK j \in DOMAIN t : j < i /\ t[j].type = "answer" /\ t[j].to = c BY <2>2 DEF AnswerBefore
    <3>2. j + 1 \in DOMAIN q /\ j + 1 < i + 1 /\ q[j + 1] = t[j] BY <1>2, <1>3, <3>1
    <3> QED BY <3>1, <3>2 DEF AnswerBefore
  <2>3. ASSUME AnswerBefore(q, i + 1, c) PROVE AnswerBefore(t, i, c)
    <3>1. PICK j \in DOMAIN q : j < i + 1 /\ q[j].type = "answer" /\ q[j].to = c BY <2>3 DEF AnswerBefore
    <3>2. c \in AnswersIn(q) BY <3>1 DEF AnswersIn
    <3>3. c \in AnswersIn(t) BY <3>2
    <3>4. PICK k \in DOMAIN t : t[k].type = "answer" /\ t[k].to = c BY <3>3 DEF AnswersIn
    <3>5. k + 1 \in DOMAIN q /\ q[k + 1] = t[k] BY <1>3
    <3>6. k + 1 = j BY <1>1, <3>1, <3>4, <3>5 DEF Addressed
    <3>7. k < i BY <1>2, <3>1, <3>6
    <3> QED BY <3>4, <3>7 DEF AnswerBefore
  <2>4. AnswerBefore(q, i + 1, c) <=> AnswerBefore(t, i, c) BY <2>2, <2>3
  <2> QED BY <2>1, <2>4
<1>8. Len(t) <= MaxQueue BY <1>1, <1>2, RoomStreamAssumption
<1>9. Sound(s, t, l2, v, rb, cl) BY <1>2, <1>5, <1>6, <1>7, <1>8 DEF Sound
<1> QED BY <1>2, <1>4, <1>9 DEF t

\* A session is filed only when its transport is bound.
Filed(rb, cl) == rb \subseteq Clients /\ \A c \in Clients : cl[c] = "filed" => c \in rb

\* A message that fits is put at the end.
LEMMA AppendKeeps ==
    ASSUME NEW s, NEW q, NEW l, NEW v, NEW rb, NEW cl, Sound(s, q, l, v, rb, cl), Len(q) < MaxQueue,
           NEW m, Fits(m, s, v, rb, cl), Filed(rb, cl)
    PROVE  /\ Sound(s, Append(q, m), l, v, rb, cl)
           /\ AnswersIn(Append(q, m)) = AnswersIn(q)
           /\ Len(Append(q, m)) = Len(q) + 1
<1> DEFINE t == Append(q, m)
           n == Len(q) + 1
<1>1. q \in Seq(Message) /\ Len(q) <= MaxQueue /\ Addressed(s, q, v, rb, cl)
      /\ Awaited(s, q, l, v, rb, cl) /\ Known(q, l, cl)
  BY DEF Sound
<1>2. m \in Message /\ m.type # "answer" /\ (m.to \in Clients => v[m.to] = s /\ cl[m.to] # "new")
      /\ (m.real <=> m.to \in rb)
  BY DEF Fits
<1>3. t \in Seq(Message) /\ Len(t) = n /\ DOMAIN t = 1..n /\ DOMAIN q = 1..(n - 1)
      /\ n \in Nat /\ t[n] = m /\ \A i \in DOMAIN q : t[i] = q[i]
  BY <1>1, <1>2
<1>4. \A i \in DOMAIN t : (i \in DOMAIN q /\ i # n /\ i < n /\ t[i] = q[i]) \/ (i = n /\ t[i] = m) BY <1>3
<1>5. DOMAIN q \subseteq DOMAIN t /\ n \notin DOMAIN q BY <1>3
<1> HIDE DEF t, n
<1>6. AnswersIn(t) = AnswersIn(q) BY <1>2, <1>3, <1>4, <1>5 DEF AnswersIn
<1>7. Addressed(s, t, v, rb, cl)
  BY <1>1, <1>2, <1>3, <1>4 DEF Addressed
<1>8. Awaited(s, t, l, v, rb, cl) BY <1>1, <1>6 DEF Awaited
<1>9. Known(t, l, cl)
  <2> SUFFICES ASSUME NEW i \in DOMAIN t,
                      t[i].to \in Clients, cl[t[i].to] # "gone", t[i].to \notin l
               PROVE  t[i].real <=> cl[t[i].to] = "filed" \/ AnswerBefore(t, i, t[i].to)
    BY DEF Known
  <2> DEFINE c == t[i].to
  <2>1. CASE i \in DOMAIN q
    <3>1. t[i] = q[i] /\ i < n BY <1>4, <1>5, <2>1
    <3>2. q[i].real <=> cl[c] = "filed" \/ AnswerBefore(q, i, c) BY <1>1, <2>1, <3>1 DEF Known
    <3>3. AnswerBefore(q, i, c) <=> AnswerBefore(t, i, c)
      BY <1>2, <1>3, <1>4, <1>5 DEF AnswerBefore
    <3> QED BY <3>1, <3>2, <3>3
  <2>2. CASE i = n
    <3>1. c = m.to /\ t[i] = m BY <1>3, <2>2
    <3>2. ASSUME c \in rb, cl[c] # "filed" PROVE AnswerBefore(t, i, c)
      <4>1. v[c] = s BY <1>2, <3>1
      <4>2. c \in AnswersIn(q) BY <1>1, <3>2, <4>1 DEF Awaited
      <4>3. PICK j \in DOMAIN q : q[j].type = "answer" /\ q[j].to = c BY <4>2 DEF AnswersIn
      <4> QED BY <1>4, <1>5, <2>2, <4>3 DEF AnswerBefore
    <3>3. ASSUME AnswerBefore(t, i, c) PROVE c \in rb
      <4>1. PICK j \in DOMAIN t : t[j].type = "answer" /\ t[j].to = c BY <3>3 DEF AnswerBefore
      <4> QED BY <1>7, <4>1 DEF Addressed
    <3>4. cl[c] = "filed" => c \in rb BY DEF Filed
    <3>5. t[i].real <=> c \in rb BY <1>2, <3>1
    <3> QED BY <3>2, <3>3, <3>4, <3>5
  <2> QED BY <1>4, <2>1, <2>2
<1>10. Len(t) <= MaxQueue
  <2>1. Len(q) \in Nat /\ MaxQueue \in Nat BY <1>1, RoomStreamAssumption
  <2> QED BY <1>3, <2>1 DEF n
<1> QED BY <1>3, <1>6, <1>7, <1>8, <1>9, <1>10 DEF Sound, t, n

\* _enqueue_with_backpressure of a message that fits.
LEMMA OfferKeeps ==
    ASSUME NEW s, NEW q, NEW l, NEW v, NEW rb, NEW cl, Sound(s, q, l, v, rb, cl),
           NEW m, Fits(m, s, v, rb, cl), Filed(rb, cl)
    PROVE  /\ Sound(s, Offer(q, m), l \cup (AnswersIn(q) \ AnswersIn(Offer(q, m))), v, rb, cl)
           /\ AnswersIn(Offer(q, m)) \subseteq AnswersIn(q)
<1>1. q \in Seq(Message) /\ Len(q) <= MaxQueue /\ Len(q) \in Nat /\ MaxQueue \in Nat \ {0}
  BY RoomStreamAssumption DEF Sound
<1>2. CASE Len(q) < MaxQueue
  <2>1. Offer(q, m) = Append(q, m) BY <1>2 DEF Offer
  <2>2. Sound(s, Append(q, m), l, v, rb, cl) /\ AnswersIn(Append(q, m)) = AnswersIn(q) BY <1>2, AppendKeeps
  <2> QED BY <2>1, <2>2, LostMore
<1>3. CASE ~(Len(q) < MaxQueue) /\ m.type \in Lossy
  <2>1. Offer(q, m) = q BY <1>3 DEF Offer
  <2> QED BY <2>1, LostMore
<1>4. CASE ~(Len(q) < MaxQueue) /\ m.type \notin Lossy
  <2> DEFINE t == Tail(q)
             l2 == l \cup (AnswersIn(q) \ AnswersIn(t))
  <2>1. Offer(q, m) = Append(t, m) BY <1>4 DEF Offer
  <2>2. q # <<>> BY <1>1, <1>4
  <2>3. Sound(s, t, l2, v, rb, cl) /\ AnswersIn(t) \subseteq AnswersIn(q) /\ Len(t) = Len(q) - 1
    BY <2>2, TailKeeps
  <2>4. Len(t) < MaxQueue BY <1>1, <2>3
  <2> HIDE DEF t, l2
  <2>5. Sound(s, Append(t, m), l2, v, rb, cl) /\ AnswersIn(Append(t, m)) = AnswersIn(t)
    BY <2>3, <2>4, AppendKeeps
  <2> QED BY <2>1, <2>3, <2>5 DEF l2
<1> QED BY <1>2, <1>3, <1>4

\* A sequence of messages that fit.
AllFit(ms, s, v, rb, cl) ==
    Len(ms) \in Nat /\ \A i \in 1..Len(ms) : Fits(ms[i], s, v, rb, cl)

\* The same of any number of messages, one after the other.
LEMMA OfferAllKeeps ==
    ASSUME NEW s, NEW q, NEW l, NEW v, NEW rb, NEW cl, Sound(s, q, l, v, rb, cl),
           NEW ms, AllFit(ms, s, v, rb, cl),
           Filed(rb, cl)
    PROVE  /\ Sound(s, OfferAll(q, ms), l \cup (AnswersIn(q) \ AnswersIn(OfferAll(q, ms))), v, rb, cl)
           /\ AnswersIn(OfferAll(q, ms)) \subseteq AnswersIn(q)
<1>0. Len(ms) \in Nat /\ \A i \in 1..Len(ms) : Fits(ms[i], s, v, rb, cl) BY DEF AllFit
<1>1. PICK f : /\ f[0] = q /\ \A n \in 1..Len(ms) : f[n] = Offer(f[n - 1], ms[n])
               /\ OfferAll(q, ms) = f[Len(ms)]
  BY <1>0, OfferAllIs
<1> DEFINE N == Len(ms)
           P(n) == /\ Sound(s, f[n], l \cup (AnswersIn(q) \ AnswersIn(f[n])), v, rb, cl)
                   /\ AnswersIn(f[n]) \subseteq AnswersIn(q)
           S == {n \in 0..N : P(n)}
<1>2. P(0) BY <1>1, LostMore
<1>3. ASSUME NEW n \in 0..N, n # N, P(n) PROVE P(n + 1)
  <2> DEFINE g == f[n]
             l2 == l \cup (AnswersIn(q) \ AnswersIn(g))
             m == ms[n + 1]
  <2>1. n + 1 \in 1..N /\ (n + 1) - 1 = n BY <1>3
  <2>2. f[n + 1] = Offer(g, m) /\ Fits(m, s, v, rb, cl) BY <1>0, <1>1, <2>1
  <2>3. Sound(s, g, l2, v, rb, cl) /\ AnswersIn(g) \subseteq AnswersIn(q) BY <1>3
  <2> HIDE DEF g, l2, m
  <2>4. /\ Sound(s, Offer(g, m), l2 \cup (AnswersIn(g) \ AnswersIn(Offer(g, m))), v, rb, cl)
        /\ AnswersIn(Offer(g, m)) \subseteq AnswersIn(g)
    BY <2>2, <2>3, OfferKeeps
  <2>5. l2 \cup (AnswersIn(g) \ AnswersIn(Offer(g, m))) \subseteq l \cup (AnswersIn(q) \ AnswersIn(Offer(g, m)))
    BY <2>3, <2>4 DEF l2
  <2> QED BY <2>2, <2>3, <2>4, <2>5, LostMore
<1>4. P(N)
  <2> HIDE DEF P
  <2>1. N \in Nat BY <1>0
  <2>2. 0 \in S BY <1>2, <2>1
  <2>3. \A n \in 0..N : n # N /\ n \in S => n + 1 \in S
    <3> SUFFICES ASSUME NEW n \in 0..N, n # N, n \in S PROVE n + 1 \in S OBVIOUS
    <3>1. P(n + 1) BY <1>3
    <3>2. n + 1 \in 0..N OBVIOUS
    <3> QED BY <3>1, <3>2
  <2> HIDE DEF S, N
  <2>4. \A n \in 0..N : n \in S BY <2>1, <2>2, <2>3, UpTo
  <2> QED BY <2>1, <2>4 DEF S
<1> QED BY <1>1, <1>4

\* A finite set as a sequence of its elements.
LEMMA SetToSeqIs ==
    ASSUME NEW S, IsFiniteSet(S)
    PROVE  Len(SetToSeq(S)) \in Nat /\ \A i \in 1..Len(SetToSeq(S)) : SetToSeq(S)[i] \in S
<1>1. PICK n \in Nat : ExistsBijection(1..n, S) BY FS_NatBijection
<1>2. Cardinality(S) = n BY <1>1, FS_CountingElements
<1>3. PICK g \in [1..n -> S] : IsInjective(g)
  BY <1>1 DEF ExistsBijection, Bijection, Injection
<1>4. SetToSeq(S) \in [1..n -> S] BY <1>2, <1>3 DEF SetToSeq
<1>5. SetToSeq(S) \in Seq(S) /\ Len(SetToSeq(S)) = n BY <1>4
<1> QED BY <1>4, <1>5

\* A message for one client is a message.
LEMMA ToIs ==
    ASSUME NEW m \in Message, NEW c \in Clients, NEW rb
    PROVE  /\ To(c, m, rb) \in Message
           /\ To(c, m, rb).to = c /\ To(c, m, rb).type = m.type
           /\ To(c, m, rb).real <=> c \in rb
<1>1. ASSUME NEW b \in BOOLEAN PROVE [m EXCEPT !.to = c, !.real = b] \in Message BY DEF Message
<1>2. (c \in rb) \in BOOLEAN OBVIOUS
<1>3. To(c, m, rb) \in Message BY <1>1, <1>2, Zenon DEF To
<1>4. To(c, m, rb).to = c /\ To(c, m, rb).type = m.type BY DEF To, Message
<1>5. To(c, m, rb).real <=> c \in rb BY DEF To, Message
<1> QED BY <1>3, <1>4, <1>5

\* broadcast puts messages that fit: a message to a client is for its transport,
\* with the id that has now.
LEMMA PutsFit ==
    ASSUME NEW w \in [Players -> Clients \cup {None}], NEW v, NEW t \in {"news", "stroke"}, NEW cl, NEW s,
           \A p \in Players : w[p] # None => cl[w[p]] # "new", rebound \subseteq Clients,
           NEW ms, ms = {x[2] : x \in {y \in Puts(w, v, Plain(t)) : y[1] = s}}
    PROVE  IsFiniteSet(ms) /\ \A m \in ms : Fits(m, s, v, rebound, cl)
<1> DEFINE m == Plain(t)
           P == {p \in Reached(w) : v[w[p]] = s}
           T == {To(w[p], m, rebound) : p \in P}
<1>1. All \notin Clients /\ \A p \in Reached(w) : p \in Players /\ w[p] \in Clients
  BY RoomStreamAssumption DEF All, Clients, Reached
<1>2. m \in Message /\ m.type # "answer" /\ m.to = All /\ m.real = FALSE
  BY DEF Plain, Message, Lossy
<1>3. IsFiniteSet(T)
  <2> DEFINE g == [p \in P |-> To(w[p], m, rebound)]
  <2>1. IsFiniteSet(P) BY RoomStreamAssumption, FS_Subset, <1>1
  <2>2. g \in Surjection(P, T) BY DEF Surjection
  <2> HIDE DEF P, T, g
  <2> QED BY <2>1, <2>2, FS_Surjection
<1>4. \A x \in T : Fits(x, s, v, rebound, cl)
  <2> SUFFICES ASSUME NEW p \in P PROVE Fits(To(w[p], m, rebound), s, v, rebound, cl) OBVIOUS
  <2> DEFINE x == To(w[p], m, rebound)
  <2>1. p \in Players /\ w[p] \in Clients /\ v[w[p]] = s /\ cl[w[p]] # "new"
    BY <1>1, NoneIsNobody DEF Reached
  <2> HIDE DEF m
  <2>2. x.to = w[p] /\ x.type # "answer" /\ x \in Message /\ (x.real <=> w[p] \in rebound)
    BY <1>2, <2>1, ToIs
  <2> QED BY <2>1, <2>2 DEF Fits
<1>5. Fits(m, s, v, rebound, cl) BY <1>1, <1>2 DEF Fits
<1>6. CASE Cardinality(SeenQueues(w, v)) = 1
  <2>1. Puts(w, v, m) = SeenQueues(w, v) \X {m} BY <1>6 DEF Puts
  <2> HIDE DEF m
  <2>2. ms \subseteq {m} BY <2>1 DEF m
  <2>3. IsFiniteSet(ms) BY <2>2, FS_Singleton, FS_Subset
  <2> QED BY <1>5, <2>2, <2>3 DEF m
<1>7. CASE Cardinality(SeenQueues(w, v)) # 1
  <2>1. Puts(w, v, m) = {<<v[w[p]], To(w[p], m, rebound)>> : p \in Reached(w)} BY <1>7 DEF Puts
  <2> HIDE DEF m
  <2>2. ms \subseteq T BY <2>1 DEF m
  <2>3. IsFiniteSet(ms) BY <2>2, <1>3, FS_Subset
  <2> QED BY <1>4, <2>2, <2>3 DEF m
<1> QED BY <1>6, <1>7

\* A queue that nobody reads any more: what answers it had are lost.
LEMMA BlankKeeps ==
    ASSUME NEW s, NEW q, NEW t, NEW l, NEW v, NEW rb, NEW cl, Sound(s, q, l, v, rb, cl),
           t \in Seq(Message), Len(t) <= MaxQueue, Blank(t)
    PROVE  Sound(s, t, l \cup AnswersIn(q), v, rb, cl)
<1>1. All \notin Clients BY RoomStreamAssumption DEF All, Clients
<1>2. Addressed(s, t, v, rb, cl) BY <1>1 DEF Blank, Addressed
<1>3. Awaited(s, t, l \cup AnswersIn(q), v, rb, cl) BY DEF Awaited, Sound
<1>4. Known(t, l \cup AnswersIn(q), cl) BY <1>1 DEF Known, Blank
<1> QED BY <1>2, <1>3, <1>4 DEF Sound

\* There is no answer in it.
LEMMA BlankAnswers ==
    ASSUME NEW q, Blank(q)
    PROVE  AnswersIn(q) = {}
BY DEF Blank, AnswersIn

\* Unread keeps the length only.
LEMMA UnreadIs ==
    ASSUME NEW q, q \in Seq(Message)
    PROVE  Unread(q) \in Seq(Message) /\ Len(Unread(q)) = Len(q) /\ Blank(Unread(q))
<1>1. Plain("news") \in Message /\ Plain("news").to = All /\ Plain("news").type # "answer" /\ ~Plain("news").real
  BY DEF Plain, Message
<1>2. Len(q) \in Nat /\ DOMAIN q = 1..Len(q) OBVIOUS
<1>3. Unread(q) \in [1..Len(q) -> Message] BY <1>1, <1>2 DEF Unread
<1>4. Unread(q) \in Seq(Message) /\ Len(Unread(q)) = Len(q) BY <1>2, <1>3
<1>5. \A i \in DOMAIN Unread(q) : Unread(q)[i] = Plain("news") BY DEF Unread
<1> QED BY <1>1, <1>4, <1>5 DEF Blank

\* Answered is about the stream's queue.
LEMMA AnsweredIs ==
    ASSUME NEW q, NEW s
    PROVE  Answered(q, s) = AnswersIn(q[s])
BY DEF Answered, AnswersIn, ToSet

\* The queues are replaced, and the history has the answers that were in them.
LEMMA QueuedIs ==
    ASSUME NEW q, Queued(q), lost \subseteq Clients, \A s \in Streams : AnswersIn(queue[s]) \subseteq Clients
    PROVE  /\ queue' = q /\ lost \subseteq lost' /\ lost' \subseteq Clients
           /\ \A s \in Streams : AnswersIn(queue[s]) \ AnswersIn(q[s]) \subseteq lost'
<1>1. queue' = q /\ lost' = lost \cup UNION {Answered(queue, s) \ Answered(q, s) : s \in Streams}
  BY DEF Queued
<1>2. \A s \in Streams : /\ Answered(queue, s) = AnswersIn(queue[s])
                         /\ Answered(q, s) = AnswersIn(q[s])
  BY AnsweredIs
<1> QED BY <1>1, <1>2

\* Answers are for clients.
LEMMA AnswersToClients ==
    ASSUME NEW s, NEW q, NEW l, NEW v, NEW rb, NEW cl, Sound(s, q, l, v, rb, cl), rb \subseteq Clients
    PROVE  AnswersIn(q) \subseteq rb /\ AnswersIn(q) \subseteq Clients
BY DEF Sound, Addressed, AnswersIn

\* RoomManager.broadcast keeps every queue sound.
LEMMA BroadcastKeeps ==
    ASSUME NEW w \in [Players -> Clients \cup {None}], NEW v, NEW t \in {"news", "stroke"}, NEW cl, NEW l,
           queue \in [Streams -> Seq(Message)],
           \A s \in Streams : Sound(s, queue[s], l, v, rebound, cl),
           \A s \in Streams : phase[s] # "open" => Blank(queue[s]),
           rebound \subseteq Clients, \A c \in Clients : cl[c] = "filed" => c \in rebound,
           \A p \in Players : w[p] # None => cl[w[p]] # "new",
           NEW q, q = Broadcast(queue, w, v, Plain(t))
    PROVE  /\ q \in [Streams -> Seq(Message)]
           /\ \A s \in Streams :
                 /\ Sound(s, q[s], l \cup (AnswersIn(queue[s]) \ AnswersIn(q[s])), v, rebound, cl)
                 /\ AnswersIn(q[s]) \subseteq AnswersIn(queue[s])
                 /\ phase[s] # "open" => Blank(q[s])
<1>1. ASSUME NEW s \in Streams
      PROVE  /\ q[s] \in Seq(Message)
             /\ Sound(s, q[s], l \cup (AnswersIn(queue[s]) \ AnswersIn(q[s])), v, rebound, cl)
             /\ AnswersIn(q[s]) \subseteq AnswersIn(queue[s])
             /\ phase[s] # "open" => Blank(q[s])
  <2> DEFINE M == {x[2] : x \in {y \in Puts(w, v, Plain(t)) : y[1] = s}}
             ms == SetToSeq(M)
             o == OfferAll(queue[s], ms)
  <2>1. q[s] = Kept(s, o) BY DEF Broadcast, Offered
  <2>2. IsFiniteSet(M) /\ \A m \in M : Fits(m, s, v, rebound, cl) BY PutsFit
  <2> HIDE DEF M
  <2>3. AllFit(ms, s, v, rebound, cl) BY <2>2, SetToSeqIs DEF AllFit
  <2> HIDE DEF ms
  <2>4. /\ Sound(s, o, l \cup (AnswersIn(queue[s]) \ AnswersIn(o)), v, rebound, cl)
        /\ AnswersIn(o) \subseteq AnswersIn(queue[s])
    <3>1. Sound(s, queue[s], l, v, rebound, cl) /\ Filed(rebound, cl) BY DEF Filed
    <3> QED BY <2>3, <3>1, OfferAllKeeps
  <2>5. o \in Seq(Message) /\ Len(o) <= MaxQueue BY <2>4 DEF Sound
  <2> HIDE DEF o
  <2>6. CASE phase[s] = "open"
    <3>1. q[s] = o BY <2>1, <2>6 DEF Kept
    <3> QED BY <2>4, <2>5, <2>6, <3>1
  <2>7. CASE phase[s] # "open"
    <3> DEFINE u == Unread(o)
    <3>1. q[s] = u BY <2>1, <2>7 DEF Kept
    <3>2. u \in Seq(Message) /\ Len(u) <= MaxQueue /\ Blank(u) BY <2>5, UnreadIs
    <3>3. AnswersIn(u) = {} /\ AnswersIn(queue[s]) = {} BY <2>7, <3>2, BlankAnswers
    <3>4. Sound(s, u, l \cup AnswersIn(queue[s]), v, rebound, cl) BY <3>2, BlankKeeps
    <3> QED BY <3>1, <3>2, <3>3, <3>4
  <2> QED BY <2>6, <2>7
<1>2. q = [s \in Streams |-> q[s]] BY DEF Broadcast
<1> QED BY <1>1, <1>2

\* The identity answer is offered, to the id the gateway knows, and the transport
\* is bound: what was put before has the old id, what comes after the new one.
LEMMA AnswerSounds ==
    ASSUME NEW s, NEW q, NEW l, NEW v, NEW rb, NEW cl, Sound(s, q, l, v, rb, cl),
           NEW c \in Clients, c \notin rb, v[c] = s, cl[c] \notin {"new", "filed"}, rb \subseteq Clients,
           NEW o, o = Offer(q, To(c, Plain("answer"), rb))
    PROVE  /\ Sound(s, o, l \cup (AnswersIn(q) \ AnswersIn(o)), v, rb \cup {c}, cl)
           /\ c \notin AnswersIn(q) /\ AnswersIn(o) \subseteq AnswersIn(q) \cup {c}
<1> DEFINE m == To(c, Plain("answer"), rb)
           k == IF Len(q) < MaxQueue THEN q ELSE Tail(q)
           n == Len(k) + 1
           l2 == l \cup (AnswersIn(q) \ AnswersIn(k))
<1>1. q \in Seq(Message) /\ Len(q) <= MaxQueue /\ Len(q) \in Nat /\ MaxQueue \in Nat \ {0}
  BY RoomStreamAssumption DEF Sound
<1>2. m \in Message /\ m.to = c /\ m.type = "answer" /\ ~m.real
  <2>1. Plain("answer") \in Message /\ Plain("answer").type = "answer" BY DEF Plain, Message
  <2>2. m \in Message /\ m.to = c /\ m.type = "answer" BY <2>1, ToIs
  <2>3. m.real <=> c \in rb BY <2>1, ToIs
  <2> QED BY <2>2, <2>3
<1>3. o = Append(k, m) BY <1>2 DEF Offer, Lossy
<1>4. Sound(s, k, l2, v, rb, cl) /\ AnswersIn(k) \subseteq AnswersIn(q) /\ Len(k) < MaxQueue
  <2>1. CASE Len(q) < MaxQueue BY <2>1, LostMore
  <2>2. CASE ~(Len(q) < MaxQueue)
    <3>1. q # <<>> BY <1>1, <2>2
    <3>2. k = Tail(q) BY <2>2
    <3>3. Len(Tail(q)) < MaxQueue BY <1>1, <3>1
    <3> QED BY <3>1, <3>2, <3>3, TailKeeps
  <2> QED BY <2>1, <2>2
<1>5. k \in Seq(Message) /\ Addressed(s, k, v, rb, cl) /\ Awaited(s, k, l2, v, rb, cl) /\ Known(k, l2, cl)
  BY <1>4 DEF Sound
<1> HIDE DEF k, m
<1>6. o \in Seq(Message) /\ Len(o) = n /\ DOMAIN o = 1..n /\ DOMAIN k = 1..(n - 1)
      /\ n \in Nat /\ o[n] = m /\ \A i \in DOMAIN k : o[i] = k[i]
  BY <1>2, <1>3, <1>5
<1>7. \A i \in DOMAIN o : (i \in DOMAIN k /\ i # n /\ i < n /\ o[i] = k[i]) \/ (i = n /\ o[i] = m) BY <1>6
<1>8. DOMAIN k \subseteq DOMAIN o /\ n \notin DOMAIN k /\ n \in DOMAIN o BY <1>6
<1>9. Len(o) <= MaxQueue BY <1>1, <1>4, <1>5, <1>6
<1> HIDE DEF n
<1>10. \A i \in DOMAIN k : ~(k[i].type = "answer" /\ k[i].to = c) /\ (k[i].to = c => ~k[i].real)
  BY <1>5 DEF Addressed
<1>11. AnswersIn(o) = AnswersIn(k) \cup {c} BY <1>2, <1>6, <1>7, <1>8 DEF AnswersIn
<1>12. c \notin AnswersIn(q) BY AnswersToClients
<1>13. l2 \subseteq l \cup (AnswersIn(q) \ AnswersIn(o)) BY <1>4, <1>11, <1>12
<1>14. Addressed(s, o, v, rb \cup {c}, cl)
  BY <1>2, <1>5, <1>7, <1>10 DEF Addressed
<1>15. Awaited(s, o, l2, v, rb \cup {c}, cl) BY <1>5, <1>11 DEF Awaited
<1>16. Known(o, l2, cl)
  <2> SUFFICES ASSUME NEW i \in DOMAIN o,
                      o[i].to \in Clients, cl[o[i].to] # "gone", o[i].to \notin l2
               PROVE  o[i].real <=> cl[o[i].to] = "filed" \/ AnswerBefore(o, i, o[i].to)
    BY DEF Known
  <2>1. CASE i \in DOMAIN k
    <3>1. o[i] = k[i] /\ i < n BY <1>7, <1>8, <2>1
    <3>2. k[i].real <=> cl[o[i].to] = "filed" \/ AnswerBefore(k, i, o[i].to) BY <1>5, <2>1, <3>1 DEF Known
    <3>3. AnswerBefore(k, i, o[i].to) <=> AnswerBefore(o, i, o[i].to)
      <4>1. i \in Nat /\ n \in Nat BY <1>6, <2>1
      <4> QED BY <3>1, <4>1, <1>7, <1>8 DEF AnswerBefore
    <3> QED BY <3>1, <3>2, <3>3
  <2>2. CASE i = n
    <3>1. o[i].to = c /\ ~o[i].real BY <1>2, <1>6, <2>2
    <3>2. ~AnswerBefore(o, i, c)
      <4> SUFFICES ASSUME NEW j \in DOMAIN o, j < n, o[j].type = "answer", o[j].to = c PROVE FALSE
        BY <2>2 DEF AnswerBefore
      <4>1. j \in DOMAIN k /\ o[j] = k[j] BY <1>6, <1>7
      <4> QED BY <1>10, <4>1
    <3> QED BY <3>1, <3>2
  <2> QED BY <1>7, <2>1, <2>2
<1>17. Sound(s, o, l2, v, rb \cup {c}, cl) BY <1>6, <1>9, <1>14, <1>15, <1>16 DEF Sound
<1> QED BY <1>4, <1>11, <1>12, <1>13, <1>17, LostMore

\* The sessions of clients the queue has nothing for may change.
LEMMA SessionsKeep ==
    ASSUME NEW s, NEW q, NEW l, NEW v, NEW v2, NEW rb, NEW rb2, NEW cl, NEW cl2, Sound(s, q, l, v, rb, cl),
           \A c \in Clients : \/ v2[c] = v[c] /\ (c \in rb2 <=> c \in rb) /\ cl2[c] = cl[c]
                              \/ (v[c] # s \/ cl[c] = "new") /\ (v2[c] # s \/ c \notin rb2),
           rb \subseteq Clients, rb2 \subseteq Clients
    PROVE  Sound(s, q, l, v2, rb2, cl2)
<1>1. q \in Seq(Message) /\ Len(q) <= MaxQueue /\ Addressed(s, q, v, rb, cl)
      /\ Awaited(s, q, l, v, rb, cl) /\ Known(q, l, cl)
  BY DEF Sound
<1>2. \A i \in DOMAIN q : q[i].to \in Clients =>
         LET c == q[i].to IN v2[c] = v[c] /\ (c \in rb2 <=> c \in rb) /\ cl2[c] = cl[c]
  BY <1>1 DEF Addressed
<1>3. Addressed(s, q, v2, rb2, cl2) BY <1>1, <1>2 DEF Addressed
<1>4. Awaited(s, q, l, v2, rb2, cl2) BY <1>1 DEF Awaited
<1>5. Known(q, l, cl2) BY <1>1, <1>2 DEF Known
<1> QED BY <1>1, <1>3, <1>4, <1>5 DEF Sound

\* A client goes: nothing is asked of its messages any more.
LEMMA GoneKeeps ==
    ASSUME NEW s, NEW q, NEW l, NEW v, NEW rb, NEW cl, Sound(s, q, l, v, rb, cl), NEW c \in Clients,
           DOMAIN cl = Clients
    PROVE  Sound(s, q, l, v, rb, [cl EXCEPT ![c] = "gone"])
<1> DEFINE cl2 == [cl EXCEPT ![c] = "gone"]
<1>1. q \in Seq(Message) /\ Len(q) <= MaxQueue /\ Addressed(s, q, v, rb, cl)
      /\ Awaited(s, q, l, v, rb, cl) /\ Known(q, l, cl)
  BY DEF Sound
<1>2. cl2[c] = "gone" /\ \A d : d # c => cl2[d] = cl[d] OBVIOUS
<1> HIDE DEF cl2
<1>3. Addressed(s, q, v, rb, cl2) BY <1>1, <1>2 DEF Addressed
<1>4. Awaited(s, q, l, v, rb, cl2) BY <1>1, <1>2 DEF Awaited
<1>5. Known(q, l, cl2) BY <1>1, <1>2 DEF Known
<1> QED BY <1>1, <1>3, <1>4, <1>5 DEF Sound, cl2

\* The gateway reads the answer and files the session.
LEMMA FiledKeeps ==
    ASSUME NEW s, NEW q, NEW l, NEW v, NEW rb, NEW cl, Sound(s, q, l, v, rb, cl), q # <<>>,
           rb \subseteq Clients, DOMAIN cl = Clients, NEW c, c = Head(q).to,
           Head(q).type = "answer", cl[c] = "pending"
    PROVE  Sound(s, Tail(q), l, v, rb, [cl EXCEPT ![c] = "filed"])
<1> DEFINE t == Tail(q)
           cl2 == [cl EXCEPT ![c] = "filed"]
           l2 == l \cup (AnswersIn(q) \ AnswersIn(t))
<1>1. q \in Seq(Message) /\ Len(q) <= MaxQueue /\ Addressed(s, q, v, rb, cl)
      /\ Awaited(s, q, l, v, rb, cl) /\ Known(q, l, cl)
  BY DEF Sound
<1>2. t \in Seq(Message) /\ DOMAIN t = 1..(Len(q) - 1) /\ DOMAIN q = 1..Len(q) /\ Head(q) = q[1]
      /\ Len(q) \in Nat /\ Len(q) # 0 /\ Len(t) = Len(q) - 1 /\ \A i \in 1..(Len(q) - 1) : t[i] = q[i + 1]
  BY <1>1
<1>3. \A i \in DOMAIN t : i + 1 \in DOMAIN q /\ t[i] = q[i + 1] /\ i + 1 # 1 /\ i \in Nat BY <1>2
<1>4. 1 \in DOMAIN q /\ c = q[1].to /\ q[1].type = "answer" BY <1>2
<1>5. c \in rb /\ c \in Clients BY <1>1, <1>4 DEF Addressed
<1>6. \A i \in DOMAIN t : ~(t[i].type = "answer" /\ t[i].to = c) BY <1>1, <1>3, <1>4 DEF Addressed
<1>7. Sound(s, t, l2, v, rb, cl) BY TailKeeps
<1>8. AnswersIn(q) \ AnswersIn(t) \subseteq {c}
  <2> SUFFICES ASSUME NEW d \in AnswersIn(q), d # c PROVE d \in AnswersIn(t) OBVIOUS
  <2>1. PICK j \in DOMAIN q : q[j].type = "answer" /\ q[j].to = d BY DEF AnswersIn
  <2>2. j # 1 BY <1>4, <2>1
  <2>3. j - 1 \in DOMAIN t /\ t[j - 1] = q[j] BY <1>2, <2>2
  <2> QED BY <2>1, <2>3 DEF AnswersIn
<1>9. cl2[c] = "filed" /\ \A d : d # c => cl2[d] = cl[d] BY <1>5
<1> HIDE DEF t, cl2, l2
<1>10. Addressed(s, t, v, rb, cl2)
  <2>1. Addressed(s, t, v, rb, cl) BY <1>7 DEF Sound
  <2> QED BY <1>6, <1>9, <2>1 DEF Addressed
<1>11. Awaited(s, t, l, v, rb, cl2)
  <2>1. Awaited(s, t, l2, v, rb, cl) BY <1>7 DEF Sound
  <2> QED BY <1>8, <1>9, <2>1 DEF Awaited, l2
<1>12. Known(t, l, cl2)
  <2> SUFFICES ASSUME NEW i \in DOMAIN t,
                      t[i].to \in Clients, cl2[t[i].to] # "gone", t[i].to \notin l
               PROVE  t[i].real <=> cl2[t[i].to] = "filed" \/ AnswerBefore(t, i, t[i].to)
    BY DEF Known
  <2>1. CASE t[i].to = c
    <3>1. AnswerBefore(q, i + 1, c)
      <4>1. 1 < i + 1 BY <1>2, <1>3
      <4> QED BY <1>4, <4>1 DEF AnswerBefore
    <3>2. t[i].real BY <1>1, <1>3, <2>1, <3>1 DEF Known
    <3> QED BY <1>9, <2>1, <3>2
  <2>2. CASE t[i].to # c
    <3>1. Known(t, l2, cl) BY <1>7 DEF Sound
    <3>2. t[i].to \notin l2 BY <1>8, <2>2 DEF l2
    <3> QED BY <1>9, <2>2, <3>1, <3>2 DEF Known
  <2> QED BY <2>1, <2>2
<1>13. Len(t) <= MaxQueue BY <1>1, <1>2, RoomStreamAssumption
<1> QED BY <1>2, <1>10, <1>11, <1>12, <1>13 DEF Sound, t, cl2

\* A message that is no answer is read, or one for a client that is gone.
LEMMA YieldKeeps ==
    ASSUME NEW s, NEW q, NEW l, NEW v, NEW rb, NEW cl, Sound(s, q, l, v, rb, cl), q # <<>>,
           rb \subseteq Clients, cl \in [Clients -> {"new", "pending", "filed", "gone"}],
           ~(Head(q).type = "answer" /\ cl[Head(q).to] = "pending")
    PROVE  Sound(s, Tail(q), l, v, rb, cl)
<1> DEFINE t == Tail(q)
           l2 == l \cup (AnswersIn(q) \ AnswersIn(t))
<1>1. q \in Seq(Message) /\ Addressed(s, q, v, rb, cl) BY DEF Sound
<1>2. Sound(s, t, l2, v, rb, cl) BY TailKeeps
<1>3. DOMAIN t = 1..(Len(q) - 1) /\ DOMAIN q = 1..Len(q) /\ Head(q) = q[1]
      /\ Len(q) \in Nat /\ Len(q) # 0 /\ \A i \in 1..(Len(q) - 1) : t[i] = q[i + 1]
  BY <1>1
<1> HIDE DEF t
<1>4. \A d \in AnswersIn(q) \ AnswersIn(t) : d \in Clients /\ cl[d] = "gone"
  <2> SUFFICES ASSUME NEW d \in AnswersIn(q), d \notin AnswersIn(t) PROVE d \in Clients /\ cl[d] = "gone" OBVIOUS
  <2>1. PICK j \in DOMAIN q : q[j].type = "answer" /\ q[j].to = d BY DEF AnswersIn
  <2>2. CASE j = 1
    <3>1. d \in Clients /\ cl[d] # "filed" /\ cl[d] # "new" BY <1>1, <2>1 DEF Addressed
    <3>2. cl[d] # "pending" BY <1>3, <2>1, <2>2
    <3> QED BY <3>1, <3>2
  <2>3. CASE j # 1
    <3>1. j - 1 \in DOMAIN t /\ t[j - 1] = q[j] BY <1>3, <2>3
    <3> QED BY <2>1, <3>1 DEF AnswersIn
  <2> QED BY <2>2, <2>3
<1>5. Awaited(s, t, l, v, rb, cl) BY <1>2, <1>4 DEF Sound, Awaited
<1>6. Known(t, l, cl) BY <1>2, <1>4 DEF Sound, Known
<1> QED BY <1>2, <1>5, <1>6 DEF Sound, t

-----------------------------------------------------------------------------
(* What the steps do to the queues.                                        *)

\* Steps after which nobody new is connected or asks.
LEMMA StagesKeep ==
    ASSUME Typed, Stages, UNCHANGED <<rebound, client>>,
           \A s \in Streams : asking'[s] \in {asking[s], None},
           \A p \in Players : ws'[p] \in {ws[p], None}
    PROVE  Stages'
BY DEF Stages, Typed

\* Steps that leave the queues alone, and open no stream that was not idle.
LEMMA IdleStep ==
    ASSUME QueueInv, Stages', UNCHANGED <<queue, lost, via, rebound, client>>, events' \in 0..MaxEvents,
           \A s \in Streams : phase'[s] # "open" => phase[s] # "open"
    PROVE  QueueInv'
BY DEF QueueInv

\* A broadcast to ws' over via', whatever else the step does to sessions and
\* transports: before it the queues are sound for them.
LEMMA BroadcastStep ==
    ASSUME QueueInv, Typed', Stages', UNCHANGED <<phase, rebound>>, events' \in 0..MaxEvents,
           NEW t \in {"news", "stroke"}, Queued(Broadcast(queue, ws', via', Plain(t))),
           \A s \in Streams : Sound(s, queue[s], lost, via', rebound, client')
    PROVE  QueueInv'
<1> DEFINE q == Broadcast(queue, ws', via', Plain(t))
<1>1. rebound \subseteq Clients /\ ws' \in [Players -> Clients \cup {None}] BY DEF Typed
<1>2. /\ \A c \in Clients : client'[c] = "filed" => c \in rebound
      /\ \A p \in Players : ws'[p] # None => client'[ws'[p]] # "new"
  BY DEF Stages
<1>3. /\ queue \in [Streams -> Seq(Message)] /\ lost \subseteq Clients
      /\ \A s \in Streams : phase[s] # "open" => Blank(queue[s])
  BY DEF QueueInv
<1>4. /\ q \in [Streams -> Seq(Message)]
      /\ \A s \in Streams :
            /\ Sound(s, q[s], lost \cup (AnswersIn(queue[s]) \ AnswersIn(q[s])), via', rebound, client')
            /\ AnswersIn(q[s]) \subseteq AnswersIn(queue[s])
            /\ phase[s] # "open" => Blank(q[s])
  BY <1>1, <1>2, <1>3, BroadcastKeeps
<1>5. \A s \in Streams : AnswersIn(queue[s]) \subseteq Clients BY <1>1, AnswersToClients
<1>6. Queued(q) OBVIOUS
<1> HIDE DEF q
<1>7. /\ queue' = q /\ lost \subseteq lost' /\ lost' \subseteq Clients
      /\ \A s \in Streams : AnswersIn(queue[s]) \ AnswersIn(q[s]) \subseteq lost'
  BY <1>3, <1>5, <1>6, QueuedIs
<1>8. \A s \in Streams : Sound(s, q[s], lost', via', rebound, client')
  <2> SUFFICES ASSUME NEW s \in Streams PROVE Sound(s, q[s], lost', via', rebound, client') OBVIOUS
  <2> DEFINE l2 == lost \cup (AnswersIn(queue[s]) \ AnswersIn(q[s]))
  <2>1. Sound(s, q[s], l2, via', rebound, client') BY <1>4
  <2>2. l2 \subseteq lost' BY <1>7
  <2> HIDE DEF l2
  <2> QED BY <2>1, <2>2, LostMore
<1> QED BY <1>4, <1>7, <1>8 DEF QueueInv

\* Commands and timers that tell the room something.
LEMMA TellQueues ==
    ASSUME RoomStreamInv, RoomStreamInv', QueueInv, Tell
    PROVE  QueueInv'
<1>1. Typed /\ Typed' BY DEF RoomStreamInv
<1>2. PICK t \in {"news", "stroke"} : Say(Plain(t)) BY DEF Tell
<1>3. /\ UNCHANGED <<phase, inbound, asking, transports, ws, via, rebound, client>>
      /\ events < MaxEvents /\ events' = events + 1
      /\ Queued(Broadcast(queue, ws, via, Plain(t)))
  BY <1>2 DEF Say, Event
<1>4. events' \in 0..MaxEvents BY <1>3, RoomStreamAssumption DEF QueueInv
<1>5. Stages' BY <1>1, <1>3, StagesKeep DEF QueueInv
<1>6. \A s \in Streams : Sound(s, queue[s], lost, via', rebound, client') BY <1>3 DEF QueueInv
<1>7. Queued(Broadcast(queue, ws', via', Plain(t))) BY <1>3
<1> QED BY <1>1, <1>3, <1>4, <1>5, <1>6, <1>7, BroadcastStep

\* handle_disconnect of p by the clean-up.
LEMMA CleanupQueues ==
    ASSUME RoomStreamInv, RoomStreamInv', QueueInv, NEW s \in Streams, NEW p \in Players, Cleanup(s, p)
    PROVE  QueueInv'
<1>1. Typed /\ Typed' BY DEF RoomStreamInv
<1>2. /\ UNCHANGED <<phase, asking, via, rebound, client, events>>
      /\ ws' = [ws EXCEPT ![p] = None]
      /\ Queued(Broadcast(queue, [ws EXCEPT ![p] = None], via, Plain("news")))
  BY DEF Cleanup, Disconnected
<1>3. \A r \in Players : ws'[r] \in {ws[r], None} BY <1>1, <1>2 DEF Typed
<1>4. Stages' BY <1>1, <1>2, <1>3, StagesKeep DEF QueueInv
<1>5. events' \in 0..MaxEvents BY <1>2 DEF QueueInv
<1>6. \A u \in Streams : Sound(u, queue[u], lost, via', rebound, client') BY <1>2 DEF QueueInv
<1>7. Queued(Broadcast(queue, ws', via', Plain("news"))) BY <1>2
<1> QED BY <1>1, <1>2, <1>4, <1>5, <1>6, <1>7, BroadcastStep

\* A client's connection closes.
LEMMA ClientGoneQueues ==
    ASSUME RoomStreamInv, RoomStreamInv', QueueInv, NEW c \in Clients, ClientGone(c)
    PROVE  QueueInv'
<1>1. Typed /\ Typed' BY DEF RoomStreamInv
<1>2. /\ UNCHANGED <<phase, asking, via, rebound>> /\ client[c] \in {"pending", "filed"}
      /\ client' = [client EXCEPT ![c] = "gone"] /\ events < MaxEvents /\ events' = events + 1
      /\ \/ Disconnected(Who[c])
         \/ UNCHANGED <<ws, queue, lost>>
  BY DEF ClientGone, Event
<1>3. events' \in 0..MaxEvents BY <1>2, RoomStreamAssumption DEF QueueInv
<1>4. \A u \in Streams : Sound(u, queue[u], lost, via', rebound, client')
  <2>1. DOMAIN client = Clients BY <1>1 DEF Typed
  <2>2. \A u \in Streams : Sound(u, queue[u], lost, via, rebound, client) BY DEF QueueInv
  <2>3. \A u \in Streams : Sound(u, queue[u], lost, via, rebound, [client EXCEPT ![c] = "gone"])
    BY <2>1, <2>2, GoneKeeps
  <2> QED BY <1>2, <2>3
<1>5. client'[c] = "gone" /\ \A d \in Clients : d # c => client'[d] = client[d] BY <1>1, <1>2 DEF Typed
<1>6. ASSUME \A p \in Players : ws'[p] \in {ws[p], None} PROVE Stages'
  BY <1>1, <1>2, <1>5, <1>6 DEF Stages, QueueInv, Typed
<1>7. CASE Disconnected(Who[c])
  <2>1. /\ ws' = [ws EXCEPT ![Who[c]] = None]
        /\ Queued(Broadcast(queue, [ws EXCEPT ![Who[c]] = None], via, Plain("news")))
    BY <1>7 DEF Disconnected
  <2>2. \A p \in Players : ws'[p] \in {ws[p], None} BY <1>1, <2>1 DEF Typed
  <2>3. Queued(Broadcast(queue, ws', via', Plain("news"))) BY <1>2, <2>1
  <2> QED BY <1>1, <1>2, <1>3, <1>4, <1>6, <2>2, <2>3, BroadcastStep
<1>8. CASE UNCHANGED <<ws, queue, lost>>
  <2>1. Stages' BY <1>6, <1>8
  <2> QED BY <1>2, <1>3, <1>4, <1>8, <2>1 DEF QueueInv
<1> QED BY <1>2, <1>7, <1>8

\* An identity call arrives: there is nothing in the queues for a new client.
LEMMA AskQueues ==
    ASSUME RoomStreamInv, RoomStreamInv', QueueInv, NEW s \in Streams, NEW c \in Clients, Ask(s, c)
    PROVE  QueueInv'
<1>1. Typed /\ Typed' BY DEF RoomStreamInv
<1>2. /\ client[c] = "new" /\ client' = [client EXCEPT ![c] = "pending"]
      /\ asking' = [asking EXCEPT ![s] = c] /\ via' = [via EXCEPT ![c] = s]
      /\ ws' = [ws EXCEPT ![Who[c]] = c] /\ UNCHANGED <<phase, rebound, events>>
      /\ \/ Queued(Broadcast(queue, [ws EXCEPT ![Who[c]] = c], [via EXCEPT ![c] = s], Plain("news")))
         \/ UNCHANGED <<queue, lost>>
  BY DEF Ask
<1>3. Who[c] \in Players BY NoneIsNobody
<1>4. /\ via'[c] = s /\ client'[c] = "pending" /\ ws'[Who[c]] = c
      /\ \A d \in Clients : d # c => via'[d] = via[d] /\ client'[d] = client[d]
      /\ \A p \in Players : p # Who[c] => ws'[p] = ws[p]
      /\ asking'[s] = c /\ \A u \in Streams : u # s => asking'[u] = asking[u]
  BY <1>1, <1>2, <1>3 DEF Typed
<1>5. c \notin rebound /\ rebound \subseteq Clients BY <1>1, <1>2 DEF QueueInv, Stages, Typed
<1>6. \A u \in Streams : Sound(u, queue[u], lost, via', rebound, client')
  <2>1. \A u \in Streams : Sound(u, queue[u], lost, via, rebound, client) BY DEF QueueInv
  <2>2. ASSUME NEW u \in Streams, NEW d \in Clients
        PROVE  \/ via'[d] = via[d] /\ (d \in rebound <=> d \in rebound) /\ client'[d] = client[d]
               \/ (via[d] # u \/ client[d] = "new") /\ (via'[d] # u \/ d \notin rebound)
    BY <1>2, <1>4, <1>5
  <2> QED BY <1>5, <2>1, <2>2, SessionsKeep
<1>7. Stages'
  <2>1. Stages BY DEF QueueInv
  <2>2. \A d \in Clients : /\ client'[d] = "filed" => d \in rebound'
                           /\ client'[d] = "new" => d \notin rebound'
    BY <1>2, <1>4, <2>1 DEF Stages
  <2>3. \A u \in Streams : asking'[u] # None => asking'[u] \notin rebound'
    BY <1>2, <1>4, <1>5, <2>1 DEF Stages
  <2>4. ASSUME NEW p \in Players, ws'[p] # None PROVE client'[ws'[p]] # "new"
    <3>1. CASE p = Who[c] BY <1>4, <3>1
    <3>2. CASE p # Who[c]
      <4>1. ws'[p] = ws[p] /\ ws[p] \in Clients BY <1>1, <1>4, <2>4, <3>2 DEF Typed
      <4> QED BY <1>4, <2>1, <2>4, <4>1 DEF Stages
    <3> QED BY <3>1, <3>2
  <2> QED BY <2>2, <2>3, <2>4 DEF Stages
<1>8. events' \in 0..MaxEvents BY <1>2 DEF QueueInv
<1>9. CASE Queued(Broadcast(queue, [ws EXCEPT ![Who[c]] = c], [via EXCEPT ![c] = s], Plain("news")))
  <2>1. Queued(Broadcast(queue, ws', via', Plain("news"))) BY <1>2, <1>9
  <2> QED BY <1>1, <1>2, <1>6, <1>7, <1>8, <2>1, BroadcastStep
<1>10. CASE UNCHANGED <<queue, lost>>
  BY <1>2, <1>6, <1>7, <1>8, <1>10 DEF QueueInv
<1> QED BY <1>2, <1>9, <1>10

\* The identity call returns: player list, answer, and only then the real id.
LEMMA AnswerQueues ==
    ASSUME RoomStreamInv, RoomStreamInv', QueueInv, NEW s \in Streams, Answer(s)
    PROVE  QueueInv'
<1> DEFINE c == asking[s]
           b == Broadcast(queue, ws, via, Plain("news"))
           o == Offer(b[s], To(c, Plain("answer"), rebound))
           q == [b EXCEPT ![s] = o]
<1>1. Typed /\ Typed' /\ Identified BY DEF RoomStreamInv
<1>2. /\ inbound[s] = "asking" /\ asking' = [asking EXCEPT ![s] = None]
      /\ Queued(q) /\ rebound' = rebound \cup {c}
      /\ UNCHANGED <<phase, ws, via, events, client>> /\ phase[s] = "open"
  BY DEF Answer
<1>3. c \in Clients /\ via[c] = s /\ client[c] # "new" BY <1>1, <1>2 DEF Typed, Identified
<1>4. c # None /\ c \notin rebound /\ client[c] # "filed" /\ rebound \subseteq Clients
  BY <1>1, <1>3, NoneIsNobody DEF QueueInv, Stages, Typed
<1>5. /\ queue \in [Streams -> Seq(Message)] /\ lost \subseteq Clients
      /\ \A u \in Streams : Sound(u, queue[u], lost, via, rebound, client)
      /\ \A u \in Streams : phase[u] # "open" => Blank(queue[u])
  BY DEF QueueInv
<1>6. /\ b \in [Streams -> Seq(Message)]
      /\ \A u \in Streams :
            /\ Sound(u, b[u], lost \cup (AnswersIn(queue[u]) \ AnswersIn(b[u])), via, rebound, client)
            /\ AnswersIn(b[u]) \subseteq AnswersIn(queue[u])
            /\ phase[u] # "open" => Blank(b[u])
  <2>1. ws \in [Players -> Clients \cup {None}] BY <1>1 DEF Typed
  <2>2. /\ \A d \in Clients : client[d] = "filed" => d \in rebound
        /\ \A p \in Players : ws[p] # None => client[ws[p]] # "new"
    BY DEF QueueInv, Stages
  <2> QED BY <1>4, <1>5, <2>1, <2>2, BroadcastKeeps
<1>7. \A u \in Streams : AnswersIn(queue[u]) \subseteq Clients /\ AnswersIn(queue[u]) \subseteq rebound
  BY <1>4, <1>5, AnswersToClients
<1> HIDE DEF c, b
<1>8. /\ Sound(s, o, (lost \cup (AnswersIn(queue[s]) \ AnswersIn(b[s]))) \cup (AnswersIn(b[s]) \ AnswersIn(o)),
               via, rebound', client)
      /\ AnswersIn(o) \subseteq AnswersIn(b[s]) \cup {c}
  <2> DEFINE l1 == lost \cup (AnswersIn(queue[s]) \ AnswersIn(b[s]))
  <2>1. Sound(s, b[s], l1, via, rebound, client) BY <1>6
  <2> HIDE DEF l1
  <2>2. /\ Sound(s, o, l1 \cup (AnswersIn(b[s]) \ AnswersIn(o)), via, rebound \cup {c}, client)
        /\ AnswersIn(o) \subseteq AnswersIn(b[s]) \cup {c}
    BY <1>3, <1>4, <2>1, AnswerSounds
  <2> QED BY <1>2, <2>2 DEF l1
<1> HIDE DEF o
<1>9. q \in [Streams -> Seq(Message)] /\ q[s] = o /\ \A u \in Streams : u # s => q[u] = b[u]
  <2>1. o \in Seq(Message) BY <1>8 DEF Sound
  <2> QED BY <1>6, <2>1
<1> HIDE DEF q
<1>10. /\ queue' = q /\ lost \subseteq lost' /\ lost' \subseteq Clients
       /\ \A u \in Streams : AnswersIn(queue[u]) \ AnswersIn(q[u]) \subseteq lost'
  BY <1>2, <1>5, <1>7, QueuedIs
<1>11. Sound(s, q[s], lost', via, rebound', client)
  <2> DEFINE l2 == (lost \cup (AnswersIn(queue[s]) \ AnswersIn(b[s]))) \cup (AnswersIn(b[s]) \ AnswersIn(o))
  <2>1. AnswersIn(b[s]) \subseteq AnswersIn(queue[s]) /\ c \notin AnswersIn(queue[s]) BY <1>4, <1>6, <1>7
  <2>2. l2 \subseteq lost' BY <1>8, <1>9, <1>10, <2>1
  <2>3. Sound(s, q[s], l2, via, rebound', client) BY <1>8, <1>9
  <2> HIDE DEF l2
  <2> QED BY <2>2, <2>3, LostMore
<1>12. ASSUME NEW u \in Streams, u # s PROVE Sound(u, q[u], lost', via, rebound', client)
  <2> DEFINE l2 == lost \cup (AnswersIn(queue[u]) \ AnswersIn(b[u]))
  <2>1. Sound(u, b[u], l2, via, rebound, client) BY <1>6
  <2>2. l2 \subseteq lost' BY <1>9, <1>10, <1>12
  <2> HIDE DEF l2
  <2>3. Sound(u, b[u], lost', via, rebound, client) BY <2>1, <2>2, LostMore
  <2>4. rebound' \subseteq Clients BY <1>2, <1>3, <1>4
  <2>5. \A d \in Clients : \/ via[d] = via[d] /\ (d \in rebound' <=> d \in rebound) /\ client[d] = client[d]
                           \/ (via[d] # u \/ client[d] = "new") /\ (via[d] # u \/ d \notin rebound')
    BY <1>2, <1>3, <1>12
  <2>6. Sound(u, b[u], lost', via, rebound', client) BY <1>4, <2>3, <2>4, <2>5, SessionsKeep
  <2> QED BY <1>9, <1>12, <2>6
<1>13. Stages'
  <2>1. Stages BY DEF QueueInv
  <2>2. \A d \in Clients : /\ client'[d] = "filed" => d \in rebound'
                           /\ client'[d] = "new" => d \notin rebound'
    BY <1>2, <1>3, <2>1 DEF Stages
  <2>3. ASSUME NEW u \in Streams, asking'[u] # None PROVE asking'[u] \notin rebound'
    <3>1. u # s /\ asking'[u] = asking[u] /\ asking[u] # None BY <1>1, <1>2, <2>3 DEF Typed
    <3>2. via[asking[u]] = u BY <1>1, <3>1 DEF Identified
    <3>3. asking[u] # c BY <1>3, <3>1, <3>2
    <3>4. asking[u] \notin rebound BY <2>1, <3>1 DEF Stages
    <3> QED BY <1>2, <3>1, <3>3, <3>4
  <2>4. \A p \in Players : ws'[p] # None => client'[ws'[p]] # "new" BY <1>2, <2>1 DEF Stages
  <2> QED BY <2>2, <2>3, <2>4 DEF Stages
<1>14. \A u \in Streams : phase'[u] # "open" => Blank(queue'[u]) BY <1>2, <1>6, <1>9, <1>10
<1>15. \A u \in Streams : Sound(u, queue'[u], lost', via', rebound', client')
  BY <1>2, <1>10, <1>11, <1>12
<1>16. events' \in 0..MaxEvents BY <1>2 DEF QueueInv
<1> QED BY <1>9, <1>10, <1>13, <1>14, <1>15, <1>16 DEF QueueInv

\* One queue is replaced, by a step that changes no session and no transport.
LEMMA OneQueue ==
    ASSUME QueueInv, Stages', UNCHANGED <<via, rebound>>, events' \in 0..MaxEvents,
           NEW s \in Streams, NEW k, queue' = [queue EXCEPT ![s] = k],
           Sound(s, k, lost', via, rebound, client'), phase'[s] # "open" => Blank(k),
           \A u \in Streams : u # s => /\ Sound(u, queue[u], lost', via, rebound, client')
                                       /\ phase'[u] # "open" => phase[u] # "open",
           lost' \subseteq Clients
    PROVE  QueueInv'
<1>1. k \in Seq(Message) BY DEF Sound
<1>2. queue' \in [Streams -> Seq(Message)] /\ queue'[s] = k /\ \A u \in Streams : u # s => queue'[u] = queue[u]
  BY <1>1 DEF QueueInv
<1>3. \A u \in Streams : Sound(u, queue'[u], lost', via', rebound', client') BY <1>2
<1>4. \A u \in Streams : phase'[u] # "open" => Blank(queue'[u]) BY <1>2 DEF QueueInv
<1> QED BY <1>2, <1>3, <1>4 DEF QueueInv

\* A command that answers its sender only.
LEMMA ReplyQueues ==
    ASSUME RoomStreamInv, QueueInv, NEW s \in Streams, NEW c \in Clients, Reply(s, c)
    PROVE  QueueInv'
<1> DEFINE m == To(c, Plain("news"), rebound)
           o == Offer(queue[s], m)
           q == [queue EXCEPT ![s] = o]
<1>1. Typed BY DEF RoomStreamInv
<1>2. /\ phase[s] = "open" /\ client[c] \in {"pending", "filed"} /\ via[c] = s
      /\ events < MaxEvents /\ events' = events + 1 /\ Queued(q)
      /\ UNCHANGED <<phase, asking, ws, via, rebound, client>>
  BY DEF Reply, Reading, Event
<1>3. rebound \subseteq Clients /\ Filed(rebound, client) BY <1>1 DEF Typed, Filed, QueueInv, Stages
<1>4. Fits(m, s, via, rebound, client)
  <2>1. Plain("news") \in Message /\ Plain("news").type = "news" BY DEF Plain, Message
  <2>2. m \in Message /\ m.to = c /\ m.type = "news" /\ (m.real <=> c \in rebound) BY <2>1, ToIs
  <2> QED BY <1>2, <2>2 DEF Fits
<1>5. /\ queue \in [Streams -> Seq(Message)] /\ lost \subseteq Clients
      /\ \A u \in Streams : Sound(u, queue[u], lost, via, rebound, client)
  BY DEF QueueInv
<1>6. Sound(s, o, lost \cup (AnswersIn(queue[s]) \ AnswersIn(o)), via, rebound, client)
  <2>1. Sound(s, queue[s], lost, via, rebound, client) BY <1>5
  <2> HIDE DEF m
  <2> QED BY <1>3, <1>4, <2>1, OfferKeeps
<1>7. \A u \in Streams : AnswersIn(queue[u]) \subseteq Clients BY <1>3, <1>5, AnswersToClients
<1> HIDE DEF o
<1>8. q[s] = o BY <1>5
<1>9. /\ queue' = q /\ lost \subseteq lost' /\ lost' \subseteq Clients
      /\ AnswersIn(queue[s]) \ AnswersIn(o) \subseteq lost'
  <2> HIDE DEF q
  <2> QED BY <1>2, <1>5, <1>7, <1>8, QueuedIs
<1>10. Sound(s, o, lost', via, rebound, client)
  <2> DEFINE l2 == lost \cup (AnswersIn(queue[s]) \ AnswersIn(o))
  <2>1. Sound(s, o, l2, via, rebound, client) /\ l2 \subseteq lost' BY <1>6, <1>9
  <2> HIDE DEF l2
  <2> QED BY <2>1, LostMore
<1>11. \A u \in Streams : Sound(u, queue[u], lost', via, rebound, client) BY <1>5, <1>9, LostMore
<1>12. events' \in 0..MaxEvents BY <1>2, RoomStreamAssumption DEF QueueInv
<1>13. Stages' BY <1>1, <1>2, StagesKeep DEF QueueInv
<1> QED BY <1>2, <1>9, <1>10, <1>11, <1>12, <1>13, OneQueue

\* The blocking puts of the inbound task: an error, the sentinel.
LEMMA PutQueues ==
    ASSUME RoomStreamInv, QueueInv, NEW s \in Streams, PutError(s) \/ PutEnd(s)
    PROVE  QueueInv'
<1>1. Typed BY DEF RoomStreamInv
<1>2. PICK t \in {"news", "end"} :
         /\ Len(queue[s]) < MaxQueue /\ queue' = [queue EXCEPT ![s] = Kept(s, Append(queue[s], Plain(t)))]
         /\ UNCHANGED <<phase, asking, ws, via, rebound, events, client, lost>>
  <2>1. CASE PutError(s) BY <2>1 DEF PutError, Kept
  <2>2. CASE PutEnd(s) BY <2>2 DEF PutEnd
  <2> QED BY <2>1, <2>2
<1> DEFINE m == Plain(t)
           a == Append(queue[s], m)
           k == Kept(s, a)
<1>3. rebound \subseteq Clients /\ Filed(rebound, client) BY <1>1 DEF Typed, Filed, QueueInv, Stages
<1>4. Fits(m, s, via, rebound, client)
  <2>1. m \in Message /\ m.type # "answer" /\ m.to = All /\ m.real = FALSE BY DEF Plain, Message
  <2>2. All \notin Clients BY RoomStreamAssumption DEF All, Clients
  <2> QED BY <1>3, <2>1, <2>2 DEF Fits
<1> HIDE DEF m
<1>5. /\ lost \subseteq Clients /\ \A u \in Streams : Sound(u, queue[u], lost, via, rebound, client)
  BY DEF QueueInv
<1>6. Sound(s, a, lost, via, rebound, client)
  <2>1. Sound(s, queue[s], lost, via, rebound, client) BY <1>5
  <2> QED BY <1>2, <1>3, <1>4, <2>1, AppendKeeps
<1> HIDE DEF a
<1>7. Sound(s, k, lost, via, rebound, client) /\ (phase[s] # "open" => Blank(k))
  <2>1. CASE phase[s] = "open" BY <1>6, <2>1 DEF Kept
  <2>2. CASE phase[s] # "open"
    <3>1. a \in Seq(Message) /\ Len(a) <= MaxQueue BY <1>6 DEF Sound
    <3>2. k = Unread(a) BY <2>2 DEF Kept
    <3>3. k \in Seq(Message) /\ Len(k) <= MaxQueue /\ Blank(k) BY <3>1, <3>2, UnreadIs
    <3>4. AnswersIn(queue[s]) = {} BY <2>2, BlankAnswers DEF QueueInv
    <3> HIDE DEF k
    <3>5. Sound(s, k, lost \cup AnswersIn(queue[s]), via, rebound, client) BY <1>5, <3>3, BlankKeeps
    <3>6. lost \cup AnswersIn(queue[s]) = lost BY <3>4
    <3> QED BY <3>3, <3>5, <3>6
  <2> QED BY <2>1, <2>2
<1>8. Stages' BY <1>1, <1>2, StagesKeep DEF QueueInv
<1>9. queue' = [queue EXCEPT ![s] = k] BY <1>2 DEF a, m
<1>10. events' \in 0..MaxEvents BY <1>2 DEF QueueInv
<1> HIDE DEF k
<1> QED BY <1>2, <1>5, <1>7, <1>8, <1>9, <1>10, OneQueue

\* A message is read; if it is an answer, the gateway files the session.
LEMMA YieldQueues ==
    ASSUME RoomStreamInv, RoomStreamInv', QueueInv, NEW s \in Streams, Yield(s)
    PROVE  QueueInv'
<1> DEFINE m == Head(queue[s])
           k == Tail(queue[s])
           c == m.to
<1>1. Typed /\ Typed' BY DEF RoomStreamInv
<1>2. /\ phase[s] = "open" /\ queue[s] # <<>> /\ queue' = [queue EXCEPT ![s] = k]
      /\ client' = IF m.type = "answer" /\ client[c] = "pending" THEN [client EXCEPT ![c] = "filed"] ELSE client
      /\ UNCHANGED <<phase, asking, ws, via, rebound, events, lost>>
  BY DEF Yield
<1>3. /\ lost \subseteq Clients /\ \A u \in Streams : Sound(u, queue[u], lost, via, rebound, client)
  BY DEF QueueInv
<1>4. Sound(s, queue[s], lost, via, rebound, client) BY <1>3
<1>5. rebound \subseteq Clients /\ DOMAIN client = Clients
      /\ client \in [Clients -> {"new", "pending", "filed", "gone"}]
  BY <1>1 DEF Typed
<1>6. events' \in 0..MaxEvents BY <1>2 DEF QueueInv
<1>7. CASE m.type = "answer" /\ client[c] = "pending"
  <2>1. client' = [client EXCEPT ![c] = "filed"] BY <1>2, <1>7
  <2>2. Sound(s, k, lost, via, rebound, client')
    <3>1. c = Head(queue[s]).to /\ Head(queue[s]).type = "answer" /\ client[c] = "pending" BY <1>7
    <3> HIDE DEF c, m
    <3>2. Sound(s, Tail(queue[s]), lost, via, rebound, [client EXCEPT ![c] = "filed"])
      BY <1>2, <1>4, <1>5, <3>1, FiledKeeps
    <3> QED BY <2>1, <3>2
  <2>3. c \in rebound /\ via[c] = s /\ c \in Clients
    <3>1. queue[s] \in Seq(Message) /\ Addressed(s, queue[s], via, rebound, client) BY <1>4 DEF Sound
    <3>2. 1 \in DOMAIN queue[s] /\ m = queue[s][1] BY <1>2, <3>1
    <3> QED BY <1>5, <1>7, <3>1, <3>2 DEF Addressed
  <2> HIDE DEF c
  <2>4. client'[c] = "filed" /\ \A d \in Clients : d # c => client'[d] = client[d] BY <1>5, <2>1, <2>3
  <2>5. ASSUME NEW u \in Streams, u # s PROVE Sound(u, queue[u], lost, via, rebound, client')
    <3>1. \A d \in Clients : \/ via[d] = via[d] /\ (d \in rebound <=> d \in rebound) /\ client'[d] = client[d]
                             \/ (via[d] # u \/ client[d] = "new") /\ (via[d] # u \/ d \notin rebound)
      BY <2>3, <2>4, <2>5
    <3>2. Sound(u, queue[u], lost, via, rebound, client) BY <1>3
    <3> HIDE DEF k, m
    <3> QED BY <1>5, <3>1, <3>2, SessionsKeep
  <2>6. Stages'
    <3>1. Stages BY DEF QueueInv
    <3>2. \A d \in Clients : client'[d] = "new" => client[d] = "new" BY <2>4
    <3>3. \A p \in Players : ws[p] # None => ws[p] \in Clients BY <1>1 DEF Typed
    <3> QED BY <1>2, <2>3, <2>4, <3>1, <3>2, <3>3 DEF Stages
  <2> HIDE DEF k
  <2> QED BY <1>2, <1>3, <1>6, <2>2, <2>5, <2>6, OneQueue
<1>8. CASE ~(m.type = "answer" /\ client[c] = "pending")
  <2>1. client' = client BY <1>2, <1>8
  <2>2. Sound(s, k, lost, via, rebound, client) BY <1>2, <1>4, <1>5, <1>8, YieldKeeps
  <2>3. Stages' BY <1>1, <1>2, <2>1, StagesKeep DEF QueueInv
  <2> HIDE DEF k, m, c
  <2> QED BY <1>2, <1>3, <1>6, <2>1, <2>2, <2>3, OneQueue
<1> QED BY <1>7, <1>8

\* The outbound loop ends: what is left in the queue is not read.
LEMMA StopQueues ==
    ASSUME RoomStreamInv, QueueInv, NEW s \in Streams, NEW k \in Seq(Message), Len(k) <= MaxQueue,
           Stop(s, [queue EXCEPT ![s] = k]), phase[s] = "open",
           UNCHANGED <<ws, via, rebound, client>>, events' \in 0..MaxEvents
    PROVE  QueueInv'
<1> DEFINE r == [queue EXCEPT ![s] = k]
           u == Unread(k)
           q == [queue EXCEPT ![s] = u]
<1>1. Typed BY DEF RoomStreamInv
<1>2. /\ queue \in [Streams -> Seq(Message)] /\ lost \subseteq Clients
      /\ \A x \in Streams : Sound(x, queue[x], lost, via, rebound, client)
  BY DEF QueueInv
<1>3. /\ phase' = [phase EXCEPT ![s] = "closing"] /\ asking' = [asking EXCEPT ![s] = None]
      /\ Queued([r EXCEPT ![s] = Unread(r[s])])
  BY DEF Stop
<1>4. [r EXCEPT ![s] = Unread(r[s])] = q BY <1>2
<1>5. Queued(q) BY <1>3, <1>4
<1>6. u \in Seq(Message) /\ Len(u) <= MaxQueue /\ Blank(u) BY UnreadIs
<1>7. AnswersIn(u) = {} BY <1>6, BlankAnswers
<1> HIDE DEF u, r
<1>8. q[s] = u BY <1>2
<1>9. rebound \subseteq Clients BY <1>1 DEF Typed
<1>10. \A x \in Streams : AnswersIn(queue[x]) \subseteq Clients BY <1>2, <1>9, AnswersToClients
<1>11. queue' = q /\ lost \subseteq lost' /\ lost' \subseteq Clients /\ AnswersIn(queue[s]) \subseteq lost'
  <2> HIDE DEF q
  <2> QED BY <1>2, <1>5, <1>7, <1>8, <1>10, QueuedIs
<1>12. Sound(s, u, lost', via, rebound, client)
  <2>1. Sound(s, queue[s], lost, via, rebound, client) BY <1>2
  <2>2. Sound(s, u, lost \cup AnswersIn(queue[s]), via, rebound, client) BY <1>6, <2>1, BlankKeeps
  <2>3. lost \cup AnswersIn(queue[s]) \subseteq lost' BY <1>11
  <2> QED BY <2>2, <2>3, LostMore
<1>13. \A x \in Streams : Sound(x, queue[x], lost', via, rebound, client) BY <1>2, <1>11, LostMore
<1>14. \A x \in Streams : x # s => phase'[x] = phase[x] BY <1>1, <1>3 DEF Typed
<1>15. Stages'
  <2>1. \A x \in Streams : asking'[x] \in {asking[x], None} BY <1>1, <1>3 DEF Typed
  <2> QED BY <1>1, <2>1, StagesKeep DEF QueueInv
<1> QED BY <1>6, <1>11, <1>12, <1>13, <1>14, <1>15, OneQueue

\* The queues are empty at the start.
LEMMA QueueInit ==
    Init => QueueInv
<1> SUFFICES ASSUME Init PROVE QueueInv OBVIOUS
<1>1. /\ queue = [s \in Streams |-> <<>>] /\ lost = {} /\ rebound = {} /\ events = 0
      /\ client = [c \in Clients |-> "new"] /\ ws = [p \in Players |-> None]
      /\ asking = [s \in Streams |-> None]
  BY DEF Init
<1>2. <<>> \in Seq(Message) /\ Len(<<>>) = 0 /\ DOMAIN <<>> = {} OBVIOUS
<1>3. Blank(<<>>) BY <1>2 DEF Blank
<1>4. \A s \in Streams : Sound(s, <<>>, lost, via, rebound, client)
  BY <1>1, <1>2, RoomStreamAssumption DEF Sound, Addressed, Awaited, Known
<1>5. Stages BY <1>1 DEF Stages
<1>6. 0 \in 0..MaxEvents BY RoomStreamAssumption
<1> QED BY <1>1, <1>2, <1>3, <1>4, <1>5, <1>6 DEF QueueInv

\* Every step keeps the queues sound.
LEMMA QueueStep ==
    RoomStreamInv /\ RoomStreamInv' /\ QueueInv /\ [Next]_rvars => QueueInv'
<1> SUFFICES ASSUME RoomStreamInv, RoomStreamInv', QueueInv, [Next]_rvars PROVE QueueInv' OBVIOUS
<1>1. Typed BY DEF RoomStreamInv
<1>2. CASE UNCHANGED rvars BY <1>2 DEF rvars, QueueInv, Stages
<1>3. CASE Tell BY <1>3, TellQueues
<1>4. CASE \E c \in Clients : ClientGone(c) BY <1>4, ClientGoneQueues
<1>5. ASSUME NEW s \in Streams, Open(s) \/ End(s) \/ Fault(s) \/ HalfClose(s) PROVE QueueInv'
  <2>1. /\ UNCHANGED <<queue, lost, via, rebound, client, ws, asking>> /\ events' \in {events, events + 1}
        /\ events' = events \/ events < MaxEvents
    BY <1>5 DEF Open, End, Fault, HalfClose, Event
  <2>2. events' \in 0..MaxEvents BY <2>1, RoomStreamAssumption DEF QueueInv
  <2>3. \A u \in Streams : phase'[u] # "open" => phase[u] # "open"
    BY <1>1, <1>5 DEF Open, End, Fault, HalfClose, Typed
  <2>4. Stages' BY <1>1, <2>1, StagesKeep DEF QueueInv
  <2> QED BY <2>1, <2>2, <2>3, <2>4, IdleStep
<1>6. ASSUME NEW s \in Streams, Answer(s) \/ PutError(s) \/ PutEnd(s) \/ Yield(s) PROVE QueueInv'
  BY <1>6, AnswerQueues, PutQueues, YieldQueues
<1>7. ASSUME NEW s \in Streams, YieldEnd(s) \/ Cancel(s) PROVE QueueInv'
  <2>1. queue \in [Streams -> Seq(Message)] /\ Len(queue[s]) <= MaxQueue /\ queue[s] \in Seq(Message)
    BY DEF QueueInv, Sound
  <2>2. CASE YieldEnd(s)
    <3>1. /\ queue[s] # <<>> /\ Stop(s, [queue EXCEPT ![s] = Tail(queue[s])]) /\ phase[s] = "open"
          /\ UNCHANGED <<ws, via, rebound, client, events>>
      BY <2>2 DEF YieldEnd
    <3>2. Tail(queue[s]) \in Seq(Message) /\ Len(Tail(queue[s])) <= MaxQueue
      BY <2>1, <3>1, RoomStreamAssumption
    <3>3. events' \in 0..MaxEvents BY <3>1 DEF QueueInv
    <3> QED BY <3>1, <3>2, <3>3, StopQueues
  <2>3. CASE Cancel(s)
    <3>1. /\ Stop(s, queue) /\ phase[s] = "open" /\ events < MaxEvents /\ events' = events + 1
          /\ UNCHANGED <<ws, via, rebound, client>>
      BY <2>3 DEF Cancel, Event
    <3>2. queue = [queue EXCEPT ![s] = queue[s]] BY <2>1
    <3>3. Stop(s, [queue EXCEPT ![s] = queue[s]]) BY <3>1, <3>2
    <3>4. events' \in 0..MaxEvents BY <3>1, RoomStreamAssumption DEF QueueInv
    <3> QED BY <2>1, <3>1, <3>3, <3>4, StopQueues
  <2> QED BY <1>7, <2>2, <2>3
<1>8. ASSUME NEW s \in Streams, NEW p \in Players, Cleanup(s, p) PROVE QueueInv' BY <1>8, CleanupQueues
<1>9. ASSUME NEW s \in Streams, NEW c \in Clients, Ask(s, c) \/ Reply(s, c) PROVE QueueInv'
  BY <1>9, AskQueues, ReplyQueues
<1> QED BY <1>2, <1>3, <1>4, <1>5, <1>6, <1>7, <1>8, <1>9 DEF Next

\* Registrations and queues, for any number of players, connections, streams and
\* events and any bound of the queues.
THEOREM QueuesAreInductive ==
    Spec => [](RoomStreamInv /\ QueueInv)
<1>1. RoomStreamInv /\ QueueInv /\ [Next]_rvars => (RoomStreamInv /\ QueueInv)'
  BY RoomStreamStep, QueueStep
<1>2. QED BY <1>1, RoomStreamInit, QueueInit, PTL DEF Spec

\* A queue keeps its bound, and a message in it bears the id under which the
\* gateway will know the session when it reads the message.
THEOREM QueuesAlwaysSound ==
    Spec => []QueuesAreSound
<1>1. RoomStreamInv /\ QueueInv => QueuesAreSound
  <2> SUFFICES ASSUME RoomStreamInv, QueueInv PROVE QueuesAreSound OBVIOUS
  <2>1. RTypeOK BY DEF RoomStreamInv, Typed, QueueInv, RTypeOK, Sound
  <2>2. ASSUME NEW s \in Streams, NEW i \in DOMAIN queue[s],
               queue[s][i].to \in Clients /\ client[queue[s][i].to] # "gone" /\ queue[s][i].to \notin lost
        PROVE  queue[s][i].real <=>
                  \/ client[queue[s][i].to] = "filed"
                  \/ \E j \in 1..(i - 1) : queue[s][j].type = "answer" /\ queue[s][j].to = queue[s][i].to
    <3> DEFINE c == queue[s][i].to
    <3>1. queue[s] \in Seq(Message) /\ Known(queue[s], lost, client) BY DEF QueueInv, Sound
    <3>2. i \in Nat /\ \A j : (j \in 1..(i - 1)) <=> (j \in DOMAIN queue[s] /\ j < i) BY <3>1
    <3>3. AnswerBefore(queue[s], i, c)
             <=> \E j \in 1..(i - 1) : queue[s][j].type = "answer" /\ queue[s][j].to = c
      BY <3>2 DEF AnswerBefore
    <3>4. queue[s][i].real <=> client[c] = "filed" \/ AnswerBefore(queue[s], i, c)
      BY <2>2, <3>1 DEF Known
    <3> QED BY <3>3, <3>4
  <2>3. AddressKnown BY <2>2 DEF AddressKnown
  <2> QED BY <2>1, <2>3 DEF QueuesAreSound
<1>2. QED BY <1>1, QueuesAreInductive, PTL
=============================================================================
