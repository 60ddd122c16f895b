--------------------------- MODULE StreamsProofs ---------------------------
(***************************************************************************)
(* Theorems about Streams for every number of clients, streams, messages   *)
(* and retries and every queue size: a stream is closed once, when it      *)
(* leaves the map, and no message reaches the worker twice.                *)
(***************************************************************************)
EXTENDS Streams, FiniteSetTheorems, TLAPS

\* A stream that has not been made yet holds nothing and was never closed.
Untouched(r) == r.closes = 0 /\ r.queue = <<>> /\ r.buffer = <<>> /\ r.hand = 0

\* A Send that is past its lookup has a stream that was made.
LooksAtMade == \A c \in Clients : pc[c] = "push" => ref[c] \in 1..made

ClosingInv ==
    /\ ClosingIsOrderly
    /\ \A g \in Gens : g > made => Untouched(rs[g])
    /\ LooksAtMade

(***************************************************************************)
(* The places of a stream where a message can be, numbered: the channel    *)
(* from 1 up, the send loop's hand at 0, the buffer from -1 down.          *)
(***************************************************************************)
Slots(r) == (-Len(r.buffer)) .. Len(r.queue)
At(r, p) == IF p = 0 THEN r.hand ELSE IF p > 0 THEN r.queue[p] ELSE r.buffer[-p]

\* A message is in one place at most, and as long as it is somewhere the
\* worker has not seen it.
OnePlace(f) ==
    \A g, h \in Gens : \A p \in Slots(f[g]), q \in Slots(f[h]) :
        At(f[g], p) # 0 /\ At(f[g], p) = At(f[h], q) => g = h /\ p = q

Undelivered(f, d, n) ==
    \A g \in Gens : \A p \in Slots(f[g]) :
        At(f[g], p) # 0 => At(f[g], p) <= n /\ d[At(f[g], p)] = 0

\* s has, in the same or in other places, only messages that r has: M says
\* where each was.
Embeds(s, r) ==
    \E M \in [Slots(s) -> Slots(r)] :
        /\ \A p \in Slots(s) : At(s, p) # 0 => At(r, M[p]) = At(s, p)
        /\ \A p, q \in Slots(s) : M[p] = M[q] => p = q

\* What a goroutine may do to a stream: it moves or loses messages and leaves
\* the channel open or closed as it was.
Roomy(r) == Len(r.queue) <= QueueSize /\ Len(r.buffer) <= QueueSize
Moves(r, s) == s \in RoomStream /\ Roomy(s) /\ s.closes = r.closes /\ Embeds(s, r)

MessageInv ==
    /\ OnePlace(rs) /\ Undelivered(rs, delivered, sent)
    /\ \A m \in Msgs : m > sent => delivered[m] = 0
    /\ AtMostOnce
-----------------------------------------------------------------------------
(* What the goroutines do to a stream.                                     *)

\* The bounds are positive.
LEMMA BoundsArePositive ==
    /\ MaxStreams \in Nat /\ MaxStreams > 0 /\ MaxMsgs \in Nat /\ MaxMsgs > 0
    /\ QueueSize \in Nat /\ QueueSize > 0 /\ MaxRetries \in Nat /\ MaxRetries > 0
<1>1. \A x \in {MaxStreams, MaxMsgs, QueueSize, MaxRetries} : x \in Nat /\ x # 0
      BY StreamsAssumption
<1>2. \A x \in Nat : x # 0 => x > 0 OBVIOUS
<1> QED BY <1>1, <1>2

\* The fields of a stream that hold messages.
LEMMA FieldsAreTyped ==
    ASSUME NEW r \in RoomStream
    PROVE  /\ r.queue \in Seq(Msgs) /\ r.buffer \in Seq(Msgs) /\ r.hand \in 0..MaxMsgs
           /\ r.closes \in Nat /\ Len(r.queue) \in Nat /\ Len(r.buffer) \in Nat
           /\ 0 \in Slots(r) /\ \A p \in Slots(r) : p \in Int
<1>1. /\ r.queue \in Seq(Msgs) /\ r.buffer \in Seq(Msgs) /\ r.hand \in 0..MaxMsgs
      /\ r.closes \in Nat
      BY DEF RoomStream
<1>2. Len(r.queue) \in Nat /\ Len(r.buffer) \in Nat BY <1>1
<1> QED BY <1>1, <1>2 DEF Slots

\* What is in a place is a message or nothing.
LEMMA PlacesAreTyped ==
    ASSUME NEW r \in RoomStream, NEW p \in Slots(r)
    PROVE  At(r, p) \in 0..MaxMsgs /\ (At(r, p) # 0 => At(r, p) \in Msgs)
<1>1. p \in Int /\ -Len(r.buffer) <= p /\ p <= Len(r.queue) BY FieldsAreTyped DEF Slots
<1>2. MaxMsgs \in Nat BY BoundsArePositive
<1>3. CASE p = 0 BY <1>2, <1>3, FieldsAreTyped DEF At, Msgs
<1>4. CASE p > 0
  <2>1. p \in 1..Len(r.queue) BY <1>1, <1>4, FieldsAreTyped
  <2>2. r.queue[p] \in Msgs BY <2>1, FieldsAreTyped
  <2> QED BY <1>1, <1>2, <1>4, <2>2 DEF At, Msgs
<1>5. CASE p < 0
  <2>1. -p \in 1..Len(r.buffer) BY <1>1, <1>5, FieldsAreTyped
  <2>2. r.buffer[-p] \in Msgs BY <2>1, FieldsAreTyped
  <2>3. p # 0 /\ ~(p > 0) BY <1>1, <1>5
  <2> QED BY <1>1, <1>2, <2>2, <2>3 DEF At, Msgs
<1> QED BY <1>1, <1>3, <1>4, <1>5

\* Messages stay where they are, or are lost with the hand or the buffer.
LEMMA StaysEmbeds ==
    ASSUME NEW r \in RoomStream, NEW s \in RoomStream,
           s.queue = r.queue, s.hand \in {r.hand, 0}, s.buffer \in {r.buffer, <<>>}
    PROVE  Embeds(s, r)
<1> DEFINE M == [p \in Slots(s) |-> p]
<1>1. Len(<<>>) = 0 OBVIOUS
<1>2. /\ Len(r.buffer) \in Nat /\ Len(r.queue) \in Nat
      /\ Len(s.buffer) \in Nat /\ Len(s.buffer) <= Len(r.buffer)
      BY <1>1, FieldsAreTyped
<1>3. \A p \in Slots(s) : p \in Slots(r) BY <1>2 DEF Slots
<1>4. M \in [Slots(s) -> Slots(r)] BY <1>3
<1>5. ASSUME NEW p \in Slots(s), At(s, p) # 0 PROVE At(r, p) = At(s, p)
  <2>1. p \in Int /\ -Len(s.buffer) <= p BY <1>2 DEF Slots
  <2>2. CASE p = 0 BY <2>2, <1>5 DEF At
  <2>3. CASE p > 0 BY <2>1, <2>3 DEF At
  <2>4. CASE p < 0
    <3>1. s.buffer # <<>> BY <1>1, <2>1, <2>4
    <3> QED BY <2>1, <2>4, <3>1 DEF At
  <2> QED BY <2>1, <2>2, <2>3, <2>4
<1>6. \A p \in Slots(s) : M[p] = p OBVIOUS
<1> QED BY <1>4, <1>5, <1>6 DEF Embeds

\* The send loop takes the first message of the channel in its hand.
LEMMA TakeMoves ==
    ASSUME NEW r \in RoomStream, Roomy(r), r.hand = 0, r.queue # <<>>
    PROVE  Moves(r, [r EXCEPT !.hand = Head(r.queue), !.queue = Tail(r.queue)])
<1> DEFINE s == [r EXCEPT !.hand = Head(r.queue), !.queue = Tail(r.queue)]
           M == [p \in Slots(s) |-> IF p < 0 THEN p ELSE p + 1]
<1>1. ASSUME NEW m \in 0..MaxMsgs, NEW q \in Seq(Msgs)
      PROVE  [r EXCEPT !.hand = m, !.queue = q] \in RoomStream
      BY DEF RoomStream
<1>2. r.queue \in Seq(Msgs) /\ r.buffer \in Seq(Msgs) /\ MaxMsgs \in Nat /\ QueueSize \in Nat
      BY FieldsAreTyped, BoundsArePositive
<1>3. /\ Head(r.queue) \in Msgs /\ Tail(r.queue) \in Seq(Msgs)
      /\ Len(Tail(r.queue)) = Len(r.queue) - 1 /\ Len(r.queue) \in Nat /\ Len(r.queue) >= 1
      /\ Head(r.queue) = r.queue[1]
      /\ \A p \in 1..(Len(r.queue) - 1) : Tail(r.queue)[p] = r.queue[p + 1]
      BY <1>2
<1>4. Head(r.queue) \in 0..MaxMsgs BY <1>2, <1>3 DEF Msgs
<1>5. s \in RoomStream BY <1>1, <1>3, <1>4, Zenon
<1>6. /\ s.hand = r.queue[1] /\ s.queue = Tail(r.queue) /\ s.buffer = r.buffer
      /\ s.closes = r.closes
      BY <1>3 DEF RoomStream
<1>7. Roomy(s) BY <1>2, <1>3, <1>6 DEF Roomy
<1> HIDE DEF s
<1>8. /\ Slots(s) = (-Len(r.buffer)) .. (Len(r.queue) - 1)
      /\ Slots(r) = (-Len(r.buffer)) .. Len(r.queue) /\ Len(r.buffer) \in Nat
      BY <1>2, <1>3, <1>6 DEF Slots
<1>9. M \in [Slots(s) -> Slots(r)] BY <1>3, <1>8
<1>10. ASSUME NEW p \in Slots(s) PROVE At(r, M[p]) = At(s, p)
  <2>1. p \in Int /\ p <= Len(r.queue) - 1 BY <1>3, <1>8
  <2>2. CASE p = 0 BY <1>6, <1>8, <2>2 DEF At
  <2>3. CASE p > 0
    <3>1. p \in 1..(Len(r.queue) - 1) /\ M[p] = p + 1 /\ p + 1 > 0 BY <1>3, <2>1, <2>3
    <3> QED BY <1>3, <1>6, <2>3, <3>1 DEF At
  <2>4. CASE p < 0
    <3>1. M[p] = p BY <2>4
    <3> QED BY <1>6, <2>1, <2>4, <3>1 DEF At
  <2> QED BY <2>1, <2>2, <2>3, <2>4
<1>11. \A p, q \in Slots(s) : M[p] = M[q] => p = q BY <1>3, <1>8
<1>12. Embeds(s, r) BY <1>9, <1>10, <1>11 DEF Embeds
<1> QED BY <1>5, <1>6, <1>7, <1>12 DEF Moves, s

\* Append adds one message at the end.
LEMMA AppendIs ==
    ASSUME NEW t \in Seq(Msgs), NEW m \in Msgs
    PROVE  /\ Append(t, m) \in Seq(Msgs) /\ Len(Append(t, m)) = Len(t) + 1
           /\ Append(t, m)[Len(t) + 1] = m
           /\ \A p \in 1..Len(t) : Append(t, m)[p] = t[p]
OBVIOUS

\* The buffering goroutine moves the first message of the channel to the end
\* of the buffer, whose oldest message is lost when it is full.
LEMMA BufferMoves ==
    ASSUME NEW r \in RoomStream, Roomy(r), r.queue # <<>>
    PROVE  Moves(r, [r EXCEPT !.queue = Tail(@), !.buffer = Buffered(@, Head(r.queue))])
<1> DEFINE b == Buffered(r.buffer, Head(r.queue))
           s == [r EXCEPT !.queue = Tail(@), !.buffer = Buffered(@, Head(r.queue))]
           L == Len(r.buffer)
           M == [p \in Slots(s) |-> IF p >= 0 THEN (IF p = 0 THEN 0 ELSE p + 1)
                                    ELSE IF p = -Len(b) THEN 1
                                    ELSE IF L < QueueSize THEN p ELSE p - 1]
<1>1. ASSUME NEW q \in Seq(Msgs), NEW c \in Seq(Msgs)
      PROVE  [r EXCEPT !.queue = q, !.buffer = c] \in RoomStream
      BY DEF RoomStream
<1>2. r.queue \in Seq(Msgs) /\ r.buffer \in Seq(Msgs) /\ QueueSize \in Nat /\ QueueSize > 0
      BY FieldsAreTyped, BoundsArePositive
<1>3. /\ Head(r.queue) \in Msgs /\ Tail(r.queue) \in Seq(Msgs)
      /\ Len(Tail(r.queue)) = Len(r.queue) - 1 /\ Len(r.queue) \in Nat /\ Len(r.queue) >= 1
      /\ Head(r.queue) = r.queue[1]
      /\ \A p \in 1..(Len(r.queue) - 1) : Tail(r.queue)[p] = r.queue[p + 1]
      BY <1>2
<1>4. L \in Nat /\ L <= QueueSize BY <1>2 DEF Roomy
<1>5. /\ b \in Seq(Msgs) /\ Len(b) = (IF L < QueueSize THEN L + 1 ELSE L)
      /\ b[Len(b)] = r.queue[1]
      /\ \A p \in 1..(Len(b) - 1) : b[p] = IF L < QueueSize THEN r.buffer[p] ELSE r.buffer[p + 1]
  <2>1. CASE L < QueueSize
    <3>1. b = Append(r.buffer, Head(r.queue)) BY <2>1 DEF Buffered
    <3> HIDE DEF b
    <3> QED BY <1>2, <1>3, <1>4, <2>1, <3>1, AppendIs
  <2>2. CASE ~(L < QueueSize)
    <3> DEFINE t == Tail(r.buffer)
    <3>1. b = Append(t, Head(r.queue)) BY <2>2 DEF Buffered
    <3>2. L = QueueSize /\ r.buffer # <<>> BY <1>2, <1>4, <2>2
    <3>3. t \in Seq(Msgs) /\ Len(t) = L - 1 /\ \A p \in 1..(L - 1) : t[p] = r.buffer[p + 1]
          BY <1>2, <3>2
    <3> HIDE DEF t, b
    <3>4. b \in Seq(Msgs) /\ Len(b) = L /\ b[L] = Head(r.queue) /\ \A p \in 1..(L - 1) : b[p] = t[p]
          BY <1>3, <1>4, <3>1, <3>3, AppendIs
    <3> QED BY <1>3, <2>2, <3>3, <3>4
  <2> QED BY <2>1, <2>2
<1>6. s \in RoomStream BY <1>1, <1>3, <1>5, Zenon
<1>7. s.queue = Tail(r.queue) /\ s.buffer = b /\ s.hand = r.hand /\ s.closes = r.closes
      BY DEF RoomStream
<1> HIDE DEF b, L, s
<1>8. Roomy(s) BY <1>2, <1>3, <1>4, <1>5, <1>7 DEF Roomy
<1>9. /\ Slots(s) = (-Len(b)) .. (Len(r.queue) - 1) /\ Slots(r) = (-L) .. Len(r.queue)
      /\ Len(b) \in Nat /\ Len(b) > 0
      BY <1>2, <1>3, <1>4, <1>5, <1>7 DEF Slots, L
<1>10. M \in [Slots(s) -> Slots(r)] BY <1>2, <1>3, <1>4, <1>5, <1>9
<1>11. ASSUME NEW p \in Slots(s) PROVE At(r, M[p]) = At(s, p)
  <2>1. p \in Int /\ p <= Len(r.queue) - 1 /\ -Len(b) <= p BY <1>3, <1>9
  <2>2. CASE p = 0 BY <1>7, <1>9, <2>2 DEF At
  <2>3. CASE p > 0
    <3>1. p \in 1..(Len(r.queue) - 1) /\ M[p] = p + 1 /\ p + 1 > 0 BY <1>3, <2>1, <2>3
    <3> QED BY <1>3, <1>7, <2>3, <3>1 DEF At
  <2>4. CASE p < 0 /\ p = -Len(b)
    <3>1. M[p] = 1 /\ -p = Len(b) BY <1>9, <2>1, <2>4
    <3>2. At(s, p) = b[Len(b)] BY <1>7, <2>1, <2>4, <3>1 DEF At
    <3>3. At(r, 1) = r.queue[1] BY DEF At
    <3> QED BY <1>5, <3>1, <3>2, <3>3
  <2>5. CASE p < 0 /\ p # -Len(b)
    <3>1. -p \in 1..(Len(b) - 1) BY <1>9, <2>1, <2>5
    <3>2. At(s, p) = b[-p] BY <1>7, <2>1, <2>5 DEF At
    <3>3. M[p] = (IF L < QueueSize THEN p ELSE p - 1) BY <2>1, <2>5
    <3>4. At(r, M[p]) = IF L < QueueSize THEN r.buffer[-p] ELSE r.buffer[(-p) + 1]
      <4>1. CASE L < QueueSize BY <4>1, <3>3, <2>1, <2>5 DEF At
      <4>2. CASE ~(L < QueueSize)
        <5>1. M[p] = p - 1 /\ p - 1 \in Int /\ p - 1 < 0 /\ -(p - 1) = (-p) + 1
              BY <4>2, <3>3, <2>1, <2>5
        <5> QED BY <4>2, <5>1 DEF At
      <4> QED BY <4>1, <4>2
    <3> QED BY <1>5, <3>1, <3>2, <3>4
  <2> QED BY <2>1, <2>2, <2>3, <2>4, <2>5
<1>12. \A p, q \in Slots(s) : M[p] = M[q] => p = q BY <1>2, <1>3, <1>4, <1>5, <1>9
<1>13. Embeds(s, r) BY <1>10, <1>11, <1>12 DEF Embeds
<1> QED BY <1>6, <1>7, <1>8, <1>13 DEF Moves, s

\* The buffering goroutine of a finished handler takes it and loses it.
LEMMA DropMoves ==
    ASSUME NEW r \in RoomStream, Roomy(r), r.queue # <<>>
    PROVE  Moves(r, [r EXCEPT !.queue = Tail(@)])
<1> DEFINE s == [r EXCEPT !.queue = Tail(@)]
           M == [p \in Slots(s) |-> IF p > 0 THEN p + 1 ELSE p]
<1>1. ASSUME NEW q \in Seq(Msgs) PROVE [r EXCEPT !.queue = q] \in RoomStream
      BY DEF RoomStream
<1>2. r.queue \in Seq(Msgs) /\ r.buffer \in Seq(Msgs) /\ QueueSize \in Nat
      BY FieldsAreTyped, BoundsArePositive
<1>3. /\ Tail(r.queue) \in Seq(Msgs)
      /\ Len(Tail(r.queue)) = Len(r.queue) - 1 /\ Len(r.queue) \in Nat /\ Len(r.queue) >= 1
      /\ \A p \in 1..(Len(r.queue) - 1) : Tail(r.queue)[p] = r.queue[p + 1]
      BY <1>2
<1>4. s \in RoomStream BY <1>1, <1>3, Zenon
<1>5. s.queue = Tail(r.queue) /\ s.buffer = r.buffer /\ s.hand = r.hand /\ s.closes = r.closes
      BY DEF RoomStream
<1> HIDE DEF s
<1>6. Roomy(s) BY <1>2, <1>3, <1>5 DEF Roomy
<1>7. /\ Slots(s) = (-Len(r.buffer)) .. (Len(r.queue) - 1)
      /\ Slots(r) = (-Len(r.buffer)) .. Len(r.queue) /\ Len(r.buffer) \in Nat
      BY <1>2, <1>3, <1>5 DEF Slots
<1>8. M \in [Slots(s) -> Slots(r)] BY <1>3, <1>7
<1>9. ASSUME NEW p \in Slots(s) PROVE At(r, M[p]) = At(s, p)
  <2>1. p \in Int /\ p <= Len(r.queue) - 1 BY <1>3, <1>7
  <2>2. CASE p > 0
    <3>1. p \in 1..(Len(r.queue) - 1) /\ M[p] = p + 1 /\ p + 1 > 0 BY <1>3, <2>1, <2>2
    <3> QED BY <1>3, <1>5, <2>2, <3>1 DEF At
  <2>3. CASE p <= 0
    <3>1. M[p] = p BY <2>1, <2>3
    <3> QED BY <1>5, <2>1, <2>3, <3>1 DEF At
  <2> QED BY <2>1, <2>2, <2>3
<1>10. \A p, q \in Slots(s) : M[p] = M[q] => p = q BY <1>3, <1>7
<1>11. Embeds(s, r) BY <1>8, <1>9, <1>10 DEF Embeds
<1> QED BY <1>4, <1>5, <1>6, <1>11 DEF Moves, s

\* A step that leaves messages in place or loses the hand's or the buffer's.
LEMMA StaysMoves ==
    ASSUME NEW r \in RoomStream, Roomy(r), NEW s \in RoomStream, s.closes = r.closes,
           s.queue = r.queue, s.hand \in {r.hand, 0}, s.buffer \in {r.buffer, <<>>}
    PROVE  Moves(r, s)
<1>1. Embeds(s, r) BY StaysEmbeds
<1>2. Len(<<>>) = 0 /\ QueueSize \in Nat BY BoundsArePositive
<1>3. Roomy(s) BY <1>2 DEF Roomy
<1> QED BY <1>1, <1>3 DEF Moves

\* closeStreamLocked keeps the messages of the stream.
LEMMA TornIs ==
    ASSUME NEW r \in RoomStream
    PROVE  /\ Torn(r) \in RoomStream /\ Torn(r).closes = r.closes + 1
           /\ Torn(r).queue = r.queue /\ Torn(r).buffer = r.buffer /\ Torn(r).hand = r.hand
<1>1. ASSUME NEW st \in {"healthy", "reconnecting", "dead"}, NEW u \in BOOLEAN,
             NEW n \in Nat, NEW c \in Int, NEW i \in BOOLEAN
      PROVE  [r EXCEPT !.state = st, !.up = u, !.closes = n, !.count = c, !.idle = i]
                \in RoomStream
      BY DEF RoomStream
<1>2. /\ r.closes + 1 \in Nat /\ 0 \in Int /\ FALSE \in BOOLEAN
      /\ "dead" \in {"healthy", "reconnecting", "dead"}
      BY DEF RoomStream
<1>3. Torn(r) \in RoomStream BY <1>1, <1>2, Zenon DEF Torn
<1> QED BY <1>3 DEF Torn, RoomStream
-----------------------------------------------------------------------------
(* What the steps do to the map and to the messages.                       *)

\* What is true of the streams in every state.
StreamsInv == ClosingInv /\ MessageInv

\* The streams are typed.
LEMMA StreamsAreTyped ==
    ASSUME STypeOK
    PROVE  /\ rs \in [Gens -> RoomStream]
           /\ \A g \in Gens : rs[g] \in RoomStream /\ Roomy(rs[g])
           /\ made \in Nat /\ made <= MaxStreams /\ current \in Nat /\ current <= made
           /\ current # 0 => current \in Gens
BY BoundsArePositive DEF STypeOK, Gens, Roomy

\* The map: the stream that leaves it is closed in that step, and no other;
\* the one that enters it is new.
LeavesClosed ==
    /\ \A g \in Gens : rs'[g].closes =
            rs[g].closes + (IF g = current /\ current' # g THEN 1 ELSE 0)
    /\ \/ made' = made /\ current' \in {current, 0}
       \/ made' = made + 1 /\ current' = made + 1 /\ made < MaxStreams

\* A step that treats the map so keeps the order of closing.
LEMMA LeavesClosedKeeps ==
    ASSUME ClosingInv, LeavesClosed, STypeOK',
           \A g \in Gens : g > made' => (Untouched(rs[g]) => Untouched(rs'[g])),
           \A c \in Clients : pc'[c] = "push" => ref'[c] \in 1..made'
    PROVE  ClosingInv'
<1>1. /\ \A g \in Gens : rs[g].closes \in Nat /\ rs'[g].closes \in Nat
      /\ made \in Nat /\ made' \in Nat /\ current \in Nat /\ made <= MaxStreams /\ MaxStreams \in Nat
      /\ current <= made
      BY BoundsArePositive DEF ClosingInv, ClosingIsOrderly, STypeOK, RoomStream
<1>2. ClosedOnce /\ ReplacedIsClosed /\ \A g \in Gens : g > made => rs[g].closes = 0
      BY DEF ClosingInv, ClosingIsOrderly, Untouched
<1>3. ClosedOnce'
  <2> SUFFICES ASSUME NEW g \in Gens
               PROVE  rs'[g].closes <= (IF current' = g THEN 0 ELSE 1)
      BY DEF ClosedOnce
  <2>1. rs[g].closes <= (IF current = g THEN 0 ELSE 1) BY <1>2 DEF ClosedOnce
  <2>2. g \in Nat /\ g >= 1 BY <1>1 DEF Gens
  <2> QED BY <1>1, <1>2, <2>1, <2>2 DEF LeavesClosed
<1>4. ReplacedIsClosed'
  <2> SUFFICES ASSUME NEW g \in 1..made', current' # g PROVE rs'[g].closes > 0
      BY DEF ReplacedIsClosed
  <2>1. g \in 1..made /\ g \in Gens BY <1>1 DEF LeavesClosed, Gens
  <2>2. current = g \/ rs[g].closes > 0 BY <1>2, <2>1 DEF ReplacedIsClosed
  <2> QED BY <1>1, <2>1, <2>2 DEF LeavesClosed
<1>5. \A g \in Gens : g > made' => Untouched(rs'[g])
  <2> SUFFICES ASSUME NEW g \in Gens, g > made' PROVE Untouched(rs'[g]) OBVIOUS
  <2>1. g > made BY <1>1 DEF LeavesClosed, Gens
  <2> QED BY <2>1 DEF ClosingInv
<1> QED BY <1>3, <1>4, <1>5 DEF ClosingInv, ClosingIsOrderly, LooksAtMade

\* A step that only moves messages keeps each in one place and, if those it
\* leaves in the streams are still undelivered, unseen by the worker.
LEMMA MovesKeepMessages ==
    ASSUME STypeOK, MessageInv, sent' = sent,
           \A g \in Gens : rs'[g] \in RoomStream /\ Embeds(rs'[g], rs[g]),
           \A g \in Gens : \A p \in Slots(rs'[g]) :
                At(rs'[g], p) # 0 => delivered'[At(rs'[g], p)] = 0,
           \A m \in Msgs : m > sent => delivered'[m] = 0,
           AtMostOnce'
    PROVE  MessageInv'
<1>1. OnePlace(rs) /\ Undelivered(rs, delivered, sent) BY DEF MessageInv
<1>2. \A g \in Gens : \E M \in [Slots(rs'[g]) -> Slots(rs[g])] :
        /\ \A p \in Slots(rs'[g]) : At(rs'[g], p) # 0 => At(rs[g], M[p]) = At(rs'[g], p)
        /\ \A p, q \in Slots(rs'[g]) : M[p] = M[q] => p = q
      BY DEF Embeds
<1>3. OnePlace(rs')
  <2> SUFFICES ASSUME NEW g \in Gens, NEW h \in Gens,
                      NEW p \in Slots(rs'[g]), NEW q \in Slots(rs'[h]),
                      At(rs'[g], p) # 0, At(rs'[g], p) = At(rs'[h], q)
               PROVE  g = h /\ p = q
      BY DEF OnePlace
  <2>1. PICK M \in [Slots(rs'[g]) -> Slots(rs[g])] :
        /\ \A x \in Slots(rs'[g]) : At(rs'[g], x) # 0 => At(rs[g], M[x]) = At(rs'[g], x)
        /\ \A x, y \in Slots(rs'[g]) : M[x] = M[y] => x = y
      BY <1>2
  <2>2. PICK N \in [Slots(rs'[h]) -> Slots(rs[h])] :
        /\ \A x \in Slots(rs'[h]) : At(rs'[h], x) # 0 => At(rs[h], N[x]) = At(rs'[h], x)
        /\ \A x, y \in Slots(rs'[h]) : N[x] = N[y] => x = y
      BY <1>2
  <2>3. /\ M[p] \in Slots(rs[g]) /\ At(rs[g], M[p]) = At(rs'[g], p)
        /\ N[q] \in Slots(rs[h]) /\ At(rs[h], N[q]) = At(rs'[h], q)
        BY <2>1, <2>2
  <2>4. g = h /\ M[p] = N[q] BY <1>1, <2>3 DEF OnePlace
  <2>5. q \in Slots(rs'[g]) /\ At(rs'[g], q) = At(rs'[g], p) BY <2>4
  <2>6. M[q] \in Slots(rs[g]) /\ At(rs[g], M[q]) = At(rs[g], M[p]) /\ At(rs[g], M[p]) # 0
        BY <2>1, <2>3, <2>5
  <2>7. M[p] = M[q] BY <1>1, <2>3, <2>6 DEF OnePlace
  <2> QED BY <2>1, <2>4, <2>5, <2>7
<1>4. Undelivered(rs', delivered', sent')
  <2> SUFFICES ASSUME NEW g \in Gens, NEW p \in Slots(rs'[g]), At(rs'[g], p) # 0
               PROVE  At(rs'[g], p) <= sent
      BY DEF Undelivered
  <2>1. PICK M \in [Slots(rs'[g]) -> Slots(rs[g])] :
            \A x \in Slots(rs'[g]) : At(rs'[g], x) # 0 => At(rs[g], M[x]) = At(rs'[g], x)
        BY <1>2
  <2>2. M[p] \in Slots(rs[g]) /\ At(rs[g], M[p]) = At(rs'[g], p) BY <2>1
  <2> QED BY <1>1, <2>2 DEF Undelivered
<1> QED BY <1>3, <1>4 DEF MessageInv

\* A step that only moves messages and delivers none.
LEMMA QuietKeepsMessages ==
    ASSUME STypeOK, MessageInv, UNCHANGED <<sent, delivered>>,
           \A g \in Gens : rs'[g] \in RoomStream /\ Embeds(rs'[g], rs[g])
    PROVE  MessageInv'
<1>1. ASSUME NEW g \in Gens, NEW p \in Slots(rs'[g]), At(rs'[g], p) # 0
      PROVE  delivered'[At(rs'[g], p)] = 0
  <2>1. PICK M \in [Slots(rs'[g]) -> Slots(rs[g])] :
            \A x \in Slots(rs'[g]) : At(rs'[g], x) # 0 => At(rs[g], M[x]) = At(rs'[g], x)
        BY DEF Embeds
  <2>2. M[p] \in Slots(rs[g]) /\ At(rs[g], M[p]) = At(rs'[g], p) BY <1>1, <2>1
  <2> QED BY <1>1, <2>2 DEF MessageInv, Undelivered
<1>2. AtMostOnce' /\ \A m \in Msgs : m > sent => delivered'[m] = 0
      BY DEF MessageInv, AtMostOnce
<1> QED BY <1>1, <1>2, MovesKeepMessages

\* Every stream embeds in itself.
LEMMA SameEmbeds ==
    ASSUME NEW r \in RoomStream
    PROVE  Embeds(r, r)
BY StaysEmbeds

\* The clients' side of the invariant.
ClientsOK ==
    /\ pc \in [Clients -> {"out", "wait", "look", "push", "tally", "in", "untally"}]
    /\ what \in [Clients -> {"join", "talk", "bye"}]
    /\ ref \in [Clients -> 0..made]
    /\ LooksAtMade

\* A step that moves messages of one made stream.
LEMMA ChangeKeepsClosing ==
    ASSUME ClosingInv, NEW g \in Gens, g <= made, NEW s, Moves(rs[g], s),
           rs' = [rs EXCEPT ![g] = s], UNCHANGED <<current, made, sent>>,
           ClientsOK', delivered' \in [Msgs -> Nat]
    PROVE  /\ ClosingInv' /\ LeavesClosed
           /\ \A h \in Gens : /\ rs'[h] \in RoomStream /\ Embeds(rs'[h], rs[h])
                              /\ rs'[h] = IF h = g THEN s ELSE rs[h]
<1>1. STypeOK BY DEF ClosingInv, ClosingIsOrderly
<1>2. rs \in [Gens -> RoomStream] /\ made \in Nat BY <1>1, StreamsAreTyped
<1>3. s \in RoomStream /\ Roomy(s) /\ s.closes = rs[g].closes /\ Embeds(s, rs[g]) BY DEF Moves
<1>4. STypeOK' BY <1>1, <1>2, <1>3 DEF STypeOK, Roomy, ClientsOK
<1>5. \A h \in Gens : rs'[h] = IF h = g THEN s ELSE rs[h] BY <1>2
<1>6. LeavesClosed
  <2>1. \A h \in Gens : rs'[h].closes = rs[h].closes /\ rs[h].closes \in Nat
        BY <1>2, <1>3, <1>5, FieldsAreTyped
  <2> QED BY <2>1 DEF LeavesClosed
<1>7. \A h \in Gens : h > made' => rs'[h] = rs[h] BY <1>2, <1>5 DEF Gens
<1>8. ClosingInv' BY <1>4, <1>6, <1>7, LeavesClosedKeeps DEF LooksAtMade, ClientsOK
<1> QED BY <1>2, <1>3, <1>5, <1>6, <1>8, SameEmbeds

\* A goroutine leaves the clients alone.
LEMMA StepIs ==
    ASSUME ClosingInv, NEW g \in Gens, NEW s, Step(g, s)
    PROVE  /\ rs' = [rs EXCEPT ![g] = s] /\ UNCHANGED <<current, made, sent>>
           /\ ClientsOK'
BY DEF Step, goVars, ClosingInv, ClosingIsOrderly, STypeOK, ClientsOK, LooksAtMade

\* The same for a step that delivers nothing.
LEMMA StepKeeps ==
    ASSUME StreamsInv, NEW g \in Gens, g <= made, NEW s, Moves(rs[g], s), Step(g, s),
           UNCHANGED delivered
    PROVE  StreamsInv' /\ LeavesClosed
<1>1. STypeOK /\ ClosingInv /\ MessageInv BY DEF StreamsInv, ClosingInv, ClosingIsOrderly
<1>2. delivered' \in [Msgs -> Nat] BY <1>1 DEF STypeOK
<1>3. /\ ClosingInv' /\ LeavesClosed
      /\ \A h \in Gens : rs'[h] \in RoomStream /\ Embeds(rs'[h], rs[h])
      BY <1>1, <1>2, StepIs, ChangeKeepsClosing
<1>4. UNCHANGED <<sent, delivered>> BY <1>1, StepIs
<1> QED BY <1>1, <1>3, <1>4, QuietKeepsMessages DEF StreamsInv

\* A step that also evicts the worker's stream: that one is closed.
LEMMA MarkKeeps ==
    ASSUME StreamsInv, NEW g \in Gens, g <= made, NEW s, Moves(rs[g], s),
           MarkUnhealthy([rs EXCEPT ![g] = s]), UNCHANGED <<goVars, delivered>>
    PROVE  StreamsInv' /\ LeavesClosed
<1> DEFINE f == [rs EXCEPT ![g] = s]
<1>1. STypeOK /\ LooksAtMade /\ ClosingInv /\ MessageInv
      BY DEF StreamsInv, ClosingInv, ClosingIsOrderly
<1>2. UNCHANGED <<made, pc, what, ref, sent, delivered>> BY DEF goVars
<1>3. /\ rs \in [Gens -> RoomStream] /\ made \in Nat /\ current \in Nat /\ current <= made
      /\ current # 0 => current \in Gens
      /\ \A h \in Gens : rs[h] \in RoomStream /\ Roomy(rs[h])
      BY <1>1, StreamsAreTyped
<1>4. s \in RoomStream /\ Roomy(s) /\ s.closes = rs[g].closes /\ Embeds(s, rs[g]) BY DEF Moves
<1>5. f \in [Gens -> RoomStream] /\ \A h \in Gens : f[h] = IF h = g THEN s ELSE rs[h]
      BY <1>3, <1>4
<1>6. \A h \in Gens : h > made => h # g /\ h # current BY <1>3 DEF Gens
<1>7. current' = 0 /\ rs' = IF current = 0 THEN f ELSE [f EXCEPT ![current] = Torn(@)]
      BY DEF MarkUnhealthy
<1> HIDE DEF f
<1>8. \A h \in Gens : Roomy(f[h]) /\ f[h].closes = rs[h].closes /\ Embeds(f[h], rs[h])
      BY <1>3, <1>4, <1>5, SameEmbeds
<1>9. rs' \in [Gens -> RoomStream] /\ \A h \in Gens : rs'[h] = IF h = current THEN Torn(f[h]) ELSE f[h]
  <2>1. CASE current = 0
    <3>1. \A h \in Gens : h # current BY <2>1 DEF Gens
    <3> QED BY <1>5, <1>7, <2>1, <3>1
  <2>2. CASE current # 0
    <3>1. current \in Gens /\ rs' = [f EXCEPT ![current] = Torn(f[current])]
          BY <1>3, <1>5, <1>7, <2>2
    <3>2. Torn(f[current]) \in RoomStream BY <1>5, <3>1, TornIs
    <3> QED BY <1>5, <3>1, <3>2
  <2> QED BY <2>1, <2>2
<1>10. ASSUME NEW h \in Gens
       PROVE  /\ rs'[h].queue = f[h].queue /\ rs'[h].buffer = f[h].buffer /\ rs'[h].hand = f[h].hand
              /\ rs'[h].closes = rs[h].closes + (IF h = current THEN 1 ELSE 0)
  <2>1. f[h] \in RoomStream /\ f[h].closes \in Nat BY <1>5, FieldsAreTyped
  <2> QED BY <1>8, <1>9, <2>1, TornIs
<1>11. \A h \in Gens : Roomy(rs'[h]) /\ Embeds(rs'[h], rs[h])
  <2> SUFFICES ASSUME NEW h \in Gens PROVE Roomy(rs'[h]) /\ Embeds(rs'[h], rs[h]) OBVIOUS
  <2>1. Slots(rs'[h]) = Slots(f[h]) /\ \A p : At(rs'[h], p) = At(f[h], p) BY <1>10 DEF Slots, At
  <2>2. Embeds(rs'[h], rs[h]) = Embeds(f[h], rs[h]) BY <2>1 DEF Embeds
  <2> QED BY <1>8, <1>10, <2>2 DEF Roomy
<1>12. STypeOK' BY <1>1, <1>2, <1>3, <1>7, <1>9, <1>11 DEF STypeOK, Roomy
<1>13. \A h \in Gens : h > made' => rs'[h] = rs[h] BY <1>2, <1>5, <1>6, <1>9
<1>14. LeavesClosed
  <2>1. \A h \in Gens : h # 0 BY DEF Gens
  <2> QED BY <1>2, <1>7, <1>10, <2>1 DEF LeavesClosed
<1>15. ClosingInv' BY <1>1, <1>2, <1>12, <1>13, <1>14, LeavesClosedKeeps DEF LooksAtMade
<1>16. MessageInv' BY <1>1, <1>2, <1>9, <1>11, QuietKeepsMessages
<1> QED BY <1>14, <1>15, <1>16 DEF StreamsInv
-----------------------------------------------------------------------------
(* One lemma per action.                                                   *)

\* A step of a client that leaves the streams alone.
LEMMA StreamsAlike ==
    ASSUME StreamsInv, UNCHANGED <<current, made, rs, sent, delivered>>, ClientsOK'
    PROVE  StreamsInv' /\ LeavesClosed
<1>1. STypeOK /\ ClosingInv /\ MessageInv BY DEF StreamsInv, ClosingInv, ClosingIsOrderly
<1>2. STypeOK' BY <1>1 DEF STypeOK, ClientsOK
<1>3. LeavesClosed
  <2>1. \A g \in Gens : rs[g].closes \in Nat BY <1>1, StreamsAreTyped, FieldsAreTyped
  <2> QED BY <2>1 DEF LeavesClosed
<1>4. ClosingInv' BY <1>1, <1>2, <1>3, LeavesClosedKeeps DEF LooksAtMade, ClientsOK
<1>5. MessageInv' BY <1>1, StreamsAreTyped, SameEmbeds, QuietKeepsMessages
<1> QED BY <1>3, <1>4, <1>5 DEF StreamsInv

\* The clients' side, from the invariant.
LEMMA ClientsAreOK ==
    ASSUME StreamsInv
    PROVE  ClientsOK
BY DEF StreamsInv, ClosingInv, ClosingIsOrderly, STypeOK, ClientsOK

\* The fast path of GetOrCreate.
LEMMA ReuseKeeps ==
    ASSUME StreamsInv, NEW c \in Clients, Reuse(c)
    PROVE  StreamsInv' /\ LeavesClosed
<1>1. ClientsOK' BY ClientsAreOK DEF Reuse, ClientsOK, LooksAtMade
<1> QED BY <1>1, StreamsAlike DEF Reuse

\* The slow path of GetOrCreate.
LEMMA AwaitKeeps ==
    ASSUME StreamsInv, NEW c \in Clients, Await(c)
    PROVE  StreamsInv' /\ LeavesClosed
<1>1. ClientsOK' BY ClientsAreOK DEF Await, ClientsOK, LooksAtMade
<1> QED BY <1>1, StreamsAlike DEF Await

\* A flight that ends without a new stream.
LEMMA NoCreateKeeps ==
    ASSUME StreamsInv, NoCreate
    PROVE  StreamsInv' /\ LeavesClosed
<1>1. ClientsOK' BY ClientsAreOK DEF NoCreate, Land, ClientsOK, LooksAtMade
<1> QED BY <1>1, StreamsAlike DEF NoCreate

\* What follows a Send, accepted or refused, never goes back to the channel.
LEMMA AfterSend ==
    ASSUME ClientsOK, NEW c \in Clients, Accepted(c) \/ Refused(c),
           made' = made, ref' \in [Clients -> 0..made],
           \A d \in Clients : d # c => ref'[d] = ref[d]
    PROVE  ClientsOK'
<1>1. what[c] \in {"join", "talk", "bye"} BY DEF ClientsOK
<1>2. CASE Accepted(c)
  <2>1. \E x \in {"tally", "in", "untally"} : pc' = [pc EXCEPT ![c] = x]
        BY <1>1, <1>2 DEF Accepted
  <2>2. what' \in [Clients -> {"join", "talk", "bye"}] BY <1>2 DEF Accepted, ClientsOK
  <2> QED BY <2>1, <2>2 DEF ClientsOK, LooksAtMade
<1>3. CASE Refused(c)
  <2>1. \E x \in {"out", "look", "untally"} : pc' = [pc EXCEPT ![c] = x]
        BY <1>1, <1>3 DEF Refused
  <2>2. what' \in [Clients -> {"join", "talk", "bye"}] BY <1>3 DEF Refused, ClientsOK
  <2> QED BY <2>1, <2>2 DEF ClientsOK, LooksAtMade
<1> QED BY <1>2, <1>3

\* The lookup of Send: what it finds was made.
LEMMA LookKeeps ==
    ASSUME StreamsInv, NEW c \in Clients, Look(c)
    PROVE  StreamsInv' /\ LeavesClosed
<1>1. ClientsOK /\ STypeOK BY ClientsAreOK DEF StreamsInv, ClosingInv, ClosingIsOrderly
<1>2. ClientsOK'
  <2>1. CASE Usable
    <3>1. current \in 1..made BY <1>1, <2>1, StreamsAreTyped DEF Usable
    <3> QED BY <1>1, <2>1, <3>1 DEF Look, ClientsOK, LooksAtMade
  <2>2. CASE ~Usable BY <1>1, <2>2, AfterSend DEF Look, ClientsOK
  <2> QED BY <2>1, <2>2
<1> QED BY <1>2, StreamsAlike DEF Look

\* A send on a closed channel.
LEMMA PushPanicsKeeps ==
    ASSUME StreamsInv, NEW c \in Clients, PushPanics(c)
    PROVE  StreamsInv' /\ LeavesClosed
<1>1. ClientsOK /\ made \in Nat
      BY ClientsAreOK, StreamsAreTyped DEF StreamsInv, ClosingInv, ClosingIsOrderly
<1>2. ClientsOK' BY <1>1 DEF PushPanics, ClientsOK, LooksAtMade
<1> QED BY <1>2, StreamsAlike DEF PushPanics

\* A message of a player, or its end.
LEMMA BeginKeeps ==
    ASSUME StreamsInv, NEW c \in Clients, NEW w \in {"talk", "bye"}, Begin(c, w)
    PROVE  StreamsInv' /\ LeavesClosed
<1>1. ClientsOK' BY ClientsAreOK DEF Begin, ClientsOK, LooksAtMade
<1> QED BY <1>1, StreamsAlike DEF Begin

\* A flight that ends with a new stream: the old one is closed.
LEMMA CreateKeeps ==
    ASSUME StreamsInv, Create
    PROVE  StreamsInv' /\ LeavesClosed
<1>1. STypeOK /\ ClosingInv /\ MessageInv BY DEF StreamsInv, ClosingInv, ClosingIsOrderly
<1>2. /\ rs \in [Gens -> RoomStream] /\ made \in Nat /\ current \in Nat /\ current <= made
      /\ current # 0 => current \in Gens
      /\ \A h \in Gens : rs[h] \in RoomStream /\ Roomy(rs[h])
      BY <1>1, StreamsAreTyped
<1>3. /\ made' = made + 1 /\ current' = made + 1 /\ made < MaxStreams
      /\ rs' = IF current = 0 THEN rs ELSE [rs EXCEPT ![current] = Torn(@)]
      /\ UNCHANGED <<what, ref, sent, delivered>>
      BY DEF Create
<1>4. rs' \in [Gens -> RoomStream] /\ \A h \in Gens : rs'[h] = IF h = current THEN Torn(rs[h]) ELSE rs[h]
  <2>1. CASE current = 0
    <3>1. \A h \in Gens : h # current BY <2>1 DEF Gens
    <3> QED BY <1>2, <1>3, <2>1, <3>1
  <2>2. CASE current # 0
    <3>1. Torn(rs[current]) \in RoomStream BY <1>2, <2>2, TornIs
    <3> QED BY <1>2, <1>3, <2>2, <3>1
  <2> QED BY <2>1, <2>2
<1>5. ASSUME NEW h \in Gens
      PROVE  /\ rs'[h].queue = rs[h].queue /\ rs'[h].buffer = rs[h].buffer /\ rs'[h].hand = rs[h].hand
             /\ rs'[h].closes = rs[h].closes + (IF h = current THEN 1 ELSE 0)
  <2>1. rs[h].closes \in Nat BY <1>2, FieldsAreTyped
  <2> QED BY <1>2, <1>4, <2>1, TornIs
<1>6. \A h \in Gens : Roomy(rs'[h]) /\ Embeds(rs'[h], rs[h])
  <2> SUFFICES ASSUME NEW h \in Gens PROVE Roomy(rs'[h]) /\ Embeds(rs'[h], rs[h]) OBVIOUS
  <2>1. rs'[h] \in RoomStream BY <1>4
  <2>2. Embeds(rs'[h], rs[h]) BY <1>2, <1>5, <2>1, StaysEmbeds
  <2> QED BY <1>2, <1>5, <2>2 DEF Roomy
<1>7. ClientsOK'
  <2>1. ClientsOK BY ClientsAreOK
  <2>2. pc' = [c \in Clients |-> IF c \in Waiting THEN "look" ELSE pc[c]] BY DEF Create, Land
  <2>3. \A x \in 0..made : x \in 0..(made + 1) /\ (x \in 1..made => x \in 1..(made + 1)) BY <1>2
  <2> QED BY <1>3, <2>1, <2>2, <2>3 DEF ClientsOK, LooksAtMade
<1>8. STypeOK'
  <2>1. made' \in 0..MaxStreams /\ current' \in 0..made' BY <1>2, <1>3, BoundsArePositive
  <2> QED BY <1>1, <1>3, <1>4, <1>6, <1>7, <2>1 DEF STypeOK, Roomy, ClientsOK
<1>9. LeavesClosed
  <2>1. \A h \in Gens : h = current => current' # h BY <1>2, <1>3
  <2> QED BY <1>3, <1>5, <2>1 DEF LeavesClosed
<1>10. \A h \in Gens : h > made' => rs'[h] = rs[h] BY <1>2, <1>3, <1>4 DEF Gens
<1>11. ClosingInv' BY <1>1, <1>7, <1>8, <1>9, <1>10, LeavesClosedKeeps DEF LooksAtMade, ClientsOK
<1>12. MessageInv' BY <1>1, <1>3, <1>4, <1>6, QuietKeepsMessages
<1> QED BY <1>9, <1>11, <1>12 DEF StreamsInv

\* AddPlayer and RemovePlayer change the count of the stream in the map.
LEMMA CountKeeps ==
    ASSUME StreamsInv, ClientsOK', UNCHANGED <<current, made, sent, delivered>>,
           current # 0, NEW n \in Int, NEW i \in BOOLEAN,
           rs' = [rs EXCEPT ![current] = [@ EXCEPT !.count = n, !.idle = i]]
    PROVE  StreamsInv' /\ LeavesClosed
<1> DEFINE s == [rs[current] EXCEPT !.count = n, !.idle = i]
<1>1. STypeOK /\ ClosingInv /\ MessageInv BY DEF StreamsInv, ClosingInv, ClosingIsOrderly
<1>2. /\ rs[current] \in RoomStream /\ Roomy(rs[current]) /\ current \in Gens /\ current <= made
      /\ rs \in [Gens -> RoomStream]
      BY <1>1, StreamsAreTyped
<1>3. s \in RoomStream BY <1>2 DEF RoomStream
<1>4. s.closes = rs[current].closes /\ s.queue = rs[current].queue /\ s.hand = rs[current].hand
      /\ s.buffer = rs[current].buffer
      BY <1>2 DEF RoomStream
<1>5. rs' = [rs EXCEPT ![current] = s] BY <1>2
<1> HIDE DEF s
<1>6. Moves(rs[current], s) BY <1>2, <1>3, <1>4, StaysMoves
<1>7. delivered' \in [Msgs -> Nat] BY <1>1 DEF STypeOK
<1>8. /\ ClosingInv' /\ LeavesClosed
      /\ \A h \in Gens : rs'[h] \in RoomStream /\ Embeds(rs'[h], rs[h])
      BY <1>1, <1>2, <1>5, <1>6, <1>7, ChangeKeepsClosing
<1> QED BY <1>1, <1>8, QuietKeepsMessages DEF StreamsInv

\* AddPlayer counts on whatever stream is in the map.
LEMMA AddPlayerKeeps ==
    ASSUME StreamsInv, NEW c \in Clients, AddPlayer(c)
    PROVE  StreamsInv' /\ LeavesClosed
<1>1. ClientsOK' BY ClientsAreOK DEF AddPlayer, ClientsOK, LooksAtMade
<1>2. CASE current = 0 BY <1>1, <1>2, StreamsAlike DEF AddPlayer
<1>3. CASE current # 0
  <2>1. /\ rs \in [Gens -> RoomStream] /\ current \in Gens
        /\ rs[current].count \in Int /\ rs[current].idle \in BOOLEAN /\ rs[current] \in RoomStream
        BY <1>3, StreamsAreTyped DEF StreamsInv, ClosingInv, ClosingIsOrderly, RoomStream
  <2>2. [rs[current] EXCEPT !.count = @ + 1]
            = [rs[current] EXCEPT !.count = rs[current].count + 1, !.idle = rs[current].idle]
        BY <2>1 DEF RoomStream
  <2>3. rs' = [rs EXCEPT ![current] =
                 [@ EXCEPT !.count = rs[current].count + 1, !.idle = rs[current].idle]]
        BY <1>3, <2>1, <2>2 DEF AddPlayer
  <2>4. rs[current].count + 1 \in Int BY <2>1
  <2> QED BY <1>1, <1>3, <2>1, <2>3, <2>4, CountKeeps DEF AddPlayer
<1> QED BY <1>2, <1>3

\* RemovePlayer too, and it may set the idle close to sleep.
LEMMA RemovePlayerKeeps ==
    ASSUME StreamsInv, NEW c \in Clients, RemovePlayer(c)
    PROVE  StreamsInv' /\ LeavesClosed
<1>1. ClientsOK' BY ClientsAreOK DEF RemovePlayer, ClientsOK, LooksAtMade
<1>2. CASE current = 0 BY <1>1, <1>2, StreamsAlike DEF RemovePlayer
<1>3. CASE current # 0
  <2> DEFINE n == rs[current].count - 1
             i == rs[current].idle \/ rs[current].count <= 1
  <2>1. /\ rs \in [Gens -> RoomStream] /\ current \in Gens
        /\ rs[current].count \in Int /\ rs[current].idle \in BOOLEAN /\ rs[current] \in RoomStream
        BY <1>3, StreamsAreTyped DEF StreamsInv, ClosingInv, ClosingIsOrderly, RoomStream
  <2>2. rs' = [rs EXCEPT ![current].count = @ - 1, ![current].idle = @ \/ rs[current].count <= 1]
        BY <1>3 DEF RemovePlayer
  <2>3. rs' = [rs EXCEPT ![current] = [@ EXCEPT !.count = n, !.idle = i]]
        BY <2>1, <2>2
  <2>4. n \in Int /\ i \in BOOLEAN BY <2>1
  <2> QED BY <1>1, <1>3, <2>3, <2>4, CountKeeps DEF RemovePlayer
<1> QED BY <1>2, <1>3

\* What the goroutines of a stream start from.
LEMMA GoStart ==
    ASSUME StreamsInv, NEW g \in Gens
    PROVE  /\ rs[g] \in RoomStream /\ Roomy(rs[g]) /\ rs \in [Gens -> RoomStream]
           /\ STypeOK /\ ClosingInv /\ MessageInv /\ delivered \in [Msgs -> Nat]
BY StreamsAreTyped DEF StreamsInv, ClosingInv, ClosingIsOrderly, STypeOK

\* sendLoop reads the channel.
LEMMA TakeKeeps ==
    ASSUME StreamsInv, NEW g \in Gens, Take(g)
    PROVE  StreamsInv' /\ LeavesClosed
<1>1. CASE rs[g].queue # <<>>
  <2>1. Moves(rs[g], [rs[g] EXCEPT !.hand = Head(rs[g].queue), !.queue = Tail(rs[g].queue)])
        BY <1>1, GoStart, TakeMoves DEF Take
  <2> QED BY <1>1, <2>1, StepKeeps DEF Take
<1>2. CASE ~(rs[g].queue # <<>>)
  <2> DEFINE s == [rs[g] EXCEPT !.loop = FALSE]
  <2>1. /\ s \in RoomStream /\ s.closes = rs[g].closes /\ s.queue = rs[g].queue
        /\ s.hand = rs[g].hand /\ s.buffer = rs[g].buffer
        BY GoStart DEF RoomStream
  <2>2. Moves(rs[g], s) BY <2>1, GoStart, StaysMoves
  <2> QED BY <1>2, <2>2, StepKeeps DEF Take
<1> QED BY <1>1, <1>2

\* The connection breaks.
LEMMA BreakKeeps ==
    ASSUME StreamsInv, NEW g \in Gens, Break(g)
    PROVE  StreamsInv' /\ LeavesClosed
<1> DEFINE s == [rs[g] EXCEPT !.up = FALSE]
<1>1. /\ s \in RoomStream /\ s.closes = rs[g].closes /\ s.queue = rs[g].queue
      /\ s.hand = rs[g].hand /\ s.buffer = rs[g].buffer
      BY GoStart DEF RoomStream
<1>2. Moves(rs[g], s) BY <1>1, GoStart, StaysMoves
<1> QED BY <1>2, StepKeeps DEF Break

\* The receiver ends.
LEMMA RecvFailsKeeps ==
    ASSUME StreamsInv, NEW g \in Gens, RecvFails(g)
    PROVE  StreamsInv' /\ LeavesClosed
<1> DEFINE s == IF rs[g].loop
                THEN [rs[g] EXCEPT !.recv = FALSE, !.state = "dead", !.handler = "new"]
                ELSE [rs[g] EXCEPT !.recv = FALSE]
<1>1. /\ s \in RoomStream /\ s.closes = rs[g].closes /\ s.queue = rs[g].queue
      /\ s.hand = rs[g].hand /\ s.buffer = rs[g].buffer
      BY GoStart DEF RoomStream
<1>2. Moves(rs[g], s) BY <1>1, GoStart, StaysMoves
<1> QED BY <1>2, StepKeeps DEF RecvFails

\* The keepalive gives the stream up.
LEMMA KeepFailsKeeps ==
    ASSUME StreamsInv, NEW g \in Gens, KeepFails(g)
    PROVE  StreamsInv' /\ LeavesClosed
<1> DEFINE s == [rs[g] EXCEPT !.keep = FALSE, !.state = "dead", !.handler = "new"]
<1>1. /\ s \in RoomStream /\ s.closes = rs[g].closes /\ s.queue = rs[g].queue
      /\ s.hand = rs[g].hand /\ s.buffer = rs[g].buffer
      BY GoStart DEF RoomStream
<1>2. Moves(rs[g], s) BY <1>1, GoStart, StaysMoves
<1> QED BY <1>2, StepKeeps DEF KeepFails

\* The keepalive ends.
LEMMA KeepStopsKeeps ==
    ASSUME StreamsInv, NEW g \in Gens, KeepStops(g)
    PROVE  StreamsInv' /\ LeavesClosed
<1> DEFINE s == [rs[g] EXCEPT !.keep = FALSE]
<1>1. /\ s \in RoomStream /\ s.closes = rs[g].closes /\ s.queue = rs[g].queue
      /\ s.hand = rs[g].hand /\ s.buffer = rs[g].buffer
      BY GoStart DEF RoomStream
<1>2. Moves(rs[g], s) BY <1>1, GoStart, StaysMoves
<1> QED BY <1>2, StepKeeps DEF KeepStops

\* handleStreamDisconnect starts with an empty buffer.
LEMMA StartHandlerKeeps ==
    ASSUME StreamsInv, NEW g \in Gens, StartHandler(g)
    PROVE  StreamsInv' /\ LeavesClosed
<1> DEFINE r == rs[g]
           s == [r EXCEPT !.handler = "none"]
           t == [r EXCEPT !.handler = "trying", !.state = "reconnecting",
                          !.tries = MaxRetries, !.buffer = <<>>]
<1>1. CASE r.state = "healthy"
  <2>1. /\ s \in RoomStream /\ s.closes = r.closes /\ s.queue = r.queue
        /\ s.hand = r.hand /\ s.buffer = r.buffer
        BY GoStart DEF RoomStream
  <2>2. Moves(r, s) BY <2>1, GoStart, StaysMoves
  <2> QED BY <1>1, <2>2, StepKeeps DEF StartHandler
<1>2. CASE r.state # "healthy"
  <2>1. ASSUME NEW n \in 0..MaxRetries, NEW b \in Seq(Msgs)
        PROVE  [r EXCEPT !.handler = "trying", !.state = "reconnecting",
                         !.tries = n, !.buffer = b] \in RoomStream
        BY GoStart DEF RoomStream
  <2>2. MaxRetries \in 0..MaxRetries /\ <<>> \in Seq(Msgs) BY BoundsArePositive
  <2>3. t \in RoomStream BY <2>1, <2>2, Zenon
  <2>4. t.closes = r.closes /\ t.queue = r.queue /\ t.hand = r.hand /\ t.buffer = <<>>
        BY GoStart DEF RoomStream
  <2>5. Moves(r, t) BY <2>3, <2>4, GoStart, StaysMoves
  <2> QED BY <1>2, <2>5, StepKeeps DEF StartHandler
<1> QED BY <1>1, <1>2

\* The buffering goroutines.
LEMMA DrainKeeps ==
    ASSUME StreamsInv, NEW g \in Gens, Drain(g)
    PROVE  StreamsInv' /\ LeavesClosed
<1> DEFINE r == rs[g]
           s == [r EXCEPT !.queue = Tail(@), !.buffer = Buffered(@, Head(r.queue))]
           t == [r EXCEPT !.queue = Tail(@)]
<1>1. g <= made /\ r.queue # <<>> /\ UNCHANGED delivered /\ (Step(g, s) \/ Step(g, t)) BY DEF Drain
<1>2. Moves(r, s) BY <1>1, GoStart, BufferMoves
<1>3. Moves(r, t) BY <1>1, GoStart, DropMoves
<1> HIDE DEF r, s, t
<1>4. CASE Step(g, s) BY <1>1, <1>2, <1>4, StepKeeps DEF r
<1>5. CASE Step(g, t) BY <1>1, <1>3, <1>5, StepKeeps DEF r
<1> QED BY <1>1, <1>4, <1>5

\* A reconnection attempt succeeds.
LEMMA RetrySucceedsKeeps ==
    ASSUME StreamsInv, NEW g \in Gens, RetrySucceeds(g)
    PROVE  StreamsInv' /\ LeavesClosed
<1> DEFINE r == rs[g]
           s == [r EXCEPT !.handler = "replay", !.tries = 0, !.state = "healthy", !.up = TRUE]
<1>1. ASSUME NEW n \in 0..MaxRetries
      PROVE  [r EXCEPT !.handler = "replay", !.tries = n, !.state = "healthy", !.up = TRUE]
                \in RoomStream
      BY GoStart DEF RoomStream
<1>2. 0 \in 0..MaxRetries BY BoundsArePositive
<1>3. s \in RoomStream BY <1>1, <1>2, Zenon
<1>4. /\ s.closes = r.closes /\ s.queue = r.queue /\ s.hand = r.hand /\ s.buffer = r.buffer
      BY GoStart DEF RoomStream
<1>5. Moves(r, s) BY <1>3, <1>4, GoStart, StaysMoves
<1> QED BY <1>5, StepKeeps DEF RetrySucceeds

\* A reconnection attempt fails; the last one evicts.
LEMMA RetryFailsKeeps ==
    ASSUME StreamsInv, NEW g \in Gens, RetryFails(g)
    PROVE  StreamsInv' /\ LeavesClosed
<1> DEFINE r == rs[g]
           s == [r EXCEPT !.tries = @ - 1]
           t == [r EXCEPT !.handler = "none", !.tries = 0, !.state = "dead", !.buffer = <<>>]
<1>0. r \in RoomStream /\ r.tries \in 0..MaxRetries /\ MaxRetries \in Nat
      BY GoStart, BoundsArePositive DEF RoomStream
<1>1. CASE r.tries > 1
  <2>1. ASSUME NEW n \in 0..MaxRetries PROVE [r EXCEPT !.tries = n] \in RoomStream
        BY GoStart DEF RoomStream
  <2>2. r.tries - 1 \in 0..MaxRetries BY <1>0, <1>1
  <2>3. s \in RoomStream BY <2>1, <2>2, Zenon
  <2>4. s.closes = r.closes /\ s.queue = r.queue /\ s.hand = r.hand /\ s.buffer = r.buffer
        BY GoStart DEF RoomStream
  <2>5. Moves(r, s) BY <2>3, <2>4, GoStart, StaysMoves
  <2> QED BY <1>1, <2>5, StepKeeps DEF RetryFails
<1>2. CASE ~(r.tries > 1)
  <2>1. ASSUME NEW n \in 0..MaxRetries, NEW b \in Seq(Msgs)
        PROVE  [r EXCEPT !.handler = "none", !.tries = n, !.state = "dead", !.buffer = b]
                  \in RoomStream
        BY GoStart DEF RoomStream
  <2>2. 0 \in 0..MaxRetries /\ <<>> \in Seq(Msgs) BY BoundsArePositive
  <2>3. t \in RoomStream BY <2>1, <2>2, Zenon
  <2>4. t.closes = r.closes /\ t.queue = r.queue /\ t.hand = r.hand /\ t.buffer = <<>>
        BY GoStart DEF RoomStream
  <2>5. Moves(r, t) BY <2>3, <2>4, GoStart, StaysMoves
  <2>6. [rs EXCEPT ![g].handler = "none", ![g].tries = 0, ![g].state = "dead", ![g].buffer = <<>>]
            = [rs EXCEPT ![g] = t]
        BY GoStart
  <2>7. MarkUnhealthy([rs EXCEPT ![g] = t]) /\ UNCHANGED <<goVars, delivered>> /\ g <= made
        BY <1>2, <2>6 DEF RetryFails
  <2> QED BY <2>5, <2>7, MarkKeeps
<1> QED BY <1>1, <1>2

\* The idle close wakes: only the stream in the map is closed.
LEMMA IdleCloseKeeps ==
    ASSUME StreamsInv, NEW g \in Gens, IdleClose(g)
    PROVE  StreamsInv' /\ LeavesClosed
<1> DEFINE r == rs[g]
           s == [r EXCEPT !.idle = FALSE]
<1>1. CASE current = g /\ rs[g].count <= 0
  <2>1. Moves(r, r) BY GoStart, SameEmbeds DEF Moves
  <2>2. [rs EXCEPT ![g] = r] = rs /\ current # 0 BY <1>1, GoStart DEF Gens
  <2>3. MarkUnhealthy(rs) BY <1>1, <2>2 DEF IdleClose, MarkUnhealthy
  <2>4. MarkUnhealthy([rs EXCEPT ![g] = r]) BY <2>2, <2>3
  <2> QED BY <2>1, <2>4, MarkKeeps DEF IdleClose
<1>2. CASE ~(current = g /\ rs[g].count <= 0)
  <2>1. /\ s \in RoomStream /\ s.closes = r.closes /\ s.queue = r.queue
        /\ s.hand = r.hand /\ s.buffer = r.buffer
        BY GoStart DEF RoomStream
  <2>2. Moves(r, s) BY <2>1, GoStart, StaysMoves
  <2>3. Step(g, s) BY <1>2, GoStart DEF IdleClose, Step
  <2> QED BY <2>2, <2>3, StepKeeps DEF IdleClose
<1> QED BY <1>1, <1>2

\* sendLoop writes: the message it had in its hand is delivered, and was not
\* before; or it is lost and the worker's stream is evicted.
LEMMA WriteKeeps ==
    ASSUME StreamsInv, NEW g \in Gens, Write(g)
    PROVE  StreamsInv' /\ LeavesClosed
<1> DEFINE r == rs[g]
           s == [r EXCEPT !.hand = 0]
           t == [r EXCEPT !.hand = 0, !.loop = FALSE]
<1>0. 0 \in 0..MaxMsgs BY BoundsArePositive
<1>1. r.hand \in Msgs /\ 0 \in Slots(r) /\ At(r, 0) = r.hand /\ At(r, 0) # 0 /\ g <= made
      BY GoStart, FieldsAreTyped, PlacesAreTyped DEF Write, At
<1>2. CASE r.up
  <2>1. delivered' = [delivered EXCEPT ![r.hand] = @ + 1] /\ Step(g, s) BY <1>2 DEF Write
  <2>2. /\ delivered' \in [Msgs -> Nat]
        /\ \A m \in Msgs : delivered'[m] = delivered[m] + (IF m = r.hand THEN 1 ELSE 0)
    <3>1. delivered \in [Msgs -> Nat] BY GoStart
    <3> HIDE DEF r
    <3> QED BY <1>1, <2>1, <3>1
  <2>3. ASSUME NEW m \in 0..MaxMsgs PROVE [r EXCEPT !.hand = m] \in RoomStream
        BY GoStart DEF RoomStream
  <2>4. s \in RoomStream BY <2>3, <1>0, Zenon
  <2>5. s.closes = r.closes /\ s.queue = r.queue /\ s.hand = 0 /\ s.buffer = r.buffer
        BY GoStart DEF RoomStream
  <2>6. Moves(r, s) BY <2>4, <2>5, GoStart, StaysMoves
  <2>7. /\ ClosingInv' /\ LeavesClosed /\ sent' = sent
        /\ \A h \in Gens : /\ rs'[h] \in RoomStream /\ Embeds(rs'[h], rs[h])
                           /\ rs'[h] = IF h = g THEN s ELSE rs[h]
    <3> HIDE DEF s
    <3> QED BY <1>1, <2>1, <2>2, <2>6, GoStart, StepIs, ChangeKeepsClosing
  <2>8. OnePlace(rs) /\ Undelivered(rs, delivered, sent) /\ AtMostOnce
        /\ \A m \in Msgs : m > sent => delivered[m] = 0
        BY DEF StreamsInv, MessageInv
  <2>9. delivered[r.hand] = 0 /\ r.hand <= sent BY <1>1, <2>8 DEF Undelivered
  <2>10. ASSUME NEW h \in Gens, NEW p \in Slots(rs'[h]), At(rs'[h], p) # 0
         PROVE  delivered'[At(rs'[h], p)] = 0
    <3>1. At(rs'[h], p) \in Msgs BY <2>7, <2>10, PlacesAreTyped
    <3>2. p \in Slots(rs[h]) /\ At(rs'[h], p) = At(rs[h], p) /\ (h = g => p # 0)
      <4>1. CASE h = g
        <5>1. rs'[h] = s /\ rs[h] = r BY <2>7, <4>1
        <5>2. p # 0 BY <2>5, <2>10, <5>1 DEF At
        <5> QED BY <2>5, <5>1, <5>2 DEF At, Slots
      <4>2. CASE h # g BY <2>7, <4>2
      <4> QED BY <4>1, <4>2
    <3>3. At(rs[h], p) # r.hand BY <1>1, <2>8, <2>10, <3>2 DEF OnePlace
    <3>4. delivered[At(rs[h], p)] = 0 BY <2>8, <2>10, <3>2 DEF Undelivered
    <3> QED BY <2>2, <3>1, <3>2, <3>3, <3>4
  <2>11. AtMostOnce' BY <2>2, <2>8, <2>9, GoStart DEF AtMostOnce
  <2>12. \A m \in Msgs : m > sent => delivered'[m] = 0
    <3>1. sent \in Nat /\ r.hand \in Nat BY <1>1, GoStart, BoundsArePositive DEF STypeOK, Msgs
    <3>2. \A m \in Msgs : m > sent => m # r.hand BY <2>9, <3>1 DEF Msgs
    <3> QED BY <2>2, <2>8, <3>2
  <2>13. MessageInv' BY <2>7, <2>10, <2>11, <2>12, GoStart, MovesKeepMessages
  <2> QED BY <2>7, <2>13 DEF StreamsInv
<1>3. CASE ~r.up
  <2>1. ASSUME NEW m \in 0..MaxMsgs PROVE [r EXCEPT !.hand = m, !.loop = FALSE] \in RoomStream
        BY GoStart DEF RoomStream
  <2>2. t \in RoomStream BY <2>1, <1>0, Zenon
  <2>3. t.closes = r.closes /\ t.queue = r.queue /\ t.hand = 0 /\ t.buffer = r.buffer
        BY GoStart DEF RoomStream
  <2>4. Moves(r, t) BY <2>2, <2>3, GoStart, StaysMoves
  <2>5. [rs EXCEPT ![g].hand = 0, ![g].loop = FALSE] = [rs EXCEPT ![g] = t] BY GoStart
  <2>6. MarkUnhealthy([rs EXCEPT ![g] = t]) /\ UNCHANGED <<goVars, delivered>>
        BY <1>3, <2>5 DEF Write
  <2> QED BY <1>1, <2>4, <2>6, MarkKeeps
<1> QED BY <1>2, <1>3

\* The buffer is replayed up to an error and given up: what is delivered was in
\* the buffer once, was not delivered before and is nowhere else.
LEMMA ReplayKeeps ==
    ASSUME StreamsInv, NEW g \in Gens, Replay(g)
    PROVE  StreamsInv' /\ LeavesClosed
<1> DEFINE r == rs[g]
           K(n, m) == {k \in 1..n : r.buffer[k] = m}
<1>1. PICK n \in 0..Len(r.buffer) :
        /\ g <= made
        /\ delivered' = [m \in Msgs |-> delivered[m] + Cardinality(K(n, m))]
        /\ Step(g, [r EXCEPT !.handler = "none", !.buffer = <<>>, !.keep = TRUE,
                             !.drainer = TRUE,
                             !.state = IF n < Len(r.buffer) THEN "dead" ELSE @])
      BY DEF Replay
<1> DEFINE s == [r EXCEPT !.handler = "none", !.buffer = <<>>, !.keep = TRUE, !.drainer = TRUE,
                          !.state = IF n < Len(r.buffer) THEN "dead" ELSE @]
<1>2. ASSUME NEW b \in Seq(Msgs), NEW st \in {"healthy", "reconnecting", "dead"}
      PROVE  [r EXCEPT !.handler = "none", !.buffer = b, !.keep = TRUE, !.drainer = TRUE,
                       !.state = st] \in RoomStream
      BY GoStart DEF RoomStream
<1>3. <<>> \in Seq(Msgs) /\ (IF n < Len(r.buffer) THEN "dead" ELSE r.state)
                                \in {"healthy", "reconnecting", "dead"}
      BY GoStart DEF RoomStream
<1>4. s \in RoomStream BY <1>2, <1>3, Zenon
<1>5. s.closes = r.closes /\ s.queue = r.queue /\ s.hand = r.hand /\ s.buffer = <<>>
      BY GoStart DEF RoomStream
<1>6. Moves(r, s) BY <1>4, <1>5, GoStart, StaysMoves
<1> HIDE DEF s
<1>7. /\ r \in RoomStream /\ delivered \in [Msgs -> Nat]
      /\ Len(r.buffer) \in Nat /\ n \in Nat /\ n <= Len(r.buffer) /\ sent \in Nat
      BY GoStart, FieldsAreTyped, BoundsArePositive DEF STypeOK
<1>8. OnePlace(rs) /\ Undelivered(rs, delivered, sent) /\ AtMostOnce
      /\ \A m \in Msgs : m > sent => delivered[m] = 0
      BY DEF StreamsInv, MessageInv
<1>9. ASSUME NEW k \in 1..n
      PROVE  -k \in Slots(r) /\ -k < 0 /\ At(r, -k) = r.buffer[k] /\ r.buffer[k] \in Msgs
             /\ r.buffer[k] # 0
  <2>1. k \in Nat /\ k >= 1 /\ k <= Len(r.buffer) /\ -k \in Int /\ -k < 0 /\ -(-k) = k BY <1>7
  <2>2. -k \in Slots(r)
    <3>1. Len(r.queue) \in Nat BY <1>7, FieldsAreTyped
    <3> QED BY <1>7, <2>1, <3>1 DEF Slots
  <2>3. At(r, -k) = r.buffer[k] BY <2>1 DEF At
  <2>4. r.buffer \in Seq(Msgs) BY <1>7, FieldsAreTyped
  <2>5. r.buffer[k] \in Msgs BY <2>1, <2>4, <1>7
  <2> QED BY <2>1, <2>2, <2>3, <2>5 DEF Msgs
<1>10. ASSUME NEW m \in Msgs
       PROVE  /\ K(n, m) = {} \/ \E k \in 1..n : r.buffer[k] = m /\ K(n, m) = {k}
  <2>1. CASE K(n, m) # {}
    <3>1. PICK k \in 1..n : r.buffer[k] = m BY <2>1
    <3>2. ASSUME NEW j \in K(n, m) PROVE j = k
      <4>1. j \in 1..n /\ r.buffer[j] = m BY <3>2
      <4>2. /\ -k \in Slots(r) /\ At(r, -k) = m /\ m # 0
            /\ -j \in Slots(r) /\ At(r, -j) = m
            BY <1>9, <3>1, <4>1
      <4>3. -k = -j BY <1>8, <4>2 DEF OnePlace
      <4> QED BY <3>1, <4>1, <4>3
    <3>3. K(n, m) = {k} BY <3>1, <3>2
    <3> QED BY <3>1, <3>3
  <2> QED BY <2>1
<1>11. ASSUME NEW m \in Msgs
       PROVE  /\ Cardinality(K(n, m)) \in {0, 1}
              /\ Cardinality(K(n, m)) = 1 => \E k \in 1..n : r.buffer[k] = m
              /\ Cardinality(K(n, m)) = 1 => delivered[m] = 0 /\ m <= sent
  <2>1. CASE K(n, m) = {}
    <3>1. Cardinality(K(n, m)) = 0 BY <2>1, FS_EmptySet, Zenon
    <3> QED BY <3>1
  <2>2. ASSUME NEW k \in 1..n, r.buffer[k] = m, K(n, m) = {k}
        PROVE  <1>11!2
    <3>1. Cardinality(K(n, m)) = 1 BY <2>2, FS_Singleton, Zenon
    <3>2. -k \in Slots(r) /\ At(r, -k) = m /\ m # 0 BY <1>9, <2>2
    <3>3. delivered[m] = 0 /\ m <= sent BY <1>8, <3>2 DEF Undelivered
    <3> QED BY <2>2, <3>1, <3>3
  <2> QED BY <1>10, <2>1, <2>2
<1>12. \A m \in Msgs : delivered'[m] = delivered[m] + Cardinality(K(n, m)) BY <1>1
<1>13. delivered' \in [Msgs -> Nat]
  <2>1. \A m \in Msgs : delivered[m] + Cardinality(K(n, m)) \in Nat BY <1>7, <1>11
  <2> QED BY <1>1, <2>1
<1> HIDE DEF K
<1>14. /\ ClosingInv' /\ LeavesClosed /\ sent' = sent
       /\ \A h \in Gens : /\ rs'[h] \in RoomStream /\ Embeds(rs'[h], rs[h])
                          /\ rs'[h] = IF h = g THEN s ELSE rs[h]
  <2>1. Step(g, s) /\ g <= made BY <1>1 DEF s
  <2>2. rs' = [rs EXCEPT ![g] = s] /\ UNCHANGED <<current, made, sent>> /\ ClientsOK'
        BY <2>1, GoStart, StepIs
  <2> QED BY <1>6, <1>13, <2>1, <2>2, GoStart, ChangeKeepsClosing
<1>15. ASSUME NEW h \in Gens, NEW p \in Slots(rs'[h]), At(rs'[h], p) # 0
       PROVE  delivered'[At(rs'[h], p)] = 0
  <2> DEFINE m == At(rs'[h], p)
  <2>1. m \in Msgs BY <1>14, <1>15, PlacesAreTyped
  <2>2. p \in Slots(rs[h]) /\ At(rs[h], p) = m /\ (h = g => p >= 0) /\ p \in Int
    <3>1. CASE h = g
      <4>1. rs'[h] = s /\ rs[h] = r BY <1>14, <3>1
      <4>2. Len(<<>>) = 0 /\ Len(r.queue) \in Nat BY <1>7, FieldsAreTyped
      <4>3. p \in 0..Len(r.queue) BY <1>5, <4>1, <4>2 DEF Slots
      <4>4. p \in Slots(r) /\ p >= 0 /\ p \in Int BY <1>7, <4>2, <4>3 DEF Slots
      <4> QED BY <1>5, <4>1, <4>4 DEF At
    <3>2. CASE h # g
      <4>1. rs'[h] = rs[h] BY <1>14, <3>2
      <4>2. rs[h] \in RoomStream BY GoStart
      <4> QED BY <3>2, <4>1, <4>2, FieldsAreTyped
    <3> QED BY <3>1, <3>2
  <2>3. delivered[m] = 0 BY <1>8, <1>15, <2>2 DEF Undelivered
  <2>4. Cardinality(K(n, m)) # 1
    <3> SUFFICES ASSUME Cardinality(K(n, m)) = 1 PROVE FALSE OBVIOUS
    <3>1. PICK k \in 1..n : r.buffer[k] = m BY <1>11, <2>1
    <3>2. -k \in Slots(r) /\ -k < 0 /\ At(r, -k) = m /\ m # 0 BY <1>9, <3>1
    <3>3. h = g /\ p = -k BY <1>8, <2>2, <3>2 DEF OnePlace
    <3> QED BY <2>2, <3>2, <3>3
  <2> QED BY <1>11, <1>12, <2>1, <2>3, <2>4
<1>16. AtMostOnce'
  <2> SUFFICES ASSUME NEW m \in Msgs PROVE delivered'[m] <= 1 BY DEF AtMostOnce
  <2>1. delivered[m] <= 1 /\ delivered[m] \in Nat BY <1>7, <1>8 DEF AtMostOnce
  <2> QED BY <1>11, <1>12, <2>1
<1>17. \A m \in Msgs : m > sent => delivered'[m] = 0
  <2> SUFFICES ASSUME NEW m \in Msgs, m > sent PROVE delivered'[m] = 0 OBVIOUS
  <2>1. m \in Nat /\ ~(m <= sent) BY <1>7 DEF Msgs
  <2> QED BY <1>8, <1>11, <1>12, <2>1
<1>18. MessageInv' BY <1>14, <1>15, <1>16, <1>17, GoStart, MovesKeepMessages
<1> QED BY <1>14, <1>18 DEF StreamsInv

\* A Send that is accepted: the message is new and goes to the end of the
\* channel of the stream that was looked up, which may have left the map.
LEMMA PushKeeps ==
    ASSUME StreamsInv, NEW c \in Clients, Push(c)
    PROVE  StreamsInv' /\ LeavesClosed
<1> DEFINE g == ref[c]
           r == rs[g]
           s == [r EXCEPT !.queue = Append(@, sent + 1)]
<1>1. ClientsOK /\ STypeOK /\ ClosingInv /\ MessageInv /\ made \in Nat
      BY ClientsAreOK, StreamsAreTyped DEF StreamsInv, ClosingInv, ClosingIsOrderly
<1>2. g \in 1..made /\ g \in Gens /\ g <= made
      BY <1>1, StreamsAreTyped, BoundsArePositive DEF Push, ClientsOK, LooksAtMade, Gens
<1>3. /\ ref' = [ref EXCEPT ![c] = 0] /\ ref' \in [Clients -> 0..made]
      /\ \A d \in Clients : d # c => ref'[d] = ref[d]
      /\ UNCHANGED <<current, made, delivered>>
      BY <1>1 DEF Push, ClientsOK
<1>4. CASE UNCHANGED <<rs, sent>> /\ Refused(c)
  <2>1. ClientsOK' BY <1>1, <1>3, <1>4, AfterSend
  <2> QED BY <1>3, <1>4, <2>1, StreamsAlike
<1>5. CASE /\ Len(r.queue) < QueueSize /\ sent < MaxMsgs
           /\ rs' = [rs EXCEPT ![g].queue = Append(@, sent + 1)]
           /\ sent' = sent + 1 /\ Accepted(c)
  <2>1. ClientsOK' BY <1>1, <1>3, <1>5, AfterSend
  <2>2. /\ r \in RoomStream /\ Roomy(r) /\ rs \in [Gens -> RoomStream]
        /\ r.queue \in Seq(Msgs) /\ Len(r.queue) \in Nat /\ Len(r.buffer) \in Nat
        /\ QueueSize \in Nat /\ MaxMsgs \in Nat /\ sent \in Nat
        BY <1>1, <1>2, GoStart, FieldsAreTyped, BoundsArePositive DEF STypeOK
  <2>3. sent + 1 \in Msgs /\ sent' \in 0..MaxMsgs BY <1>5, <2>2 DEF Msgs
  <2> DEFINE b == Append(r.queue, sent + 1)
  <2>4. /\ b \in Seq(Msgs) /\ Len(b) = Len(r.queue) + 1 /\ b[Len(r.queue) + 1] = sent + 1
        /\ \A p \in 1..Len(r.queue) : b[p] = r.queue[p]
        BY <2>2, <2>3, AppendIs
  <2>5. ASSUME NEW q \in Seq(Msgs) PROVE [r EXCEPT !.queue = q] \in RoomStream
        BY <2>2 DEF RoomStream
  <2>6. s \in RoomStream BY <2>4, <2>5, Zenon
  <2>7. s.queue = b /\ s.buffer = r.buffer /\ s.hand = r.hand /\ s.closes = r.closes
        BY <2>2 DEF RoomStream
  <2>8. rs' = [rs EXCEPT ![g] = s] BY <1>2, <1>5, <2>2
  <2> HIDE DEF s, r, b, g
  <2>9. /\ rs' \in [Gens -> RoomStream]
        /\ \A h \in Gens : rs'[h] = IF h = g THEN s ELSE rs[h]
        BY <1>2, <2>2, <2>6, <2>8
  <2>10. Roomy(s) BY <1>5, <2>2, <2>4, <2>7 DEF Roomy
  <2>11. STypeOK' BY <1>1, <1>3, <2>1, <2>3, <2>9, <2>10 DEF STypeOK, ClientsOK, Roomy
  <2>12. LeavesClosed
    <3>1. \A h \in Gens : rs[h].closes \in Nat BY <1>1, StreamsAreTyped, FieldsAreTyped
    <3>2. \A h \in Gens : rs'[h].closes = rs[h].closes BY <2>7, <2>9 DEF r
    <3> QED BY <1>3, <3>1, <3>2 DEF LeavesClosed
  <2>13. \A h \in Gens : h > made' => rs'[h] = rs[h] BY <1>1, <1>2, <1>3, <2>9 DEF Gens
  <2>14. ClosingInv' BY <1>1, <2>1, <2>11, <2>12, <2>13, LeavesClosedKeeps DEF LooksAtMade, ClientsOK
  <2>15. OnePlace(rs) /\ Undelivered(rs, delivered, sent) /\ AtMostOnce
         /\ \A m \in Msgs : m > sent => delivered[m] = 0
         BY <1>1 DEF MessageInv
  <2> DEFINE New(h, p) == h = g /\ p = Len(r.queue) + 1
  <2>16. ASSUME NEW h \in Gens, NEW p \in Slots(rs'[h])
         PROVE  /\ New(h, p) => At(rs'[h], p) = sent + 1
                /\ ~New(h, p) => p \in Slots(rs[h]) /\ At(rs'[h], p) = At(rs[h], p)
    <3>1. CASE h = g
      <4>1. rs'[h] = s /\ rs[h] = r BY <2>9, <3>1 DEF r
      <4>2. p \in (-Len(r.buffer)) .. (Len(r.queue) + 1) BY <2>4, <2>7, <4>1 DEF Slots
      <4>3. p \in Int /\ p <= Len(r.queue) + 1 /\ -Len(r.buffer) <= p BY <2>2, <4>2
      <4>4. CASE p = Len(r.queue) + 1
        <5>1. p > 0 BY <2>2, <4>4
        <5>2. At(s, p) = b[p] BY <2>7, <5>1 DEF At
        <5> QED BY <2>4, <3>1, <4>1, <4>4, <5>2
      <4>5. CASE p # Len(r.queue) + 1
        <5>1. p \in Slots(r) BY <2>2, <4>3, <4>5 DEF Slots
        <5>2. At(s, p) = At(r, p)
          <6>1. CASE p > 0
            <7>1. p \in 1..Len(r.queue) BY <2>2, <4>3, <4>5, <6>1
            <7> QED BY <2>4, <2>7, <6>1, <7>1 DEF At
          <6>2. CASE ~(p > 0) BY <2>7, <6>2 DEF At
          <6> QED BY <6>1, <6>2
        <5> QED BY <4>1, <4>5, <5>1, <5>2
      <4> QED BY <4>4, <4>5
    <3>2. CASE h # g BY <2>9, <3>2
    <3> QED BY <3>1, <3>2
  <2>17. \A h \in Gens : \A p \in Slots(rs[h]) : At(rs[h], p) # 0 => At(rs[h], p) # sent + 1
    <3> SUFFICES ASSUME NEW h \in Gens, NEW p \in Slots(rs[h]), At(rs[h], p) # 0
                 PROVE  At(rs[h], p) # sent + 1
        OBVIOUS
    <3>1. At(rs[h], p) <= sent BY <2>15 DEF Undelivered
    <3> QED BY <2>2, <3>1
  <2> HIDE DEF New
  <2>18. OnePlace(rs')
    <3> SUFFICES ASSUME NEW h \in Gens, NEW i \in Gens, NEW p \in Slots(rs'[h]),
                        NEW q \in Slots(rs'[i]), At(rs'[h], p) # 0, At(rs'[h], p) = At(rs'[i], q)
                 PROVE  h = i /\ p = q
        BY DEF OnePlace
    <3>1. CASE New(h, p)
      <4>1. At(rs'[i], q) = sent + 1 BY <2>16, <3>1
      <4>2. New(i, q) BY <2>2, <2>16, <2>17, <4>1
      <4> QED BY <3>1, <4>2 DEF New
    <3>2. CASE ~New(h, p)
      <4>1. p \in Slots(rs[h]) /\ At(rs'[h], p) = At(rs[h], p) BY <2>16, <3>2
      <4>2. ~New(i, q) BY <2>16, <2>17, <4>1
      <4>3. q \in Slots(rs[i]) /\ At(rs'[i], q) = At(rs[i], q) BY <2>16, <4>2
      <4>4. At(rs[h], p) # 0 /\ At(rs[h], p) = At(rs[i], q) BY <4>1, <4>3
      <4> QED BY <2>15, <4>1, <4>3, <4>4 DEF OnePlace
    <3> QED BY <3>1, <3>2
  <2>19. Undelivered(rs', delivered', sent')
    <3> SUFFICES ASSUME NEW h \in Gens, NEW p \in Slots(rs'[h]), At(rs'[h], p) # 0
                 PROVE  At(rs'[h], p) <= sent + 1 /\ delivered[At(rs'[h], p)] = 0
        BY <1>3, <1>5 DEF Undelivered
    <3>1. CASE New(h, p)
      <4>1. sent + 1 > sent /\ sent + 1 <= sent + 1 BY <2>2
      <4>2. delivered[sent + 1] = 0 BY <2>3, <2>15, <4>1
      <4>3. At(rs'[h], p) = sent + 1 BY <2>16, <3>1
      <4> QED BY <4>1, <4>2, <4>3
    <3>2. CASE ~New(h, p)
      <4>1. p \in Slots(rs[h]) /\ At(rs'[h], p) = At(rs[h], p) BY <2>16, <3>2
      <4>2. At(rs[h], p) <= sent /\ delivered[At(rs[h], p)] = 0 BY <2>15, <4>1 DEF Undelivered
      <4>3. At(rs[h], p) \in Int
        <5>1. rs[h] \in RoomStream BY GoStart
        <5> QED BY <2>2, <4>1, <5>1, PlacesAreTyped
      <4> QED BY <2>2, <4>1, <4>2, <4>3
    <3> QED BY <3>1, <3>2
  <2>20. \A m \in Msgs : m > sent' => delivered'[m] = 0
    <3>1. \A m \in Msgs : m > sent + 1 => m > sent BY <2>2 DEF Msgs
    <3> QED BY <1>3, <1>5, <2>15, <3>1
  <2>21. AtMostOnce' BY <1>3, <2>15 DEF AtMostOnce
  <2>22. MessageInv' BY <2>18, <2>19, <2>20, <2>21 DEF MessageInv
  <2> QED BY <2>12, <2>14, <2>22 DEF StreamsInv
<1> QED BY <1>4, <1>5 DEF Push
-----------------------------------------------------------------------------
(* The theorems.                                                           *)

\* The gateway starts without a stream.
LEMMA InitStreams ==
    ASSUME Init
    PROVE  StreamsInv
<1>1. Fresh \in RoomStream /\ Untouched(Fresh)
      BY BoundsArePositive DEF Fresh, RoomStream, Untouched
<1>2. \A g \in Gens : rs[g] = Fresh BY DEF Init
<1>3. STypeOK /\ \A g \in Gens : g > made => Untouched(rs[g])
  <2>1. rs \in [Gens -> RoomStream] BY <1>1 DEF Init
  <2>2. Len(Fresh.queue) <= QueueSize /\ Len(Fresh.buffer) <= QueueSize
        BY BoundsArePositive DEF Fresh
  <2> QED BY <1>1, <1>2, <2>1, <2>2, BoundsArePositive DEF Init, STypeOK
<1>4. ClosedOnce /\ ReplacedIsClosed
  <2>1. Fresh.closes = 0 BY DEF Fresh
  <2>2. \A g \in Gens : rs[g].closes = 0 BY <1>2, <2>1
  <2> QED BY <2>2 DEF Init, ClosedOnce, ReplacedIsClosed
<1>5. LooksAtMade BY DEF Init, LooksAtMade
<1>6. \A g \in Gens : \A p \in Slots(rs[g]) : At(rs[g], p) = 0
  <2>1. Len(Fresh.queue) = 0 /\ Len(Fresh.buffer) = 0 /\ Fresh.hand = 0 BY DEF Fresh
  <2>2. \A p \in Slots(Fresh) : p = 0 BY <2>1 DEF Slots
  <2>3. At(Fresh, 0) = 0 BY <2>1 DEF At
  <2> QED BY <1>2, <2>2, <2>3
<1>7. MessageInv
  <2>1. \A m \in Msgs : delivered[m] = 0 BY DEF Init
  <2> QED BY <1>6, <2>1 DEF MessageInv, OnePlace, Undelivered, AtMostOnce
<1> QED BY <1>3, <1>4, <1>5, <1>7 DEF StreamsInv, ClosingInv, ClosingIsOrderly

\* Every step of the gateway keeps the invariant and closes what it evicts.
LEMMA NextKeeps ==
    ASSUME StreamsInv, [Next]_svars
    PROVE  StreamsInv' /\ (LeavesClosed \/ UNCHANGED svars)
<1>1. CASE UNCHANGED svars
  <2>1. ClientsOK' BY <1>1, ClientsAreOK DEF ClientsOK, LooksAtMade, svars
  <2>2. UNCHANGED <<current, made, rs, sent, delivered>> BY <1>1 DEF svars
  <2> QED BY <2>1, <2>2, StreamsAlike
<1>2. ASSUME NEW c \in Clients, ClientStep(c) PROVE StreamsInv' /\ LeavesClosed
      BY <1>2, ReuseKeeps, AwaitKeeps, LookKeeps, PushKeeps, PushPanicsKeeps, AddPlayerKeeps,
         RemovePlayerKeeps, BeginKeeps DEF ClientStep
<1>3. CASE Create BY <1>3, CreateKeeps
<1>4. CASE NoCreate BY <1>4, NoCreateKeeps
<1>5. ASSUME NEW g \in Gens,
             \/ SendLoop(g) \/ RecvFails(g) \/ KeepFails(g) \/ KeepStops(g) \/ Handler(g)
             \/ Drain(g) \/ Break(g) \/ IdleClose(g)
      PROVE  StreamsInv' /\ LeavesClosed
      BY <1>5, TakeKeeps, WriteKeeps, RecvFailsKeeps, KeepFailsKeeps, KeepStopsKeeps,
         StartHandlerKeeps, RetryFailsKeeps, RetrySucceedsKeeps, ReplayKeeps, DrainKeeps,
         BreakKeeps, IdleCloseKeeps DEF SendLoop, Handler
<1> QED BY <1>1, <1>2, <1>3, <1>4, <1>5 DEF Next

\* Whatever the goroutines and clients interleave, StreamsInv holds.
THEOREM StreamsAreInductive == Spec => []StreamsInv
<1>1. StreamsInv /\ [Next]_svars => StreamsInv' BY NextKeeps
<1> QED BY <1>1, InitStreams, PTL DEF Spec

\* No channel is closed twice, the map never offers a closed stream, and every
\* stream that left the map is closed.
THEOREM ClosingAlwaysOrderly == Spec => []ClosingIsOrderly
<1>1. StreamsInv => ClosingIsOrderly BY DEF StreamsInv, ClosingInv
<1> QED BY <1>1, StreamsAreInductive, PTL

\* No message reaches the worker twice.
THEOREM NothingTwice == Spec => []AtMostOnce
<1>1. StreamsInv => AtMostOnce BY DEF StreamsInv, MessageInv
<1> QED BY <1>1, StreamsAreInductive, PTL

\* A step closes the stream that leaves the map in that step and no other.
THEOREM EvictionCloses == Spec => [][LeavesClosed]_svars
<1>1. StreamsInv /\ [Next]_svars => [LeavesClosed]_svars BY NextKeeps
<1> QED BY <1>1, StreamsAreInductive, PTL DEF Spec
=============================================================================
