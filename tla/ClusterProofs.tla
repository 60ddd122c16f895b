--------------------------- MODULE ClusterProofs ---------------------------
(***************************************************************************)
(* Proofs about module Cluster, for any number of workers, clients and     *)
(* faults: the registry and the workers agree on who has the room.         *)
(***************************************************************************)
EXTENDS Cluster, SequenceTheorems, TLAPS

\* A call under way is on a worker that runs; who is in has an id.
Placed ==
    \A c \in Clients :
        /\ conn[c].pc \notin {"new", "out"} => conn[c].at \in Workers /\ Alive(conn[c].at)
        /\ conn[c].pc = "in" => conn[c].me \in Clients
        /\ conn[c].pc = "new" => conn[c].at = None

\* Before the room is created there is no room, no snapshot and no client.
Fresh ==
    conn[1].pc = "new"
        => /\ snap = {}
           /\ \A w \in Workers : room[w] = NoRoom
           /\ \A c \in Clients : conn[c].pc = "new"

\* While the worker that created the room serves it, there is nothing to adopt.
Origin ==
    \A w \in Workers :
        status[w] = "up" /\ Owns(w) /\ room[w].by = 0
            => /\ snap = {}
               /\ \A v \in Workers : Owns(v) => v = w
               /\ \A c \in Clients : conn[c].pc \notin Adopting

\* Unless two workers restored one snapshot, one worker has a restored room.
Unsplit ==
    Spared({"split"}) =>
        \A v, w \in Workers : Owns(v) /\ Owns(w) /\ room[v].by # 0 /\ room[w].by # 0 => v = w

Ownership == RegistryNamesOwner /\ OwnerIsFound /\ Origin /\ Unsplit

ClusterInv == CTypeOK /\ Placed /\ Fresh /\ Ownership
-----------------------------------------------------------------------------
\* Steps that leave alone who owns the room, who adopts it and what is registered.
OwnersSame ==
    \A w \in Workers : /\ Owns(w)' <=> Owns(w)
                       /\ Owns(w) => room'[w].by = room[w].by

AdoptersSame ==
    \A c \in Clients : /\ (conn[c].pc \in Adopting)' <=> conn[c].pc \in Adopting
                       /\ conn[c].pc \in Adopting => conn'[c].at = conn[c].at

Quiet ==
    /\ OwnersSame /\ AdoptersSame
    /\ hash' = hash /\ snap' \in {snap, {}} /\ status' = status
    /\ mishaps \subseteq mishaps'

\* A quiet step keeps what is said about ownership.
LEMMA QuietKeepsOwnership ==
    ASSUME Ownership, Quiet PROVE Ownership'
<1>1. RegistryNamesOwner'
  BY DEF Ownership, RegistryNamesOwner, Quiet, OwnersSame, Spared
<1>2. OwnerIsFound'
  <2> SUFFICES ASSUME NEW w \in Workers, Spared({"abandoned", "erased", "split", "orphan"})', status'[w] = "up", Owns(w)'
               PROVE  hash' = w \/ \E c \in Clients : conn'[c].at = w /\ conn'[c].pc \in Adopting
    BY DEF OwnerIsFound
  <2>1. Spared({"abandoned", "erased", "split", "orphan"}) /\ status[w] = "up" /\ Owns(w)
    BY DEF Quiet, OwnersSame, Spared
  <2>2. hash = w \/ \E c \in Clients : conn[c].at = w /\ conn[c].pc \in Adopting
    BY <2>1 DEF Ownership, OwnerIsFound
  <2>3. QED BY <2>2 DEF Quiet, AdoptersSame
<1>3. Origin'
  BY DEF Ownership, Origin, Quiet, OwnersSame, AdoptersSame
<1>4. Unsplit'
  BY DEF Ownership, Unsplit, Quiet, OwnersSame, Spared
<1>5. QED BY <1>1, <1>2, <1>3, <1>4 DEF Ownership
-----------------------------------------------------------------------------
RoomRecords ==
    [kind : {"none", "own", "proxy"}, by : 0..MaxClients, list : SUBSET Clients,
     on : SUBSET Clients, tasks : SUBSET Clients, strays : SUBSET Clients]

\* A worker without the room.
LEMMA NoRoomTyped ==
    NoRoom \in Rooms
BY ClusterAssumption DEF NoRoom, Rooms

\* Room.add_player keeps a room typed, and whose it is.
LEMMA AddedRoom ==
    ASSUME NEW r \in Rooms, r.kind # "none", NEW p \in Clients
    PROVE  Added(r, p) \in Rooms /\ Added(r, p).kind = r.kind /\ Added(r, p).by = r.by
BY DEF Added, Rooms

\* The first player of a room.
LEMMA FirstAdded ==
    ASSUME NEW k \in {"own", "proxy"}, NEW p \in Clients
    PROVE  /\ Added([NoRoom EXCEPT !.kind = k], p) \in Rooms
           /\ Added([NoRoom EXCEPT !.kind = k], p).kind = k
           /\ Added([NoRoom EXCEPT !.kind = k], p).by = 0
<1> DEFINE e == [NoRoom EXCEPT !.kind = k]
<1>1. /\ e \in RoomRecords
      /\ e.kind = k /\ e.by = 0 /\ e.list = {} /\ e.on = {} /\ e.tasks = {}
  BY ClusterAssumption DEF NoRoom, RoomRecords
<1> HIDE DEF e
<1>2. /\ Added(e, p) \in RoomRecords
      /\ Added(e, p).kind = k /\ Added(e, p).by = 0
      /\ Added(e, p).list = {p} /\ Added(e, p).on = {p} /\ Added(e, p).tasks = {}
  BY <1>1 DEF Added, RoomRecords
<1>3. QED BY <1>2 DEF Rooms, RoomRecords, e

\* Room.remove_player does, unless nobody is left.
LEMMA RemovedRoom ==
    ASSUME NEW r \in Rooms, NEW p \in Clients, Removed(r, p).list # {}
    PROVE  Removed(r, p) \in Rooms /\ Removed(r, p).kind = r.kind /\ Removed(r, p).by = r.by
BY DEF Removed, Rooms

\* handle_disconnect does.
LEMMA DisconnectedRoom ==
    ASSUME NEW r \in Rooms, NEW p \in Clients
    PROVE  /\ Disconnected(r, p) \in Rooms
           /\ Disconnected(r, p).kind = r.kind /\ Disconnected(r, p).by = r.by
<1>1. CASE p \notin r.list BY <1>1 DEF Disconnected
<1>2. CASE p \in r.list
  <2> DEFINE s == IF p \in r.tasks THEN r.strays \cup {p} ELSE r.strays
  <2>1. s \in SUBSET Clients BY DEF Rooms
  <2>2. Disconnected(r, p) = [r EXCEPT !.on = @ \ {p}, !.tasks = @ \cup {p}, !.strays = s]
    BY <1>2 DEF Disconnected
  <2> HIDE DEF s
  <2>3. r.kind # "none" BY <1>2 DEF Rooms
  <2>4. /\ r.on \ {p} \subseteq r.list /\ r.tasks \cup {p} \subseteq r.list
        /\ r.on \ {p} \in SUBSET Clients /\ r.tasks \cup {p} \in SUBSET Clients
    BY <1>2 DEF Rooms
  <2>5. QED BY <1>2, <2>1, <2>2, <2>3, <2>4 DEF Rooms
<1>3. QED BY <1>1, <1>2

\* restore_room makes a room of the snapshot.
LEMMA RestoredRoom ==
    ASSUME NEW c \in Clients, snap \subseteq Clients, snap # {}
    PROVE  Restored(c) \in Rooms /\ Restored(c).kind = "own" /\ Restored(c).by = c
<1>1. NoRoom \in RoomRecords /\ NoRoom.on = {} /\ NoRoom.tasks = {}
  BY ClusterAssumption DEF NoRoom, RoomRecords
<1>2. c \in 0..MaxClients BY ClusterAssumption DEF Clients
<1>3. /\ Restored(c) \in RoomRecords /\ Restored(c).kind = "own" /\ Restored(c).by = c
      /\ Restored(c).list = snap /\ Restored(c).on = {} /\ Restored(c).tasks = {}
  BY <1>1, <1>2 DEF Restored, RoomRecords
<1>4. QED BY <1>3 DEF Rooms, RoomRecords

\* What one worker does to its room is nothing to the rooms of the others.
LEMMA OneRoom ==
    ASSUME CTypeOK, NEW w \in Workers, NEW r \in Rooms, room' = [room EXCEPT ![w] = r]
    PROVE  /\ room' \in [Workers -> Rooms] /\ room'[w] = r
           /\ \A v \in Workers \ {w} : room'[v] = room[v]
BY DEF CTypeOK

\* A call in its place.
InPlace(k) ==
    /\ k.pc \notin {"new", "out"} => k.at \in Workers /\ Alive(k.at)
    /\ k.pc = "in" => k.me \in Clients
    /\ k.pc # "new"

\* What becomes of one call is nothing to the others.
LEMMA OneCall ==
    ASSUME CTypeOK, Placed, NEW c \in Clients, NEW k \in Calls, InPlace(k),
           conn' = [conn EXCEPT ![c] = k], status' = status
    PROVE  /\ conn' \in [Clients -> Calls] /\ Placed' /\ conn'[c] = k
           /\ \A d \in Clients \ {c} : conn'[d] = conn[d]
<1>1. conn' \in [Clients -> Calls] /\ conn'[c] = k /\ \A d \in Clients \ {c} : conn'[d] = conn[d]
  BY DEF CTypeOK
<1>2. Placed' BY <1>1 DEF Placed, InPlace, Alive
<1>3. QED BY <1>1, <1>2

\* A call that has ended, or whose connection has.
Gone == [Idle EXCEPT !.pc = "out"]

\* It is nowhere.
LEMMA GoneTyped ==
    Gone \in Calls /\ InPlace(Gone) /\ Gone.pc = "out" /\ Gone.at = None
BY ClusterAssumption DEF Gone, Idle, Calls, InPlace

\* A call that goes on to another place in its code.
LEMMA MovedCall ==
    ASSUME CTypeOK, Placed, NEW c \in Clients, NEW pc \in Busy, conn[c].pc \in Busy
    PROVE  /\ [conn[c] EXCEPT !.pc = pc] \in Calls /\ InPlace([conn[c] EXCEPT !.pc = pc])
           /\ [conn[c] EXCEPT !.pc = pc].pc = pc /\ [conn[c] EXCEPT !.pc = pc].at = conn[c].at
           /\ conn[c].at \in Workers
<1> DEFINE k == [conn[c] EXCEPT !.pc = pc]
<1>1. conn[c] \in Calls BY DEF CTypeOK
<1>2. k \in Calls /\ k.pc = pc /\ k.at = conn[c].at
  BY <1>1 DEF Calls
<1>3. conn[c].at \in Workers /\ Alive(conn[c].at) BY DEF Placed, Busy, Adopting
<1>4. InPlace(k) BY <1>2, <1>3 DEF InPlace, Busy, Adopting
<1>5. QED BY <1>2, <1>3, <1>4

\* A call whose client is told that it is in the room, as p.
LEMMA JoinedCall ==
    ASSUME CTypeOK, Placed, NEW c \in Clients, NEW p \in Clients, conn[c].pc \in Busy
    PROVE  /\ [conn[c] EXCEPT !.pc = "in", !.me = p] \in Calls
           /\ InPlace([conn[c] EXCEPT !.pc = "in", !.me = p])
           /\ [conn[c] EXCEPT !.pc = "in", !.me = p].pc = "in"
<1> DEFINE k == [conn[c] EXCEPT !.pc = "in", !.me = p]
<1>1. conn[c] \in Calls /\ p \in 0..MaxClients BY ClusterAssumption DEF CTypeOK, Clients
<1>2. k \in Calls /\ k.pc = "in" /\ k.at = conn[c].at /\ k.me = p
  BY <1>1 DEF Calls
<1>3. conn[c].at \in Workers /\ Alive(conn[c].at) BY DEF Placed, Busy, Adopting
<1>4. InPlace(k) BY <1>2, <1>3 DEF InPlace
<1>5. QED BY <1>2, <1>4

\* The room has a first client.
LEMMA OneIsAClient == 1 \in Clients
BY ClusterAssumption DEF Clients

\* Once a client has arrived, the room has been created.
LEMMA NotFresh ==
    ASSUME Fresh, NEW c \in Clients, conn[c].pc # "new"
    PROVE  conn[1].pc # "new"
BY DEF Fresh

\* And it stays so.
LEMMA StaysNotFresh ==
    ASSUME Fresh, NEW c \in Clients, conn[c].pc # "new" \/ conn[1].pc # "new" \/ c = 1, conn'[c].pc # "new",
           \A d \in Clients \ {c} : conn'[d] = conn[d]
    PROVE  Fresh'
<1>1. conn'[1].pc # "new"
  BY NotFresh, OneIsAClient
<1>2. QED BY <1>1 DEF Fresh

\* Messages are published to workers, about clients.
LEMMA PublishedTyped ==
    ASSUME CTypeOK, NEW by, NEW to \in Workers \cup {None}, NEW m \in RPC
    PROVE  Published(by, to, m) \in [Workers -> Seq(RPC)]
BY DEF CTypeOK, Published
-----------------------------------------------------------------------------
\* create_room: there was nothing before, and there is one owner afterwards.
LEMMA CreateRoomKeeps ==
    ASSUME ClusterInv, NEW w \in Workers, CreateRoom(w)
    PROVE  ClusterInv'
<1>1. CTypeOK /\ Placed /\ Fresh BY DEF ClusterInv
<1>2. conn[1].pc = "new" /\ status[w] = "up" /\ status' = status
  BY DEF CreateRoom, Arrives
<1>3. /\ snap = {} /\ snap' = {}
      /\ \A v \in Workers : room[v] = NoRoom
      /\ \A c \in Clients : conn[c].pc = "new"
  BY <1>1, <1>2 DEF Fresh, CreateRoom
<1> DEFINE k == [at |-> w, pc |-> "in", call |-> "join", me |-> 1]
           r == Added([NoRoom EXCEPT !.kind = "own"], 1)
<1>4. k \in Calls /\ InPlace(k) /\ k.pc = "in"
  BY <1>2, OneIsAClient, ClusterAssumption DEF Calls, InPlace, Clients, Alive
<1>5. r \in Rooms /\ r.kind = "own" /\ r.by = 0 BY FirstAdded, OneIsAClient
<1>6. conn' = [conn EXCEPT ![1] = k] /\ room' = [room EXCEPT ![w] = r] BY DEF CreateRoom
<1> HIDE DEF k, r
<1>7. /\ conn' \in [Clients -> Calls] /\ Placed' /\ conn'[1] = k
      /\ \A d \in Clients \ {1} : conn'[d] = conn[d]
  BY <1>1, <1>2, <1>4, <1>6, OneIsAClient, OneCall
<1>8. /\ room' \in [Workers -> Rooms] /\ room'[w] = r
      /\ \A v \in Workers \ {w} : room'[v] = NoRoom
  BY <1>1, <1>3, <1>5, <1>6, OneRoom
<1>9. hash' = w /\ key' = w /\ subs' = subs \cup {w} /\ mishaps' = mishaps
  BY DEF CreateRoom, Register
<1>10. CTypeOK'
  BY <1>1, <1>7, <1>8, <1>9 DEF CTypeOK, CreateRoom
<1>11. Fresh' BY <1>1, <1>4, <1>7, OneIsAClient, StaysNotFresh
<1>12. \A v \in Workers : Owns(v)' <=> v = w
  BY <1>5, <1>8 DEF Owns, NoRoom
<1>13. \A c \in Clients : conn'[c].pc \notin Adopting
  BY <1>3, <1>4, <1>7 DEF Adopting
<1>14. Ownership'
  BY <1>3, <1>5, <1>8, <1>9, <1>12, <1>13 DEF Ownership, RegistryNamesOwner, OwnerIsFound, Origin, Unsplit
<1>16. QED BY <1>7, <1>10, <1>11, <1>14 DEF ClusterInv

\* One worker's room changes, and not whose it is.
LEMMA OneRoomSameOwner ==
    ASSUME CTypeOK, NEW w \in Workers, NEW r \in Rooms, room' = [room EXCEPT ![w] = r],
           r.kind = "own" <=> Owns(w), Owns(w) => r.by = room[w].by
    PROVE  OwnersSame
BY OneRoom DEF OwnersSame, Owns

\* One call changes, and adopts nothing.
LEMMA OneCallSameAdopters ==
    ASSUME NEW c \in Clients, conn[c].pc \notin Adopting, conn'[c].pc \notin Adopting,
           \A d \in Clients \ {c} : conn'[d] = conn[d]
    PROVE  AdoptersSame
BY DEF AdoptersSame

\* Connections are numbered, and the first creates the room.
LEMMA ArrivesAfterOne ==
    ASSUME NEW c \in Clients, NEW w, c # 1, Arrives(c, w)
    PROVE  conn[1].pc # "new"
BY ClusterAssumption DEF Arrives, Clients

\* What a quiet step may do.
LEMMA QuietStep ==
    ASSUME ClusterInv,
           conn' \in [Clients -> Calls], Placed', Fresh', AdoptersSame,
           room' \in [Workers -> Rooms], OwnersSame,
           status' = status, hash' = hash, key' \in Workers \cup {None}, snap' \in {snap, {}},
           subs' \subseteq Workers, chan' \in [Workers -> Seq(RPC)], faults' \in 0..MaxFaults,
           mishaps \subseteq mishaps', mishaps' \subseteq Mishaps
    PROVE  ClusterInv'
<1>1. CTypeOK /\ Ownership BY DEF ClusterInv
<1>2. CTypeOK' BY <1>1 DEF CTypeOK
<1>3. Ownership' BY <1>1, QuietKeepsOwnership DEF Quiet
<1>4. QED BY <1>2, <1>3 DEF ClusterInv

\* A quiet step of one call on one worker's room.
LEMMA QuietCall ==
    ASSUME ClusterInv,
           NEW c \in Clients, NEW k \in Calls, InPlace(k), conn' = [conn EXCEPT ![c] = k],
           conn[c].pc \notin Adopting, k.pc \notin Adopting, conn[c].pc # "new" \/ conn[1].pc # "new",
           NEW w \in Workers, NEW r \in Rooms, room' = [room EXCEPT ![w] = r],
           r.kind = "own" <=> Owns(w), Owns(w) => r.by = room[w].by,
           UNCHANGED <<status, key, hash, snap, faults, mishaps>>,
           subs' \subseteq Workers, chan' \in [Workers -> Seq(RPC)]
    PROVE  ClusterInv'
<1>1. CTypeOK /\ Placed /\ Fresh BY DEF ClusterInv
<1>2. /\ conn' \in [Clients -> Calls] /\ Placed' /\ conn'[c] = k
      /\ \A d \in Clients \ {c} : conn'[d] = conn[d]
  BY <1>1, OneCall
<1>3. conn'[c].pc # "new" BY <1>2 DEF InPlace
<1>4. Fresh' BY <1>1, <1>2, <1>3, StaysNotFresh
<1>5. AdoptersSame BY <1>2, OneCallSameAdopters
<1>6. room' \in [Workers -> Rooms] /\ OwnersSame BY <1>1, OneRoom, OneRoomSameOwner
<1>7. /\ key' \in Workers \cup {None} /\ snap' \in {snap, {}} /\ faults' \in 0..MaxFaults
      /\ status' = status /\ hash' = hash /\ mishaps \subseteq mishaps' /\ mishaps' \subseteq Mishaps
  BY <1>1 DEF CTypeOK
<1>8. QED BY <1>2, <1>4, <1>5, <1>6, <1>7, QuietStep

\* A quiet step of one call alone.
LEMMA QuietMove ==
    ASSUME ClusterInv,
           NEW c \in Clients, NEW k \in Calls, InPlace(k), conn' = [conn EXCEPT ![c] = k],
           conn[c].pc \notin Adopting, k.pc \notin Adopting, conn[c].pc # "new" \/ conn[1].pc # "new",
           UNCHANGED <<status, room, key, hash, snap, mishaps>>, faults' \in 0..MaxFaults,
           subs' \subseteq Workers, chan' \in [Workers -> Seq(RPC)]
    PROVE  ClusterInv'
<1>1. CTypeOK /\ Placed /\ Fresh BY DEF ClusterInv
<1>2. /\ conn' \in [Clients -> Calls] /\ Placed' /\ conn'[c] = k
      /\ \A d \in Clients \ {c} : conn'[d] = conn[d]
  BY <1>1, OneCall
<1>3. conn'[c].pc # "new" BY <1>2 DEF InPlace
<1>4. Fresh' BY <1>1, <1>2, <1>3, StaysNotFresh
<1>5. AdoptersSame BY <1>2, OneCallSameAdopters
<1>6. room' \in [Workers -> Rooms] /\ OwnersSame BY <1>1 DEF CTypeOK, OwnersSame, Owns
<1>7. /\ key' \in Workers \cup {None} /\ snap' \in {snap, {}}
      /\ status' = status /\ hash' = hash /\ mishaps \subseteq mishaps' /\ mishaps' \subseteq Mishaps
  BY <1>1 DEF CTypeOK
<1>8. QED BY <1>2, <1>4, <1>5, <1>6, <1>7, QuietStep

\* A call ends that adopted nothing.
LEMMA EndsQuietly ==
    ASSUME ClusterInv, NEW c \in Clients, End(c),
           conn[c].pc \notin Adopting, conn[c].pc # "new" \/ conn[1].pc # "new",
           UNCHANGED <<status, room, key, hash, snap, chan, mishaps>>,
           faults' \in 0..MaxFaults, subs' \subseteq Workers
    PROVE  ClusterInv'
<1>1. conn' = [conn EXCEPT ![c] = Gone] BY DEF End, Gone
<1>2. chan' \in [Workers -> Seq(RPC)] BY DEF ClusterInv, CTypeOK
<1>3. QED BY <1>1, <1>2, GoneTyped, QuietMove DEF Adopting

\* What _join_room_local does to the room and to the call.
LEMMA JoinHereDoes ==
    ASSUME CTypeOK, NEW c \in Clients, NEW w \in Workers, Alive(w), Owns(w), JoinHere(c, w)
    PROVE  \E k \in Calls, r \in Rooms :
               /\ InPlace(k) /\ k.pc \in {"in", "out"} /\ conn' = [conn EXCEPT ![c] = k]
               /\ r.kind = room[w].kind /\ r.by = room[w].by /\ room' = [room EXCEPT ![w] = r]
<1>1. room[w] \in Rooms /\ room[w].kind # "none" BY DEF CTypeOK, Owns
<1>2. CASE End(c) /\ UNCHANGED room
  <2>1. conn' = [conn EXCEPT ![c] = Gone] BY <1>2 DEF End, Gone
  <2>2. room' = [room EXCEPT ![w] = room[w]] BY <1>2 DEF CTypeOK
  <2>3. QED BY <1>1, <2>1, <2>2, GoneTyped
<1>3. CASE /\ conn' = [conn EXCEPT ![c] = [at |-> w, pc |-> "in", call |-> "join", me |-> c]]
           /\ room' = [room EXCEPT ![w] = Added(@, c)]
  <2> DEFINE k == [at |-> w, pc |-> "in", call |-> "join", me |-> c]
             r == Added(room[w], c)
  <2>1. k \in Calls /\ InPlace(k) /\ k.pc = "in"
    BY ClusterAssumption DEF Calls, InPlace, Clients
  <2>2. r \in Rooms /\ r.kind = room[w].kind /\ r.by = room[w].by BY <1>1, AddedRoom
  <2>3. conn' = [conn EXCEPT ![c] = k] /\ room' = [room EXCEPT ![w] = r] BY <1>3 DEF CTypeOK
  <2> HIDE DEF k, r
  <2>4. QED BY <2>1, <2>2, <2>3
<1>4. QED BY <1>2, <1>3 DEF JoinHere

\* join_room where the room is.
LEMMA JoinLocalKeeps ==
    ASSUME ClusterInv, NEW c \in Clients, NEW w \in Workers, JoinLocal(c, w)
    PROVE  ClusterInv'
<1>1. CTypeOK BY DEF ClusterInv
<1>2. /\ Alive(w) /\ Owns(w) /\ JoinHere(c, w)
      /\ UNCHANGED <<status, key, hash, snap, subs, chan, faults, mishaps>>
  BY DEF JoinLocal, Arrives
<1>3. PICK k \in Calls, r \in Rooms :
          /\ InPlace(k) /\ k.pc \in {"in", "out"} /\ conn' = [conn EXCEPT ![c] = k]
          /\ r.kind = room[w].kind /\ r.by = room[w].by /\ room' = [room EXCEPT ![w] = r]
  BY <1>1, <1>2, JoinHereDoes
<1>4. conn[c].pc = "new" /\ conn[1].pc # "new" BY ArrivesAfterOne DEF JoinLocal, Arrives
<1>5. subs' \subseteq Workers /\ chan' \in [Workers -> Seq(RPC)] BY <1>1, <1>2 DEF CTypeOK
<1>6. conn[c].pc \notin Adopting /\ k.pc \notin Adopting BY <1>3, <1>4 DEF Adopting
<1>7. (r.kind = "own" <=> Owns(w)) /\ (Owns(w) => r.by = room[w].by) BY <1>3 DEF Owns
<1>8. QED BY <1>2, <1>3, <1>4, <1>5, <1>6, <1>7, QuietCall

\* join_room on a worker that does not have the room.
LEMMA JoinElsewhereKeeps ==
    ASSUME ClusterInv, NEW c \in Clients, NEW w \in Workers, JoinElsewhere(c, w)
    PROVE  ClusterInv'
<1>1. CTypeOK BY DEF ClusterInv
<1> DEFINE k == [at |-> w, pc |-> "looking", call |-> "join", me |-> 0]
<1>2. k \in Calls /\ InPlace(k) /\ k.pc = "looking"
  BY ClusterAssumption DEF Calls, InPlace, Clients, JoinElsewhere, Arrives, Busy
<1>3. /\ conn' = [conn EXCEPT ![c] = k]
      /\ UNCHANGED <<status, room, key, hash, snap, subs, chan, faults, mishaps>>
  BY DEF JoinElsewhere
<1> HIDE DEF k
<1>4. conn[c].pc = "new" /\ conn[1].pc # "new" BY ArrivesAfterOne DEF JoinElsewhere, Arrives
<1>5. subs' \subseteq Workers /\ chan' \in [Workers -> Seq(RPC)] /\ faults' \in 0..MaxFaults
  BY <1>1, <1>3 DEF CTypeOK
<1>6. conn[c].pc \notin Adopting /\ k.pc \notin Adopting BY <1>2, <1>4 DEF Adopting
<1>7. QED BY <1>2, <1>3, <1>4, <1>5, <1>6, QuietMove

\* handle_reconnect gives a listed player its connection back.
LEMMA ReattachedRoom ==
    ASSUME NEW r \in Rooms, NEW p \in r.list
    PROVE  /\ [r EXCEPT !.on = @ \cup {p}, !.tasks = @ \ {p}] \in Rooms
           /\ [r EXCEPT !.on = @ \cup {p}, !.tasks = @ \ {p}].kind = r.kind
           /\ [r EXCEPT !.on = @ \cup {p}, !.tasks = @ \ {p}].by = r.by
BY DEF Rooms

\* What handle_reconnect does to the room and to the call.
LEMMA ReattachDoes ==
    ASSUME CTypeOK, NEW c \in Clients, NEW w \in Workers, Alive(w),
           NEW p \in Choice(w, c), Reattach(c, w, p)
    PROVE  \E k \in Calls, r \in Rooms :
               /\ InPlace(k) /\ k.pc = "in" /\ conn' = [conn EXCEPT ![c] = k]
               /\ r.kind = room[w].kind /\ r.by = room[w].by /\ room' = [room EXCEPT ![w] = r]
<1> DEFINE k == [at |-> w, pc |-> "in", call |-> "reconnect", me |-> p]
           r == [room[w] EXCEPT !.on = @ \cup {p}, !.tasks = @ \ {p}]
<1>1. room[w] \in Rooms /\ p \in room[w].list BY DEF CTypeOK, Choice, Named
<1>2. p \in Clients BY <1>1 DEF Rooms
<1>3. k \in Calls /\ InPlace(k) /\ k.pc = "in"
  BY <1>2, ClusterAssumption DEF Calls, InPlace, Clients
<1>4. r \in Rooms /\ r.kind = room[w].kind /\ r.by = room[w].by BY <1>1, ReattachedRoom
<1>5. conn' = [conn EXCEPT ![c] = k] /\ room' = [room EXCEPT ![w] = r]
  BY DEF Reattach, CTypeOK
<1> HIDE DEF k, r
<1>6. QED BY <1>3, <1>4, <1>5

\* handle_reconnect.
LEMMA ReconnectKeeps ==
    ASSUME ClusterInv, NEW c \in Clients, NEW w \in Workers, Reconnect(c, w)
    PROVE  ClusterInv'
<1>1. CTypeOK BY DEF ClusterInv
<1>2. conn[c].pc = "new" /\ conn[1].pc # "new" /\ Alive(w) /\ conn[c].pc \notin Adopting
  BY ArrivesAfterOne DEF Reconnect, Arrives, Adopting
<1>3. UNCHANGED <<status, key, hash, snap, subs, chan, faults, mishaps>> BY DEF Reconnect
<1>4. subs' \subseteq Workers /\ chan' \in [Workers -> Seq(RPC)] /\ faults' \in 0..MaxFaults
  BY <1>1, <1>3 DEF CTypeOK
<1>5. CASE room[w].kind = "none"
  <2> DEFINE k == [at |-> w, pc |-> "reading", call |-> "reconnect", me |-> 0]
  <2>1. k \in Calls /\ InPlace(k) /\ k.pc \notin Adopting
    BY <1>2, ClusterAssumption DEF Calls, InPlace, Clients, Busy, Adopting
  <2>2. conn' = [conn EXCEPT ![c] = k] /\ room' = room BY <1>5 DEF Reconnect
  <2> HIDE DEF k
  <2>3. QED BY <1>2, <1>3, <1>4, <2>1, <2>2, QuietMove
<1>6. CASE room[w].kind # "none" /\ Choice(w, c) = {}
  <2>1. End(c) /\ UNCHANGED room BY <1>6 DEF Reconnect
  <2>2. QED BY <1>2, <1>3, <1>4, <2>1, EndsQuietly
<1>7. CASE room[w].kind # "none" /\ Choice(w, c) # {}
  <2>1. PICK p \in Choice(w, c) : Reattach(c, w, p) BY <1>7 DEF Reconnect
  <2>2. PICK k \in Calls, r \in Rooms :
               /\ InPlace(k) /\ k.pc = "in" /\ conn' = [conn EXCEPT ![c] = k]
               /\ r.kind = room[w].kind /\ r.by = room[w].by /\ room' = [room EXCEPT ![w] = r]
    BY <1>1, <1>2, <2>1, ReattachDoes
  <2>3. /\ k.pc \notin Adopting
        /\ r.kind = "own" <=> Owns(w)
        /\ Owns(w) => r.by = room[w].by
    BY <2>2 DEF Adopting, Owns
  <2>4. QED BY <1>2, <1>3, <1>4, <2>2, <2>3, QuietCall
<1>8. QED BY <1>5, <1>6, <1>7

\* _join_room_remote up to its wait.
LEMMA AskOwnerKeeps ==
    ASSUME ClusterInv, NEW c \in Clients, AskOwner(c)
    PROVE  ClusterInv'
<1>1. CTypeOK /\ Placed BY DEF ClusterInv
<1> DEFINE k == [conn[c] EXCEPT !.pc = "waiting"]
           w == conn[c].at
<1>2. conn[c].pc = "looking" /\ conn[c].pc \in Busy /\ "waiting" \in Busy BY DEF AskOwner, Busy
<1>3. k \in Calls /\ InPlace(k) /\ k.pc = "waiting" /\ w \in Workers BY <1>1, <1>2, MovedCall
<1>4. /\ conn' = [conn EXCEPT ![c] = k] /\ subs' = subs \cup {w}
      /\ UNCHANGED <<status, room, key, hash, snap, faults, mishaps>>
  BY <1>1 DEF AskOwner, Move, CTypeOK
<1>5. chan' \in [Workers -> Seq(RPC)]
  <2>1. Owner \in Workers \cup {None} /\ [type |-> "join", p |-> c] \in RPC
    BY <1>1 DEF CTypeOK, Owner, RPC
  <2>2. QED BY <1>1, <2>1, PublishedTyped DEF AskOwner
<1> HIDE DEF k, w
<1>6. subs' \subseteq Workers /\ faults' \in 0..MaxFaults BY <1>1, <1>3, <1>4 DEF CTypeOK
<1>7. conn[c].pc \notin Adopting /\ k.pc \notin Adopting BY <1>2, <1>3 DEF Adopting
<1>8. QED BY <1>2, <1>3, <1>4, <1>5, <1>6, <1>7, QuietMove

\* join_room finds no owner.
LEMMA NoOwnerKeeps ==
    ASSUME ClusterInv, NEW c \in Clients, NoOwner(c)
    PROVE  ClusterInv'
<1>1. CTypeOK /\ Placed BY DEF ClusterInv
<1> DEFINE k == [conn[c] EXCEPT !.pc = "reading"]
<1>2. conn[c].pc = "looking" /\ conn[c].pc \in Busy /\ "reading" \in Busy BY DEF NoOwner, Busy
<1>3. k \in Calls /\ InPlace(k) /\ k.pc = "reading" BY <1>1, <1>2, MovedCall
<1>4. /\ conn' = [conn EXCEPT ![c] = k]
      /\ UNCHANGED <<status, room, key, hash, snap, subs, chan, faults, mishaps>>
  BY <1>1 DEF NoOwner, Move, CTypeOK
<1> HIDE DEF k
<1>5. subs' \subseteq Workers /\ chan' \in [Workers -> Seq(RPC)] /\ faults' \in 0..MaxFaults
  BY <1>1, <1>4 DEF CTypeOK
<1>6. conn[c].pc \notin Adopting /\ k.pc \notin Adopting BY <1>2, <1>3 DEF Adopting
<1>7. QED BY <1>2, <1>3, <1>4, <1>5, <1>6, QuietMove

\* wait_for_rpc_response times out.
LEMMA RpcTimeoutKeeps ==
    ASSUME ClusterInv, NEW c \in Clients, RpcTimeout(c)
    PROVE  ClusterInv'
<1>1. /\ conn[c].pc \in {"waiting", "accepted"} /\ End(c)
      /\ UNCHANGED <<status, room, key, hash, snap, chan, faults, mishaps>>
  BY DEF RpcTimeout, GiveUp
<1>2. subs' \subseteq Workers /\ faults' \in 0..MaxFaults
  BY DEF ClusterInv, CTypeOK, RpcTimeout, GiveUp
<1>3. QED BY <1>1, <1>2, EndsQuietly DEF Adopting

\* The owner's answer is read: the client is added to the proxy, or sent away.
LEMMA AnsweredKeeps ==
    ASSUME ClusterInv, NEW c \in Clients, Answered(c)
    PROVE  ClusterInv'
<1>1. CTypeOK /\ Placed BY DEF ClusterInv
<1> DEFINE w == conn[c].at
<1>2. /\ conn[c].pc \in {"accepted", "declined"} /\ conn[c].pc \in Busy /\ w \in Workers
      /\ room[w] \in Rooms /\ conn[c].pc \notin Adopting
      /\ UNCHANGED <<status, snap, chan, faults, mishaps>>
  BY <1>1 DEF Answered, Busy, Placed, CTypeOK, Adopting
<1>3. CASE conn[c].pc = "declined"
  <2>1. End(c) /\ subs' = subs \ {w} /\ UNCHANGED <<room, key, hash>> BY <1>3 DEF Answered
  <2>2. subs' \subseteq Workers /\ faults' \in 0..MaxFaults BY <1>1, <1>2, <2>1 DEF CTypeOK
  <2>3. QED BY <1>2, <1>3, <2>1, <2>2, EndsQuietly
<1>4. CASE conn[c].pc = "accepted"
  <2> DEFINE k == [conn[c] EXCEPT !.pc = "in", !.me = c]
             r == Added(IF room[w].kind = "none" THEN [NoRoom EXCEPT !.kind = "proxy"] ELSE room[w], c)
  <2>1. k \in Calls /\ InPlace(k) /\ k.pc = "in" BY <1>1, <1>2, JoinedCall
  <2>2. /\ r \in Rooms
        /\ r.kind = (IF room[w].kind = "none" THEN "proxy" ELSE room[w].kind)
        /\ room[w].kind # "none" => r.by = room[w].by
    BY <1>2, FirstAdded, AddedRoom
  <2>3. /\ conn' = [conn EXCEPT ![c] = k] /\ room' = [room EXCEPT ![w] = r]
        /\ UNCHANGED <<status, key, hash, snap, subs, chan, faults, mishaps>>
    BY <1>1, <1>4 DEF Answered, Put, CTypeOK
  <2> HIDE DEF k, r
  <2>4. subs' \subseteq Workers /\ chan' \in [Workers -> Seq(RPC)] BY <1>1, <2>3 DEF CTypeOK
  <2>5. (r.kind = "own" <=> Owns(w)) /\ (Owns(w) => r.by = room[w].by) BY <2>2 DEF Owns
  <2>6. k.pc \notin Adopting BY <2>1 DEF Adopting
  <2>7. QED BY <1>2, <1>4, <2>1, <2>2, <2>3, <2>4, <2>5, <2>6, QuietCall
<1>5. QED BY <1>2, <1>3, <1>4

\* The finally block of a connection on a worker that is no proxy.
LEMMA CloseLocalKeeps ==
    ASSUME ClusterInv, NEW c \in Clients, CloseLocal(c)
    PROVE  ClusterInv'
<1>1. CTypeOK /\ Placed BY DEF ClusterInv
<1> DEFINE w == conn[c].at
           r == Disconnected(room[w], conn[c].me)
<1>2. conn[c].pc = "in" /\ w \in Workers /\ conn[c].me \in Clients /\ room[w] \in Rooms
  BY <1>1 DEF CloseLocal, Placed, CTypeOK
<1>3. r \in Rooms /\ r.kind = room[w].kind /\ r.by = room[w].by BY <1>2, DisconnectedRoom
<1>4. /\ conn' = [conn EXCEPT ![c] = Gone] /\ room' = [room EXCEPT ![w] = r]
      /\ UNCHANGED <<status, key, hash, snap, subs, chan, faults, mishaps>>
  BY DEF CloseLocal, Put, End, Gone
<1> HIDE DEF r
<1>5. subs' \subseteq Workers /\ chan' \in [Workers -> Seq(RPC)] BY <1>1, <1>4 DEF CTypeOK
<1>6. /\ conn[c].pc \notin Adopting /\ Gone.pc \notin Adopting
      /\ r.kind = "own" <=> Owns(w)
      /\ Owns(w) => r.by = room[w].by
  BY <1>2, <1>3, GoneTyped DEF Owns, Adopting
<1>7. QED BY <1>2, <1>3, <1>4, <1>5, <1>6, GoneTyped, QuietCall

\* forward_to_room_owner and _notify_owner_disconnect.
LEMMA TellOwnerTyped ==
    ASSUME CTypeOK, NEW c \in Clients, conn[c].me \in Clients,
           NEW type \in {"join", "gone", "leave"}, TellOwner(c, type)
    PROVE  chan' \in [Workers -> Seq(RPC)]
<1>1. hash \in Workers \cup {None} /\ [type |-> type, p |-> conn[c].me] \in RPC
  BY DEF CTypeOK, RPC
<1>2. QED BY <1>1, PublishedTyped DEF TellOwner

\* The same block on a proxy: the proxy room is dropped with its last player.
LEMMA CloseProxiedKeeps ==
    ASSUME ClusterInv, NEW c \in Clients, CloseProxied(c)
    PROVE  ClusterInv'
<1>1. CTypeOK /\ Placed BY DEF ClusterInv
<1> DEFINE w == conn[c].at
           q == Removed(room[w], conn[c].me)
           r == IF q.list = {} THEN NoRoom ELSE q
<1>2. /\ conn[c].pc = "in" /\ w \in Workers /\ conn[c].me \in Clients
      /\ room[w] \in Rooms /\ room[w].kind = "proxy"
  BY <1>1 DEF CloseProxied, Placed, CTypeOK
<1>3. r \in Rooms /\ r.kind # "own"
  BY <1>2, RemovedRoom, NoRoomTyped DEF NoRoom
<1>4. /\ conn' = [conn EXCEPT ![c] = Gone] /\ room' = [room EXCEPT ![w] = r]
      /\ UNCHANGED <<status, key, hash, snap, faults, mishaps>>
      /\ subs' = IF q.list = {} THEN subs \ {w} ELSE subs
  BY DEF CloseProxied, End, Gone
<1>5. chan' \in [Workers -> Seq(RPC)] BY <1>1, <1>2, TellOwnerTyped DEF CloseProxied
<1> HIDE DEF r, q
<1>6. subs' \subseteq Workers BY <1>1, <1>4 DEF CTypeOK
<1>7. conn[c].pc \notin Adopting /\ Gone.pc \notin Adopting /\ ~Owns(w) /\ r.kind # "own"
  BY <1>2, <1>3, GoneTyped DEF Owns, Adopting
<1>8. QED BY <1>2, <1>3, <1>4, <1>5, <1>6, <1>7, GoneTyped, QuietCall

\* A step of a worker that no call takes part in.
LEMMA FreshAsBefore ==
    ASSUME Fresh, conn' = conn, snap = {} => snap' = {},
           \A w \in Workers : room[w] = NoRoom => room'[w] = NoRoom
    PROVE  Fresh'
BY DEF Fresh

\* _delete_room, whatever call it is part of: the history tells whether another
\* worker's registration goes with it.
LEMMA DeleteRoomKeeps ==
    ASSUME ClusterInv, NEW w \in Workers, DeleteRoom(w), Note(Erases(w)),
           conn' \in [Clients -> Calls], Placed', Fresh', AdoptersSame,
           UNCHANGED <<status, snap, faults>>, chan' \in [Workers -> Seq(RPC)]
    PROVE  ClusterInv'
<1>1. CTypeOK /\ Placed /\ Ownership BY DEF ClusterInv
<1>2. /\ room' = [room EXCEPT ![w] = NoRoom] /\ subs' = subs \ {w}
      /\ key' = None /\ hash' = None /\ mishaps' = mishaps \cup Erases(w)
  BY DEF DeleteRoom, Unregister, Note
<1>3. /\ room' \in [Workers -> Rooms] /\ room'[w] = NoRoom
      /\ \A v \in Workers \ {w} : room'[v] = room[v]
  BY <1>1, <1>2, NoRoomTyped, OneRoom
<1>4. Erases(w) \subseteq Mishaps BY DEF Erases, Mishaps
<1>5. CTypeOK'
  BY <1>1, <1>2, <1>3, <1>4 DEF CTypeOK
<1>6. \A v \in Workers : Owns(v)' => v # w /\ Owns(v) /\ room'[v] = room[v]
  BY <1>3 DEF Owns, NoRoom
<1>7. RegistryNamesOwner' BY <1>2, ClusterAssumption DEF RegistryNamesOwner
<1>8. OwnerIsFound'
  <2> SUFFICES ASSUME NEW v \in Workers, Spared({"abandoned", "erased", "split", "orphan"})', status'[v] = "up", Owns(v)'
               PROVE  \E c \in Clients : conn'[c].at = v /\ conn'[c].pc \in Adopting
    BY DEF OwnerIsFound
  <2>1. Spared({"abandoned", "erased", "split", "orphan"}) /\ "erased" \notin Erases(w) BY <1>2 DEF Spared
  <2>2. v # w /\ Owns(v) /\ status[v] = "up" BY <1>6
  <2>3. hash # v BY <2>1, <2>2, ClusterAssumption DEF Erases
  <2>4. \E c \in Clients : conn[c].at = v /\ conn[c].pc \in Adopting
    BY <1>1, <2>1, <2>2, <2>3 DEF Ownership, OwnerIsFound
  <2>5. QED BY <2>4 DEF AdoptersSame
<1>9. Origin' BY <1>1, <1>6 DEF Ownership, Origin, AdoptersSame
<1>10. Unsplit' BY <1>1, <1>2, <1>6 DEF Ownership, Unsplit, Spared
<1>11. QED BY <1>5, <1>7, <1>8, <1>9, <1>10 DEF ClusterInv, Ownership

\* leave_room: on the owner the player goes, on a proxy the owner is told.
LEMMA LeaveKeeps ==
    ASSUME ClusterInv, NEW c \in Clients, Leave(c)
    PROVE  ClusterInv'
<1>1. CTypeOK /\ Placed /\ Fresh BY DEF ClusterInv
<1> DEFINE w == conn[c].at
           p == conn[c].me
<1>2. /\ conn[c].pc = "in" /\ w \in Workers /\ Alive(w) /\ p \in Clients
      /\ room[w] \in Rooms /\ conn[c] \in Calls
  BY <1>1 DEF Leave, Placed, CTypeOK
<1>3. /\ UNCHANGED <<status, snap, faults>> /\ faults' \in 0..MaxFaults
      /\ conn[c].pc \notin Adopting
  BY <1>1, <1>2 DEF Leave, CTypeOK, Adopting
<1>4. CASE ~Owns(w)
  <2> DEFINE k == [conn[c] EXCEPT !.call = "leave"]
  <2>1. k \in Calls /\ k.pc = "in" /\ k.at = w /\ k.me = p BY <1>2 DEF Calls
  <2>2. InPlace(k) /\ k.pc \notin Adopting BY <1>2, <2>1 DEF InPlace, Adopting
  <2>3. /\ conn' = [conn EXCEPT ![c] = k] /\ TellOwner(c, "leave")
        /\ UNCHANGED <<room, key, hash, subs, mishaps>>
    BY <1>1, <1>4 DEF Leave, CTypeOK
  <2>4. chan' \in [Workers -> Seq(RPC)] BY <1>1, <1>2, <2>3, TellOwnerTyped
  <2> HIDE DEF k
  <2>5. subs' \subseteq Workers BY <1>1, <2>3 DEF CTypeOK
  <2>6. QED BY <1>2, <1>3, <2>1, <2>2, <2>3, <2>4, <2>5, QuietMove
<1>5. CASE Owns(w)
  <2>1. RemovePlayer(w, p) /\ End(c) /\ chan' = chan BY <1>5 DEF Leave
  <2>2. conn' = [conn EXCEPT ![c] = Gone] BY <2>1 DEF End, Gone
  <2>3. /\ conn' \in [Clients -> Calls] /\ Placed' /\ conn'[c] = Gone
        /\ \A d \in Clients \ {c} : conn'[d] = conn[d]
    BY <1>1, <1>3, <2>2, GoneTyped, OneCall
  <2>4. chan' \in [Workers -> Seq(RPC)] BY <1>1, <2>1 DEF CTypeOK
  <2>5. Gone.pc \notin Adopting BY GoneTyped DEF Adopting
  <2>6. CASE p \notin room[w].list
    <3>1. UNCHANGED <<room, key, hash, subs, mishaps>> BY <2>1, <2>6 DEF RemovePlayer
    <3>2. subs' \subseteq Workers BY <1>1, <3>1 DEF CTypeOK
    <3>3. QED BY <1>2, <1>3, <2>1, <3>1, <3>2, EndsQuietly
  <2>7. CASE p \in room[w].list /\ room[w].list = {p}
    <3>1. DeleteRoom(w) /\ Note(Erases(w)) BY <2>1, <2>7 DEF RemovePlayer
    <3>2. Fresh' BY <1>1, <1>2, <2>3, GoneTyped, StaysNotFresh
    <3>3. AdoptersSame BY <1>3, <2>3, <2>5, OneCallSameAdopters
    <3>4. QED BY <1>2, <1>3, <2>3, <2>4, <3>1, <3>2, <3>3, DeleteRoomKeeps
  <2>8. CASE p \in room[w].list /\ room[w].list # {p}
    <3> DEFINE r == Removed(room[w], p)
    <3>1. r.list # {} BY <1>2, <2>8 DEF Removed, Rooms
    <3>2. r \in Rooms /\ r.kind = room[w].kind /\ r.by = room[w].by BY <1>2, <3>1, RemovedRoom
    <3>3. room' = [room EXCEPT ![w] = r] /\ UNCHANGED <<key, hash, subs, mishaps>>
      BY <2>1, <2>8 DEF RemovePlayer, Put
    <3> HIDE DEF r
    <3>4. subs' \subseteq Workers BY <1>1, <3>3 DEF CTypeOK
    <3>5. (r.kind = "own" <=> Owns(w)) /\ (Owns(w) => r.by = room[w].by) BY <3>2 DEF Owns
    <3>6. QED BY <1>2, <1>3, <2>2, <2>4, <2>5, <3>2, <3>3, <3>4, <3>5, GoneTyped, QuietCall
  <2>9. QED BY <2>6, <2>7, <2>8
<1>6. QED BY <1>4, <1>5

\* A step of one worker on its room that no call takes part in.
LEMMA QuietRoom ==
    ASSUME ClusterInv, NEW w \in Workers, NEW r \in Rooms, room' = [room EXCEPT ![w] = r],
           r.kind = room[w].kind, r.by = room[w].by, room[w] = NoRoom => r = NoRoom,
           conn' = conn, UNCHANGED <<status, key, hash, snap, subs, faults, mishaps>>,
           chan' \in [Workers -> Seq(RPC)]
    PROVE  ClusterInv'
<1>1. CTypeOK /\ Placed /\ Fresh BY DEF ClusterInv
<1>2. /\ room' \in [Workers -> Rooms] /\ room'[w] = r
      /\ \A v \in Workers \ {w} : room'[v] = room[v]
  BY <1>1, OneRoom
<1>3. OwnersSame BY <1>1, OneRoomSameOwner DEF Owns
<1>4. AdoptersSame BY DEF AdoptersSame
<1>5. Placed' BY <1>1 DEF Placed, Alive
<1>6. Fresh' BY <1>1, <1>2, FreshAsBefore
<1>7. /\ conn' \in [Clients -> Calls] /\ key' \in Workers \cup {None} /\ snap' \in {snap, {}}
      /\ subs' \subseteq Workers /\ faults' \in 0..MaxFaults
      /\ mishaps \subseteq mishaps' /\ mishaps' \subseteq Mishaps
  BY <1>1 DEF CTypeOK
<1>8. QED BY <1>2, <1>3, <1>4, <1>5, <1>6, <1>7, QuietStep

\* _delete_room in a step that no call takes part in.
LEMMA DeletedAlone ==
    ASSUME ClusterInv, NEW w \in Workers, DeleteRoom(w), Note(Erases(w)), conn' = conn,
           UNCHANGED <<status, snap, faults>>, chan' \in [Workers -> Seq(RPC)]
    PROVE  ClusterInv'
<1>1. CTypeOK /\ Placed /\ Fresh BY DEF ClusterInv
<1>2. room' = [room EXCEPT ![w] = NoRoom] BY DEF DeleteRoom
<1>3. \A v \in Workers : room[v] = NoRoom => room'[v] = NoRoom
  BY <1>1, <1>2, NoRoomTyped, OneRoom
<1>4. Fresh' BY <1>1, <1>3, FreshAsBefore
<1>5. Placed' BY <1>1 DEF Placed, Alive
<1>6. AdoptersSame BY DEF AdoptersSame
<1>7. conn' \in [Clients -> Calls] BY <1>1 DEF CTypeOK
<1>8. QED BY <1>4, <1>5, <1>6, <1>7, DeleteRoomKeeps

\* _permanently_remove_player.
LEMMA CleanupFiresKeeps ==
    ASSUME ClusterInv, NEW w \in Workers, NEW p \in Clients, CleanupFires(w, p)
    PROVE  ClusterInv'
<1>1. CTypeOK BY DEF ClusterInv
<1> DEFINE q == Removed(room[w], p)
           r == [q EXCEPT !.strays = @ \ {p}]
<1>2. room[w] \in Rooms BY <1>1 DEF CTypeOK
<1>3. chan' \in [Workers -> Seq(RPC)] /\ mishaps \subseteq Mishaps BY <1>1 DEF CTypeOK, CleanupFires
<1>4. CASE r.on = {}
  <2>1. DeleteRoom(w) /\ Note(Erases(w)) BY <1>4 DEF CleanupFires
  <2>2. QED BY <1>3, <2>1, DeletedAlone DEF CleanupFires
<1>5. CASE r.on # {}
  <2>1. Put(w, r) /\ UNCHANGED mishaps BY <1>5 DEF CleanupFires
  <2>2. q.on # {} BY <1>2, <1>5 DEF Removed, Rooms
  <2>3. q.list # {} /\ room[w] # NoRoom BY <1>2, <2>2 DEF Removed, Rooms, NoRoom
  <2>4. q \in Rooms /\ q.kind = room[w].kind /\ q.by = room[w].by BY <1>2, <2>3, RemovedRoom
  <2> HIDE DEF q
  <2>5. r \in Rooms /\ r.kind = q.kind /\ r.by = q.by BY <2>4 DEF Rooms
  <2> HIDE DEF r
  <2>6. QED BY <1>3, <2>1, <2>3, <2>4, <2>5, QuietRoom DEF CleanupFires, Put
<1>6. QED BY <1>4, <1>5

\* The room is deleted when nobody is left.
LEMMA NobodyLeftKeeps ==
    ASSUME ClusterInv, NEW w \in Workers, NobodyLeft(w)
    PROVE  ClusterInv'
<1>1. chan' \in [Workers -> Seq(RPC)] BY DEF ClusterInv, CTypeOK, NobodyLeft
<1>2. QED BY <1>1, DeletedAlone DEF NobodyLeft

\* _handle_rpc: the owner, or whoever has the room, adds the player and answers.
LEMMA ServeJoinKeeps ==
    ASSUME ClusterInv, NEW w \in Workers, NEW p \in Clients, ServeJoin(w, p),
           chan' \in [Workers -> Seq(RPC)], UNCHANGED <<status, snap, faults>>
    PROVE  ClusterInv'
<1>1. CTypeOK /\ Placed BY DEF ClusterInv
<1>2. PICK ok \in BOOLEAN :
          /\ IF ok /\ room[w].kind # "none" THEN Put(w, Added(room[w], p))
             ELSE UNCHANGED <<room, key, hash, subs>>
          /\ conn' = IF conn[p].pc # "waiting" THEN conn
                     ELSE [conn EXCEPT ![p].pc = IF ok /\ room[w].kind # "none"
                                                 THEN "accepted" ELSE "declined"]
  BY DEF ServeJoin
<1> DEFINE joins == ok /\ room[w].kind # "none"
           r  == IF joins THEN Added(room[w], p) ELSE room[w]
           pc == IF joins THEN "accepted" ELSE "declined"
           k  == [conn[p] EXCEPT !.pc = pc]
<1>3. room[w] \in Rooms BY <1>1 DEF CTypeOK
<1>4. r \in Rooms /\ r.kind = room[w].kind /\ r.by = room[w].by /\ (room[w] = NoRoom => r = NoRoom)
  BY <1>3, AddedRoom DEF NoRoom
<1>5. room' = [room EXCEPT ![w] = r] /\ UNCHANGED <<key, hash, subs, mishaps>>
  BY <1>1, <1>2 DEF Put, CTypeOK, ServeJoin
<1>6. pc \in {"accepted", "declined"} OBVIOUS
<1>7. conn' = IF conn[p].pc # "waiting" THEN conn ELSE [conn EXCEPT ![p] = k]
  BY <1>1, <1>2 DEF CTypeOK
<1> HIDE DEF r, joins, pc
<1>8. CASE conn[p].pc # "waiting"
  <2>1. conn' = conn BY <1>7, <1>8
  <2>2. QED BY <1>4, <1>5, <2>1, QuietRoom
<1>9. CASE conn[p].pc = "waiting"
  <2>1. pc \in Busy /\ conn[p].pc \in Busy BY <1>6, <1>9 DEF Busy
  <2>2. k \in Calls /\ InPlace(k) /\ k.pc = pc BY <1>1, <2>1, MovedCall
  <2>3. conn' = [conn EXCEPT ![p] = k] BY <1>7, <1>9
  <2> HIDE DEF k
  <2>4. subs' \subseteq Workers BY <1>1, <1>5 DEF CTypeOK
  <2>5. conn[p].pc \notin Adopting /\ k.pc \notin Adopting BY <1>6, <1>9, <2>2 DEF Adopting
  <2>6. (r.kind = "own" <=> Owns(w)) /\ (Owns(w) => r.by = room[w].by) BY <1>4 DEF Owns
  <2>7. QED BY <1>4, <1>5, <1>9, <2>2, <2>3, <2>4, <2>5, <2>6, QuietCall
<1>10. QED BY <1>8, <1>9

\* handle_redis_message.
LEMMA ServeKeeps ==
    ASSUME ClusterInv, NEW w \in Workers, Serve(w)
    PROVE  ClusterInv'
<1> DEFINE m == Head(chan[w])
<1>1. CTypeOK BY DEF ClusterInv
<1>2. m \in RPC /\ m.p \in Clients /\ room[w] \in Rooms
  <2>1. chan[w] \in Seq(RPC) /\ chan[w] # <<>> BY <1>1 DEF CTypeOK, Serve
  <2>2. m \in RPC BY <2>1, HeadTailProperties
  <2>3. QED BY <1>1, <2>2 DEF RPC, CTypeOK
<1>3. chan' \in [Workers -> Seq(RPC)] BY <1>1 DEF Serve, CTypeOK
<1>4. UNCHANGED <<status, snap, faults>> BY DEF Serve
<1> HIDE DEF m
<1>5. CASE ServeJoin(w, m.p) BY <1>2, <1>3, <1>4, <1>5, ServeJoinKeeps
<1>6. CASE ServeGone(w, m.p)
  <2> DEFINE r == Disconnected(room[w], m.p)
  <2>1. r \in Rooms /\ r.kind = room[w].kind /\ r.by = room[w].by BY <1>2, DisconnectedRoom
  <2>2. room[w] = NoRoom => r = NoRoom BY DEF Disconnected, NoRoom
  <2>3. Put(w, r) /\ UNCHANGED <<conn, mishaps>> BY <1>6 DEF ServeGone
  <2>4. mishaps' = mishaps /\ mishaps \subseteq Mishaps BY <1>1, <2>3 DEF CTypeOK
  <2> HIDE DEF r
  <2>5. QED BY <1>3, <1>4, <2>1, <2>2, <2>3, <2>4, QuietRoom DEF Put
<1>7. CASE ServeLeave(w, m.p)
  <2>1. RemovePlayer(w, m.p) /\ conn' = conn BY <1>7 DEF ServeLeave
  <2>2. CASE m.p \notin room[w].list
    <3>1. UNCHANGED <<room, key, hash, subs, mishaps>> BY <2>1, <2>2 DEF RemovePlayer
    <3>2. room' = [room EXCEPT ![w] = room[w]] BY <1>1, <3>1 DEF CTypeOK
    <3>3. mishaps' = mishaps /\ mishaps \subseteq Mishaps BY <1>1, <3>1 DEF CTypeOK
    <3>4. QED BY <1>2, <1>3, <1>4, <2>1, <3>1, <3>2, <3>3, QuietRoom
  <2>3. CASE m.p \in room[w].list /\ room[w].list = {m.p}
    <3>1. DeleteRoom(w) /\ Note(Erases(w)) BY <2>1, <2>3 DEF RemovePlayer
    <3>2. QED BY <1>3, <1>4, <2>1, <3>1, DeletedAlone
  <2>4. CASE m.p \in room[w].list /\ room[w].list # {m.p}
    <3> DEFINE r == Removed(room[w], m.p)
    <3>1. r.list # {} /\ room[w] # NoRoom BY <1>2, <2>4 DEF Removed, Rooms, NoRoom
    <3>2. r \in Rooms /\ r.kind = room[w].kind /\ r.by = room[w].by BY <1>2, <3>1, RemovedRoom
    <3>3. Put(w, r) /\ mishaps' = mishaps BY <2>1, <2>4 DEF RemovePlayer
    <3>4. mishaps \subseteq Mishaps BY <1>1 DEF CTypeOK
    <3> HIDE DEF r
    <3>5. QED BY <1>3, <1>4, <2>1, <3>1, <3>2, <3>3, <3>4, QuietRoom DEF Put
  <2>5. QED BY <2>2, <2>3, <2>4
<1>8. QED BY <1>5, <1>6, <1>7 DEF Serve, m

\* A time-to-live runs out.
LEMMA ExpireKeeps ==
    ASSUME ClusterInv, Expire
    PROVE  ClusterInv'
<1>1. CTypeOK /\ Placed /\ Fresh BY DEF ClusterInv
<1>2. UNCHANGED <<status, room, hash, subs, chan, conn, mishaps>> BY DEF Expire
<1>3. snap' \in {snap, {}} /\ key' \in Workers \cup {None} BY <1>1 DEF Expire, CTypeOK
<1>4. faults' \in 0..MaxFaults BY <1>1, ClusterAssumption DEF Expire, Fault, CTypeOK
<1>5. OwnersSame /\ AdoptersSame BY <1>2 DEF OwnersSame, AdoptersSame, Owns
<1>6. Placed' BY <1>1, <1>2 DEF Placed, Alive
<1>7. Fresh' BY <1>1, <1>2, <1>3, FreshAsBefore
<1>8. /\ conn' \in [Clients -> Calls] /\ room' \in [Workers -> Rooms] /\ subs' \subseteq Workers
      /\ chan' \in [Workers -> Seq(RPC)] /\ mishaps' \subseteq Mishaps
  BY <1>1, <1>2 DEF CTypeOK
<1>9. QED BY <1>2, <1>3, <1>4, <1>5, <1>6, <1>7, <1>8, QuietStep

\* _subscribe_loop starts anew.
LEMMA SubscriberFailsKeeps ==
    ASSUME ClusterInv, NEW w \in Workers, SubscriberFails(w)
    PROVE  ClusterInv'
<1>1. CTypeOK /\ Placed /\ Fresh BY DEF ClusterInv
<1>2. UNCHANGED <<status, room, key, hash, snap, conn>> BY DEF SubscriberFails
<1>3. faults' \in 0..MaxFaults BY <1>1, ClusterAssumption DEF SubscriberFails, Fault, CTypeOK
<1>4. OwnersSame /\ AdoptersSame BY <1>2 DEF OwnersSame, AdoptersSame, Owns
<1>5. Placed' BY <1>1, <1>2 DEF Placed, Alive
<1>6. Fresh' BY <1>1, <1>2, FreshAsBefore
<1>7. mishaps \subseteq mishaps' /\ mishaps' \subseteq Mishaps
  BY <1>1 DEF SubscriberFails, CTypeOK
<1>8. subs' \subseteq Workers /\ chan' \in [Workers -> Seq(RPC)]
  BY <1>1 DEF SubscriberFails, CTypeOK
<1>9. /\ conn' \in [Clients -> Calls] /\ room' \in [Workers -> Rooms]
      /\ key' \in Workers \cup {None} /\ snap' \in {snap, {}}
  BY <1>1, <1>2 DEF CTypeOK
<1>10. QED BY <1>2, <1>3, <1>4, <1>5, <1>6, <1>7, <1>8, <1>9, QuietStep

\* drain_active_rooms: nobody else serves the room whose registration is given up.
LEMMA DrainKeeps ==
    ASSUME ClusterInv, NEW w \in Workers, Drain(w)
    PROVE  ClusterInv'
<1>1. CTypeOK /\ Placed /\ Fresh /\ Ownership BY DEF ClusterInv
<1>2. /\ UNCHANGED <<room, subs, chan, conn, mishaps>> /\ status[w] = "up"
      /\ status' = [status EXCEPT ![w] = "draining"]
  BY DEF Drain
<1>3. /\ status' \in [Workers -> {"up", "draining", "down"}]
      /\ \A v \in Workers : status'[v] = "up" => status[v] = "up" /\ v # w
      /\ \A v \in Workers \ {w} : status'[v] = status[v]
  BY <1>1, <1>2 DEF CTypeOK
<1>4. \/ Owns(w) /\ snap' = room[w].list /\ key' = None /\ hash' = None
      \/ ~Owns(w) /\ UNCHANGED <<snap, key, hash>>
  BY DEF Drain, SaveSnapshot, Snapshot, Unregister
<1>5. faults' \in 0..MaxFaults BY <1>1, ClusterAssumption DEF Drain, Fault, CTypeOK
<1>6. snap' \subseteq Clients BY <1>1, <1>4 DEF CTypeOK, Rooms
<1>7. CTypeOK' BY <1>1, <1>2, <1>3, <1>4, <1>5, <1>6 DEF CTypeOK
<1>8. Placed'
  <2>1. \A v \in Workers : Alive(v) => Alive(v)' BY <1>1, <1>2 DEF Alive, CTypeOK
  <2>2. QED BY <1>1, <1>2, <2>1 DEF Placed
<1>9. Fresh'
  <2>1. conn[1].pc = "new" => ~Owns(w) BY <1>1 DEF Fresh, Owns, NoRoom
  <2>2. QED BY <1>1, <1>2, <1>4, <2>1 DEF Fresh
<1>10. \A v \in Workers : (Owns(v)' <=> Owns(v)) /\ room'[v] = room[v] BY <1>2 DEF Owns
<1>11. RegistryNamesOwner'
  BY <1>1, <1>2, <1>3, <1>4, <1>10, ClusterAssumption DEF Ownership, RegistryNamesOwner, Spared
<1>12. OwnerIsFound'
  <2> SUFFICES ASSUME NEW v \in Workers, Spared({"abandoned", "erased", "split", "orphan"})', status'[v] = "up", Owns(v)'
               PROVE  hash' = v \/ \E c \in Clients : conn'[c].at = v /\ conn'[c].pc \in Adopting
    BY DEF OwnerIsFound
  <2>1. Spared({"abandoned", "erased", "split", "orphan"}) /\ Spared({"split"}) BY <1>2 DEF Spared
  <2>2. status[v] = "up" /\ v # w /\ Owns(v) BY <1>3, <1>10
  <2>3. ~Owns(w)
    <3> SUFFICES ASSUME Owns(w) PROVE FALSE OBVIOUS
    <3>1. room[v].by # 0 /\ room[w].by # 0 BY <1>1, <1>2, <2>2 DEF Ownership, Origin
    <3>2. QED BY <1>1, <2>1, <2>2, <3>1 DEF Ownership, Unsplit
  <2>4. QED BY <1>1, <1>2, <1>4, <2>1, <2>2, <2>3 DEF Ownership, OwnerIsFound
<1>13. Origin'
  <2> SUFFICES ASSUME NEW v \in Workers, status'[v] = "up", Owns(v)', room'[v].by = 0
               PROVE  /\ snap' = {}
                      /\ \A u \in Workers : Owns(u)' => u = v
                      /\ \A c \in Clients : conn'[c].pc \notin Adopting
    BY DEF Origin
  <2>1. status[v] = "up" /\ v # w /\ Owns(v) /\ room[v].by = 0 BY <1>3, <1>10
  <2>2. /\ snap = {} /\ \A u \in Workers : Owns(u) => u = v
        /\ \A c \in Clients : conn[c].pc \notin Adopting
    BY <1>1, <2>1 DEF Ownership, Origin
  <2>3. QED BY <1>2, <1>4, <1>10, <2>1, <2>2
<1>14. Unsplit' BY <1>1, <1>2, <1>10 DEF Ownership, Unsplit, Spared
<1>15. QED BY <1>7, <1>8, <1>9, <1>11, <1>12, <1>13, <1>14 DEF ClusterInv, Ownership

\* A process ends, and with it its room and its connections.
LEMMA DownKeeps ==
    ASSUME ClusterInv, NEW w \in Workers, Down(w), faults' \in 0..MaxFaults,
           mishaps \subseteq mishaps', mishaps' \subseteq Mishaps
    PROVE  ClusterInv'
<1>1. CTypeOK /\ Placed /\ Fresh /\ Ownership BY DEF ClusterInv
<1>2. /\ room' = [room EXCEPT ![w] = NoRoom] /\ status' = [status EXCEPT ![w] = "down"]
      /\ subs' = subs \ {w} /\ UNCHANGED <<key, hash, snap>>
      /\ conn' = [c \in Clients |-> IF conn[c].at = w THEN Gone ELSE conn[c]]
  BY DEF Down, Gone
<1>3. /\ room' \in [Workers -> Rooms] /\ room'[w] = NoRoom
      /\ \A v \in Workers \ {w} : room'[v] = room[v]
  BY <1>1, <1>2, NoRoomTyped, OneRoom
<1>4. /\ status' \in [Workers -> {"up", "draining", "down"}]
      /\ \A v \in Workers : status'[v] = "up" => status[v] = "up" /\ v # w
      /\ \A v \in Workers \ {w} : status'[v] = status[v]
  BY <1>1, <1>2 DEF CTypeOK
<1>5. /\ conn' \in [Clients -> Calls]
      /\ \A c \in Clients : IF conn[c].at = w THEN conn'[c] = Gone ELSE conn'[c] = conn[c]
  BY <1>1, <1>2, GoneTyped DEF CTypeOK
<1>6. chan' \in [Workers -> Seq(RPC)] BY <1>1 DEF CTypeOK, Down
<1>7. CTypeOK' BY <1>1, <1>2, <1>3, <1>4, <1>5, <1>6 DEF CTypeOK
<1>8. Placed' BY <1>1, <1>4, <1>5, GoneTyped DEF Placed, Alive
<1>9. Fresh'
  <2> SUFFICES ASSUME conn'[1].pc = "new"
               PROVE  /\ snap' = {} /\ \A v \in Workers : room'[v] = NoRoom
                      /\ \A c \in Clients : conn'[c].pc = "new"
    BY DEF Fresh
  <2>1. conn[1].pc = "new" BY <1>5, OneIsAClient, GoneTyped
  <2>2. \A c \in Clients : conn[c].pc = "new" /\ conn[c].at # w
    BY <1>1, <2>1, ClusterAssumption DEF Fresh, Placed
  <2>3. QED BY <1>1, <1>2, <1>3, <1>5, <2>1, <2>2 DEF Fresh
<1>10. \A v \in Workers : Owns(v)' => v # w /\ Owns(v) /\ room'[v] = room[v]
  BY <1>3 DEF Owns, NoRoom
<1>11. \A v \in Workers \ {w} : Owns(v) => Owns(v)' BY <1>3 DEF Owns
<1>12. RegistryNamesOwner'
  BY <1>1, <1>2, <1>4, <1>11 DEF Ownership, RegistryNamesOwner, Spared
<1>13. OwnerIsFound'
  <2> SUFFICES ASSUME NEW v \in Workers, Spared({"abandoned", "erased", "split", "orphan"})', status'[v] = "up", Owns(v)'
               PROVE  hash' = v \/ \E c \in Clients : conn'[c].at = v /\ conn'[c].pc \in Adopting
    BY DEF OwnerIsFound
  <2>1. Spared({"abandoned", "erased", "split", "orphan"}) BY DEF Spared
  <2>2. status[v] = "up" /\ v # w /\ Owns(v) BY <1>4, <1>10
  <2>3. hash = v \/ \E c \in Clients : conn[c].at = v /\ conn[c].pc \in Adopting
    BY <1>1, <2>1, <2>2 DEF Ownership, OwnerIsFound
  <2>4. QED BY <1>2, <1>5, <2>2, <2>3
<1>14. Origin'
  BY <1>1, <1>2, <1>4, <1>5, <1>10, GoneTyped DEF Ownership, Origin, Adopting
<1>15. Unsplit' BY <1>1, <1>10 DEF Ownership, Unsplit, Spared
<1>16. QED BY <1>7, <1>8, <1>9, <1>12, <1>13, <1>14, <1>15 DEF ClusterInv, Ownership

\* A worker stops after its drain.
LEMMA StopKeeps ==
    ASSUME ClusterInv, NEW w \in Workers, Stop(w)
    PROVE  ClusterInv'
<1>1. faults' \in 0..MaxFaults /\ mishaps \subseteq mishaps' /\ mishaps' \subseteq Mishaps
  BY DEF Stop, ClusterInv, CTypeOK
<1>2. QED BY <1>1, DownKeeps DEF Stop

\* A worker crashes.
LEMMA CrashKeeps ==
    ASSUME ClusterInv, NEW w \in Workers, Crash(w)
    PROVE  ClusterInv'
<1>1. faults \in 0..MaxFaults /\ mishaps \subseteq Mishaps BY DEF ClusterInv, CTypeOK
<1>2. faults' \in 0..MaxFaults /\ mishaps \subseteq mishaps' /\ mishaps' \subseteq Mishaps
  BY <1>1, ClusterAssumption DEF Crash, Fault
<1>3. QED BY <1>2, DownKeeps DEF Crash

\* A snapshot is read and a room made of it: the history tells whether another
\* restored copy exists.
LEMMA ReadSnapshotKeeps ==
    ASSUME ClusterInv, NEW c \in Clients, ReadSnapshot(c)
    PROVE  ClusterInv'
<1>1. CTypeOK /\ Placed /\ Fresh /\ Ownership /\ conn \in [Clients -> Calls]
  BY DEF ClusterInv, CTypeOK
<1> DEFINE w == conn[c].at
<1>2. /\ conn[c].pc = "reading" /\ conn[c].pc \in Busy /\ "restored" \in Busy /\ conn[c].pc \notin Adopting
      /\ UNCHANGED <<status, key, hash, snap, subs, chan, faults>>
  BY DEF ReadSnapshot, Busy, Adopting
<1>3. w \in Workers BY <1>1, <1>2 DEF Placed
<1>4. CASE snap = {}
  <2>1. End(c) /\ UNCHANGED <<room, mishaps>> BY <1>4 DEF ReadSnapshot
  <2>2. subs' \subseteq Workers /\ faults' \in 0..MaxFaults BY <1>1, <1>2 DEF CTypeOK
  <2>3. QED BY <1>2, <2>1, <2>2, EndsQuietly
<1>5. CASE snap # {}
  <2> DEFINE k == [conn[c] EXCEPT !.pc = "restored"]
             r == Restored(c)
             n == IF \E v \in Workers : Owns(v) /\ room[v].by # 0 THEN {"split"} ELSE {}
  <2>1. k \in Calls /\ InPlace(k) /\ k.pc = "restored" /\ k.at = w BY <1>1, <1>2, MovedCall
  <2>2. r \in Rooms /\ r.kind = "own" /\ r.by = c BY <1>1, <1>5, RestoredRoom DEF CTypeOK
  <2>3. /\ conn' = [conn EXCEPT ![c] = k] /\ room' = [room EXCEPT ![w] = r]
        /\ mishaps' = mishaps \cup n
    BY <1>1, <1>5 DEF ReadSnapshot, Move, Note
  <2>4. c # 0 BY ClusterAssumption DEF Clients
  <2>5. n \subseteq Mishaps BY DEF Mishaps
  <2> HIDE DEF k, r
  <2>6. /\ conn' \in [Clients -> Calls] /\ Placed' /\ conn'[c] = k
        /\ \A d \in Clients \ {c} : conn'[d] = conn[d]
    BY <1>1, <1>2, <2>1, <2>3, OneCall
  <2>7. /\ room' \in [Workers -> Rooms] /\ room'[w] = r
        /\ \A v \in Workers \ {w} : room'[v] = room[v]
    BY <1>1, <1>3, <2>2, <2>3, OneRoom
  <2>8. CTypeOK' BY <1>1, <1>2, <2>3, <2>5, <2>6, <2>7 DEF CTypeOK
  <2>9. Fresh' BY <1>1, <1>2, <2>1, <2>6, StaysNotFresh
  <2>10. /\ \A v \in Workers : v = w => Owns(v)'
         /\ \A v \in Workers \ {w} : (Owns(v)' <=> Owns(v)) /\ room'[v].by = room[v].by
    BY <2>2, <2>7 DEF Owns
  <2>11. RegistryNamesOwner'
    BY <1>1, <1>2, <2>3, <2>10 DEF Ownership, RegistryNamesOwner, Spared
  <2>12. OwnerIsFound'
    <3> SUFFICES ASSUME NEW v \in Workers, Spared({"abandoned", "erased", "split", "orphan"})', status'[v] = "up", Owns(v)'
                 PROVE  hash' = v \/ \E d \in Clients : conn'[d].at = v /\ conn'[d].pc \in Adopting
      BY DEF OwnerIsFound
    <3>1. CASE v = w BY <2>1, <2>6, <3>1 DEF Adopting
    <3>2. CASE v # w
      <4>1. Spared({"abandoned", "erased", "split", "orphan"}) BY <2>3 DEF Spared
      <4>2. hash = v \/ \E d \in Clients : conn[d].at = v /\ conn[d].pc \in Adopting
        BY <1>1, <1>2, <2>10, <3>2, <4>1 DEF Ownership, OwnerIsFound
      <4>3. QED BY <1>2, <2>6, <4>2
    <3>3. QED BY <3>1, <3>2
  <2>13. Origin'
    <3> SUFFICES ASSUME NEW v \in Workers, status'[v] = "up", Owns(v)', room'[v].by = 0
                 PROVE  FALSE
      BY DEF Origin
    <3>1. v # w BY <2>2, <2>4, <2>7
    <3>2. QED BY <1>1, <1>2, <1>5, <2>10, <3>1 DEF Ownership, Origin
  <2>14. Unsplit'
    <3> SUFFICES ASSUME Spared({"split"})' PROVE \A v \in Workers : Owns(v)' /\ room'[v].by # 0 => v = w
      BY DEF Unsplit
    <3>1. \A v \in Workers : ~(Owns(v) /\ room[v].by # 0) BY <2>3 DEF Spared
    <3>2. QED BY <2>10, <3>1
  <2>15. QED BY <2>6, <2>8, <2>9, <2>11, <2>12, <2>13, <2>14 DEF ClusterInv, Ownership
<1>6. QED BY <1>4, <1>5

\* What an adoption comes to, whether the client gets in or not.
LEMMA AdoptionKeeps ==
    ASSUME ClusterInv, NEW c \in Clients, conn[c].pc = "registering",
           NEW k \in Calls, InPlace(k), k.pc \in {"in", "out"}, conn' = [conn EXCEPT ![c] = k],
           NEW w \in Workers, w = conn[c].at,
           NEW r \in Rooms, r.kind = room[w].kind, r.by = room[w].by, room' = [room EXCEPT ![w] = r],
           "orphan" \in mishaps' \/ (Owns(w) /\ room[w].by = c),
           Register(w), subs' = subs \cup {w}, UNCHANGED <<status, snap, chan, faults>>,
           mishaps \subseteq mishaps', mishaps' \subseteq Mishaps
    PROVE  ClusterInv'
<1>1. CTypeOK /\ Placed /\ Fresh /\ Ownership BY DEF ClusterInv
<1>2. /\ conn' \in [Clients -> Calls] /\ Placed' /\ conn'[c] = k
      /\ \A d \in Clients \ {c} : conn'[d] = conn[d]
  BY <1>1, OneCall
<1>3. /\ room' \in [Workers -> Rooms] /\ room'[w] = r
      /\ \A v \in Workers \ {w} : room'[v] = room[v]
  BY <1>1, OneRoom
<1>4. hash' = w /\ key' = w BY DEF Register
<1>5. CTypeOK' BY <1>1, <1>2, <1>3, <1>4 DEF CTypeOK
<1>6. Fresh' BY <1>1, <1>2, StaysNotFresh
<1>7. \A v \in Workers : (Owns(v)' <=> Owns(v)) /\ room'[v].by = room[v].by
  BY <1>3 DEF Owns
<1>8. RegistryNamesOwner' BY <1>4, <1>7 DEF RegistryNamesOwner, Spared
<1>9. \A v \in Workers : status[v] = "up" /\ Owns(v) => room[v].by # 0
  BY <1>1 DEF Ownership, Origin, Adopting
<1>10. OwnerIsFound'
  <2> SUFFICES ASSUME NEW v \in Workers, Spared({"abandoned", "erased", "split", "orphan"})', status'[v] = "up", Owns(v)'
               PROVE  hash' = v
    BY DEF OwnerIsFound
  <2>1. Spared({"split"}) /\ Owns(w) /\ room[w].by = c BY DEF Spared
  <2>2. c # 0 BY ClusterAssumption DEF Clients
  <2>3. Owns(v) /\ room[v].by # 0 BY <1>7, <1>9
  <2>4. v = w BY <1>1, <2>1, <2>2, <2>3 DEF Ownership, Unsplit
  <2>5. QED BY <1>4, <2>4
<1>11. Origin' BY <1>7, <1>9 DEF Origin
<1>12. Unsplit' BY <1>1, <1>7 DEF Ownership, Unsplit, Spared
<1>13. QED BY <1>2, <1>5, <1>6, <1>8, <1>10, <1>11, <1>12 DEF ClusterInv, Ownership

\* join_room and handle_reconnect after the snapshot is deleted.
LEMMA AdoptKeeps ==
    ASSUME ClusterInv, NEW c \in Clients, Adopt(c)
    PROVE  ClusterInv'
<1>1. CTypeOK /\ Placed /\ mishaps \subseteq Mishaps BY DEF ClusterInv, CTypeOK
<1> DEFINE w == conn[c].at
<1>2. /\ conn[c].pc = "registering"
      /\ Register(w) /\ subs' = subs \cup {w} /\ UNCHANGED <<status, snap, chan, faults>>
  BY DEF Adopt
<1>3. w \in Workers /\ Alive(w) /\ room[w] \in Rooms BY <1>1, <1>2 DEF Placed, CTypeOK
<1>4. room = [room EXCEPT ![w] = room[w]] BY <1>1, <1>3 DEF CTypeOK
<1>5. CASE ~Owns(w) \/ room[w].by # c
  <2>1. End(c) /\ room' = room /\ Note({"orphan"}) BY <1>5 DEF Adopt
  <2>2. conn' = [conn EXCEPT ![c] = Gone] BY <2>1 DEF End, Gone
  <2>3. "orphan" \in mishaps' /\ mishaps \subseteq mishaps' /\ mishaps' \subseteq Mishaps
    BY <1>1, <2>1 DEF Note, Mishaps
  <2>4. QED BY <1>2, <1>3, <1>4, <2>1, <2>2, <2>3, GoneTyped, AdoptionKeeps
<1>6. CASE Owns(w) /\ room[w].by = c
  <2>1. mishaps' = mishaps BY <1>6 DEF Adopt
  <2>2. ASSUME NEW k \in Calls, NEW r \in Rooms,
               InPlace(k), k.pc \in {"in", "out"}, conn' = [conn EXCEPT ![c] = k],
               r.kind = room[w].kind, r.by = room[w].by, room' = [room EXCEPT ![w] = r]
        PROVE  ClusterInv'
    BY <1>1, <1>2, <1>3, <1>6, <2>1, <2>2, AdoptionKeeps
  <2>3. CASE conn[c].call = "join"
    <3>1. JoinHere(c, w) BY <1>6, <2>3 DEF Adopt
    <3>2. PICK k \in Calls, r \in Rooms :
              /\ InPlace(k) /\ k.pc \in {"in", "out"} /\ conn' = [conn EXCEPT ![c] = k]
              /\ r.kind = room[w].kind /\ r.by = room[w].by /\ room' = [room EXCEPT ![w] = r]
      BY <1>1, <1>3, <1>6, <3>1, JoinHereDoes
    <3>3. QED BY <2>2, <3>2
  <2>4. CASE conn[c].call # "join" /\ Choice(w, c) = {}
    <3>1. End(c) /\ room' = room BY <1>6, <2>4 DEF Adopt
    <3>2. conn' = [conn EXCEPT ![c] = Gone] BY <3>1 DEF End, Gone
    <3>3. QED BY <1>3, <1>4, <2>2, <3>1, <3>2, GoneTyped
  <2>5. CASE conn[c].call # "join" /\ Choice(w, c) # {}
    <3>1. PICK p \in Choice(w, c) : Reattach(c, w, p) BY <1>6, <2>5 DEF Adopt
    <3>2. PICK k \in Calls, r \in Rooms :
              /\ InPlace(k) /\ k.pc = "in" /\ conn' = [conn EXCEPT ![c] = k]
              /\ r.kind = room[w].kind /\ r.by = room[w].by /\ room' = [room EXCEPT ![w] = r]
      BY <1>1, <1>3, <3>1, ReattachDoes
    <3>3. QED BY <2>2, <3>2
  <2>6. QED BY <2>3, <2>4, <2>5
<1>7. QED BY <1>5, <1>6

\* delete_room_snapshot: the adopter goes on, and only the snapshot is given up.
LEMMA DropSnapshotKeeps ==
    ASSUME ClusterInv, NEW c \in Clients, DropSnapshot(c)
    PROVE  ClusterInv'
<1>1. CTypeOK /\ Placed /\ Fresh BY DEF ClusterInv
<1> DEFINE k == [conn[c] EXCEPT !.pc = "registering"]
<1>2. conn[c].pc = "restored" /\ conn[c].pc \in Busy /\ "registering" \in Busy
  BY DEF DropSnapshot, Busy, Adopting
<1>3. k \in Calls /\ InPlace(k) /\ k.pc = "registering" /\ k.at = conn[c].at
  BY <1>1, <1>2, MovedCall
<1>4. /\ conn' = [conn EXCEPT ![c] = k] /\ snap' = {}
      /\ UNCHANGED <<status, room, key, hash, subs, chan, faults, mishaps>>
  BY <1>1 DEF DropSnapshot, Move, CTypeOK
<1> HIDE DEF k
<1>5. /\ conn' \in [Clients -> Calls] /\ Placed' /\ conn'[c] = k
      /\ \A d \in Clients \ {c} : conn'[d] = conn[d]
  BY <1>1, <1>3, <1>4, OneCall
<1>6. Fresh' BY <1>1, <1>2, <1>3, <1>5, StaysNotFresh
<1>7. AdoptersSame BY <1>2, <1>3, <1>5 DEF AdoptersSame, Adopting
<1>8. OwnersSame BY <1>4 DEF OwnersSame, Owns
<1>9. /\ room' \in [Workers -> Rooms] /\ status' = status /\ hash' = hash
      /\ key' \in Workers \cup {None} /\ snap' \in {snap, {}} /\ subs' \subseteq Workers
      /\ chan' \in [Workers -> Seq(RPC)] /\ faults' \in 0..MaxFaults
      /\ mishaps \subseteq mishaps' /\ mishaps' \subseteq Mishaps
  BY <1>1, <1>4 DEF CTypeOK
<1>10. QED BY <1>5, <1>6, <1>7, <1>8, <1>9, QuietStep

\* A cancelled call: a restored room that is left unregistered is in the history.
LEMMA CancelCallKeeps ==
    ASSUME ClusterInv, NEW c \in Clients, CancelCall(c)
    PROVE  ClusterInv'
<1>1. CTypeOK /\ Placed /\ Fresh /\ Ownership BY DEF ClusterInv
<1>2. /\ conn[c].pc \in Busy /\ End(c)
      /\ UNCHANGED <<status, room, key, hash, snap, subs, chan>>
  BY DEF CancelCall
<1>3. faults' \in 0..MaxFaults BY <1>1, ClusterAssumption DEF CancelCall, Fault, CTypeOK
<1>4. subs' \subseteq Workers BY <1>1, <1>2 DEF CTypeOK
<1>5. CASE conn[c].pc \notin Adopting
  <2>1. mishaps' = mishaps BY <1>5 DEF CancelCall, Note
  <2>2. conn[c].pc # "new" BY <1>2 DEF Busy, Adopting
  <2>3. QED BY <1>2, <1>3, <1>4, <1>5, <2>1, <2>2, EndsQuietly
<1>6. CASE conn[c].pc \in Adopting
  <2>1. mishaps' = mishaps \cup {"abandoned"} BY <1>6 DEF CancelCall, Note
  <2>2. conn' = [conn EXCEPT ![c] = Gone] BY <1>2 DEF End, Gone
  <2>3. /\ conn' \in [Clients -> Calls] /\ Placed' /\ conn'[c] = Gone
        /\ \A d \in Clients \ {c} : conn'[d] = conn[d]
    BY <1>1, <1>2, <2>2, GoneTyped, OneCall
  <2>4. Fresh' BY <1>1, <1>6, <2>3, GoneTyped, StaysNotFresh DEF Adopting
  <2>5. CTypeOK' BY <1>1, <1>2, <1>3, <2>1, <2>3 DEF CTypeOK, Mishaps
  <2>6. \A v \in Workers : (Owns(v)' <=> Owns(v)) /\ room'[v] = room[v] BY <1>2 DEF Owns
  <2>7. RegistryNamesOwner'
    BY <1>1, <1>2, <2>1, <2>6 DEF Ownership, RegistryNamesOwner, Spared
  <2>8. OwnerIsFound' BY <2>1 DEF OwnerIsFound, Spared
  <2>9. Origin'
    <3>1. \A v \in Workers : ~(status[v] = "up" /\ Owns(v) /\ room[v].by = 0)
      BY <1>1, <1>6 DEF Ownership, Origin
    <3>2. QED BY <1>2, <2>6, <3>1 DEF Origin
  <2>10. Unsplit' BY <1>1, <2>1, <2>6 DEF Ownership, Unsplit, Spared
  <2>11. QED BY <2>3, <2>4, <2>5, <2>7, <2>8, <2>9, <2>10 DEF ClusterInv, Ownership
<1>7. QED BY <1>5, <1>6
-----------------------------------------------------------------------------
\* Nothing is there at the start.
LEMMA ClusterInit ==
    CInit => ClusterInv
<1> SUFFICES ASSUME CInit PROVE ClusterInv OBVIOUS
<1>1. /\ \A w \in Workers : room[w] = NoRoom /\ ~Owns(w) /\ room[w].kind = "none"
      /\ \A c \in Clients : conn[c] = Idle /\ conn[c].pc = "new" /\ conn[c].at = None
      /\ snap = {} /\ hash = None
  BY DEF CInit, Owns, NoRoom, Idle
<1>2. Idle \in Calls BY ClusterAssumption DEF Idle, Calls
<1>3. CTypeOK BY <1>2, NoRoomTyped, ClusterAssumption DEF CInit, CTypeOK, Mishaps
<1>4. Placed BY <1>1 DEF Placed
<1>5. Fresh BY <1>1 DEF Fresh
<1>6. Ownership
  BY <1>1, ClusterAssumption DEF Ownership, RegistryNamesOwner, OwnerIsFound, Origin, Unsplit
<1>7. QED BY <1>3, <1>4, <1>5, <1>6 DEF ClusterInv

\* Every step of a worker, a client or a fault keeps the invariant.
LEMMA ClusterStep ==
    ClusterInv /\ [CNext]_cvars => ClusterInv'
<1> SUFFICES ASSUME ClusterInv, [CNext]_cvars PROVE ClusterInv' OBVIOUS
<1>1. CASE UNCHANGED cvars
  BY <1>1 DEF cvars, ClusterInv, CTypeOK, Placed, Fresh, Adopting, Alive, Spared, Owns,
              Ownership, RegistryNamesOwner, OwnerIsFound, Origin, Unsplit
<1>2. CASE \E w \in Workers : CreateRoom(w) BY <1>2, CreateRoomKeeps
<1>3. CASE \E c \in Clients, w \in Workers : JoinLocal(c, w) \/ JoinElsewhere(c, w) \/ Reconnect(c, w)
  BY <1>3, JoinLocalKeeps, JoinElsewhereKeeps, ReconnectKeeps
<1>4. CASE \E c \in Clients : Proceed(c)
  BY <1>4, AskOwnerKeeps, NoOwnerKeeps, ReadSnapshotKeeps, DropSnapshotKeeps, AdoptKeeps,
     AnsweredKeeps, RpcTimeoutKeeps
     DEF Proceed
<1>5. CASE \E c \in Clients : CloseLocal(c) \/ CloseProxied(c) \/ Leave(c) \/ CancelCall(c)
  BY <1>5, CloseLocalKeeps, CloseProxiedKeeps, LeaveKeeps, CancelCallKeeps
<1>6. CASE \E w \in Workers : Serve(w) BY <1>6, ServeKeeps
<1>7. CASE \E w \in Workers, p \in Clients : CleanupFires(w, p) BY <1>7, CleanupFiresKeeps
<1>8. CASE \E w \in Workers : \/ NobodyLeft(w) \/ Drain(w) \/ Stop(w)
                              \/ Crash(w) \/ SubscriberFails(w)
  BY <1>8, NobodyLeftKeeps, DrainKeeps, StopKeeps, CrashKeeps, SubscriberFailsKeeps
<1>9. CASE Expire BY <1>9, ExpireKeeps
<1>10. QED BY <1>1, <1>2, <1>3, <1>4, <1>5, <1>6, <1>7, <1>8, <1>9 DEF CNext

\* ClusterInv holds throughout, for any number of workers, clients and faults.
THEOREM ClusterIsInductive ==
    CSpec => []ClusterInv
BY ClusterInit, ClusterStep, PTL DEF CSpec

\* redis_pubsub's registry and the workers agree on who has the room: a worker it
\* names has it, a worker that serves it is named, and nobody adopts a room that
\* its creator still serves.
THEOREM RegistryAlwaysTrue ==
    CSpec => []RegistryIsTrue
<1>1. ClusterInv => RegistryIsTrue
  <2> SUFFICES ASSUME ClusterInv PROVE RegistryIsTrue OBVIOUS
  <2>1. CTypeOK /\ RegistryNamesOwner /\ OwnerIsFound /\ Origin BY DEF ClusterInv, Ownership
  <2>2. OriginalIsAlone BY <2>1 DEF OriginalIsAlone, Origin
  <2>3. QED BY <2>1, <2>2 DEF RegistryIsTrue
<1>2. QED BY <1>1, ClusterIsInductive, PTL
=============================================================================
