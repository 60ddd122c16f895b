------------------------------ MODULE Cluster ------------------------------
(***************************************************************************)
(* One room in a cluster of workers that share Redis: the ownership        *)
(* registry, joins over worker-to-worker RPC, proxy rooms, draining with a *)
(* snapshot, and adoption of the snapshot by another worker                *)
(* (backend/room_manager.py, redis_pubsub.py, ws_handler.py, main.py).     *)
(*                                                                         *)
(* A client is one connection to one worker, by WebSocket or through a     *)
(* gateway's stream; it makes one identity call.  The player it joins as   *)
(* gets the client's number as its id, so a client that reconnects plays   *)
(* an earlier client.  A step is what a coroutine does between two awaits  *)
(* that other workers can interfere with, with one simplification: the     *)
(* registry writes of one handler are one step, and _delete_room takes the *)
(* room out (room_manager.py:107) and unregisters it (136-138) in one      *)
(* step.  Phase, host and password of the room are left open (module       *)
(* GameRoom has them): what depends on them is a choice here.              *)
(***************************************************************************)
EXTENDS Integers, Sequences, FiniteSets

CONSTANTS
    Workers,    \* worker processes; a restarted one has a new id
    MaxClients, \* bound: connections, numbered as they are made
    Who,        \* the display name of a client
    MaxFaults,  \* bound: drains, crashes, expiries, cancelled calls, lost subscriptions
    None

Clients == 1..MaxClients

ASSUME ClusterAssumption ==
    /\ IsFiniteSet(Workers) /\ None \notin Workers
    /\ MaxClients \in Nat \ {0} /\ MaxFaults \in Nat
    /\ DOMAIN Who = Clients

VARIABLES
    status,   \* of a worker: up, draining, or down
    room,     \* a worker's Room object for the room code
    key,      \* room_owner:<code>, a key with a TTL
    hash,     \* the room_workers entry, without one
    snap,     \* players in room_snapshot:<code>; {} is no snapshot
    subs,     \* workers subscribed to the room's channel
    chan,     \* RPCs published on a worker's channel, served in that order
    conn,     \* a client's call, and afterwards its connection
    faults,   \* drains, crashes and the like so far
    mishaps   \* history: what has happened that the code does not repair

cvars == <<status, room, key, hash, snap, subs, chan, conn, faults, mishaps>>

\* room.kind is is_proxy; room.by tells the Room objects of a worker apart: the
\* client whose call restored it.  tasks: players whose cleanup_task sleeps;
\* strays: players with an earlier clean-up that cleanup_task no longer names.
NoRoom == [kind |-> "none", by |-> 0, list |-> {}, on |-> {}, tasks |-> {}, strays |-> {}]
Idle   == [at |-> None, pc |-> "new", call |-> "join", me |-> 0]

\* A call under way.  accepted, declined: the owner's answer is in Redis.
Adopting == {"restored", "registering"}
Busy    == {"looking", "waiting", "accepted", "declined", "reading"} \cup Adopting
RPC     == [type : {"join", "gone", "leave"}, p : Clients]
Mishaps == {"abandoned", "orphan", "erased", "split"}

\* Who is connected, or will be cleaned up, is listed; nobody is only where no room is.
Rooms == {r \in [kind : {"none", "own", "proxy"}, by : 0..MaxClients,
                 list : SUBSET Clients, on : SUBSET Clients,
                 tasks : SUBSET Clients, strays : SUBSET Clients] :
             /\ r.on \cup r.tasks \subseteq r.list
             /\ r.kind = "none" <=> r.list = {}}

Calls == [at : Workers \cup {None}, pc : {"new", "in", "out"} \cup Busy,
          call : {"join", "reconnect", "leave"}, me : 0..MaxClients]

CTypeOK ==
    /\ status \in [Workers -> {"up", "draining", "down"}]
    /\ room \in [Workers -> Rooms]
    /\ {key, hash} \subseteq Workers \cup {None}
    /\ snap \subseteq Clients /\ subs \subseteq Workers
    /\ chan \in [Workers -> Seq(RPC)]
    /\ conn \in [Clients -> Calls]
    /\ faults \in 0..MaxFaults /\ mishaps \subseteq Mishaps
-----------------------------------------------------------------------------
Owns(w)  == room[w].kind = "own"
Alive(w) == status[w] # "down"
Owner    == IF key # None THEN key ELSE hash       \* get_room_worker_with_ttl

Move(c, pc) == conn' = [conn EXCEPT ![c].pc = pc]
End(c)      == conn' = [conn EXCEPT ![c] = [Idle EXCEPT !.pc = "out"]]
Note(what)  == mishaps' = mishaps \cup what

\* publish_rpc_request: nobody keeps it for a worker that is down, and a worker ignores
\* what it published itself.
Published(by, to, m) ==
    IF to = None \/ to = by \/ (to # None /\ status[to] = "down") THEN chan
    ELSE [chan EXCEPT ![to] = Append(@, m)]

\* forward_to_room_owner and _notify_owner_disconnect ask room_workers.
TellOwner(c, type) == chan' = Published(conn[c].at, hash, [type |-> type, p |-> conn[c].me])

Register(w) == key' = w /\ hash' = w
Unregister  == key' = None /\ hash' = None
Put(w, r)   == room' = [room EXCEPT ![w] = r] /\ UNCHANGED <<key, hash, subs>>

\* Mutant of DeleteRoom: the registry entries stay.
DeleteUnregistered(w) ==
    /\ room' = [room EXCEPT ![w] = NoRoom]
    /\ subs' = subs \ {w} /\ UNCHANGED <<key, hash>>

\* _delete_room: whoever is registered by now is unregistered.
DeleteRoom(w) ==
    /\ room' = [room EXCEPT ![w] = NoRoom]
    /\ subs' = subs \ {w} /\ Unregister

\* The registration that goes is another worker's.
Erases(w) == IF hash \in {w, None} THEN {} ELSE {"erased"}

\* snapshot_room and restore_room: everybody is disconnected, and no task of
\* the old worker is scheduled again.
Snapshot(w) == room[w].list
Restored(c) == [NoRoom EXCEPT !.kind = "own", !.by = c, !.list = snap]

Added(r, p)   == [r EXCEPT !.list = @ \cup {p}, !.on = @ \cup {p}]
Removed(r, p) == [r EXCEPT !.list = @ \ {p}, !.on = @ \ {p}, !.tasks = @ \ {p}]

\* handle_disconnect: a second one overwrites cleanup_task, and the first
\* clean-up sleeps on.
Disconnected(r, p) ==
    IF p \notin r.list THEN r
    ELSE [r EXCEPT !.on = @ \ {p}, !.tasks = @ \cup {p},
                   !.strays = IF p \in r.tasks THEN @ \cup {p} ELSE @]

\* leave_room and remove_player delete the room with its last player.
RemovePlayer(w, p) ==
    IF p \notin room[w].list THEN UNCHANGED <<room, key, hash, subs, mishaps>>
    ELSE IF room[w].list = {p} THEN DeleteRoom(w) /\ Note(Erases(w))
    ELSE Put(w, Removed(room[w], p)) /\ UNCHANGED mishaps

\* handle_reconnect: an absent player of that name before a present one.
Named(w, c)  == {p \in room[w].list : Who[p] = Who[c]}
Choice(w, c) == LET off == Named(w, c) \ room[w].on
                IN  IF off # {} THEN off ELSE Named(w, c)

\* It cancels the clean-up that cleanup_task names.
Reattach(c, w, p) ==
    /\ conn' = [conn EXCEPT ![c] = [at |-> w, pc |-> "in", call |-> "reconnect", me |-> p]]
    /\ room' = [room EXCEPT ![w].on = @ \cup {p}, ![w].tasks = @ \ {p}]

\* _join_room_remote without an answer: the owner may still add the player.
GiveUp(c) ==
    /\ End(c) /\ subs' = subs \ {conn[c].at}
    /\ UNCHANGED <<status, room, key, hash, snap, chan, faults, mishaps>>
-----------------------------------------------------------------------------
CInit ==
    /\ status  = [w \in Workers |-> "up"]
    /\ room    = [w \in Workers |-> NoRoom]
    /\ chan    = [w \in Workers |-> <<>>]
    /\ conn    = [c \in Clients |-> Idle]
    /\ key = None /\ hash = None /\ snap = {} /\ subs = {}
    /\ faults = 0 /\ mishaps = {}

\* A client connects; connections are numbered in order.  A draining worker
\* still serves the streams of the gateways.
Arrives(c, w) ==
    /\ conn[c].pc = "new" /\ \A d \in 1..(c - 1) : conn[d].pc # "new"
    /\ Alive(w)

\* Workers are interchangeable: the room is created on one of them.
Home == CHOOSE w \in Workers : TRUE

\* create_room, which a draining worker refuses.
CreateRoom(w) ==
    /\ w = Home /\ Arrives(1, w) /\ status[w] = "up"
    /\ conn' = [conn EXCEPT ![1] = [at |-> w, pc |-> "in", call |-> "join", me |-> 1]]
    /\ room' = [room EXCEPT ![w] = Added([NoRoom EXCEPT !.kind = "own"], 1)]
    /\ Register(w) /\ subs' = subs \cup {w}
    /\ UNCHANGED <<status, snap, chan, faults, mishaps>>

\* _join_room_local: password, phase and capacity decide.
JoinHere(c, w) ==
    \/ /\ conn' = [conn EXCEPT ![c] = [at |-> w, pc |-> "in", call |-> "join", me |-> c]]
       /\ room' = [room EXCEPT ![w] = Added(@, c)]
    \/ End(c) /\ UNCHANGED room

\* join_room where the room is.
JoinLocal(c, w) ==
    /\ c # 1 /\ Arrives(c, w) /\ Owns(w)
    /\ JoinHere(c, w)
    /\ UNCHANGED <<status, key, hash, snap, subs, chan, faults, mishaps>>

\* join_room elsewhere: the owner is looked up.
JoinElsewhere(c, w) ==
    /\ c # 1 /\ Arrives(c, w) /\ ~Owns(w)
    /\ conn' = [conn EXCEPT ![c] = [at |-> w, pc |-> "looking", call |-> "join", me |-> 0]]
    /\ UNCHANGED <<status, room, key, hash, snap, subs, chan, faults, mishaps>>

\* _join_room_remote up to its wait.
AskOwner(c) ==
    /\ conn[c].pc = "looking" /\ Owner # None
    /\ subs' = subs \cup {conn[c].at}
    /\ chan' = Published(conn[c].at, Owner, [type |-> "join", p |-> c])
    /\ Move(c, "waiting")
    /\ UNCHANGED <<status, room, key, hash, snap, faults, mishaps>>

\* The last of five lookups finds no owner either.
NoOwner(c) ==
    /\ conn[c].pc = "looking" /\ Owner = None
    /\ Move(c, "reading")
    /\ UNCHANGED <<status, room, key, hash, snap, subs, chan, faults, mishaps>>

\* join_room, or handle_reconnect on a worker without the room, reads the
\* snapshot and puts the restored Room in the place of whatever was there.
ReadSnapshot(c) ==
    /\ conn[c].pc = "reading"
    /\ IF snap = {} THEN End(c) /\ UNCHANGED <<room, mishaps>>
       ELSE /\ Move(c, "restored")
            /\ Note(IF \E w \in Workers : Owns(w) /\ room[w].by # 0 THEN {"split"} ELSE {})
            /\ room' = [room EXCEPT ![conn[c].at] = Restored(c)]
    /\ UNCHANGED <<status, key, hash, snap, subs, chan, faults>>

\* delete_room_snapshot deletes the snapshot there is by now.
DropSnapshot(c) ==
    /\ conn[c].pc = "restored"
    /\ snap' = {} /\ Move(c, "registering")
    /\ UNCHANGED <<status, room, key, hash, subs, chan, faults, mishaps>>

\* The rest of the call: the worker is registered, and the client joins or
\* reconnects.  If the Room it restored is no longer the worker's, the client
\* ends up in an object nobody else sees.
Adopt(c) ==
    LET w == conn[c].at IN
    /\ conn[c].pc = "registering"
    /\ Register(w) /\ subs' = subs \cup {w}
    /\ IF ~Owns(w) \/ room[w].by # c
       THEN End(c) /\ UNCHANGED room /\ Note({"orphan"})
       ELSE /\ IF conn[c].call = "join" THEN JoinHere(c, w)
               ELSE IF Choice(w, c) = {} THEN End(c) /\ UNCHANGED room
               ELSE \E p \in Choice(w, c) : Reattach(c, w, p)
            /\ UNCHANGED mishaps
    /\ UNCHANGED <<status, snap, chan, faults>>

\* The answer to the join RPC is read in time.
Answered(c) ==
    LET w == conn[c].at IN
    /\ conn[c].pc \in {"accepted", "declined"}
    /\ IF conn[c].pc = "accepted"
       THEN /\ conn' = [conn EXCEPT ![c].pc = "in", ![c].me = c]
            /\ Put(w, Added(IF room[w].kind = "none" THEN [NoRoom EXCEPT !.kind = "proxy"]
                            ELSE room[w], c))
       ELSE /\ End(c) /\ subs' = subs \ {w}
            /\ UNCHANGED <<room, key, hash>>
    /\ UNCHANGED <<status, snap, chan, faults, mishaps>>

\* Mutant of RpcTimeout: only an answer that comes too late is given up.
TimeoutUnarmed(c) == conn[c].pc = "accepted" /\ GiveUp(c)

\* wait_for_rpc_response has polled for five seconds.
RpcTimeout(c) == conn[c].pc \in {"waiting", "accepted"} /\ GiveUp(c)

Reconnect(c, w) ==
    /\ c # 1 /\ Arrives(c, w)
    /\ IF room[w].kind = "none"
       THEN /\ conn' = [conn EXCEPT ![c] = [at |-> w, pc |-> "reading",
                                            call |-> "reconnect", me |-> 0]]
            /\ UNCHANGED room
       ELSE IF Choice(w, c) = {} THEN End(c) /\ UNCHANGED room
       ELSE \E p \in Choice(w, c) : Reattach(c, w, p)
    /\ UNCHANGED <<status, key, hash, snap, subs, chan, faults, mishaps>>
-----------------------------------------------------------------------------
\* The subscriber loop of a worker handles an RPC: _handle_rpc.
ServeJoin(w, p) ==
    /\ \E ok \in BOOLEAN :    \* password, phase and capacity
          LET joins == ok /\ room[w].kind # "none"
          IN  /\ IF joins THEN Put(w, Added(room[w], p))
                 ELSE UNCHANGED <<room, key, hash, subs>>
              /\ conn' = IF conn[p].pc # "waiting" THEN conn
                         ELSE [conn EXCEPT ![p].pc = IF joins THEN "accepted" ELSE "declined"]
    /\ UNCHANGED mishaps

ServeGone(w, p) == Put(w, Disconnected(room[w], p)) /\ UNCHANGED <<conn, mishaps>>

ServeLeave(w, p) == RemovePlayer(w, p) /\ UNCHANGED conn

Serve(w) ==
    LET m == Head(chan[w]) IN
    /\ Alive(w) /\ chan[w] # <<>>
    /\ chan' = [chan EXCEPT ![w] = Tail(@)]
    /\ \/ m.type = "join"  /\ ServeJoin(w, m.p)
       \/ m.type = "gone"  /\ ServeGone(w, m.p)
       \/ m.type = "leave" /\ ServeLeave(w, m.p)
    /\ UNCHANGED <<status, snap, faults>>

\* The finally block of websocket_handler on a worker that owns the room.
CloseLocal(c) ==
    LET w == conn[c].at IN
    /\ conn[c].pc = "in" /\ room[w].kind # "proxy"
    /\ Put(w, Disconnected(room[w], conn[c].me)) /\ End(c)
    /\ UNCHANGED <<status, snap, chan, faults, mishaps>>

\* The same on a proxy: the worker in room_workers is told, and a proxy room
\* without players is dropped.
CloseProxied(c) ==
    LET w == conn[c].at
        r == Removed(room[w], conn[c].me)
    IN  /\ conn[c].pc = "in" /\ room[w].kind = "proxy"
        /\ TellOwner(c, "gone")
        /\ room' = [room EXCEPT ![w] = IF r.list = {} THEN NoRoom ELSE r]
        /\ subs' = IF r.list = {} THEN subs \ {w} ELSE subs
        /\ End(c)
        /\ UNCHANGED <<status, key, hash, snap, faults, mishaps>>

\* leave_room on the owner; on a proxy it is forwarded, and the proxy keeps
\* the client as it is.
Leave(c) ==
    LET w == conn[c].at IN
    /\ conn[c].pc = "in" /\ conn[c].call # "leave" /\ room[w].kind # "none"
    /\ IF Owns(w)
       THEN RemovePlayer(w, conn[c].me) /\ End(c) /\ UNCHANGED chan
       ELSE /\ TellOwner(c, "leave")
            /\ conn' = [conn EXCEPT ![c].call = "leave"]
            /\ UNCHANGED <<room, key, hash, subs, mishaps>>
    /\ UNCHANGED <<status, snap, faults>>

\* _permanently_remove_player, from cleanup_task or from one it no longer names.
CleanupFires(w, p) ==
    LET r == [Removed(room[w], p) EXCEPT !.strays = @ \ {p}] IN
    /\ Alive(w) /\ p \in room[w].tasks \cup room[w].strays
    /\ IF r.on = {} THEN DeleteRoom(w) /\ Note(Erases(w))
       ELSE Put(w, r) /\ UNCHANGED mishaps
    /\ UNCHANGED <<status, snap, chan, conn, faults>>

\* The last to go was the host of a room that is not playing: the room is
\* deleted at once or by _reassign_host_if_disconnected.
NobodyLeft(w) ==
    /\ Alive(w) /\ Owns(w) /\ room[w].on = {} /\ room[w].tasks # {}
    /\ DeleteRoom(w) /\ Note(Erases(w))
    /\ UNCHANGED <<status, snap, chan, conn, faults>>
-----------------------------------------------------------------------------
Fault == faults < MaxFaults /\ faults' = faults + 1

\* save_room_snapshot gives up the registration with it.
SaveSnapshot(w) == snap' = Snapshot(w) /\ Unregister

\* The lifespan's shutdown: set_worker_draining, then drain_active_rooms.  The
\* room stays, and with it the clients of the gateways, until the gRPC server
\* is stopped.
Drain(w) ==
    /\ Fault /\ status[w] = "up"
    /\ status' = [status EXCEPT ![w] = "draining"]
    /\ IF Owns(w) THEN SaveSnapshot(w)
       ELSE UNCHANGED <<snap, key, hash>>
    /\ UNCHANGED <<room, subs, chan, conn, mishaps>>

\* What a worker loses with its process.
Down(w) ==
    /\ status' = [status EXCEPT ![w] = "down"]
    /\ room' = [room EXCEPT ![w] = NoRoom]
    /\ chan' = [chan EXCEPT ![w] = <<>>]
    /\ subs' = subs \ {w}
    /\ conn' = [c \in Clients |-> IF conn[c].at = w THEN [Idle EXCEPT !.pc = "out"]
                                  ELSE conn[c]]
    /\ UNCHANGED <<key, hash, snap>>

\* grpc_server.stop, shutdown_redis and the end of the process.
Stop(w)  == status[w] = "draining" /\ Down(w) /\ UNCHANGED <<faults, mishaps>>
Crash(w) == Fault /\ Alive(w) /\ Down(w) /\ UNCHANGED mishaps

\* The gateway's stream is cancelled, and with it the task inside the call.
CancelCall(c) ==
    /\ Fault /\ conn[c].pc \in Busy
    /\ End(c)
    /\ Note(IF conn[c].pc \in Adopting THEN {"abandoned"} ELSE {})
    /\ UNCHANGED <<status, room, key, hash, snap, subs, chan>>

\* An error in _subscribe_loop: what is published until it has subscribed
\* again, to the rooms it has by then, is lost.
SubscriberFails(w) ==
    /\ Fault /\ Alive(w) /\ (chan[w] # <<>> \/ w \in subs)
    /\ chan' = [chan EXCEPT ![w] = <<>>]
    /\ subs' = IF room[w].kind = "none" THEN subs \ {w} ELSE subs \cup {w}
    /\ UNCHANGED <<status, room, key, hash, snap, conn, mishaps>>

Expire ==
    /\ Fault
    /\ \/ snap # {}   /\ snap' = {}  /\ UNCHANGED key
       \/ key # None  /\ key' = None /\ UNCHANGED snap
    /\ UNCHANGED <<status, room, hash, subs, chan, conn, mishaps>>

Proceed(c) ==
    \/ AskOwner(c) \/ NoOwner(c) \/ Answered(c) \/ RpcTimeout(c)
    \/ ReadSnapshot(c) \/ DropSnapshot(c) \/ Adopt(c)

CNext ==
    \/ \E w \in Workers : CreateRoom(w)
    \/ \E c \in Clients, w \in Workers :
          JoinLocal(c, w) \/ JoinElsewhere(c, w) \/ Reconnect(c, w)
    \/ \E c \in Clients : Proceed(c) \/ CloseLocal(c) \/ CloseProxied(c) \/ Leave(c) \/ CancelCall(c)
    \/ \E w \in Workers : Serve(w)
    \/ \E w \in Workers, p \in Clients : CleanupFires(w, p)
    \/ \E w \in Workers : \/ NobodyLeft(w) \/ Drain(w) \/ Stop(w)
                           \/ Crash(w) \/ SubscriberFails(w)
    \/ Expire

\* A coroutine that waits for Redis or for its own deadline goes on.
CSpec == CInit /\ [][CNext]_cvars /\ \A c \in Clients : WF_cvars(Proceed(c))
-----------------------------------------------------------------------------
Spared(what) == mishaps \cap what = {}

\* redis_pubsub.register_room_worker: a worker that is up and that room_workers
\* names has the room, whatever was drained, adopted, deleted or forwarded.
RegistryNamesOwner ==
    \A w \in Workers : Spared({"orphan"}) /\ status[w] = "up" /\ hash = w => Owns(w)

\* redis_pubsub.get_room_worker_with_ttl: the registry names the worker that
\* serves the room, once its adoption is complete.
OwnerIsFound ==
    \A w \in Workers :
        Spared({"abandoned", "erased", "split", "orphan"}) /\ status[w] = "up" /\ Owns(w)
            => hash = w \/ \E c \in Clients : conn[c].at = w /\ conn[c].pc \in Adopting

\* Two copies of the room on workers that take clients are both restored ones:
\* nobody adopts a room from a worker that still serves it.
OriginalIsAlone ==
    \A v, w \in Workers :
        v # w /\ Owns(v) /\ Owns(w) /\ status[v] = "up" /\ status[w] = "up"
            => room[v].by # 0 /\ room[w].by # 0

\* The registry and the workers agree on who has the room.
RegistryIsTrue == CTypeOK /\ RegistryNamesOwner /\ OwnerIsFound /\ OriginalIsAlone

\* Every join and reconnect is answered, whatever became of the owner.
CallsEnd == \A c \in Clients : conn[c].pc \in Busy ~> conn[c].pc \notin Busy
-----------------------------------------------------------------------------
(* What the documentation says and the code does not do. *)

\* ws_handler.py:14: "Broadcasts from the owner reach this worker via Redis
\* pub/sub and are forwarded to the player's WebSocket": a worker with a proxy
\* room is subscribed to the room's channel.
ProxyHears == \A w \in Workers : room[w].kind = "proxy" => w \in subs

\* redis_pubsub.py:508: "Delete a room snapshot after successful restoration":
\* when a snapshot is deleted, its players are in the room of a worker that
\* is not shutting down.
SnapshotRestored ==
    [][ (snap # {} /\ snap' = {} /\ faults' = faults) =>
            \E w \in Workers : status[w] = "up" /\ Owns(w) /\ snap \subseteq room[w].list ]_cvars

\* redis_pubsub.py:337: "If a worker crashes without unregistering, the room
\* entry expires after ttl_seconds so joiners don't get stuck routing to a dead
\* worker": once the key has expired, a lookup names no dead worker.
DeadOwnerExpires == key = None /\ Owner # None => Alive(Owner)
=============================================================================
