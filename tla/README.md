# Verification of the drawing game's server

TLA+ models of the multiplayer drawing game in this repository: the room, the
game played in it, its words and scores, and the requests to enter it; the
cluster of workers that share rooms over Redis; the worker's end of the gateway
streams (`backend/`); and the gateway's streams to a worker (`gateway/`). TLC
configurations check them on small instances, TLAPS proofs settle most of their
safety properties for instances of any size. Paths below are relative to the repository root; the
line numbers of every definition are in `PROJECT.json`.

## 1. Inventory

| Component | State it keeps | Operations | What makes it correct |
|---|---|---|---|
| Room membership and host (`backend/room_manager.py`, `backend/models.py`) | ordered player list, host id, per-player connection and spectator flags, cleanup and host tasks | create, join, leave, kick, transfer host, disconnect, reconnect, cleanup after 120 s, host reassignment after 3 s, rematch | the host is a member; nobody counts as present without a connection; absent players are removed in the end; a room with nobody left is deleted |
| Turn and round engine (`backend/game_engine.py`) | room state, round, drawer index, current turn, guess order, sleeping timers | start_turn, handle_word_selection, handle_guess, end_turn, advance_turn_or_round, auto_select, turn_timer, countdown | every turn ends; nobody draws twice in a round; rounds are bounded; turns are timed and never vanish |
| Vote-kick (`backend/room_manager.py`) | open ballot and its votes, cooldowns | start, cast, withdraw, time out, settle on disconnection | ballots are about present players; a kick leaves the room in a state that goes on |
| Mid-game join and spectator requests (`backend/room_manager.py`) | pending requests by id and by socket, a 30 s task each | request, accept, decline, cancel, time out | one outcome per request, nothing dangling after a decision |
| WebSocket endpoint (`backend/ws_handler.py`, `backend/heartbeat.py`) | player id and room of a connection | dispatch, forward to owner, `finally` on close | messages go to the room of the player; a closed connection is noticed |
| Words, hints, scores (`backend/game_engine.py`, `backend/words.py`) | word pool, used words, hint, scores | draw words, reveal hints, score, near-miss distance | the order of guesses pays, a drawer gets the average, every game counts once; hints and chat never give the word away |
| Redis bus (`backend/redis_pubsub.py`, `backend/main.py`) | owner key with a TTL and hash entry without, proxy rooms, RPC replies, snapshots | register, join over RPC, forward, publish, drain, crash, adopt a snapshot | the registry names a worker that has the room; a room that is drained is adopted by one other worker; every call ends |
| gRPC server (`backend/grpc_server.py`, `backend/virtual_transport.py`) | streams from gateways, bounded outbound queues, transport bindings | receive, dispatch, rebind, enqueue with eviction, clean up | a broadcast reaches everyone once; a message bears the id its session has when it is read; a closed stream is cleaned up |
| Gateway (`gateway/*.go`) | client sessions, one stream per room, disconnect buffers, send queues | register, fan out, multiplex, reconnect, replay, fall back | a session belongs to one connection; buffered frames are replayed in order |
| Frontend (`frontend/src`) | reducer state, canvas history | render, reconnect, replay strokes | out of scope so far |
| Load tests, metrics, infrastructure | none of the game's | measurement, deployment | out of scope |

Components interact through method calls on the one `RoomManager` of a worker
(engine and manager call each other), through `asyncio` tasks that sleep and
then act on the room they captured, and through `broadcast`, which only fills
buffers for local players but publishes to Redis, and so suspends its caller,
as soon as some player of the room has no local socket.

What is hard to test, with its line and the property that watches it, is the
list `hazards` of `PROJECT.json`. The main themes:

* a task that sleeps (15 s, 20 s, 120 s, 3 s, turn length) and wakes in a room
  that has changed: list shifted, host replaced, game over;
* an index into a list from which players are removed;
* a handler that reads the turn, awaits, and then writes the turn;
* a task that cancels itself and dies at its next `await`;
* an old socket whose teardown comes after its session was taken over;
* a ballot decided inside a disconnection;
* a request kept in four places that five events may settle;
* a socket's handler that learns who its player is only afterwards;
* a worker that stops, crashes, loses its subscription or has a call cancelled
  in the middle of handing a room over, and registry entries that outlive it;
* a bounded queue that several coroutines fill and nobody reads any more;
* scores computed from positions in a list whose players may have left;
* a text that is filtered first and normalised afterwards;
* goroutines that hold a stream object after it has left the map, and evict by
  worker id whatever stream is there by then.

## 2. Modules

| Module | Models | Extends |
|---|---|---|
| `GameRoom` | the room and its game; every handler is one step | standard modules |
| `Rotation` | what drawer rotation promises, without list, index, connections or timers | |
| `VoteKick` | ballots on top of the whole room | `GameRoom` |
| `TurnTasks` | the turn handlers as coroutines that suspend in `broadcast` | |
| `Match` | scores, awards at the end of a game, rematches | `GameRoom` |
| `SecretWord` | the word of a turn: packs, choice, hints, near misses, filtered chat | |
| `Requests` | mid-game join and spectator role requests, and whose messages a socket carries | |
| `Cluster` | one room on several workers: registry, RPC joins, proxies, drain, crash, restore | |
| `RoomStream` | a worker's gRPC streams of one room: inbound task, bounded queue, transports | |
| `Streams` | the gateway's gRPC streams to one worker, their goroutines and clients | |
| `MC*` | instances for TLC | the module of the name |
| `GameRoomProofs` | the room's inductive invariant; guesses, presence, what a round owes, the refinement of `Rotation`; ballots | `VoteKick` |
| `MatchProofs` | scores and the board, on the books of the room | `Match`, `GameRoomProofs` |
| `TurnTasksProofs`, `RequestsProofs`, `ClusterProofs`, `RoomStreamProofs`, `StreamsProofs`, `WordProofs` | theorems about the module of the name; `WordProofs` about `SecretWord` | that module |

### GameRoom

The `Room` object is the record `room`; `sockets[p]` counts open connections
whose handler is bound to `p`; `issued` has the ids handed out (a `uuid4` is
never reused). A handler is an operator from a room to a room, so that it calls
the next one as the code does: `EndTurn` calls `AdvanceTurnOrRound`, which calls
`StartTurn`. `AfterDisconnect`, `PermanentlyRemove`, `KickPassed` are built from
the same operators. Each sleeping `asyncio` task is a field of the record and its
firing an action; `cancel()` clears the field. `lostCleanup` holds a cleanup task
that was overwritten in `player.cleanup_task` and can no longer be cancelled.

*Time.* Only one fact about time is kept, because it decides which orders can
happen: a cleanup sleeps 120 s, `auto_select` 15 s and the countdown 20 s, so a
cleanup wakes before one of the short timers only when it is older than it.
`ripe` holds the players whose cleanup is. The 3 s host task comes before the
cleanup scheduled by the same disconnection (`CleanupsDue`).

*History.* `drawn`, `owed` and `shrunk` record who has drawn in this round, who
was there all through it without drawing, and whether the list lost a player.

*Left out of the room:* settings, ready flags, profiles, avatars, chat, strokes,
passwords and the 50-spectator cap; word texts and hints are in `SecretWord`,
scores in `Match`. Wrong guesses
change no state. A handler that raises is caught by the connection's loop
(`ws_handler.py:154`), which is modelled as a step without effect.

### VoteKick

Adds `ballot` and `cooldown`. `ConnectionClosedInVote` is the whole of
`handle_disconnect`: the ballot is settled after the player is marked and before
host, cleanup and game are looked at, and the settlement may kick the target and
end its turn on the way. All other steps of the room leave the ballot alone, as
the code does.

### TurnTasks

A handler runs to the first broadcast that suspends; `procs` holds suspended
coroutines with the place they continue at, and `Resume` goes on with the room
as it is by then. `g.suspends` says whether broadcasts suspend (a player of the room
is remote or disconnected, and Redis is on) and is chosen at the start. A coroutine that has cancelled
its own task ends at its first suspension. Turns and tasks are numbered so that
`room.turn is turn_state` can be said.

### Match

Puts a score board on the whole of `GameRoom`: each step of the room is taken
together with what it does to the board. `PayTurn` is the scoring part of
`end_turn`, `CloseGame` that of `build_game_over_payload`; a step that ends a turn
pays it unless its drawer left, and closes the game if that was its last turn
(`Settled`). The drawer's average is taken over a running sum along the guess
order (`Collected`), as the loop in `end_turn` builds it. Times are whole seconds,
and rounding is Python's, half to even. Awards and nicknames are left out.

### SecretWord

Here a text is a sequence of characters, because the properties are about what
conversions do to texts: `strip`, `lower`, the two-row table of
`_levenshtein_distance`, the case-insensitive replacement of the word, and
`filter_profanity` with its `split` and `join`. The distance is written with
folds and compared with a reference that says directly what one or two edits
are. A pack is a set of words; `random.sample` is a choice. `said` is the last
chat message of the turn with what was sent and what was shown.

### Cluster

`room[w]` is worker `w`'s `Room` object, `key` and `hash` the two registry
entries (only the key expires), `chan[w]` the RPCs published to a worker, which
`_subscribe_loop` serves in the order of publication, `conn` a client's call and
then its connection. A client may come back as any player of its name. A step is what a coroutine does between
awaits that others can interfere with: an adoption restores the room
(`ReadSnapshot`), deletes the snapshot (`DropSnapshot`) and registers the worker
(`Adopt`) in three. One simplification is left: `_delete_room` drops the room and
its registration together.

A client comes by WebSocket or through a gateway. `main.py` drains the rooms
before it stops the gRPC server, so a draining worker keeps its clients and goes
on serving joins, reconnections and RPCs until `Stop`. `Drain`, `Crash`,
`Expire`, `SubscriberFails` and `CancelCall` (a gateway's stream is cancelled, and
with it the task inside the call) are the faults, `MaxFaults` of them at most.

The code repairs some orders of events and not others. `mishaps` is a history
of those it does not repair and after which the registry may disagree with the
workers, recorded by the step where they happen:

| Mishap | Recorded when |
|---|---|
| `abandoned` | a call is cancelled between restoring the room and registering the worker |
| `orphan` | an adoption completes on a worker that no longer has the room it restored |
| `erased` | `_delete_room` clears a registry entry that is another worker's |
| `split` | a snapshot is restored while another restored copy exists |

A part of `RegistryIsTrue` says `Spared({...})` with the mishaps that break it: in
every other history, however the faults interleave, it holds. That `orphan` alone
breaks `RegistryNamesOwner`, and none of the four `OriginalIsAlone`, is part of
what the run and the theorem show; crashes, time-outs, late RPCs, lost
subscriptions and expiries break none of them.

### RoomStream

`phase` and `inbound` are the two coroutines of a `RoomStream` call, `queue` its
`send_queue`, `ws` the transport each player has, `via` the stream a transport
writes to. `Puts` is what a broadcast puts on which queue: one room-wide message
when all players share a queue, one message each otherwise. A full queue drops
lossy messages and evicts its head for others (`virtual_transport.py`); `lost`
records the clients whose identity answer was evicted or left in a dead queue.
The gateway's session registry is the environment: it files a session under the
real id when it reads the answer.

### Requests

A join request is in the manager's book (`pending`), the room's book (`listed`),
the socket's entry (`wsRequest`) and its 30 s task (`timers`); `Settle` is what
acceptance, refusal, time-out, cancellation and the end of the socket have in
common. `speaksFor` is the local variable `player_id` of a connection's handler
and `wsPlayer` the manager's `_ws_to_player`: the handler of an accepted socket
looks itself up there at its next message (`Identify`) or at its end (`Close`).
The room is reduced to seats, phase and presence; the host is not one of `Ids`
and keeps a seat outside `MaxPlayers`.

Clients may ask again over the socket they have, as the web client does after a
kick. Two assumptions are made about them: who is in the room does not join again
over the same socket, and reconnections use a socket without a request.

### Streams

`current` is `streams[workerID]`; `rs` has one record for each `RoomStream` ever
created, with the state of its goroutines: send loop, receiver, keepalive,
`handleStreamDisconnect` and the buffering goroutine that it starts. `Send` is
two steps, the lookup under the lock (`Look`) and the write to the channel
without it (`Push`, or `PushPanics` when the channel was closed in between).
`MarkUnhealthy` takes what is in the map. A dial is the interval between `Await`
and `Create`. `Break` is the environment: a connection fails. A stream has one
slot for its disconnect handler: the receiver starts the first and ends, and
later ones are started by the keepalive of the reconnection before.

## 3. Runs

| Run | Instance | Shows |
|---|---|---|
| `room` | 3 players, 2 rounds, 1 socket each, ballots | type, host, phases, rounds, guess book; nobody draws twice; a round serves everyone who stayed unless the list shrank; a ballot is about a connected player; a kick starts the countdown or finishes the turn when it must; with all that the room implements `Rotation` |
| `room_live` | 2 players, 1 round, 2 sockets each, fair tasks | whichever of an old and a new socket goes first, who counts as connected has a socket, and who is absent has a clean-up under way; every turn ends, a present host is found, absence ends |
| `turn_tasks` | 3 players; 2 rounds without suspension, 1 with | without suspension a turn has its timer and never vanishes; with it, still turns only in PLAYING and no selection past the last round |
| `match` | 3 players, 1 round, 2 guess times, 3 guesses, 1 game, 1 lost connection | before a game and after a rematch all boards are even; a game counts once; spectators score nothing; an earlier guess pays at least as much as a later one; the drawer gets the average |
| `secret_word` | 2 guessers, 3 turns, all texts of 4 letters and some longer | a guess within two edits is not shown; those who know a word of one token cannot show it in chat; hints are true and never complete |
| `cluster` | 3 workers, 3 clients of one name, 2 faults, fair calls | the registry names a worker that has the room, and finds it; nobody adopts a room that its creator serves; every call ends |
| `room_stream` | 2 players, 3 connections, 2 streams, queue of 2, 2 events, fair coroutines | a broadcast reaches everyone once; messages bear the right id; a closing stream is cleaned up unless its queue is full |
| `requests` | 3 sockets, used again, 3 ids, 2 seats | books agree after every outcome; seats suffice; only spectators ask |
| `streams` | 1 client, 2 streams, 1 message, 1 retry, fair goroutines | channels are closed once and the map offers none that is closed; replaced streams are closed; no message is delivered twice; a broken stream is noticed; the goroutines of a closed stream end |
| `doc_*` | as needed | what the documentation says and the code does not do, see section 5 |

A checked invariant may be a conjunction of named parts, with the type invariant
of its module among them: `GameInBounds` (`PhasesAgree`, `RoundsBounded`),
`VotesAreSound` (`TargetIsLive`, `HostIsMember`, `PhasesAgree`), `TurnsInOrder`,
`ClosingIsOrderly`, `QueuesAreSound`, `RegistryIsTrue`, `BoardIsFair`,
`TalkKeepsWord`.

*Bounds.* Three players are the fewest for which a removal shifts the list
under the drawer while two players remain to play on; two rounds are the fewest
with a wrap that is not the end of the game. Player ids are handed out once, so
joining is bounded by the size of `Players`. A takeover takes two sockets of one
player and somebody for whom the game goes on. A disconnection that carries a
ballot takes five players, out of TLC's reach with everything else in the room:
three show a kick by the last vote, and the theorems `VotesAlwaysSound` and
`GameGoesOn` the other. The liveness run has two players
because it uses no symmetry; every task kind occurs in it. Deadlock is not an
error: a deleted room has no steps, and a finished game may stay finished.
Three sockets and ids let a request be answered while another is made and a
third player takes a seat; two seats are filled and overfilled by them. Two
streams are the fewest for which goroutines of an old stream meet a new one; one
message fills a channel of size one and passes through every place a message
can be in. The invariants of `streams` also hold with two messages (half a
million states) and with two clients and two messages (five million states).
A match of one round with three guesses has a turn with two correct guesses, one
with fewer, and players who left in between; one lost connection is enough to
remove a guesser before the award, and the wrap to a second game is in `room`.
Guess times 3 and 25 of 30 s give awards above and at the floor. Three turns use
up a pack of three words when two are offered. Three workers are the fewest with
an owner, a proxy and a worker that adopts; two faults let one drain or crash
meet another or an expiry; one name for all lets any client come back as any
player. Two streams and a queue of two are the fewest with a
player who moves between streams and an eviction that spares the newest message;
`MaxEvents` bounds commands and breakdowns of streams together.

*Fairness.* `LiveSpec` has weak fairness on each sleeping task and on nothing
else: `asyncio` wakes a sleeping task at its time unless it was cancelled.
Clients and connections owe nothing. `Streams!LiveSpec` has weak fairness on
each goroutine, on the failing ping of a keepalive whose connection is broken,
and strong fairness on the keepalive's end: `select` picks at random among the
ready cases and so does not pass over a closed `done` for ever. Whether a dial
succeeds, and whether a connection breaks, is left open. `CSpec` has weak
fairness on the steps of a call that has been made: a reply from Redis or the
5 s deadline of `wait_for_rpc_response` wakes it. `RoomStream` has it on the
coroutines of a stream that is closing: the event loop runs a task that is ready.
Neither assumes anything about clients, faults, or the owner's answer.

*Mutants.* Next to a definition there may be a mutant of it (dropped guard,
missing reset, off-by-one), named and commented as such. No specification uses
one; they show that the properties notice the bug.

## 4. Proofs

A theorem holds for every value of the constants that the named assumption of
its module allows: any players, workers, clients, streams, rounds, queue sizes,
and any value of the bounds that the runs set. Each inductive invariant named
below was an invariant of the module's run before it was proved. Every proof has
a lemma for each operator or action that is more than a few assignments, one step
for each disjunct of the next-state relation, and an `...IsInductive` theorem on
which the others rest.

| Module | Proved for `Spec` | From the assumptions |
|---|---|---|
| `GameRoomProofs` | `TypeOK`, `HostIsMember`, `GameInBounds`, `NobodyDrawsTwice`, `GuessBook`, `PresenceIsTrue`, `RoundServesEveryone`, `ImplementsRotation`; of `VoteKick`: `VotesAreSound`, `KickGoesOn` | `NoPlayer` is no player, every player has a name, at least one round and one socket; any number of sockets per player |
| `MatchProofs` | `BoardIsFair`, `TurnPaysFairly` | the same, a turn that lasts, guesses within it (`end_turn` clamps the time, `game_engine.py:658`) |
| `TurnTasksProofs` | `TurnsInOrder`, `TurnHasTimer`, `NoTurnIsLost` | at least one round (settings allow 2 to 10, `room_manager.py:2351`) |
| `RequestsProofs` | `BooksAgree`, `SeatsSuffice`, `OnlySpectatorsAsk` | finitely many ids, `NoId` is none |
| `ClusterProofs` | `RegistryIsTrue` | finitely many workers, at least one client; any number of faults |
| `RoomStreamProofs` | `QueuesAreSound`, `EveryoneOnce` | finitely many players, a queue that is bounded and has a place for each |
| `StreamsProofs` | `ClosingIsOrderly`, `AtMostOnce`, and that a step closes just the stream it takes out of the map | positive bounds |
| `WordProofs` | `HintIsHonest` | packs are not empty, every word has a character that is no space (custom words are stripped, `room_manager.py:2380`) |

*The room.* None of the properties is inductive alone. `HostIsMember` needs that
connected players are listed and that the list has no player twice (removal
takes one seat). `RoundsBounded` must also hold in a finished game with choices
still pending, because a late `select_word` brings it back. `NobodyDrawsTwice` is
a statement about seats: whoever has drawn in this round sits before the drawer's
seat while a selection is pending (`DrawnUpTo(r, drawerIndex)`) and at most on it
during the turn. Removing a player moves others towards the front only, joining
appends, and `drawerIndex` is never lowered within a round, so both survive.

*Its books.* `RoundServesEveryone` is the mirror image: whom the round owes a
turn sits behind the drawer's seat (`OwedBeyond`), as long as nobody was removed;
the search for the next active seat then passes over nobody who is owed one.
`GuessBook` needs that spectators are not among those flagged as having guessed,
because a spectator who is let in clears its flag. For the refinement every
handler is shown to do one step of `Rotation`, or nothing, to state, round, drawer
and `drawn` (`Rotated`); the barred step is a drawer who drew before, which
`DrawnUpTo` excludes. `PresenceIsTrue` says of any number of sockets what the code
keeps: every step that marks a player connected has opened a socket, and every
one that closes a socket marks the player absent and schedules a clean-up. Its
converse, that who has a socket is connected, is what a takeover breaks
(section 5).

*Ballots.* `VoteInv` is the room's invariant with its books and the type of
`ballot`: `KickPassed` and the settlement inside `handle_disconnect` are
compositions of the room's operators, so that the lemmas about those carry over
(`Passes`, `Loses`). The target of a ballot is connected because
`handle_disconnect` of the target ends the ballot, and has no vote because
nobody may vote on itself. Nothing of the kind holds of the voters: who leaves
keeps its vote (section 5), and who opens a ballot may itself be marked absent
after a takeover.

*Scores.* Every step of a match is one of the room (`MatchIsRoom`), so the books
above hold. `ScoreInv` adds four parts to `BoardIsFair`. `TurnBook`: every guess on
file has its time, the times do not fall, and there are none between turns.
`Strangers`: who is not in the room has an empty line, so that an id that joins
brings nothing. `Counting`: as long as a game may still be counted (`Countable`:
a turn is on, or choices are pending, also those of a game the host has ended),
nobody has been credited with it. That is why a game that a late `select_word`
brings back is not counted twice: only the end of its last turn counts it, and
that end leaves no choices behind (`Ended`). A step either ends the turn with the
guesses on file, and possibly one more (`EndsWith`), or pays nobody (`Calm`).
For `TurnPaysFairly`, rounding half to even is shown to be monotone and to leave
an average between its bounds (`RoundMonotone`, `RoundBetween`), a guess is worth
no more than an earlier one and something always (`GuesserScoreIs`), and the sum
over the guess order lies between so many times the least and the greatest score
(`CollectedBetween`, an induction over a set of positions as for `OfferAll`
below).

*Turn tasks.* `TurnsInOrder` holds with suspended handlers, because a coroutine
that goes on writes the turn and the state together (`Orderly`). The other two
are for rooms whose broadcasts do not suspend: nothing is suspended there, a turn
begins with its timer (`Timed`), and the current turn is unpaid (`Payable`). What
happens where they do suspend is in section 5.

*Requests.* `OnlySpectatorsAsk` needs that an id passes through
stages: pending, then seated, and only then asked about (`Stages`).

*Cluster.* A worker that is registered keeps the room because every step that
takes a room away clears the entry, unless somebody is still adopting. So the
invariant relates owners, entries and adopters: while the worker that created the
room serves it there is no snapshot, no other owner and no adoption in any of its
steps (`Origin`); unless a snapshot was restored twice, one worker has a restored
room (`Unsplit`); callers are at workers that run (`Placed`). The attempt
corrected the statements: `OwnerIsFound` does not survive an `orphan`, which no
instance of three workers and two faults shows; and with deletion and
registration as two steps a worker counts as adopting until it is registered.

*Streams of a worker.* A player who is connected through a bound transport is
registered with a stream that has not ended (`Registered`), and the call an
inbound task waits for came over its own stream (`Identified`): registration and
binding happen in one step, after it. `EveryoneOnce` follows from the choice in
`broadcast` by counting.

*Their queues.* `QueuesAreSound` needs to know what every message in every queue
may be (`QueueInv`). A message to a client is in the queue of its transport's
stream; an answer is there once, and only while the transport is bound and the
session not filed yet (`Addressed`); the answer of a bound transport has been read
or is still queued, unless the queue dropped it or the client is gone (`Awaited`);
so what follows an answer may bear the real id (`Known`). The queue of a stream
that is not open tells nobody anything (`Blank`). A step offers several messages
to one queue, one after the other (`OfferAll`): that each offer keeps a queue
sound is one lemma, and the recursion is gone through with an induction over the
set of positions at which the queue is sound (`UpTo`, from the well-foundedness
of `<`), after the function that `OfferAll` describes is shown to exist
(`OfferAllIs`).

*Streams of the gateway.* A message is in one place: at most one slot of channel,
send loop and buffer of all streams holds it, and then it has not been delivered
(`OnePlace`, `Undelivered`). The slots of a stream are numbered from the end of
the buffer to the end of the channel, so that taking, draining and replaying each
move messages along one line. `ClosingIsOrderly` is kept because every step out
of the map closes what it takes (`LeavesClosed`).

*Words.* `HintIsHonest` counts the shown letters against the hint tasks that are
left.

*Only model-checked.* Liveness (`room_live`, `CallsEnd`, `ClosesUnlessFull`,
`BreakIsNoticed`, `ClosedGoesQuiet`) is out of the prover's reach. `TalkKeepsWord`
stays with TLC too: that the distance table counts edits, and that what a filter
folded over a text returns has no occurrence of the word, are inductions over
texts of any length with the library's folds, whose induction principle takes an
operator; and `WordIsKept` depends on the words (none is made of stars).

## 5. What the documentation says and the code does not do

The models refute a number of statements. Three of them have a run of their own,
with the quoted lines in `PROJECT.json`:

* `doc_selection_times_out`: after the list shifts during a selection,
  `auto_select` is refused and nothing else ends the selection;
* `doc_word_withheld`: the drawer's text `a  b` does not contain the word `a b`
  and passes the replacement; the profanity filter then joins its parts with one
  space and the word is shown;
* `doc_stream_cleanup`: a stream is cancelled while its inbound task is inside an
  identity call; the player is in the room, is not registered with the stream, and
  the clean-up passes it over.

The others are stated at the end of their module, each with its source; TLC
refutes one when it takes the place of the properties of the run named here.
(`requirements.md` is the one in `.kiro/specs/pictionary-game/`.)

| Property | Run | What is said | What the code does |
|---|---|---|---|
| `TakeoverIsPresent` | `room_live` | a quick reconnection takes the session over (`test_disconnection.py:532`) | the disconnect event of the old socket comes after all and marks the player absent under its new one (`ws_handler.py:193`) |
| `ReconnectCancels` | `room_live` | a reconnection cancels the clean-up (`docs/game-logic.md:170`) | it cancels the last one; an earlier one that was overwritten removes the player (`room_manager.py:1447`) |
| `HostNotVotedOut` | `room` | the host cannot be vote-kicked (`docs/game-logic.md:158`) | nothing asks whether the target is the host (`room_manager.py:2718`) |
| `MajorityKicks` | `room` | half of the eligible voters carry a kick (`docs/game-logic.md:159`) | the vote of who has left is counted with those who may still vote, and carries a kick that the only one of them votes against (`room_manager.py:2875`) |
| `ScoredOnce` | `turn_tasks` | a guess earns 45 to 750 (`docs/game-logic.md:67`) | two handlers suspended in `end_turn` add the scores of one turn twice (`game_engine.py:683`) |
| `TurnTimesOut` | `turn_tasks` | a turn begins with its countdown (`requirements.md:81`) | `auto_select` cancels its own task and dies at the first broadcast that suspends, before the timer is made (`game_engine.py:344`) |
| `RequestsHaveSockets` | `requests` | a join request ends with its socket (`room_manager.py:778`) | the handler of a client that was kicked and has asked again reports its former identity; the request stays until it times out (`ws_handler.py:178`) |
| `DropIsNoticed` | `requests` | a dropped connection is a disconnection (`requirements.md:212`) | the same handler, once the request is accepted, never looks its new player up, who stays connected for ever (`ws_handler.py:118`) |
| `ProxyHears` | `cluster` | broadcasts reach a proxy over pub/sub (`ws_handler.py:14`) | a join that times out or is refused unsubscribes the worker under its other clients (`room_manager.py:714`), and a subscriber error does so under a pending join |
| `SnapshotRestored` | `cluster` | a snapshot is deleted after its restoration (`redis_pubsub.py:508`) | a worker that drains between restoring and deleting deletes the snapshot it has just saved (`room_manager.py:485`) |
| `DeadOwnerExpires` | `cluster` | a dead worker's entry expires (`redis_pubsub.py:337`) | the hash entry never does, and the lookup falls back to it (`redis_pubsub.py:376`) |
| `WordsRunOutFirst` | `secret_word` | no word repeats before all are used (`test_property_word_uniqueness.py:19`) | each pack is judged by itself and offered whole again while it, or another, has unused words (`game_engine.py:149`) |

Other things the models reach, of which no document says that they cannot
happen, or that are too local for a run of their own:

*In the room.* A reconnection cancels the countdown of a room whose turn has
ended and starts nothing, so the room stays PLAYING without a turn
(`docs/game-logic.md:191` calls it resumed). The threshold of a ballot is
`N // 2 + 1` votes, where `docs/game-logic.md:159` has half of them, rounded up.
A new player whose handler keeps a former identity is mute. A drawer who is voted
out leaves its seat to the next player, whom the round then passes over
(against `requirements.md:83`).

*In a match.* `OrderPays` says "at least as much": by the formula in
`GuesserScore` the fourth and the fifth guess both earn 45 once the base score is
at its floor, against `docs/game-logic.md:69` ("always score more") and the
docstring at `game_engine.py:227` ("minimum 50"). After the
list has shifted a spectator may become the drawer and earn the bonus. A game
that ends for lack of players, or by the host, is not counted as played.

*Around the word.* A guess that has the word among other text is shown to
everyone. `hint_update` is broadcast to the drawer too
(`docs/game-logic.md:124`).

*In the cluster.* The owner may serve a join after its caller has given up: the
player is listed as connected and nobody speaks for it. Who joins a draining
worker after its snapshot is not restored. Two workers that have both read the
snapshot both restore it, and their clients play in two rooms of one code
(`split`). A call that is cancelled between restoring and registering leaves a
room that no other worker can find (`abandoned`); when its worker stops there, the
snapshot is gone too.

*On the streams.* When the queue is full, the sentinel of the inbound task waits
for ever and the clean-up that `grpc_server.py:13` promises does not come. A
message that must be delivered evicts the head of the queue, whatever it is, an
identity answer included. In the gateway, nobody receives from a stream after a
successful reconnection (`gateway/lifecycle.go:109`); a buffering goroutine goes
on after it and takes messages that `Send` has accepted (`Drain`); a `Send` that
has looked its stream up panics when the stream is closed before it writes
(`PushPanics`); players counted on an old stream are not counted on its
successor, which may be closed as idle while they use it; a handler that gives
up evicts a newer stream of its worker.

## 6. Not modelled, and plan

Not modelled: the gateway's session registry and its send queues (`session.go`,
`fanout.go`) except as what `RoomStream` expects of them; worker choice, sticky
redirects and HTTP fallback (`multiplexer.go`, `resolver.go`, `fallback.go`),
most of which is I/O against the registry; settings, ready flags, profiles,
passwords, strokes and canvas replay, which no other state depends on; the public
room list and load reports; heartbeats, which send a ping and never wait for the
pong their comment speaks of (`heartbeat.py:3`); the MVP awards, which are
computed for display; the browser client; metrics, load tests and deployment.

What is left, in order:

1. The gateway's sessions with `UpdateIdentity` and bounded send queues, and
   their composition with `RoomStream`.
2. Worker choice and sticky redirects in the gateway, composed with `Cluster`.
3. The room of `GameRoom` with suspending broadcasts throughout, of which
   `TurnTasks` has the turn handlers.
