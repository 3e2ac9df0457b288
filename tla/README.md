# Tumladan backend: specifications

TLA+ specifications of the Tumladan backend (Go services over Postgres, Redis, Kafka
and Centrifuge), the TLC configurations that check them on small instances, and
TLAPS proofs of their main theorems. Paths below are relative to `src/`.

Run, in this directory: `tlc -config MCMatchActions.cfg MCMatchActions` (and the other
`MC*.cfg`), `tlapm MatchActionsProofs.tla` (and the other `*Proofs.tla`).
`PROJECT.json` lists runs, mutations, theorems, hazards, and maps every
definition to the lines it models.

## 1. The system

The API runs as several replicas (`k8s/api-deployment.yaml`: two) behind one Postgres,
one Redis and one Kafka; a separate event worker process runs next to them. A replica
keeps only connections, turn timers and in-flight calls in memory.

| Component | State | Operations | Interacts through |
|---|---|---|---|
| Match actions (`internal/match/service`, its repository) | rows of `matches` (status, game state with its version), `match_action_receipts`, the room's lock key in Redis | `ApplyAction`, `ApplyTurnTimeout`, automatic bot turns, rejection receipts, replay | called by `ws` and by turn timers; finishes a match through the room service |
| Game engine (`internal/game/carcassonne`) | none: pure functions over the JSON game state (board, meeples, scores, deck, turn) | initial match, place tile, place or skip meeple, timeout, bot move, scoring of roads, cities, monasteries and fields, the draw of the next tile, the placements a player is offered | called by match actions and `StartRoom` |
| Rooms (`internal/room`) | `rooms`, `room_participants`, `match_players` | create, join, leave, kick, settings, start, finish, delete, stale cleanup, reconnect timeout | `ws` handlers, HTTP, cleanup loop; writes the outbox row when a match ends |
| WebSocket tickets (`internal/ws_ticket`, `internal/ws/context.go`) | one Redis key per ticket, a handshake per connection | create, reserve, release, commit, expiry | HTTP issues them, the transport handler consumes them |
| Connections (`internal/ws`) | registry of local clients, Redis presence, subscriptions, turn timers per replica | handle message, disconnect, schedule and stop timers, broadcast | calls rooms and match actions, publishes to channels |
| Outbox publisher (`internal/outbox`) | `outbox_events` | insert, claim with a lease, publish, mark | one loop of the worker |
| Event consumer (`internal/worker`, `internal/analytics`) | `processed_events`, `user_game_stats`, `user_achievements`, the group's offset | poll, project, commit the offset | the other loop of the worker |
| Guests, users, HTTP, middleware | rows, tokens | request-response | - |

What makes it hard:

* Two calls of one room on different replicas; only `ApplyAction` and
  `ApplyTurnTimeout` take the room's Redis lock, while `leave_match`, `start_room`,
  `delete_room` and the cleanup loop reach the same rows without it; and the lock can expire
  under a holder that still runs.
* A client repeats a command that it has no answer for, while the first delivery may
  still be running, may have committed and failed to say so, or may have died.
* A room that is deleted takes its participants, matches and receipts with it (`ON DELETE
  CASCADE`, migrations 001 and 012), whatever calls and retries are under way, and a
  player of a running match can have lost the seat that the last move is checked for.
* Two identities of a match action (match id, version) checked at different places.
* Goroutines that react to the end of a request's context at any point of a connection's life.
* At-least-once delivery from outbox to topic to projection, leases that run out, a
  worker that stops at an error and starts again at the same offset.
* Checks made outside the transaction that relies on them (room settings,
  participants, emptiness, presence).
* An engine whose rules are spread over searches that must agree: placement compares edges,
  features follow segments of rotated zones, fields are united in a graph, and meeples move
  between hands and board in four places.

What makes each component correct: a command is applied at most once, on exactly the state
its sender saw, and the client is told the truth about it (match actions); a finished match
and a receipt never change, they only go with their room (match actions); room status, active match and participants
agree (rooms); a turn is never left without a timer nor ended twice (turn timers); a player
who is online is not terminated (presence); one ticket, one connection (tickets); every
finished match counts once, and in the end (outbox, consumer); scores and legal moves are
those of the rules (engine).

## 2. Modules

```
TurnMachine          turn automaton of the engine
  |- GameLog         what the match service promises (abstract)
  |- MatchActions    the match service itself; ImplementsLog: it implements GameLog
  |    |- MCMatchActions          instances for TLC
  |    '- MatchActionsProofs      theorems (with TurnMachineProofs)
  |         '- MatchLockProofs    theorems that need the room's lock
  |- TurnTimer       turn timers of the replicas; MCTurnTimer, TurnTimerProofs
WsTicket             tickets and handshakes; MCWsTicket, WsTicketProofs
EventPipeline        outbox, topic, projection; MCEventPipeline, EventPipelineProofs
RoomContract         what the room service promises (abstract)
  '- RoomLifecycle   rooms, seats, starts and ends of matches, cleanup; MCRoomLifecycle,
                      RoomLifecycleProofs
CarcassonneBoard     tiles on the board, features, fields
  |- CarcassonneScoring   points and meeples, the final scoring, the next turn
  |    '- CarcassonneMoves     moves, offers, bots
  |- CarcassonneRules     the rules, as a reference for the scoring
  '- Carcassonne          a match (with Moves, Rules and TurnMachine); MCCarcassonne,
                          CarcassonneProofs
```

**TurnMachine** is the engine as the services see it: version, phase, turn number,
current player and the number of tiles that can still be drawn. `Deck` counts tiles that will be
drawn *and* placeable, so that a tile that fits nowhere (the code puts it at the bottom of the
deck) is not a separate case. `place_meeple` and `skip_meeple` end a turn in the same way and are one
move. `Verdict` gives the engine's checks in the code's order.

**MatchActions** models one room. A service call is a program counter with the locals the
code has (`snap`: the match as loaded or last persisted; `plan`: what the next transaction
writes; `done`: the version it committed for its command). Every statement or transaction is
one step, in the order of `match.go`:

| Step | Code |
|---|---|
| `Deliver`, `TurnTimerFires` | `handleMatchAction`, the timer's callback |
| `AcquireLock` | `RedisRoomLocker.Lock` |
| `GetActionReceipt` | receipt lookup and `replayMatchAction` |
| `LoadMatch` | `GetActiveByRoomID`, `matchesExpected...`, the engine |
| `PersistActionResult` | the transaction of that name: receipt insert, conditional update |
| `CheckFinisher`, `TerminateActiveMatch` | `FinishRoomMatch`: who made the last move must be a participant; then its transaction |
| `AfterCommit` (part of both) | `applyAutomaticBotTurns` computes the next bot step |
| `RecheckReceipt`, `ReloadMatch`, `SaveRejection`, `ReplaySaved` | the error path, `rejectMatchAction` |
| `Acknowledge` | `matchStateForReceiptReplay` and the answer |
| `StartMatch`, `LeaveMatch` | `StartRoomWithMatch`, `LeaveActiveMatch` and `TerminateRoomMatch` (no lock) |
| `LoseSeat`, `TakeSeat` | a participant is removed (leaving, kicked, expired guest), `JoinRoom` |
| `DeleteRoom` | `delete_room` and the cleanup: the room with its participants, matches and receipts (no lock) |
| `DatabaseError`, `Crash`, `LockExpires`, `LockIsLost` | the environment |

A transaction can fail without effect or take effect and report an error. A command's
request hash is the command: two commands with one id are the same request iff they are
equal. The receipt rejects `not_found` answers and re-read failures are answered without a
receipt, as in the code. Deletion puts the rows back to null and `room` to `deleted`; the
later steps of a call that is under way then find no row, and their inserts break a foreign key
(`ReceiptRefused`, the branches of `ReloadMatch`, `SaveRejection`, `ReplaySaved` and
`Acknowledge`). Seats matter here only to `CheckFinisher`, so the people of the room are those
of the match, and `LoseSeat` says neither who removed the player nor why (RoomLifecycle does);
the bots are always there. Left out: the 32-step limit on consecutive bot turns (the instances'
games are shorter), the activity feed, and the broadcast after the call (its effect on timers
is in TurnTimer).

**GameLog** is the abstract specification: three variables, no calls, locks or failures.
`Play` applies a command in one step to the state it names, `Refuse` records a rejection only of
a command that cannot be applied any more, `MoveForPlayer` is a timeout or a bot, and `Erase`
is the end of the log, possible only between two matches.

**TurnTimer** is the timer manager (`internal/ws/turn_timer.go`) of every replica, for one room,
and the handlers that set and stop timers. `timers` is its map; an entry stays in it after
it fired (`running`). `notices` is what a handler holds between the answer of the service
and its call of `Schedule`, `stopMatch` or `Stop`, which may be late; `fired` are `applyTimeout`
goroutines. A call of the match service (`MoveThrough`, `ApplyTimeout`) is one step. When a bot
move fails after a person's move was stored, the handler still schedules a timer for what is
stored; after a timeout it schedules nothing.
`Fire` is the moment the deadline of a turn is seen to be reached: nothing else depends on
time, so the clock is `overdue`, the turns whose deadline has been reached. Matches are
numbered in the order of `created_at`; clocks of replicas are taken to agree.

**WsTicket** has one key per ticket and one handshake per connection attempt: `Authenticate`
is `Reserve`, `Release` the goroutine that waits for the request's context, `OnConnect` the
commit and admission. A Redis call can fail before or after it took effect.

**EventPipeline** has both loops of the worker and the two API transactions that matter to
them. `ClaimBatch`, `Publish` and `Mark` are `publishBatch`; `PollRecords`, `Handle` and
`CommitRecords` are `Worker.consume`; `Stop` is the whole process ending, which the code does
on any consumer error. Time appears as `LeaseRunsOut` and `BackoffEnds`. The number of
attempts is counted only up to the one that goes to the dead-letter topic, because the code
compares it with nothing else, so no bound on attempts is needed. Both "first game"
achievements are one: every room plays Carcassonne. Score sums are left out.

**RoomLifecycle** models the room service, its repository, the handlers that call it, guest
sessions and the cleanup loop. `rooms`, `seats`, `active` and `sessions` are the tables;
`here` is the room a connection is in; `job` and `sweep` are program counters with the locals a
handler or the cleanup loop keeps between two database calls. A request reads the
room in one step and runs its transaction in a later one:

| Request | Steps |
|---|---|
| `join_room` | `Rejoin`; or `JoinRoom`, removal from the previous room, `JoinRead` (bots counted), `JoinTx`, `Subscribe`, and back through `Rollback` when one fails |
| `leave_room`, `kick_participant` | `LeaveRoom`, `KickParticipant` (status read), `BeginRemoval` (the DELETE and the snapshot), `CommitRemoval` |
| `update_room_settings` | `UpdateRoomSettings` (omitted fields filled in), `SettingsTx` |
| `start_room` | `StartRoom` (match built), `StartTx` |
| `leave_match`, the last move | `LeaveMatch`, `FinishTx`; `CompleteMatch` |
| `delete_room` | `DeleteRoom`, `TerminateTx`, `DeleteTx` |
| guest session | `DeleteGuestSession`, `CommitGuests` |
| cleanup tick | `CleanupExpired`, `CommitGuests`, `FindTimeouts`, `EndTimedOut`, `FindStale`, `DeleteStale` |
| environment | `Fails`, `SweepFails`, `Disconnect`, `ExpireSession` |

A transaction that starts with `SELECT ... FOR UPDATE` of the room is one step. A removal
deletes the participant first and locks the room after, and guest cleanup does not lock
rooms at all, so they have two steps; `Held` are the participant rows they lock meanwhile.
Ages (of an absence, a mark, a session) are a choice. `raced` and `faulty` are history
variables for the properties. Left out: the game (a match is its players), names,
privacy, and the broadcasts.

**RoomContract** is the abstract specification: rooms are opened, dealt a match at a time, and
closed between matches.

**CarcassonneBoard** has tile definitions as the catalogue (`assets/*.json`) has them: four
edges, and zones that are sets of segments of the border, with the type and the mark (pennant,
inn) of the zone. Segments are the numbers 0 to 11 clockwise and 12 for the centre,
sides and rotations numbers modulo 4, so that the switch statements of `topology.go` become
arithmetic. `connectedZones` is the search of `buildFeature`, written round by round (a
round looks at every zone found so far, where the code takes them from a queue), and
`buildFieldGraph` the disjoint sets, which appear as the partition they stand for.
`validDefinition` is what loading the catalogue checks, and the assumption on `Catalog`. On an
edge with a road it looks at the middle segment only; `RoadsRunThroughFields` says that both
corners beside it are fields. The code does not check this, both catalogues satisfy it,
`MCCarcassonne` asserts it of the instance's tiles, and a theorem that needs it says so.

**CarcassonneScoring** is the rest of `resolveTurn`: points, winners, the return of meeples, the
final scoring, the draw (tiles that fit nowhere go to the bottom of the deck) and the next
player. The match is one record `state` with the fields of the JSON; `ok` becomes
false where the code returns an error, and `Store` keeps nothing of such a call. The code
settles a turn's roads, cities and monasteries one after the other; they have no meeple in
common, and the model settles them at once.

**CarcassonneMoves** has the changes a move makes, `validMeeplePlacements` (what the private
projection offers the player) and the bots: a rating per placement, simulated with the same
scoring. Ratings are integers (the weights of the code are multiples of 1/20, or 1/400 for tiles);
among equally rated placements any may be taken, where the code orders them by coordinates,
because its floating-point sums can tell equal ratings apart.

**Carcassonne** has one action per engine call. People try every cell, rotation, zone and kind
of meeple, bots choose what they choose, a timeout puts the tile at random and skips the meeple.
A `setup` fixes the shuffled deck, meeples per kind, who is a bot of which difficulty, and a
`script`, the first turns of the match, which brings the board into an interesting
position without enumerating the ways there. `TurnOrder` relates it to the automaton the
match service is checked with: each of its steps is one of TurnMachine's.

**CarcassonneRules** states the rules without the engine's searches: regions are the
closure of facing segments *whatever their types*, a region is complete when no segment of it looks
at an empty cell, and each region is paid to those who hold it most strongly.

## 3. Runs

| Run | Shows | Instance |
|---|---|---|
| `match_actions` | the service implements `GameLog`; receipts equal commits; a rejection is final, unless the room is gone; commands apply to the state they name; room and match agree; history is frozen until it is deleted as a whole | 2 calls, 1 person + 1 bot, 2 matches, 2 commands sharing an id, 1 fault; lock never lost |
| `match_actions_live` | at most one application per command, one commit per version, acknowledgements are durable, on the database's checks alone; every command of a player who keeps the seat is answered | 1 match, 2 commands sharing an id, 2 faults, the lock may be lost |
| `ws_ticket` | exclusive use of a ticket, admission consumes it, it never comes back, it does not stay reserved | 2 tickets, 3 attempts, 1 failure |
| `ws_ticket_one_time` | finding (below) | as above, no failure |
| `event_pipeline_workers` | nothing is lost between outbox and topic; offsets pass nothing unprojected; statistics are exactly those of the projected matches; every result arrives | 1 match, 2 workers, 2 faults, dead letter after 2 attempts |
| `event_pipeline_kept` | finding (below) | 2 matches, 1 worker, no fault |
| `room_lifecycle` | the tables implement `RoomContract`; an empty room is marked for the cleanup unless two transactions overlapped | 1 room, an account and a guest, 1 cleanup loop, 1 match |
| `room_seats` | rooms and matches never have more people than places | 1 room of 2 or 3 places, 3 people, no cleanup |
| `room_switch` | switching leaves nobody seated in a room they are not connected to | 2 rooms, 2 people, no match |
| `room_leave` | finding (below) | 1 room, 2 people |
| `turn_timer` | no timeout ends a turn before its time; every turn ends | 2 replicas, 2 matches, 1 person + 1 bot, 1 event |
| `carcassonne` | each turn is scored by the rules; meeples and tiles are conserved; borders match; offers and placements agree; bots leave no sure points; turns follow the automaton; the timer ends every match | 14 matches of 2 players with 14 tiles of the two catalogues |

Why these bounds: two calls are what a lock and a version check are about; a third only
repeats what one of them does. Two matches are needed for a call that outlives its match.
`Deck = 1` makes games of two turns, so that a call meets a match in the middle, a bot
turn that follows a person's and a turn that ends the match. A shared action id covers the
retry, the reuse of an id and the replay. One fault is a lost reply, a failed step, a crash,
a lost lock or a lost seat; with two, a repair can itself fail. One fault is also enough for the
exception of `RejectedIsNeverApplied`: without it the run finds the lost reply, the deletion and
the retry. (About 3.9 million states in `match_actions`, 1.3 million in `match_actions_live`.) With tickets, the third attempt reuses
what two others fought over. With events, two workers are needed for lease and partition
races and for a record that is handled twice, and two matches for one record to stand behind
another; the invariants of the pipeline are proved for any number of both. In a room, a check that is stale when used needs two requests at a time
(`MaxBusy = 2`). `room_lifecycle` deals one match: a second one that is ended by a request
meant for the first is covered by the theorem `RoomsKeepTheContract` alone. Three people are needed to fill a room of two while it is resized,
and the guest cleanup, which needs its own step, is checked with two. Switching rooms needs two
rooms and no match: a room being played in only refuses, and
`SeatsAreWhereConnectionsAre` proves the property with matches. Where the instance's people have one
connection each and no guest, permuting them (with their connections) or the rooms is a
symmetry, and those two runs check invariants only. For timers, two replicas that do not know of
each other, two matches for a timer that outlives its own, two handlers or timeouts at a
time (`MaxBusy`), and one event: a client that reads the match, an abandoned match, a crash or a
failed call. Deadlock is not checked: match ids, tickets and matches run out, and
the system may be idle.

The matches of `carcassonne` are as many as reach what the scoring tells apart: two turns from the
start with everybody free to move (people, and bots of each difficulty), and then, after a
scripted opening, the last one or two turns of a shared city closed by a gate or a cathedral, an
unfinished city with a cathedral, farmers of both players who meet along two cities, a
monastery surrounded by an opponent's tile, a road that closes on itself through a
crossing, a road with an inn, a bot that can finish a road, and tiles that are passed over. The
14 tiles have every type of zone, both marks, zones with and without the centre, several
cities on one tile and a field in the middle of one. One or two meeples per player (one of a kind) make
hands run out. A deck of nine is the longest. Other boards are covered only by the proofs below.

Bounds named in the modules: `MaxRequests`, `MaxFaults`, `MaxFailures`, `MaxMatches`, `MaxBusy`,
`MaxEvents`.

With `LockMayBeLost = TRUE`, `RejectedIsNeverApplied`, `CommittedAsExpected` and
`ImplementsLog` fail; this is what the room lock is needed for, and the reason why
those three are checked, and proved in `MatchLockProofs`, with the lock intact only: that a
holder without its lock finishes a newer match at the version it expects is excluded by
nothing. So is what becomes of an event in the dead-letter topic, which the
properties of EventPipeline count as sent and as arrived, and the order in which
transactions of rooms lock rows: one that PostgreSQL aborts appears as a failing one.
Everything in `match_actions_live`, and every theorem of `MatchActionsProofs`, holds without it.

### Fairness

* `match_actions_live`: a call that can take its next step takes it; Redis lets the
  key of a dead holder expire; each player who has a seat in the room and no answer retries.
  Nobody has to start a match, make a move or issue a command; faults are finite.
  `EveryCommandAnswered` is about players who keep their seat from some moment on. For the
  others it is false: `FinishRoomMatch` refuses the last move of a player who is no
  participant at every retry, the handler maps the error to an internal one and acknowledges
  nothing (`handler.go:882`), and a retry after the room's deletion may not even be delivered.
* `turn_timer`: handlers and timeouts that have started go on, time passes, and clients whose
  replica died connect to another and join again (`handler.go`: "on reconnect join_room").
  Nobody has to move.
* `ws_ticket`: the release goroutine runs once its context has ended, and the context of a
  connection that was not admitted ends (centrifuge closes stale connections). Clients
  need not complete a handshake.
* `carcassonne`: the room's turn timer fires as long as the match goes on; nobody has to
  move. `FairSpec` asks less than weak fairness of `ApplyTurnTimeout`: while a timeout is
  possible (`TimeoutPossible`, its ENABLED written out) turns come to an end, in whatever way.
  The openings of the scripts are not subject to it.
* `event_pipeline_workers`, `event_pipeline_kept`: time passes, containers are restarted,
  both loops run, the group assigns its free partition. Nobody has to finish a match.

## 4. Findings

* **A one-time ticket can admit two connections** (`ws_ticket_one_time`,
  `internal/ws/context.go:38`). `Commit` of a handshake that `Release` has already finished
  returns nil. If the request's context ends before `onConnect` runs, the ticket is
  freed, `onConnect` still accepts the connection, and the ticket opens another. The first
  connection belongs to a request that is ending; `AdmissionConsumes` shows that this is
  the only way.
* **An event whose room was deleted blocks its partition** (`event_pipeline_kept`,
  `internal/analytics/repository/postgres/repository.go:88`). A room that is not playing can
  be deleted at once after its match, together with the match; the projection's
  achievement then violates its reference to the match, the worker stops, restarts and meets the
  same record. Results of other rooms behind it are never projected.
  `EveryResultArrives` shows that without deletions every result arrives, whatever crashes.
* **A player of a running match can lose the seat** (`room_leave`,
  `internal/room/repository/postgres/participant.go:40`). `leave_room` and `kick_participant` read
  the room's status, then delete the participant without looking at it again. If `start_room`
  commits in between, the match has a player who is not in the room, who can neither rejoin it
  nor leave or finish the match (all three look for the participant). In MatchActions it is
  `LoseSeat`: such a player's last move is never acknowledged.

What `EmptyRoomIsMarked` excepts is also in the code, although nothing in the repository says
otherwise: two removals at once, or a guest cleanup and a start, can leave a waiting room
empty without `last_empty_at`, and such a room is never cleaned up. `RejectedIsNeverApplied` excepts
one case too: the reply to the last move is lost, the room, waiting again, is deleted with its
receipts, and the retry finds neither a receipt nor a match and is answered "rejected, match
not found" (`match.go:126`), although the move was applied. Three more behaviours
are in the model and contradict no document: the cleanup deletes a room somebody has
joined since it was listed (`room.go:598`); a reconnect timeout ends whichever match
the room plays by then (`room.go:589`); a connection whose room was deleted cannot join
another one (`handler.go:420`).

`EveryTurnEnds` excepts what the code does not provide for either: a timeout whose call fails is
not tried again (`turn_timer.go:183`), and `leave_match` and `delete_room` stop the timer of
the room, not of the match (`handler.go:1016`), so that a late one removes the timer that
a next match, started through the same replica, has set meanwhile. In both cases the turn
has no timer on that replica until somebody joins or acts.

## 5. Proofs

All theorems are for any number of calls, matches, players, commands, tickets, attempts and
faults, under the named assumptions of the modules (null values are not values, seats
are well formed) and, where it is said, one more.

`MatchActionsProofs`, with or without a reliable lock:

| Theorem | Property |
|---|---|
| `TypesCorrect` | `TypeOK` |
| `ReceiptsTellTheTruth` | `ReceiptIffCommit` |
| `VersionsAreCommittedOnce` | `OneCommitPerVersion` |
| `CommandsApplyAtMostOnce` | `AppliedAtMostOnce` |
| `AcknowledgedIsDurable` | `AckIsDurable` |
| `RoomFollowsMatch` | `PlayingIffActive` |
| `HistoryStaysFrozen` | `HistoryIsFrozen` |

`TypeOK` is not inductive: a call that is about to write needs to know that its plan is well
formed and one version above its snapshot, and one that is about to acknowledge needs to
know that its receipt is there, if the room still is. `TypeInv` adds this as `CallInv` (a condition per program
counter on the call's locals and on the receipt of its command) and `ActiveIsRunning`. On top of it every step is one of
four kinds (`StepWrites`): it leaves the rows alone, it commits one version with its
receipt, it saves a rejection, or it deletes the room; each invariant is then proved for four kinds
of step, not for some twenty actions. That a call which outlives the room writes nothing
(`NothingAfterDeletion`) follows from the conditional update and from the foreign keys. `Versions`,
the inductive form of `OneCommitPerVersion`, says that the versions committed to a match are one
interval; `AppliedAtMostOnce` follows from it and `ReceiptIffCommit` as long as the room stands, and
from then on because nothing is committed; `OneActive` strengthens `PlayingIffActive`
without cardinalities.

`MatchLockProofs`, where the lock is not lost by its holder (`LockMayBeLost = FALSE`):

| Theorem | Property |
|---|---|
| `CommandsHitTheirState` | `CommittedAsExpected` |
| `RejectionsAreFinal` | `RejectedIsNeverApplied` |
| `ServiceKeepsTheLog` | `ImplementsLog` |

Here a call's snapshot must still be true when it is used, although `start_room`,
`leave_match` and `delete_room` write the same rows without the lock. In a room that stands the
invariant is `JointInv == TypeInv /\ OneActive /\ ReceiptIffCommit /\ AloneInv`, in any room
`RoomInv`: this, or the room is deleted for good. `AloneInv` says that a call
past its lock holds it (`Guarded`), that a match nobody has moved in is as dealt (`RowsOK`), that a
command names a state its match has been in (`IssuedOK`), and, per place of a call, what
it knows of the row and of the receipt (`LockOK`). The last has the reason why starting and leaving
a match do no harm: a match that was abandoned under a call is not active, so that the
conditional update writes nothing; and a match started under a call is as dealt while the
call runs, so that the end of a match, which goes to *whichever* match is active in the
room, meets its own match or a version it does not expect.
`RejectionsAreFinal` adds `RefusedOK`, in a room that stands: a command a client was told is
rejected has not been committed, and either its id has a receipt or it does not apply to its match
any more. Deletion takes these reasons away, but not what follows from them, because nothing is
committed afterwards; what is left are the calls that answer later. `HopelessOK` says that one that is
going to report a conflict has found no receipt while there were receipts, and so its command
has not been applied; every other answer of a deleted room is "not found" or none (`StepLate`).
For `ServiceKeepsTheLog` each step is one of GameLog's or leaves its three variables alone, by the
same four kinds of step as above.

`TurnTimerProofs`: `TimersAreTyped` (`TypeOK`) and `NoTurnEndsEarly` (`NoTurnIsCutShort`), for any
number of replicas, matches, handlers and timeouts. A timeout may be applied long after its
timer fired, by a goroutine that carries the version it was scheduled for. `TimerInv` says that
what timers, timeouts and handlers carry is a state the match has reached, that the
turn of a timer that has fired is overdue, and that matches only go forward: a timeout
that the service accepts is of the match's present version, and so of a turn whose deadline
has been reached.

`WsTicketProofs`: `TicketsAreExclusive` (`HeldByOne`), `AdmittedByConsuming`
(`AdmissionConsumes`) and `GoneIsForEver` (`GoneForEver`). The inductive invariant relates each
attempt's place to the key of its ticket: one that holds a ticket finds it reserved or gone,
and no other attempt holds it. From it, a step that gives a ticket back finds it reserved,
never gone.

`EventPipelineProofs`: `NothingIsLost` (`PublishedWasSent`), `OffsetsAreSafe`
(`OffsetIsProcessed`) and `StatisticsAreExact` (`StatsFollowResults`), whatever fails and however
often. The offset is moved by a worker that handled its records a while ago, and the
group may have given the partition to another one since; that is why the invariant has
`Reading` (what a worker says it has handled has been processed, and lies between the offset it
started at and the end of the topic). `StatsFollowResults` counts, so it needs `processed`
to be finite, that a record is on the topic only after its match has ended (`Arrived`,
`OnlyEnded`), and that a result is projected only when it is not in `processed`.

`RoomLifecycleProofs`, for any number of rooms, people, connections and cleanup loops, and
whatever fails; of the limits on players it assumes that there is a largest:

| Theorem | Property |
|---|---|
| `TypesCorrect` | `TypeOK` |
| `SeatsLimited` | `SeatsWithinLimit` |
| `RoomsKeepTheContract` | `ImplementsContract` |
| `SeatsAreWhereConnectionsAre` | `SeatsFollowConnections` |
| `EmptyRoomsAreMarked` | `EmptyRoomIsMarked` |

`TypeOK` needs `Asking`: a request in progress is about a room (the tables are updated at
`job[c].room`, which is no room when the connection is idle). `SeatsWithinLimit` is not
inductive: shrinking a room is safe only because a waiting room has no match, and a
termination ends *the newest* match, so that the room waits with no match only if it had one;
`RoomSound` adds both, and that what is counted is finite. On top of the types every step is one
of seven kinds (`NextOneRoom`): people leave or are marked absent, or one room is `Opened`,
`Seated`, `Resized`, `Dealt`, `Ended` or `Dropped`, and nothing else happens to the others. The
invariant is proved kind by kind, and the step simulation too: the contract sees `Opened`, `Dealt`,
`Ended` and `Dropped`, and stutters in the rest. No kind mentions what was read before the
lock, which is why stale reads do no harm here.

In the last two they do, and the properties name the exceptions. `SeatsPlaced` follows a
connection through a switch: where its person may be seated at each place of `join_room` and
of its rollback. `Emptiness` says that, unless transactions overlapped, a removal that is about to
empty the room has seen that nobody else is left (`RemoverSaw`), and so has the guest cleanup
(`SweeperSaw`); each marks the room in that case, so that an empty room is marked (`Marked`).

`CarcassonneProofs`, for every catalogue, seating, deck and number of meeples, and every board
they lead to:

| Theorem | Property |
|---|---|
| `MeeplesAreConserved` | `MeeplesConserved` |
| `TurnsInOrder` | `TurnOrder` |
| `StatesAreTyped` | `TypeOK` |
| `TilesAreConserved` | `TilesConserved` |
| `BordersAreContinued` | `BordersMatch`, where `RoadsRunThroughFields` |
| `TurnsCanEnd` | `TurnCanEnd` |
| `OffersAreWhatIsAccepted` | `OffersAreExact` |
| `MeeplesGoOnFreeRegions` | `MeepleOnFreeRegion`, where `RoadsRunThroughFields` |

Scoring changes hands and board in one lemma (`ReturnCounts`: what leaves the board is added to
the hands it came from), which every kind of scoring uses through `SettleSettles` and
`FinishCounts`. Putting a meeple down adds one to the board only because it was not there: `OnBoard`
says that no meeple stands on the tile just placed, which holds because a tile
goes to a free cell. `TurnsInOrder` is a step simulation with TurnMachine.

The others rest on `FInv`: the state is `Sound` (tiles of the catalogue whose edges match those
of their neighbours, meeples on zones of the board, points that are numbers, and no call ended in
an error), `Playing` (what the phase says about the tile in hand, the last tile and the end of
the match; a tile in hand fits somewhere), and `Dealt` (board, hand, deck and passed tiles make up the
setup's deck). That no call ends in an error is the hard part: a turn must be settled
whatever the board is, so every search must return zones of the board, every sum a number, and
the contributions of a feature must add up to its points. The search, the fields' graph and the
sums are recursive functions and folds over sets; the library has no theorem a prover
can apply to them, so the module first proves induction with sets in the place of predicates
(`SetInduction`, `FiniteInduction`), then that the recursive functions exist
(`Recursion`), and from both what a search finds (`SearchFinds`: the least set of zones
around its start that is closed under neighbours), that fields are closed in the same sense
(`FieldsFound`) and that a sum of naturals is one. `BordersMatch` is about zones where the code
compares edges only, hence `RoadsRunThroughFields`.

`MeeplesGoOnFreeRegions` compares the searches with the closure of CarcassonneRules. On a
board whose edges match, zones that face each other are of one type (`SameAcross`), so the
neighbours the code looks for are all that face a zone (`FacingNeighbors`); being neighbours
is mutual, so a region that meets a closed set lies within it (`RegionWithin`); and what
`canPlaceMeeple` looks at is closed (`RegionClosed`).

Only model-checked: everything about liveness (out of the prover's reach, as is ENABLED), and of the
engine `ScoredByTheRules` and `BotsTakeSurePoints`. The last is about what a medium or hard bot
chooses in any state of the run, a skip included; a timeout's skip is not a choice of the bot. It
does not hold of every catalogue: a hard bot rates an unfinished city by its size, and a city of some
sixty tiles outweighs points at hand.

## 6. Plan

In order; each module with its MC instance, then its proofs.

1. **Proofs**: `ScoredByTheRules`, part by part: features and fields are regions of
   CarcassonneRules (from `SearchFinds` and `RegionsFound`), a feature without open edges is
   complete, who wins a feature holds its region, and the sums over features are sums over regions.
2. **Presence**: registry, presence in Redis, connect, disconnect, reconnect
   timeout, composed with RoomLifecycle. Property: a player with a live connection in the room is
   not terminated.
3. **Accounts**: registration, login, profile and avatar changes of users.

## 7. Not modelled

Users, JWT, CSRF, CORS, HTTP routing and DTO formatting (no protocol state); the activity
feed (append-only, for display), and with it the order of the engine's events and of what they
list, except that contributions add up to the points (`ok`); the projections of the game state
to JSON, except the placements offered; the ids of tile instances (the cell stands for them)
and of bots; the shuffle of the deck (any deck may be given); the rounding of the bots'
floating-point ratings; the in-memory ticket store and room locks (not wired in by
`internal/app`); configuration, logging, schema and deployment files. Postgres
transactions are atomic steps; Redis scripts are atomic; Kafka keeps acknowledged records.
