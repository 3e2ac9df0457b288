---------------------------- MODULE RoomLifecycle ----------------------------
(***************************************************************************)
(* The life of a room: creation, joining and switching, settings, start,   *)
(* leaving, kicks, the end of matches, deletion, and the periodic cleanup. *)
(*                                                                         *)
(* A request is handled in steps, because the code reads the room first    *)
(* (GetByID, ListParticipants) and only then runs a transaction that locks *)
(* the room row and checks part of what was read again.  A transaction     *)
(* that starts with SELECT ... FOR UPDATE on the room is one step.  A      *)
(* removal deletes the participant row BEFORE it touches the room row, so  *)
(* it is two steps: the deletion with the snapshot its UPDATE evaluates    *)
(* EXISTS on (READ COMMITTED: the snapshot does not move while the UPDATE  *)
(* waits for the room row), and the commit.                                *)
(***************************************************************************)
EXTENDS Naturals, FiniteSets

CONSTANTS
  Rooms, Actors,
  Guests,       \* the actors without an account
  Clients,      \* WebSocket connections; an actor may have several
  ActorOf,      \* the actor each connection is authenticated as
  Sweepers,     \* cleanup loops (one per API process) and guest-session requests
  NoRoom, NoActor,
  Limits,       \* the values of max_players a room may be given
  BotCounts,    \* the numbers of bots its settings may ask for
  MaxMatches,   \* bound: matches started in one room
  MaxBusy       \* bound: connections handling a request at the same time

defaultMaxPlayers == 2

ASSUME RoomsAssumption ==
  /\ NoRoom \notin Rooms
  /\ NoActor \notin Actors
  /\ Guests \subseteq Actors
  /\ ActorOf \in [Clients -> Actors]
  /\ Clients \cap Sweepers = {}
  /\ Limits \subseteq Nat \ {0, 1} /\ defaultMaxPlayers \in Limits
  /\ \E most \in Limits : \A n \in Limits : n <= most
  /\ BotCounts \subseteq Nat /\ 0 \in BotCounts
  /\ MaxMatches \in Nat /\ MaxBusy \in Nat

SeatLimit == CHOOSE m \in Limits : \A n \in Limits : n <= m

VARIABLES
  rooms,      \* the rooms table
  seats,      \* room_participants: the actors seated in each room
  active,     \* the rows of matches whose status is 'active', with their players
  sessions,   \* guest_sessions that have not expired
  here,       \* ConnectionState.RoomID of each connection
  job,        \* the request a connection is handling, and its locals
  sweep,      \* the same for the sweepers
  dealt,      \* matches started so far in each room: numbers them
  raced,      \* history: a removal of the room overlapped another, or a start
  faulty      \* history: the actors one of whose calls failed or connections ended

vars == <<rooms, seats, active, sessions, here, job, sweep, dealt, raced, faulty>>

Statuses == {"unborn", "waiting", "playing", "closed"}

NoJob == [pc |-> "idle", for |-> "none", room |-> NoRoom, other |-> NoRoom,
          bots |-> 0, max |-> defaultMaxPlayers, seen |-> {}, victim |-> NoActor]

NoSweep == [pc |-> "idle", gone |-> [r \in Rooms |-> {}],
            view |-> [r \in Rooms |-> {}], list |-> {}, tick |-> FALSE]

Init ==
  /\ rooms = [r \in Rooms |-> [status |-> "unborn", owner |-> NoActor,
                max |-> defaultMaxPlayers, bots |-> 0, marked |-> FALSE]]
  /\ seats = [r \in Rooms |-> {}]
  /\ active = [r \in Rooms |-> {}]
  /\ sessions = Guests
  /\ here = [c \in Clients |-> NoRoom]
  /\ job = [c \in Clients |-> NoJob]
  /\ sweep = [j \in Sweepers |-> NoSweep]
  /\ dealt = [r \in Rooms |-> 0]
  /\ raced = [r \in Rooms |-> FALSE]
  /\ faulty = {}

Exists(r) == rooms[r].status \in {"waiting", "playing"}
me(c) == ActorOf[c]
at(c, pc) == job[c].pc = pc
goto(c, j) == job' = [job EXCEPT ![c] = j]
done(c) == goto(c, NoJob)

\* Removals between their DELETE and their commit: they hold the participant rows.
Removing(r) == {c \in Clients : at(c, "removing") /\ job[c].room = r}
Sweeping(r) == {j \in Sweepers : sweep[j].gone[r] # {}}
Held(r) == (UNION {sweep[j].gone[r] : j \in Sweeping(r)})
             \cup ({job[c].victim : c \in Removing(r)} \ {NoActor})

-----------------------------------------------------------------------------
\* POST /rooms: a room is created empty, and marked empty, so that it is
\* cleaned up when nobody ever joins.
CreateRoom(c, r) ==
  /\ at(c, "idle") /\ rooms[r].status = "unborn"
  /\ rooms' = [rooms EXCEPT ![r].status = "waiting", ![r].owner = me(c),
                            ![r].marked = TRUE]
  /\ UNCHANGED <<seats, active, sessions, here, job, sweep, dealt, raced, faulty>>

\* The repository transactions --------------------------------------------

\* repository.JoinRoom accepts the actor, given the bots its caller read before.
MayJoin(r, a, reservedSlots) ==
  /\ Exists(r)
  /\ rooms[r].status = "waiting" \/ a \in seats[r]
  /\ a \in seats[r] \/ Cardinality(seats[r]) + reservedSlots < rooms[r].max

\* TerminateActiveMatch: the newest active match of the room ends.
newest(r) == CHOOSE m \in active[r] : \A n \in active[r] : n.no <= m.no
TerminateActiveMatch(r) ==
  /\ active' = [active EXCEPT ![r] = @ \ {newest(r)}]
  /\ rooms' = [rooms EXCEPT ![r].status = "waiting"]

\* matchPlayersMatchParticipants and the other checks StartRoomWithMatch makes
\* under the lock on the players its caller built the match for.
MayStart(r, humans, bots) ==
  /\ rooms[r].status = "waiting"
  /\ seats[r] # {} /\ Cardinality(humans) + bots >= 2
  /\ Cardinality(humans) + bots <= rooms[r].max
  /\ humans = seats[r]

\* (mutant) only the service counts the seats, before the lock
MayUpdateUncounted(r, maxPlayers, reservedSlots) == rooms[r].status = "waiting"

\* UpdateSettings under the lock.
MayUpdate(r, maxPlayers, reservedSlots) ==
  /\ Cardinality(seats[r]) + reservedSlots <= maxPlayers
  /\ rooms[r].status = "waiting"

\* (mutant) the condition on the status is left to the callers
DeletableAnyway(r) == Exists(r)

\* DeleteRoom: DELETE ... WHERE status != 'playing', with its ON DELETE CASCADEs.
Deletable(r) == rooms[r].status = "waiting"
DropRoom(r) ==
  /\ rooms' = [rooms EXCEPT ![r].status = "closed"]
  /\ seats' = [seats EXCEPT ![r] = {}]
  /\ active' = [active EXCEPT ![r] = {}]

-----------------------------------------------------------------------------
\* join_room --------------------------------------------------------------

\* MarkActorReconnectedInActiveMatch.
Reconnected(r, a) ==
  active' = [active EXCEPT ![r] = {[m EXCEPT !.away = @ \ {a}] : m \in @}]

\* The client asks for the room its connection is already in.
Rejoin(c) ==
  /\ at(c, "idle") /\ here[c] # NoRoom
  /\ Reconnected(here[c], me(c))
  /\ UNCHANGED <<rooms, seats, sessions, here, job, sweep, dealt, raced, faulty>>

\* Another room: the previous one, if any, is left first, unless it is being
\* played in or does not exist any more, which are answered with an error.
JoinRoom(c, r) ==
  /\ at(c, "idle") /\ here[c] # r
  /\ IF here[c] = NoRoom
     THEN goto(c, [NoJob EXCEPT !.pc = "join", !.for = "join", !.room = r])
     ELSE /\ rooms[here[c]].status = "waiting"
          /\ goto(c, [NoJob EXCEPT !.pc = "remove", !.for = "switch",
                        !.room = here[c], !.other = r, !.victim = me(c)])
  /\ UNCHANGED <<rooms, seats, active, sessions, here, sweep, dealt, raced, faulty>>

\* A join that failed: the handler tries to get back into the previous room.
Rollback(c) ==
  IF job[c].for \in {"join", "undo"} /\ job[c].other # NoRoom
  THEN [NoJob EXCEPT !.pc = "join", !.for = "rollback", !.room = job[c].other]
  ELSE NoJob

\* service.JoinRoom reads the room to count the seats its bots reserve.
JoinRead(c) ==
  /\ at(c, "join")
  /\ goto(c, IF Exists(job[c].room)
             THEN [job[c] EXCEPT !.pc = "joinTx", !.bots = rooms[job[c].room].bots]
             ELSE Rollback(c))
  /\ UNCHANGED <<rooms, seats, active, sessions, here, sweep, dealt, raced, faulty>>

JoinTx(c) ==
  LET r == job[c].room IN
  /\ at(c, "joinTx")
  /\ me(c) \notin Held(r)
  /\ IF MayJoin(r, me(c), job[c].bots)
     THEN /\ seats' = [seats EXCEPT ![r] = @ \cup {me(c)}]
          /\ rooms' = [rooms EXCEPT ![r].marked = FALSE]
          /\ raced' = [raced EXCEPT ![r] = FALSE]
          /\ goto(c, [job[c] EXCEPT !.pc = "subscribe"])
     ELSE goto(c, Rollback(c)) /\ UNCHANGED <<seats, rooms, raced>>
  /\ UNCHANGED <<active, sessions, here, sweep, dealt, faulty>>

\* (mutant) a subscription that fails does not give the new seat back
SubscribeKeepingSeat(c) ==
  LET r == job[c].room IN
  /\ at(c, "subscribe")
  /\ \/ /\ here' = [here EXCEPT ![c] = r]
        /\ done(c)
     \/ goto(c, Rollback(c)) /\ UNCHANGED here
  /\ UNCHANGED <<rooms, seats, active, sessions, sweep, dealt, raced, faulty>>

Subscribe(c) ==
  LET r == job[c].room IN
  /\ at(c, "subscribe")
  /\ \/ /\ here' = [here EXCEPT ![c] = r]
        /\ IF job[c].for = "join" THEN Reconnected(r, me(c)) ELSE UNCHANGED active
        /\ done(c)
        /\ UNCHANGED faulty
     \/ /\ goto(c, IF job[c].for = "join"
                   THEN [job[c] EXCEPT !.pc = "remove", !.for = "undo", !.victim = me(c)]
                   ELSE NoJob)
        /\ UNCHANGED <<here, active>>
        /\ faulty' = faulty \cup (IF job[c].for = "join" THEN {} ELSE {me(c)})
  /\ UNCHANGED <<rooms, seats, sessions, sweep, dealt, raced>>

-----------------------------------------------------------------------------
\* leave_room, kick_participant and the removals inside join_room ----------

\* The status is read here; RemoveParticipant does not look at it again.
LeaveRoom(c) ==
  /\ at(c, "idle") /\ here[c] # NoRoom
  /\ rooms[here[c]].status = "waiting"
  /\ goto(c, [NoJob EXCEPT !.pc = "remove", !.for = "leave",
                !.room = here[c], !.victim = me(c)])
  /\ UNCHANGED <<rooms, seats, active, sessions, here, sweep, dealt, raced, faulty>>

KickParticipant(c, r, target) ==
  /\ at(c, "idle")
  /\ rooms[r].status = "waiting" /\ rooms[r].owner = me(c)
  /\ target # me(c) /\ target \in seats[r]
  /\ goto(c, [NoJob EXCEPT !.pc = "remove", !.for = "kick", !.room = r, !.victim = target])
  /\ UNCHANGED <<rooms, seats, active, sessions, here, sweep, dealt, raced, faulty>>

\* The DELETE, invisible to others until the commit, and the snapshot of who
\* is left that the UPDATE of last_empty_at will use.  A row that is already
\* gone leaves nothing to delete at the commit.
BeginRemoval(c) ==
  LET r == job[c].room  v == job[c].victim IN
  /\ at(c, "remove")
  /\ v \notin Held(r)
  /\ goto(c, [job[c] EXCEPT !.pc = "removing", !.seen = seats[r] \ {v},
                       !.victim = IF v \in seats[r] THEN v ELSE NoActor])
  /\ UNCHANGED <<rooms, seats, active, sessions, here, sweep, dealt, raced, faulty>>

\* (mutant) the mark is kept up to date only while the room waits
markedIfWaiting(r, left) == rooms[r].status = "waiting" /\ left = {}

\* last_empty_at after a removal that saw `left` in the room.
markedAfter(r, left) == Exists(r) /\ left = {}

\* What the handler does once the removal returned.
AfterRemoval(c, ok) ==
  CASE job[c].for = "switch" /\ ok ->
         goto(c, [NoJob EXCEPT !.pc = "join", !.for = "join",
                    !.room = job[c].other, !.other = job[c].room])
    [] job[c].for = "undo" -> goto(c, Rollback(c))
    [] OTHER -> done(c)

CommitRemoval(c) ==
  LET r == job[c].room IN
  /\ at(c, "removing")
  /\ seats' = [seats EXCEPT ![r] = @ \ {job[c].victim}]
  /\ rooms' = [rooms EXCEPT ![r].marked = markedAfter(r, job[c].seen)]
  /\ raced' = [raced EXCEPT ![r] = @ \/ Removing(r) # {c} \/ Sweeping(r) # {}]
  /\ here' = [here EXCEPT ![c] = IF job[c].for \in {"leave", "switch"} THEN NoRoom ELSE @]
  /\ AfterRemoval(c, TRUE)
  /\ UNCHANGED <<active, sessions, sweep, dealt, faulty>>

-----------------------------------------------------------------------------
\* update_room_settings ---------------------------------------------------

\* (mutant) an omitted limit is taken for a limit of zero
asSent(r, maxPlayers) == maxPlayers

orKept(r, maxPlayers) == IF maxPlayers = 0 THEN rooms[r].max ELSE maxPlayers

\* Fields the request leaves out keep the value read here, not the one the
\* room has when the transaction runs.
UpdateRoomSettings(c, r, maxPlayers, bots) ==
  LET m == orKept(r, maxPlayers)
      b == IF bots = {} THEN rooms[r].bots ELSE CHOOSE n \in bots : TRUE
  IN /\ at(c, "idle")
     /\ rooms[r].status = "waiting" /\ rooms[r].owner = me(c)
     /\ b <= m /\ Cardinality(seats[r]) + b <= m
     /\ goto(c, [NoJob EXCEPT !.pc = "settings", !.room = r, !.max = m, !.bots = b])
     /\ UNCHANGED <<rooms, seats, active, sessions, here, sweep, dealt, raced, faulty>>

SettingsTx(c) ==
  LET r == job[c].room IN
  /\ at(c, "settings")
  /\ rooms' = IF MayUpdate(r, job[c].max, job[c].bots)
              THEN [rooms EXCEPT ![r].max = job[c].max, ![r].bots = job[c].bots]
              ELSE rooms
  /\ done(c)
  /\ UNCHANGED <<seats, active, sessions, here, sweep, dealt, raced, faulty>>

-----------------------------------------------------------------------------
\* start_room -------------------------------------------------------------

\* The match is built for the participants and settings read here.
StartRoom(c, r) ==
  /\ at(c, "idle")
  /\ rooms[r].status = "waiting" /\ rooms[r].owner = me(c)
  /\ seats[r] # {}
  /\ Cardinality(seats[r]) + rooms[r].bots \in 2 .. rooms[r].max
  /\ goto(c, [NoJob EXCEPT !.pc = "start", !.room = r, !.seen = seats[r],
                !.bots = rooms[r].bots])
  /\ UNCHANGED <<rooms, seats, active, sessions, here, sweep, dealt, raced, faulty>>

StartTx(c) ==
  LET r == job[c].room IN
  /\ at(c, "start")
  /\ done(c)
  /\ IF MayStart(r, job[c].seen, job[c].bots)
     THEN /\ dealt[r] < MaxMatches
          /\ dealt' = [dealt EXCEPT ![r] = @ + 1]
          /\ active' = [active EXCEPT ![r] = @ \cup
               {[no |-> dealt'[r], humans |-> job[c].seen, bots |-> job[c].bots, away |-> {}]}]
          /\ rooms' = [rooms EXCEPT ![r].status = "playing"]
          /\ raced' = [raced EXCEPT ![r] = @ \/ Sweeping(r) # {}]
     ELSE UNCHANGED <<rooms, active, dealt, raced>>
  /\ UNCHANGED <<seats, sessions, here, sweep, faulty>>

-----------------------------------------------------------------------------
\* The end of matches, and of rooms ---------------------------------------

\* leave_match: FinishRoomMatch reads the participants, then ends whichever
\* match is active.  The handler then disconnects the actor's connections, as
\* it does those of a kicked actor: these are among the cases of Disconnect.
LeaveMatch(c, r) ==
  /\ at(c, "idle") /\ Exists(r) /\ me(c) \in seats[r]
  /\ goto(c, [NoJob EXCEPT !.pc = "finish", !.room = r])
  /\ UNCHANGED <<rooms, seats, active, sessions, here, sweep, dealt, raced, faulty>>

FinishTx(c) ==
  /\ at(c, "finish")
  /\ done(c)
  /\ IF active[job[c].room] = {} THEN UNCHANGED <<rooms, active>>
     ELSE TerminateActiveMatch(job[c].room)
  /\ UNCHANGED <<seats, sessions, here, sweep, dealt, raced, faulty>>

\* The last move of a match.  Its author must be a participant of the room,
\* bots included; the state version it names pins the match.
CompleteMatch(r) ==
  /\ active[r] # {}
  /\ newest(r).humans \cap seats[r] # {} \/ (newest(r).bots > 0 /\ rooms[r].bots > 0)
  /\ TerminateActiveMatch(r)
  /\ UNCHANGED <<seats, sessions, here, job, sweep, dealt, raced, faulty>>

\* delete_room ends the match of a room being played in, ignores an error of
\* that, and deletes the room.
DeleteRoom(c, r) ==
  /\ at(c, "idle") /\ Exists(r) /\ rooms[r].owner = me(c)
  /\ goto(c, [NoJob EXCEPT !.room = r,
                !.pc = IF rooms[r].status = "playing" THEN "terminate" ELSE "delete"])
  /\ UNCHANGED <<rooms, seats, active, sessions, here, sweep, dealt, raced, faulty>>

TerminateTx(c) ==
  /\ at(c, "terminate")
  /\ goto(c, [job[c] EXCEPT !.pc = "delete"])
  /\ IF active[job[c].room] = {} THEN UNCHANGED <<rooms, active>>
     ELSE TerminateActiveMatch(job[c].room)
  /\ UNCHANGED <<seats, sessions, here, sweep, dealt, raced, faulty>>

DeleteTx(c) ==
  LET r == job[c].room IN
  /\ at(c, "delete")
  /\ Held(r) = {}
  /\ IF Deletable(r) THEN DropRoom(r) ELSE UNCHANGED <<rooms, seats, active>>
  /\ done(c)
  /\ UNCHANGED <<sessions, here, sweep, dealt, raced, faulty>>

-----------------------------------------------------------------------------
\* Failures ----------------------------------------------------------------

\* A database call of the handler fails (a timeout, or a transaction PostgreSQL
\* aborts because a removal and a join or a deletion lock rows in opposite
\* orders) and rolls back.
Fails(c) ==
  /\ job[c].pc \notin {"idle", "subscribe"}
  /\ CASE at(c, "remove") \/ at(c, "removing") -> AfterRemoval(c, FALSE)
       [] at(c, "join") \/ at(c, "joinTx") -> goto(c, Rollback(c))
       [] at(c, "terminate") -> goto(c, [job[c] EXCEPT !.pc = "delete"])
       [] OTHER -> done(c)
  /\ faulty' = faulty \cup {me(c)}
  /\ UNCHANGED <<rooms, seats, active, sessions, here, sweep, dealt, raced>>

\* The connection ends, or its process dies.  What the handler had left to do
\* is cancelled.  The player is marked absent, unless another connection of
\* theirs is in the room, or the process died, or the mark could not be written.
Disconnect(c) ==
  LET r == here[c] IN
  /\ job[c] # NoJob \/ r # NoRoom
  /\ done(c)
  /\ here' = [here EXCEPT ![c] = NoRoom]
  /\ \/ /\ r # NoRoom
        /\ \A d \in Clients \ {c} : ~(me(d) = me(c) /\ here[d] = r)
        /\ active' = [active EXCEPT ![r] =
             {[m EXCEPT !.away = @ \cup ({me(c)} \cap m.humans)] : m \in @}]
     \/ UNCHANGED active
  /\ faulty' = faulty \cup {me(c)}
  /\ UNCHANGED <<rooms, seats, sessions, sweep, dealt, raced>>

-----------------------------------------------------------------------------
\* Guest sessions and the cleanup loop --------------------------------------

ExpireSession(g) ==
  /\ g \in sessions
  /\ sessions' = sessions \ {g}
  /\ UNCHANGED <<rooms, seats, active, here, job, sweep, dealt, raced, faulty>>

\* deleteGuestParticipantsInWaitingRooms for the guests in G: the status of
\* the rooms is the one of the snapshot, the room rows are not locked.
DeleteGuests(j, G, tick) ==
  LET gone == [r \in Rooms |-> IF rooms[r].status = "waiting" THEN seats[r] \cap G ELSE {}]
  IN /\ sweep[j].pc = "idle"
     /\ \A r \in Rooms : gone[r] \cap Held(r) = {}
     /\ sweep' = [sweep EXCEPT ![j] =
          [NoSweep EXCEPT !.pc = "guests", !.gone = gone, !.tick = tick,
                          !.view = [r \in Rooms |-> IF gone[r] = {} THEN {} ELSE seats[r] \ gone[r]]]]
     /\ UNCHANGED <<rooms, seats, active, here, job, dealt, raced, faulty>>

\* A tick of runRoomCleanup starts with CleanupExpired.
CleanupExpired(j) == DeleteGuests(j, Guests \ sessions, TRUE) /\ UNCHANGED sessions

\* POST of a guest session with the token of an older one: DeleteByActorID.
DeleteGuestSession(j, g) == DeleteGuests(j, {g}, FALSE) /\ sessions' = sessions \ {g}

\* updateWaitingRoomsEmptyState, for the rooms that are still waiting, and the commit.
CommitGuests(j) ==
  LET touched(r) == sweep[j].gone[r] # {} IN
  /\ sweep[j].pc = "guests"
  /\ seats' = [r \in Rooms |-> seats[r] \ sweep[j].gone[r]]
  /\ rooms' = [r \in Rooms |->
       IF touched(r) /\ rooms[r].status = "waiting"
       THEN [rooms[r] EXCEPT !.marked = (sweep[j].view[r] = {})]
       ELSE rooms[r]]
  /\ raced' = [r \in Rooms |-> raced[r] \/
       (touched(r) /\ (Removing(r) # {} \/ Sweeping(r) # {j}))]
  /\ sweep' = [sweep EXCEPT ![j] = IF @.tick THEN [NoSweep EXCEPT !.pc = "timeouts"] ELSE NoSweep]
  /\ UNCHANGED <<active, sessions, here, job, dealt, faulty>>

\* FindRoomsWithReconnectTimeout: any of the absences may be old enough.
FindTimeouts(j) ==
  /\ sweep[j].pc = "timeouts"
  /\ \E late \in SUBSET {r \in Rooms : \E m \in active[r] : m.away # {}} :
       sweep' = [sweep EXCEPT ![j] = [NoSweep EXCEPT !.pc = "ending", !.list = late]]
  /\ UNCHANGED <<rooms, seats, active, sessions, here, job, dealt, raced, faulty>>

\* TerminateRoomMatch of a listed room; a room deleted meanwhile ends the tick.
EndTimedOut(j, r) ==
  /\ sweep[j].pc = "ending" /\ r \in sweep[j].list
  /\ sweep' = [sweep EXCEPT ![j] = IF Exists(r) THEN [@ EXCEPT !.list = sweep[j].list \ {r}] ELSE NoSweep]
  /\ IF active[r] = {} THEN UNCHANGED <<rooms, active>> ELSE TerminateActiveMatch(r)
  /\ UNCHANGED <<seats, sessions, here, job, dealt, raced, faulty>>

\* FindStaleEmptyWaitingRooms: any of the marks may be old enough.
FindStale(j) ==
  /\ sweep[j].pc = "ending" /\ sweep[j].list = {}
  /\ \E stale \in SUBSET {r \in Rooms : /\ rooms[r].status = "waiting"
                                       /\ seats[r] = {} /\ rooms[r].marked} :
       sweep' = [sweep EXCEPT ![j] =
         IF stale = {} THEN NoSweep ELSE [NoSweep EXCEPT !.pc = "deleting", !.list = stale]]
  /\ UNCHANGED <<rooms, seats, active, sessions, here, job, dealt, raced, faulty>>

\* DeleteRoom of a listed room: only the status is looked at again.
DeleteStale(j, r) ==
  /\ sweep[j].pc = "deleting" /\ r \in sweep[j].list
  /\ Held(r) = {}
  /\ IF Deletable(r) THEN DropRoom(r) ELSE UNCHANGED <<rooms, seats, active>>
  /\ sweep' = [sweep EXCEPT ![j] =
       IF @.list = {r} THEN NoSweep ELSE [@ EXCEPT !.list = sweep[j].list \ {r}]]
  /\ UNCHANGED <<sessions, here, job, dealt, raced, faulty>>

\* A database call of the sweeper fails, or its process dies.
SweepFails(j) ==
  /\ sweep[j].pc # "idle"
  /\ sweep' = [sweep EXCEPT ![j] = NoSweep]
  /\ UNCHANGED <<rooms, seats, active, sessions, here, job, dealt, raced, faulty>>

-----------------------------------------------------------------------------
Request(c) ==
  /\ Cardinality({d \in Clients : ~at(d, "idle")}) < MaxBusy
  /\ \/ \E r \in Rooms : \/ CreateRoom(c, r) \/ JoinRoom(c, r) \/ StartRoom(c, r)
                         \/ LeaveMatch(c, r) \/ DeleteRoom(c, r)
     \/ Rejoin(c) \/ LeaveRoom(c)
     \/ \E r \in Rooms, a \in Actors : KickParticipant(c, r, a)
     \/ \E r \in Rooms, m \in Limits \cup {0}, b \in {{n} : n \in BotCounts} \cup {{}} :
          UpdateRoomSettings(c, r, m, b)

Step(c) == \/ JoinRead(c) \/ JoinTx(c) \/ Subscribe(c)
           \/ BeginRemoval(c) \/ CommitRemoval(c) \/ SettingsTx(c) \/ StartTx(c)
           \/ FinishTx(c) \/ TerminateTx(c) \/ DeleteTx(c)

Sweep(j) ==
  \/ CleanupExpired(j) \/ CommitGuests(j) \/ FindTimeouts(j) \/ FindStale(j)
  \/ \E g \in Guests : DeleteGuestSession(j, g)
  \/ \E r \in Rooms : EndTimedOut(j, r) \/ DeleteStale(j, r)
  \/ SweepFails(j)

Next ==
  \/ \E c \in Clients : Request(c) \/ Step(c) \/ Fails(c) \/ Disconnect(c)
  \/ \E j \in Sweepers : Sweep(j)
  \/ \E r \in Rooms : CompleteMatch(r)
  \/ \E g \in Guests : ExpireSession(g)

Spec == Init /\ [][Next]_vars

-----------------------------------------------------------------------------
(* Properties *)

Match == [no : 1 .. MaxMatches, humans : SUBSET Actors, bots : BotCounts, away : SUBSET Actors]

\* The type invariant: every row, connection and request in progress has the
\* shape the tables and the handlers give it.
TypeOK ==
  /\ rooms \in [Rooms -> [status : Statuses, owner : Actors \cup {NoActor}, max : Limits,
                          bots : BotCounts, marked : BOOLEAN]]
  /\ seats \in [Rooms -> SUBSET Actors]
  /\ active \in [Rooms -> SUBSET Match]
  /\ sessions \subseteq Guests
  /\ here \in [Clients -> Rooms \cup {NoRoom}]
  /\ job \in [Clients ->
       [pc : {"idle", "join", "joinTx", "subscribe", "remove", "removing", "settings",
              "start", "finish", "terminate", "delete"},
        for : {"none", "join", "rollback", "switch", "undo", "leave", "kick"},
        room : Rooms \cup {NoRoom}, other : Rooms \cup {NoRoom}, bots : BotCounts,
        max : Limits, seen : SUBSET Actors, victim : Actors \cup {NoActor}]]
  /\ sweep \in [Sweepers ->
       [pc : {"idle", "guests", "timeouts", "ending", "deleting"},
        gone : [Rooms -> SUBSET Actors], view : [Rooms -> SUBSET Actors],
        list : SUBSET Rooms, tick : BOOLEAN]]
  /\ dealt \in [Rooms -> 0 .. MaxMatches]
  /\ raced \in [Rooms -> BOOLEAN]
  /\ faulty \subseteq Actors

\* Joins with a stale count of bots, settings that shrink the room and starts
\* with a stale list of players race, and still no more people sit in a room
\* than it has places, and no match has more players than its room.
\* (JoinRoom, UpdateSettings and StartRoomWithMatch under the room lock.)
SeatsWithinLimit ==
  \A r \in Rooms :
    /\ Cardinality(seats[r]) <= rooms[r].max
    /\ \A m \in active[r] : Cardinality(m.humans) + m.bots \in 2 .. rooms[r].max

\* However starts, terminations, deletions and the cleanup loop interleave, a
\* room plays one match at a time and is never deleted under one: the tables
\* implement the contract.
Contract == INSTANCE RoomContract WITH
  phase <- [r \in Rooms |-> rooms[r].status],
  tables <- [r \in Rooms |-> {[humans |-> m.humans, bots |-> m.bots] : m \in active[r]}]
ImplementsContract == Contract!ContractSpec

\* A waiting room that empties is marked empty, so that the cleanup loop can
\* find it, however it emptied (leave, kick, guest cleanup, in or after a
\* match), unless a removal overlapped another removal or a start: then the
\* EXISTS of RemoveParticipant can see a row that is being deleted.
EmptyRoomIsMarked ==
  \A r \in Rooms :
    rooms[r].status = "waiting" /\ seats[r] = {} /\ ~raced[r] => rooms[r].marked

\* However requests to switch rooms interleave with kicks, deletions and
\* failed subscriptions, an actor with one connection, none of whose calls failed,
\* sits at most in the room that connection is in: a switch leaves the old room
\* first, and one that does not succeed goes back to it or to no room.
\* (handleJoinRoom and its two rollbacks, handleLeaveRoom.)
SeatsFollowConnections ==
  \A c \in Clients :
    /\ at(c, "idle") /\ me(c) \notin faulty
    /\ \A d \in Clients \ {c} : me(d) # me(c)
    => {r \in Rooms : me(c) \in seats[r]} \subseteq {here[c]}

\* leave_room refuses with "cannot leave room during active match", so the
\* people a match is played by keep their seats until it ends.
PlayersKeepTheirSeats ==
  \A r \in Rooms : \A m \in active[r] : m.humans \subseteq seats[r]
==============================================================================
