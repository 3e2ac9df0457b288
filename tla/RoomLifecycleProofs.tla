------------------------- MODULE RoomLifecycleProofs -------------------------
(***************************************************************************)
(* For any number of rooms, people, connections and cleanup loops, and     *)
(* whatever fails: the tables are well formed, no room and no match has    *)
(* more players than the room has places, the tables implement the         *)
(* contract of RoomContract, seats follow connections, and empty rooms are *)
(* marked.                                                                 *)
(***************************************************************************)
EXTENDS RoomLifecycle, FiniteSetTheorems, TLAPS

RoomRow == [status : Statuses, owner : Actors \cup {NoActor}, max : Limits,
            bots : BotCounts, marked : BOOLEAN]

Job == [pc : {"idle", "join", "joinTx", "subscribe", "remove", "removing", "settings",
              "start", "finish", "terminate", "delete"},
        for : {"none", "join", "rollback", "switch", "undo", "leave", "kick"},
        room : Rooms \cup {NoRoom}, other : Rooms \cup {NoRoom}, bots : BotCounts,
        max : Limits, seen : SUBSET Actors, victim : Actors \cup {NoActor}]

Pass == [pc : {"idle", "guests", "timeouts", "ending", "deleting"},
         gone : [Rooms -> SUBSET Actors], view : [Rooms -> SUBSET Actors],
         list : SUBSET Rooms, tick : BOOLEAN]

\* A request that is being handled is about a room.
About(j) ==
  /\ j \in Job
  /\ j.pc # "idle" => j.room \in Rooms
  /\ j.for = "switch" => j.other \in Rooms

Asking == \A c \in Clients : About(job[c])

\* What is seated and played in a room: while it does not play it has no match, while
\* it plays it has one, and neither its people nor those of its match outnumber its places.
RoomSound(r) ==
  /\ IsFiniteSet(seats[r]) /\ Cardinality(seats[r]) <= rooms[r].max
  /\ rooms[r].status # "playing" => active[r] = {}
  /\ \A m, n \in active[r] : m = n
  /\ \A m \in active[r] : /\ m.humans # {} /\ IsFiniteSet(m.humans)
                          /\ Cardinality(m.humans) + m.bots \in 2 .. rooms[r].max

Sound == \A r \in Rooms : RoomSound(r)

IInv == TypeOK /\ Asking /\ Sound

-----------------------------------------------------------------------------
(* Requests *)

LEMMA NoJobAbout == About(NoJob)
  BY RoomsAssumption DEF About, Job, NoJob

\* What a request becomes: each of the handlers' ways to go on.
LEMMA NewJobs ==
  ASSUME NEW r \in Rooms, NEW a \in Actors
  PROVE  /\ About([NoJob EXCEPT !.pc = "join", !.for = "join", !.room = r])
         /\ \A q \in Rooms :
              /\ About([NoJob EXCEPT !.pc = "remove", !.for = "switch", !.room = r, !.other = q,
                                     !.victim = a])
              /\ About([NoJob EXCEPT !.pc = "join", !.for = "join", !.room = r, !.other = q])
         /\ About([NoJob EXCEPT !.pc = "remove", !.for = "leave", !.room = r, !.victim = a])
         /\ About([NoJob EXCEPT !.pc = "remove", !.for = "kick", !.room = r, !.victim = a])
         /\ \A m \in Limits, b \in BotCounts :
              About([NoJob EXCEPT !.pc = "settings", !.room = r, !.max = m, !.bots = b])
         /\ \A S \in SUBSET Actors, b \in BotCounts :
              About([NoJob EXCEPT !.pc = "start", !.room = r, !.seen = S, !.bots = b])
         /\ About([NoJob EXCEPT !.pc = "finish", !.room = r])
         /\ \A pc \in {"terminate", "delete"} : About([NoJob EXCEPT !.room = r, !.pc = pc])
  BY RoomsAssumption DEF About, Job, NoJob

LEMMA NextJobs ==
  ASSUME NEW j, About(j), j.pc # "idle"
  PROVE  /\ \A b \in BotCounts : About([j EXCEPT !.pc = "joinTx", !.bots = b])
         /\ About([j EXCEPT !.pc = "subscribe"])
         /\ \A a \in Actors : About([j EXCEPT !.pc = "remove", !.for = "undo", !.victim = a])
         /\ \A S \in SUBSET Actors, v \in Actors \cup {NoActor} :
              About([j EXCEPT !.pc = "removing", !.seen = S, !.victim = v])
         /\ About([j EXCEPT !.pc = "delete"])
  BY DEF About, Job

LEMMA RollbackAbout ==
  ASSUME NEW c \in Clients, Asking
  PROVE  About(Rollback(c))
  <1>1. job[c] \in Job
    BY DEF Asking, About
  <1>2. job[c].other # NoRoom => job[c].other \in Rooms
    BY <1>1 DEF Job
  <1>3. \A r \in Rooms : About([NoJob EXCEPT !.pc = "join", !.for = "rollback", !.room = r])
    BY RoomsAssumption DEF About, Job, NoJob
  <1> QED BY <1>2, <1>3, NoJobAbout DEF Rollback

\* A request goes on, or a new one is taken up, as one about a room.
Asks(c) == \E j : About(j) /\ job' = [job EXCEPT ![c] = j]

LEMMA AsksAsking ==
  ASSUME TypeOK, Asking, NEW c \in Clients, Asks(c)
  PROVE  Asking'
  BY DEF Asks, Asking, TypeOK

LEMMA AfterRemovalAsks ==
  ASSUME Asking, NEW c \in Clients, NEW ok, AfterRemoval(c, ok), job[c].pc # "idle"
  PROVE  Asks(c)
  <1>1. CASE job[c].for = "switch" /\ ok
    <2> DEFINE j == [NoJob EXCEPT !.pc = "join", !.for = "join",
                                  !.room = job[c].other, !.other = job[c].room]
    <2>1. job[c].other \in Rooms /\ job[c].room \in Rooms
      BY <1>1 DEF Asking, About
    <2>2. About(j)
      BY <2>1, RoomsAssumption DEF About, Job, NoJob
    <2>3. job' = [job EXCEPT ![c] = j]
      BY <1>1 DEF AfterRemoval, goto
    <2> QED BY <2>2, <2>3 DEF Asks
  <1>2. CASE ~(job[c].for = "switch" /\ ok)
    <2>1. job' = [job EXCEPT ![c] = Rollback(c)] \/ job' = [job EXCEPT ![c] = NoJob]
      BY <1>2 DEF AfterRemoval, goto, done
    <2> QED BY <2>1, RollbackAbout, NoJobAbout DEF Asks
  <1> QED BY <1>1, <1>2

-----------------------------------------------------------------------------
(* Types *)

LEMMA RowTypes ==
  ASSUME NEW row \in RoomRow
  PROVE  /\ \A s \in Statuses : [row EXCEPT !.status = s] \in RoomRow
         /\ \A a \in Actors :
              [row EXCEPT !.status = "waiting", !.owner = a, !.marked = TRUE] \in RoomRow
         /\ \A b \in BOOLEAN : [row EXCEPT !.marked = b] \in RoomRow
         /\ \A m \in Limits, b \in BotCounts : [row EXCEPT !.max = m, !.bots = b] \in RoomRow
  BY DEF RoomRow, Statuses

LEMMA RowOf == ASSUME TypeOK, NEW r \in Rooms PROVE rooms[r] \in RoomRow
  BY DEF TypeOK, RoomRow

\* The variables that only some steps of the system change.

\* The rest of TypeOK, when a request has taken a step.
LEMMA RequestTypes ==
  ASSUME TypeOK, Asking, NEW c \in Clients, Asks(c) \/ UNCHANGED job,
         rooms' \in [Rooms -> RoomRow], seats' \in [Rooms -> SUBSET Actors],
         active' \in [Rooms -> SUBSET Match], here' \in [Clients -> Rooms \cup {NoRoom}],
         dealt' \in [Rooms -> 0 .. MaxMatches], raced' \in [Rooms -> BOOLEAN],
         faulty' \subseteq Actors, UNCHANGED <<sessions, sweep>>
  PROVE  TypeOK' /\ Asking'
  <1>1. Asking'
    BY AsksAsking DEF Asking
  <1>2. job' \in [Clients -> Job]
    <2>1. job \in [Clients -> Job]
      BY DEF TypeOK, Job
    <2> QED BY <2>1 DEF Asks, About
  <1> QED BY <1>1, <1>2 DEF TypeOK, RoomRow, Job

\* What the transactions do to the tables keeps their types.
LEMMA TerminateTypes ==
  ASSUME TypeOK, NEW r \in Rooms, TerminateActiveMatch(r)
  PROVE  rooms' \in [Rooms -> RoomRow] /\ active' \in [Rooms -> SUBSET Match]
  <1>1. [rooms[r] EXCEPT !.status = "waiting"] \in RoomRow
    BY RowOf, RowTypes DEF Statuses
  <1>2. rooms' \in [Rooms -> RoomRow]
    BY <1>1, RowOf DEF TerminateActiveMatch, TypeOK
  <1>3. active' \in [Rooms -> SUBSET Match]
    BY DEF TerminateActiveMatch, TypeOK
  <1> QED BY <1>2, <1>3

LEMMA DropTypes ==
  ASSUME TypeOK, NEW r \in Rooms, DropRoom(r)
  PROVE  /\ rooms' \in [Rooms -> RoomRow] /\ seats' \in [Rooms -> SUBSET Actors]
         /\ active' \in [Rooms -> SUBSET Match]
  <1>1. [rooms[r] EXCEPT !.status = "closed"] \in RoomRow
    BY RowOf, RowTypes DEF Statuses
  <1>2. rooms' \in [Rooms -> RoomRow]
    BY <1>1, RowOf DEF DropRoom, TypeOK
  <1> QED BY <1>2 DEF DropRoom, TypeOK

\* Marking players absent or back keeps the matches.
LEMMA AwayTypes ==
  ASSUME NEW A \in SUBSET Match, NEW S \in SUBSET Actors
  PROVE  /\ {[m EXCEPT !.away = @ \ S] : m \in A} \in SUBSET Match
         /\ {[m EXCEPT !.away = @ \cup (S \cap m.humans)] : m \in A} \in SUBSET Match
  <1>1. ASSUME NEW m \in Match, NEW T \in SUBSET Actors
        PROVE  [m EXCEPT !.away = T] \in Match
    BY DEF Match
  <1>2. \A m \in Match : /\ [m EXCEPT !.away = @ \ S] \in Match
                         /\ [m EXCEPT !.away = @ \cup (S \cap m.humans)] \in Match
    <2> TAKE m \in Match
    <2>1. m.away \in SUBSET Actors
      BY DEF Match
    <2> QED BY <1>1, <2>1
  <1> QED BY <1>2

LEMMA InitTypes == Init => TypeOK /\ Asking
  <1> SUFFICES ASSUME Init PROVE TypeOK /\ Asking
    OBVIOUS
  <1>1. NoJob \in Job /\ About(NoJob)
    BY NoJobAbout DEF About
  <1>2. NoSweep \in Pass
    BY DEF NoSweep, Pass
  <1>3. rooms \in [Rooms -> RoomRow]
    BY RoomsAssumption DEF Init, RoomRow, Statuses
  <1>4. Asking
    BY <1>1 DEF Init, Asking
  <1>5. /\ seats \in [Rooms -> SUBSET Actors] /\ active \in [Rooms -> SUBSET Match]
        /\ sessions \subseteq Guests /\ here \in [Clients -> Rooms \cup {NoRoom}]
        /\ dealt \in [Rooms -> 0 .. MaxMatches] /\ raced \in [Rooms -> BOOLEAN]
        /\ faulty \subseteq Actors
    BY RoomsAssumption DEF Init
  <1>6. job \in [Clients -> Job] /\ sweep \in [Sweepers -> Pass]
    BY <1>1, <1>2 DEF Init
  <1> QED BY <1>3, <1>4, <1>5, <1>6 DEF TypeOK, RoomRow, Job, Pass

\* A transaction of the tables is tried, or nothing happens to them.
LEMMA TriedTypes ==
  ASSUME TypeOK, NEW r \in Rooms,
         \/ TerminateActiveMatch(r) /\ UNCHANGED seats
         \/ DropRoom(r)
         \/ UNCHANGED <<rooms, seats, active>>
  PROVE  /\ rooms' \in [Rooms -> RoomRow] /\ seats' \in [Rooms -> SUBSET Actors]
         /\ active' \in [Rooms -> SUBSET Match]
  <1>1. ASSUME TerminateActiveMatch(r), UNCHANGED seats
        PROVE  /\ rooms' \in [Rooms -> RoomRow] /\ seats' \in [Rooms -> SUBSET Actors]
               /\ active' \in [Rooms -> SUBSET Match]
    BY <1>1, TerminateTypes DEF TypeOK
  <1>2. ASSUME UNCHANGED <<rooms, seats, active>>
        PROVE  /\ rooms' \in [Rooms -> RoomRow] /\ seats' \in [Rooms -> SUBSET Actors]
               /\ active' \in [Rooms -> SUBSET Match]
    BY <1>2 DEF TypeOK, RoomRow
  <1> QED BY <1>1, <1>2, DropTypes

\* The requests: they read, and take up a job.
LEMMA RequestTyped ==
  ASSUME TypeOK, Asking, NEW c \in Clients, Request(c)
  PROVE  TypeOK' /\ Asking'
  <1> DEFINE Kept == UNCHANGED <<rooms, seats, active, sessions, here, sweep, dealt, raced, faulty>>
  <1>0. ActorOf[c] \in Actors /\ me(c) = ActorOf[c] /\ (here[c] # NoRoom => here[c] \in Rooms)
    BY RoomsAssumption DEF me, TypeOK
  <1>1. ASSUME Asks(c), Kept PROVE TypeOK' /\ Asking'
    <2>1. /\ rooms' \in [Rooms -> RoomRow] /\ seats' \in [Rooms -> SUBSET Actors]
          /\ active' \in [Rooms -> SUBSET Match] /\ here' \in [Clients -> Rooms \cup {NoRoom}]
          /\ dealt' \in [Rooms -> 0 .. MaxMatches] /\ raced' \in [Rooms -> BOOLEAN]
          /\ faulty' \subseteq Actors
      BY <1>1 DEF TypeOK, RoomRow
    <2> QED BY <1>1, <2>1, RequestTypes
  <1>2. ASSUME NEW r \in Rooms, CreateRoom(c, r) PROVE TypeOK' /\ Asking'
    <2>1. [rooms[r] EXCEPT !.status = "waiting", !.owner = me(c), !.marked = TRUE] \in RoomRow
      BY <1>0, RowOf, RowTypes
    <2>2. rooms' \in [Rooms -> RoomRow]
      BY <1>2, <2>1, RowOf DEF CreateRoom, TypeOK
    <2>3. /\ seats' \in [Rooms -> SUBSET Actors]
          /\ active' \in [Rooms -> SUBSET Match] /\ here' \in [Clients -> Rooms \cup {NoRoom}]
          /\ dealt' \in [Rooms -> 0 .. MaxMatches] /\ raced' \in [Rooms -> BOOLEAN]
          /\ faulty' \subseteq Actors /\ UNCHANGED <<job, sessions, sweep>>
      BY <1>2 DEF CreateRoom, TypeOK
    <2> QED BY <2>2, <2>3, RequestTypes
  <1>3. ASSUME NEW r \in Rooms, JoinRoom(c, r) PROVE TypeOK' /\ Asking'
    <2>1. CASE here[c] = NoRoom
      BY <1>0, <1>1, <1>3, <2>1, NewJobs, Zenon DEF JoinRoom, goto, Asks
    <2>2. CASE here[c] # NoRoom
      <3>1. About([NoJob EXCEPT !.pc = "remove", !.for = "switch", !.room = here[c], !.other = r,
                                !.victim = me(c)])
        BY <1>0, <2>2, NewJobs
      <3> QED BY <1>1, <1>3, <2>2, <3>1, Zenon DEF JoinRoom, goto, Asks
    <2> QED BY <2>1, <2>2
  <1>4. ASSUME NEW r \in Rooms, StartRoom(c, r) PROVE TypeOK' /\ Asking'
    <2>1. seats[r] \in SUBSET Actors /\ rooms[r].bots \in BotCounts
      BY RowOf DEF TypeOK, RoomRow
    <2>2. About([NoJob EXCEPT !.pc = "start", !.room = r, !.seen = seats[r], !.bots = rooms[r].bots])
      BY <1>0, <2>1, NewJobs
    <2> QED BY <1>1, <1>4, <2>2, Zenon DEF StartRoom, goto, Asks
  <1>5. ASSUME NEW r \in Rooms, LeaveMatch(c, r) PROVE TypeOK' /\ Asking'
    BY <1>0, <1>1, <1>5, NewJobs, Zenon DEF LeaveMatch, goto, Asks
  <1>6. ASSUME NEW r \in Rooms, DeleteRoom(c, r) PROVE TypeOK' /\ Asking'
    <2> DEFINE pc == IF rooms[r].status = "playing" THEN "terminate" ELSE "delete"
    <2>1. About([NoJob EXCEPT !.room = r, !.pc = pc])
      BY <1>0, NewJobs
    <2> QED BY <1>1, <1>6, <2>1, Zenon DEF DeleteRoom, goto, Asks
  <1>7. ASSUME Rejoin(c) PROVE TypeOK' /\ Asking'
    <2>1. here[c] \in Rooms
      BY <1>0, <1>7 DEF Rejoin
    <2>2. {[m EXCEPT !.away = @ \ {me(c)}] : m \in active[here[c]]} \in SUBSET Match
      <3>1. active[here[c]] \in SUBSET Match /\ {me(c)} \in SUBSET Actors
        BY <1>0, <2>1 DEF TypeOK
      <3> QED BY <3>1, AwayTypes, Zenon
    <2>3. active' \in [Rooms -> SUBSET Match]
      BY <1>7, <2>2 DEF Rejoin, Reconnected, TypeOK
    <2>4. /\ rooms' \in [Rooms -> RoomRow] /\ seats' \in [Rooms -> SUBSET Actors]
          /\ here' \in [Clients -> Rooms \cup {NoRoom}]
          /\ dealt' \in [Rooms -> 0 .. MaxMatches] /\ raced' \in [Rooms -> BOOLEAN]
          /\ faulty' \subseteq Actors /\ UNCHANGED <<job, sessions, sweep>>
      BY <1>7 DEF Rejoin, TypeOK, RoomRow
    <2> QED BY <2>3, <2>4, RequestTypes
  <1>8. ASSUME LeaveRoom(c) PROVE TypeOK' /\ Asking'
    <2>1. About([NoJob EXCEPT !.pc = "remove", !.for = "leave", !.room = here[c], !.victim = me(c)])
      BY <1>0, <1>8, NewJobs DEF LeaveRoom
    <2> QED BY <1>1, <1>8, <2>1, Zenon DEF LeaveRoom, goto, Asks
  <1>9. ASSUME NEW r \in Rooms, NEW a \in Actors, KickParticipant(c, r, a) PROVE TypeOK' /\ Asking'
    <2>1. About([NoJob EXCEPT !.pc = "remove", !.for = "kick", !.room = r, !.victim = a])
      BY NewJobs
    <2> QED BY <1>1, <1>9, <2>1, Zenon DEF KickParticipant, goto, Asks
  <1>10. ASSUME NEW r \in Rooms, NEW m \in Limits \cup {0},
                NEW b \in {{n} : n \in BotCounts} \cup {{}}, UpdateRoomSettings(c, r, m, b)
         PROVE  TypeOK' /\ Asking'
    <2> DEFINE newMax == orKept(r, m)
               newBots == IF b = {} THEN rooms[r].bots ELSE CHOOSE n \in b : TRUE
    <2>1. newMax \in Limits /\ newBots \in BotCounts
      BY RowOf DEF orKept, RoomRow
    <2>2. About([NoJob EXCEPT !.pc = "settings", !.room = r, !.max = newMax, !.bots = newBots])
      <3> HIDE DEF newMax, newBots
      <3> QED BY <1>0, <2>1, NewJobs
    <2> QED BY <1>1, <1>10, <2>2, Zenon DEF UpdateRoomSettings, goto, Asks
  <1> QED BY <1>2, <1>3, <1>4, <1>5, <1>6, <1>7, <1>8, <1>9, <1>10, Zenon DEF Request

\* The steps of a request that has been taken up.
LEMMA StepTyped ==
  ASSUME TypeOK, Asking, NEW c \in Clients, Step(c) \/ Fails(c) \/ Disconnect(c)
  PROVE  TypeOK' /\ Asking'
  <1> DEFINE r == job[c].room
             Typed == TypeOK' /\ Asking'
  <1>0. /\ me(c) \in Actors /\ (here[c] # NoRoom => here[c] \in Rooms)
        /\ job[c] \in Job /\ About(job[c]) /\ (job[c].pc # "idle" => r \in Rooms)
    BY RoomsAssumption DEF me, TypeOK, Asking, About
  <1>1. /\ rooms \in [Rooms -> RoomRow] /\ seats \in [Rooms -> SUBSET Actors]
        /\ active \in [Rooms -> SUBSET Match] /\ here \in [Clients -> Rooms \cup {NoRoom}]
        /\ dealt \in [Rooms -> 0 .. MaxMatches] /\ raced \in [Rooms -> BOOLEAN]
        /\ faulty \subseteq Actors
    BY DEF TypeOK, RoomRow
  <1>2. done(c) => Asks(c)
    BY NoJobAbout DEF done, goto, Asks
  <1>3. goto(c, Rollback(c)) => Asks(c)
    BY <1>0, RollbackAbout DEF goto, Asks
  <1>4. {job[c].victim, me(c)} \ {NoActor} \subseteq Actors
    BY <1>0 DEF Job
  <1>5. ASSUME JoinRead(c) PROVE Typed
    <2>1. CASE Exists(r)
      <3>1. rooms[r].bots \in BotCounts /\ job[c].pc # "idle"
        BY <1>0, <1>5, RowOf DEF JoinRead, at, RoomRow
      <3>2. About([job[c] EXCEPT !.pc = "joinTx", !.bots = rooms[r].bots])
        BY <1>0, <3>1, NextJobs
      <3>3. Asks(c)
        BY <1>5, <2>1, <3>2, Zenon DEF JoinRead, goto, Asks
      <3> QED BY <1>1, <1>5, <3>3, RequestTypes DEF JoinRead
    <2>2. CASE ~Exists(r)
      <3>1. Asks(c)
        BY <1>3, <1>5, <2>2, Zenon DEF JoinRead, goto
      <3> QED BY <1>1, <1>5, <3>1, RequestTypes DEF JoinRead
    <2> QED BY <2>1, <2>2
  <1>6. ASSUME JoinTx(c) PROVE Typed
    <2>1. r \in Rooms /\ About([job[c] EXCEPT !.pc = "subscribe"])
      BY <1>0, <1>6, NextJobs DEF JoinTx, at
    <2>2. CASE MayJoin(r, me(c), job[c].bots)
      <3>1. Asks(c)
        BY <1>6, <2>1, <2>2, Zenon DEF JoinTx, goto, Asks
      <3>2. seats' \in [Rooms -> SUBSET Actors] /\ raced' \in [Rooms -> BOOLEAN]
        <4>1. /\ seats' = [seats EXCEPT ![r] = @ \cup {me(c)}]
              /\ raced' = [raced EXCEPT ![r] = FALSE]
          BY <1>6, <2>2, Zenon DEF JoinTx
        <4> HIDE DEF r
        <4> QED BY <1>0, <1>1, <4>1
      <3>3. rooms' \in [Rooms -> RoomRow]
        <4>1. [rooms[r] EXCEPT !.marked = FALSE] \in RoomRow
          BY <2>1, RowOf, RowTypes
        <4> QED BY <1>1, <1>6, <2>2, <4>1 DEF JoinTx
      <3> QED BY <1>1, <1>6, <3>1, <3>2, <3>3, RequestTypes DEF JoinTx
    <2>3. CASE ~MayJoin(r, me(c), job[c].bots)
      <3>1. Asks(c) /\ UNCHANGED <<seats, rooms, raced>>
        BY <1>3, <1>6, <2>3, Zenon DEF JoinTx
      <3> QED BY <1>1, <1>6, <3>1, RequestTypes DEF JoinTx
    <2> QED BY <2>2, <2>3
  <1>7. ASSUME Subscribe(c) PROVE Typed
    <2>1. r \in Rooms /\ About([job[c] EXCEPT !.pc = "remove", !.for = "undo", !.victim = me(c)])
      BY <1>0, <1>7, NextJobs DEF Subscribe, at
    <2>2. CASE /\ here' = [here EXCEPT ![c] = r]
               /\ IF job[c].for = "join" THEN Reconnected(r, me(c)) ELSE UNCHANGED active
               /\ done(c) /\ UNCHANGED faulty
      <3>1. {[m EXCEPT !.away = @ \ {me(c)}] : m \in active[r]} \in SUBSET Match
        <4>1. active[r] \in SUBSET Match /\ {me(c)} \in SUBSET Actors
          BY <1>0, <1>1, <2>1
        <4> QED BY <4>1, AwayTypes, Zenon
      <3>2. active' \in [Rooms -> SUBSET Match] /\ here' \in [Clients -> Rooms \cup {NoRoom}]
        BY <1>1, <2>1, <2>2, <3>1 DEF Reconnected
      <3> QED BY <1>1, <1>2, <1>7, <2>2, <3>2, RequestTypes DEF Subscribe
    <2>3. CASE /\ goto(c, IF job[c].for = "join"
                          THEN [job[c] EXCEPT !.pc = "remove", !.for = "undo", !.victim = me(c)]
                          ELSE NoJob)
               /\ UNCHANGED <<here, active>>
               /\ faulty' = faulty \cup (IF job[c].for = "join" THEN {} ELSE {me(c)})
      <3>1. Asks(c)
        BY <2>1, <2>3, NoJobAbout, Zenon DEF goto, Asks
      <3>2. faulty' \subseteq Actors
        BY <1>0, <1>1, <2>3
      <3> QED BY <1>1, <1>7, <2>3, <3>1, <3>2, RequestTypes DEF Subscribe
    <2> QED BY <1>7, <2>2, <2>3 DEF Subscribe
  <1>8. ASSUME BeginRemoval(c) PROVE Typed
    <2> DEFINE S == seats[r] \ {job[c].victim}
               v == IF job[c].victim \in seats[r] THEN job[c].victim ELSE NoActor
    <2>1. S \in SUBSET Actors /\ v \in Actors \cup {NoActor} /\ job[c].pc # "idle"
      BY <1>0, <1>1, <1>8 DEF BeginRemoval, at, Job
    <2>2. About([job[c] EXCEPT !.pc = "removing", !.seen = S, !.victim = v])
      <3> HIDE DEF S, v
      <3> QED BY <1>0, <2>1, NextJobs
    <2>3. Asks(c)
      BY <1>8, <2>2, Zenon DEF BeginRemoval, goto, Asks
    <2> QED BY <1>1, <1>8, <2>3, RequestTypes DEF BeginRemoval
  <1>9. ASSUME CommitRemoval(c) PROVE Typed
    <2>1. r \in Rooms /\ job[c].pc # "idle"
      BY <1>0, <1>9 DEF CommitRemoval, at
    <2>2. Asks(c)
      BY <1>9, <2>1, AfterRemovalAsks DEF CommitRemoval
    <2>3. rooms' \in [Rooms -> RoomRow]
      <3>1. [rooms[r] EXCEPT !.marked = markedAfter(r, job[c].seen)] \in RoomRow
        BY <2>1, RowOf, RowTypes DEF markedAfter, Exists
      <3> QED BY <1>1, <1>9, <3>1 DEF CommitRemoval
    <2>4. /\ seats' \in [Rooms -> SUBSET Actors] /\ here' \in [Clients -> Rooms \cup {NoRoom}]
      BY <1>1, <1>9 DEF CommitRemoval
    <2>5. raced' \in [Rooms -> BOOLEAN]
      BY <1>1, <1>9 DEF CommitRemoval
    <2> QED BY <1>1, <1>9, <2>2, <2>3, <2>4, <2>5, RequestTypes DEF CommitRemoval
  <1>10. ASSUME SettingsTx(c) PROVE Typed
    <2>1. [rooms[r] EXCEPT !.max = job[c].max, !.bots = job[c].bots] \in RoomRow
      BY <1>0, <1>10, RowOf, RowTypes DEF SettingsTx, at, Job
    <2>2. rooms' \in [Rooms -> RoomRow]
      BY <1>1, <1>10, <2>1 DEF SettingsTx
    <2> QED BY <1>1, <1>2, <1>10, <2>2, RequestTypes DEF SettingsTx
  <1>11. ASSUME StartTx(c) PROVE Typed
    <2>1. CASE MayStart(r, job[c].seen, job[c].bots)
      <3> DEFINE m == [no |-> dealt'[r], humans |-> job[c].seen, bots |-> job[c].bots, away |-> {}]
      <3>1. r \in Rooms
        BY <1>0, <1>11 DEF StartTx, at
      <3>2. /\ dealt[r] < MaxMatches /\ dealt' = [dealt EXCEPT ![r] = @ + 1]
            /\ active' = [active EXCEPT ![r] = @ \cup {m}]
            /\ rooms' = [rooms EXCEPT ![r].status = "playing"]
            /\ raced' = [raced EXCEPT ![r] = @ \/ Sweeping(r) # {}]
        BY <1>11, <2>1, Zenon DEF StartTx
      <3>3. dealt' \in [Rooms -> 0 .. MaxMatches] /\ dealt'[r] \in 1 .. MaxMatches
        BY <1>1, <3>1, <3>2, RoomsAssumption
      <3>4. m \in Match
        BY <1>0, <3>3 DEF Match, Job
      <3>5. active' \in [Rooms -> SUBSET Match]
        <4> HIDE DEF m
        <4> QED BY <1>1, <3>2, <3>4
      <3>6. rooms' \in [Rooms -> RoomRow]
        <4>1. [rooms[r] EXCEPT !.status = "playing"] \in RoomRow
          BY <3>1, RowOf, RowTypes DEF Statuses
        <4> QED BY <1>1, <3>2, <4>1
      <3>7. raced' \in [Rooms -> BOOLEAN]
        BY <1>1, <3>2
      <3> QED BY <1>1, <1>2, <1>11, <3>3, <3>5, <3>6, <3>7, RequestTypes DEF StartTx
    <2>2. CASE ~MayStart(r, job[c].seen, job[c].bots)
      <3>1. UNCHANGED <<rooms, active, dealt, raced>>
        BY <1>11, <2>2, Zenon DEF StartTx
      <3> QED BY <1>1, <1>2, <1>11, <3>1, RequestTypes DEF StartTx
    <2> QED BY <2>1, <2>2
  <1>12. ASSUME FinishTx(c) PROVE Typed
    <2>1. /\ rooms' \in [Rooms -> RoomRow] /\ seats' \in [Rooms -> SUBSET Actors]
          /\ active' \in [Rooms -> SUBSET Match]
      BY <1>0, <1>12, TriedTypes DEF FinishTx, at
    <2> QED BY <1>1, <1>2, <1>12, <2>1, RequestTypes DEF FinishTx
  <1>13. ASSUME TerminateTx(c) PROVE Typed
    <2>1. /\ rooms' \in [Rooms -> RoomRow] /\ seats' \in [Rooms -> SUBSET Actors]
          /\ active' \in [Rooms -> SUBSET Match]
      BY <1>0, <1>13, TriedTypes DEF TerminateTx, at
    <2>2. Asks(c)
      BY <1>0, <1>13, NextJobs DEF TerminateTx, at, goto, Asks
    <2> QED BY <1>1, <1>13, <2>1, <2>2, RequestTypes DEF TerminateTx
  <1>14. ASSUME DeleteTx(c) PROVE Typed
    <2>1. /\ rooms' \in [Rooms -> RoomRow] /\ seats' \in [Rooms -> SUBSET Actors]
          /\ active' \in [Rooms -> SUBSET Match]
      BY <1>0, <1>14, TriedTypes DEF DeleteTx, at
    <2> QED BY <1>1, <1>2, <1>14, <2>1, RequestTypes DEF DeleteTx
  <1>15. ASSUME Fails(c) PROVE Typed
    <2>1. job[c].pc # "idle"
      BY <1>15 DEF Fails
    <2>2. About([job[c] EXCEPT !.pc = "delete"])
      BY <1>0, <2>1, NextJobs
    <2>3. \/ AfterRemoval(c, FALSE) \/ goto(c, Rollback(c))
          \/ goto(c, [job[c] EXCEPT !.pc = "delete"]) \/ done(c)
      BY <1>15, Zenon DEF Fails
    <2>4. Asks(c)
      BY <1>2, <1>3, <2>1, <2>2, <2>3, AfterRemovalAsks DEF goto, Asks
    <2>5. faulty' \subseteq Actors
      BY <1>0, <1>1, <1>15 DEF Fails
    <2> QED BY <1>1, <1>15, <2>4, <2>5, RequestTypes DEF Fails
  <1>16. ASSUME Disconnect(c) PROVE Typed
    <2> DEFINE q == here[c]
    <2>1. active' \in [Rooms -> SUBSET Match]
      <3>1. CASE /\ q # NoRoom
                 /\ active' = [active EXCEPT ![q] =
                      {[m EXCEPT !.away = @ \cup ({me(c)} \cap m.humans)] : m \in @}]
        <4>1. active[q] \in SUBSET Match /\ {me(c)} \in SUBSET Actors
          BY <1>0, <1>1, <3>1
        <4>2. {[m EXCEPT !.away = @ \cup ({me(c)} \cap m.humans)] : m \in active[q]} \in SUBSET Match
          BY <4>1, AwayTypes, Zenon
        <4> QED BY <1>1, <3>1, <4>2
      <3>2. CASE UNCHANGED active
        BY <1>1, <3>2
      <3> QED BY <1>16, <3>1, <3>2, Zenon DEF Disconnect
    <2>2. here' \in [Clients -> Rooms \cup {NoRoom}] /\ faulty' \subseteq Actors
      BY <1>0, <1>1, <1>16 DEF Disconnect
    <2> QED BY <1>1, <1>2, <1>16, <2>1, <2>2, RequestTypes DEF Disconnect
  <1> QED BY <1>5, <1>6, <1>7, <1>8, <1>9, <1>10, <1>11, <1>12, <1>13, <1>14, <1>15, <1>16,
             Zenon DEF Step

LEMMA SweepTyped ==
  ASSUME TypeOK, Asking, NEW j \in Sweepers, Sweep(j)
  PROVE  TypeOK' /\ Asking'
  <1> DEFINE Typed == TypeOK' /\ Asking'
             Rest == /\ rooms' \in [Rooms -> RoomRow] /\ seats' \in [Rooms -> SUBSET Actors]
                     /\ active' \in [Rooms -> SUBSET Match] /\ sessions' \subseteq Guests
                     /\ raced' \in [Rooms -> BOOLEAN] /\ UNCHANGED <<here, job, dealt, faulty>>
  <1>1. /\ rooms \in [Rooms -> RoomRow] /\ seats \in [Rooms -> SUBSET Actors]
        /\ active \in [Rooms -> SUBSET Match] /\ sessions \subseteq Guests
        /\ raced \in [Rooms -> BOOLEAN] /\ sweep \in [Sweepers -> Pass] /\ sweep[j] \in Pass
    BY DEF TypeOK, RoomRow, Pass
  <1>2. ASSUME NEW p \in Pass, sweep' = [sweep EXCEPT ![j] = p], Rest PROVE Typed
    <2>1. sweep' \in [Sweepers -> Pass]
      BY <1>1, <1>2
    <2> QED BY <1>2, <2>1 DEF TypeOK, Asking, RoomRow, Pass
  <1>3. NoSweep \in Pass /\ [NoSweep EXCEPT !.pc = "timeouts"] \in Pass
    BY DEF NoSweep, Pass
  <1>4. ASSUME NEW S \in SUBSET Rooms
        PROVE  /\ [NoSweep EXCEPT !.pc = "ending", !.list = S] \in Pass
               /\ [NoSweep EXCEPT !.pc = "deleting", !.list = S] \in Pass
               /\ [sweep[j] EXCEPT !.list = S] \in Pass
    BY <1>1 DEF NoSweep, Pass
  <1>5. ASSUME NEW G, NEW tick \in BOOLEAN, DeleteGuests(j, G, tick), sessions' \subseteq Guests
        PROVE  Typed
    <2> DEFINE gone == [r \in Rooms |-> IF rooms[r].status = "waiting" THEN seats[r] \cap G ELSE {}]
               view == [r \in Rooms |-> IF gone[r] = {} THEN {} ELSE seats[r] \ gone[r]]
               p == [NoSweep EXCEPT !.pc = "guests", !.gone = gone, !.tick = tick, !.view = view]
    <2>1. gone \in [Rooms -> SUBSET Actors] /\ view \in [Rooms -> SUBSET Actors]
      BY <1>1
    <2>2. p \in Pass
      <3> HIDE DEF gone, view
      <3> QED BY <2>1 DEF NoSweep, Pass
    <2>3. sweep' = [sweep EXCEPT ![j] = p] /\ UNCHANGED <<rooms, seats, active, here, job, dealt, raced, faulty>>
      BY <1>5, Zenon DEF DeleteGuests
    <2> HIDE DEF p
    <2> QED BY <1>1, <1>2, <1>5, <2>2, <2>3
  <1>6. CleanupExpired(j) => Typed
    BY <1>1, <1>5 DEF CleanupExpired
  <1>7. ASSUME NEW g \in Guests, DeleteGuestSession(j, g) PROVE Typed
    BY <1>1, <1>5, <1>7 DEF DeleteGuestSession
  <1>8. ASSUME CommitGuests(j) PROVE Typed
    <2>1. rooms' \in [Rooms -> RoomRow]
      <3>1. \A r \in Rooms : [rooms[r] EXCEPT !.marked = (sweep[j].view[r] = {})] \in RoomRow
        BY RowOf, RowTypes
      <3> QED BY <1>1, <1>8, <3>1 DEF CommitGuests
    <2>2. seats' \in [Rooms -> SUBSET Actors]
      BY <1>1, <1>8 DEF CommitGuests
    <2>3. raced' \in [Rooms -> BOOLEAN]
      BY <1>1, <1>8 DEF CommitGuests
    <2>4. PICK p \in Pass : sweep' = [sweep EXCEPT ![j] = p]
      BY <1>1, <1>3, <1>8 DEF CommitGuests
    <2> QED BY <1>1, <1>2, <1>8, <2>1, <2>2, <2>3, <2>4 DEF CommitGuests
  <1>9. ASSUME FindTimeouts(j) PROVE Typed
    BY <1>1, <1>2, <1>4, <1>9 DEF FindTimeouts
  <1>10. ASSUME FindStale(j) PROVE Typed
    BY <1>1, <1>2, <1>3, <1>4, <1>10 DEF FindStale
  <1>11. ASSUME NEW r \in Rooms, EndTimedOut(j, r) \/ DeleteStale(j, r) PROVE Typed
    <2>1. /\ rooms' \in [Rooms -> RoomRow] /\ seats' \in [Rooms -> SUBSET Actors]
          /\ active' \in [Rooms -> SUBSET Match]
      BY <1>11, TriedTypes DEF EndTimedOut, DeleteStale
    <2>2. sweep[j].list \ {r} \in SUBSET Rooms
      BY <1>1 DEF Pass
    <2> DEFINE listed == [sweep[j] EXCEPT !.list = sweep[j].list \ {r}]
               ended == IF Exists(r) THEN listed ELSE NoSweep
               deleted == IF sweep[j].list = {r} THEN NoSweep ELSE listed
    <2>3. ended \in Pass /\ deleted \in Pass
      BY <1>3, <1>4, <2>2
    <2>4. sweep' = [sweep EXCEPT ![j] = ended] \/ sweep' = [sweep EXCEPT ![j] = deleted]
      <3>1. CASE EndTimedOut(j, r)
        BY <3>1, Zenon DEF EndTimedOut
      <3>2. CASE DeleteStale(j, r)
        BY <3>2, Zenon DEF DeleteStale
      <3> QED BY <1>11, <3>1, <3>2
    <2> HIDE DEF ended, deleted
    <2>5. PICK p \in Pass : sweep' = [sweep EXCEPT ![j] = p]
      BY <2>3, <2>4
    <2> QED BY <1>1, <1>2, <1>11, <2>1, <2>5 DEF EndTimedOut, DeleteStale
  <1>12. ASSUME SweepFails(j) PROVE Typed
    BY <1>1, <1>2, <1>3, <1>12 DEF SweepFails
  <1> QED BY <1>6, <1>7, <1>8, <1>9, <1>10, <1>11, <1>12 DEF Sweep

LEMMA NextTyped == TypeOK /\ Asking /\ [Next]_vars => TypeOK' /\ Asking'
  <1> SUFFICES ASSUME TypeOK, Asking, [Next]_vars PROVE TypeOK' /\ Asking'
    OBVIOUS
  <1>1. ASSUME NEW c \in Clients, Request(c) \/ Step(c) \/ Fails(c) \/ Disconnect(c)
        PROVE  TypeOK' /\ Asking'
    BY <1>1, RequestTyped, StepTyped
  <1>2. ASSUME NEW r \in Rooms, CompleteMatch(r) PROVE TypeOK' /\ Asking'
    <2>1. rooms' \in [Rooms -> RoomRow] /\ active' \in [Rooms -> SUBSET Match]
      BY <1>2, TerminateTypes DEF CompleteMatch
    <2> QED BY <1>2, <2>1 DEF CompleteMatch, TypeOK, Asking, RoomRow
  <1>3. ASSUME NEW g \in Guests, ExpireSession(g) PROVE TypeOK' /\ Asking'
    BY <1>3 DEF ExpireSession, TypeOK, Asking
  <1>4. ASSUME UNCHANGED vars PROVE TypeOK' /\ Asking'
    BY <1>4 DEF vars, TypeOK, Asking
  <1> QED BY <1>1, <1>2, <1>3, <1>4, SweepTyped DEF Next

\* Every row, connection and request in progress keeps the shape the tables and the
\* handlers give it, whichever requests overlap.
THEOREM TypesCorrect == Spec => []TypeOK
  BY InitTypes, NextTyped, PTL DEF Spec

-----------------------------------------------------------------------------
(* What a step does to a room *)

\* The same matches, with other absences perhaps.
Kept(r) ==
  /\ \A m \in active'[r] : \E n \in active[r] : m.humans = n.humans /\ m.bots = n.bots
  /\ \A n \in active[r] : \E m \in active'[r] : m.humans = n.humans /\ m.bots = n.bots
  /\ (\A m, n \in active[r] : m = n) => \A m, n \in active'[r] : m = n

Phase(r, from, to) == rooms[r].status = from /\ rooms'[r].status = to
Places(r) == rooms'[r].max = rooms[r].max

\* Nothing happens to it, but that people may leave or be marked absent.
Quiet(r) ==
  /\ rooms'[r].status = rooms[r].status /\ Places(r)
  /\ seats'[r] \subseteq seats[r] /\ Kept(r)

Opened(r) ==
  Phase(r, "unborn", "waiting") /\ Places(r) /\ seats'[r] = seats[r] /\ active'[r] = active[r]

Seated(r) ==
  /\ rooms'[r].status = rooms[r].status /\ Places(r) /\ active'[r] = active[r]
  /\ \E a \in Actors :
       /\ seats'[r] = seats[r] \cup {a}
       /\ a \in seats[r] \/ \E b \in Nat : Cardinality(seats[r]) + b < rooms[r].max

Resized(r) ==
  /\ Phase(r, "waiting", "waiting") /\ seats'[r] = seats[r] /\ active'[r] = active[r]
  /\ \E b \in Nat : Cardinality(seats[r]) + b <= rooms'[r].max

Dealt(r) ==
  /\ Phase(r, "waiting", "playing") /\ Places(r) /\ seats'[r] = seats[r] /\ seats[r] # {}
  /\ \E m \in Match :
       /\ active'[r] = active[r] \cup {m} /\ m.humans = seats[r]
       /\ 2 <= Cardinality(m.humans) + m.bots /\ Cardinality(m.humans) + m.bots <= rooms[r].max

Ended(r) ==
  /\ active[r] # {} /\ active'[r] = active[r] \ {newest(r)}
  /\ rooms'[r].status = "waiting" /\ Places(r) /\ seats'[r] = seats[r]

Dropped(r) ==
  Phase(r, "waiting", "closed") /\ Places(r) /\ seats'[r] = {} /\ active'[r] = {}

Changed(r) == Opened(r) \/ Seated(r) \/ Resized(r) \/ Dealt(r) \/ Ended(r) \/ Dropped(r)

\* A step changes one room at most.
OneRoom ==
  \/ \A q \in Rooms : Quiet(q)
  \/ \E r \in Rooms : Changed(r) /\ \A q \in Rooms \ {r} : Quiet(q)

LEMMA QuietWhenKept ==
  ASSUME UNCHANGED <<rooms, seats, active>>
  PROVE  OneRoom
  BY DEF OneRoom, Quiet, Places, Kept

LEMMA QuietSeats ==
  ASSUME NEW q, rooms'[q] = rooms[q], seats'[q] = seats[q], active'[q] = active[q]
  PROVE  Quiet(q)
  BY DEF Quiet, Places, Kept

LEMMA EndedOneRoom ==
  ASSUME TypeOK, NEW r \in Rooms, active[r] # {}, TerminateActiveMatch(r), UNCHANGED seats
  PROVE  OneRoom
  <1>1. rooms[r] \in RoomRow
    BY RowOf
  <1>2. /\ rooms' = [rooms EXCEPT ![r].status = "waiting"]
        /\ active' = [active EXCEPT ![r] = @ \ {newest(r)}]
    BY DEF TerminateActiveMatch
  <1>3. \A q \in Rooms \ {r} : rooms'[q] = rooms[q] /\ active'[q] = active[q]
    BY <1>2 DEF TypeOK
  <1>4. rooms'[r].status = "waiting" /\ rooms'[r].max = rooms[r].max
    BY <1>1, <1>2 DEF TypeOK, RoomRow
  <1>5. active'[r] = active[r] \ {newest(r)}
    BY <1>2 DEF TypeOK
  <1> QED BY <1>3, <1>4, <1>5, QuietSeats DEF OneRoom, Changed, Ended, Places

LEMMA DroppedOneRoom ==
  ASSUME TypeOK, NEW r \in Rooms, Deletable(r), DropRoom(r)
  PROVE  OneRoom
  <1>1. rooms[r] \in RoomRow
    BY RowOf
  <1>2. /\ rooms' = [rooms EXCEPT ![r].status = "closed"]
        /\ seats' = [seats EXCEPT ![r] = {}] /\ active' = [active EXCEPT ![r] = {}]
    BY DEF DropRoom
  <1>3. \A q \in Rooms \ {r} : rooms'[q] = rooms[q] /\ seats'[q] = seats[q] /\ active'[q] = active[q]
    BY <1>2 DEF TypeOK
  <1>4. /\ rooms'[r].status = "closed" /\ rooms'[r].max = rooms[r].max
        /\ seats'[r] = {} /\ active'[r] = {}
    BY <1>1, <1>2 DEF TypeOK, RoomRow
  <1>5. Dropped(r)
    BY <1>4 DEF Dropped, Phase, Places, Deletable
  <1> QED BY <1>3, <1>5, QuietSeats DEF OneRoom, Changed

\* The types of the tables, for the provers.
LEMMA Tables ==
  ASSUME TypeOK
  PROVE  /\ rooms \in [Rooms -> RoomRow] /\ seats \in [Rooms -> SUBSET Actors]
         /\ active \in [Rooms -> SUBSET Match]
  BY DEF TypeOK, RoomRow

LEMMA MarkedQuiet ==
  ASSUME TypeOK,
         \A q \in Rooms : \/ rooms'[q] = rooms[q]
                          \/ \E b : rooms'[q] = [rooms[q] EXCEPT !.marked = b],
         \A q \in Rooms : seats'[q] \subseteq seats[q], UNCHANGED active
  PROVE  OneRoom
  <1>1. \A q \in Rooms : rooms'[q].status = rooms[q].status /\ rooms'[q].max = rooms[q].max
    BY RowOf DEF RoomRow
  <1> QED BY <1>1 DEF OneRoom, Quiet, Places, Kept

\* Absences do not count.
LEMMA BackOneRoom ==
  ASSUME TypeOK, NEW r \in Rooms, NEW a,
         active' = [active EXCEPT ![r] = {[m EXCEPT !.away = @ \ {a}] : m \in @}],
         UNCHANGED <<rooms, seats>>
  PROVE  OneRoom
  <1> DEFINE marked(m) == [m EXCEPT !.away = @ \ {a}]
  <1>1. active[r] \in SUBSET Match /\ active'[r] = {marked(m) : m \in active[r]}
    BY Tables
  <1>2. \A m \in active[r] : marked(m).humans = m.humans /\ marked(m).bots = m.bots
    BY <1>1 DEF Match
  <1>3. \A q \in Rooms \ {r} : active'[q] = active[q]
    BY Tables
  <1> HIDE DEF marked
  <1>4. Kept(r)
    BY <1>1, <1>2 DEF Kept
  <1> QED BY <1>3, <1>4, QuietSeats DEF OneRoom, Quiet, Places

Without(r, a) == {[m EXCEPT !.away = @ \cup ({a} \cap m.humans)] : m \in active[r]}

LEMMA AwayOneRoom ==
  ASSUME TypeOK, NEW r \in Rooms, NEW a,
         active' = [active EXCEPT ![r] = Without(r, a)],
         UNCHANGED <<rooms, seats>>
  PROVE  OneRoom
  <1> DEFINE marked(m) == [m EXCEPT !.away = @ \cup ({a} \cap m.humans)]
  <1>1. active[r] \in SUBSET Match /\ active'[r] = {marked(m) : m \in active[r]}
    BY Tables DEF Without
  <1>2. \A m \in active[r] : marked(m).humans = m.humans /\ marked(m).bots = m.bots
    BY <1>1 DEF Match
  <1>3. \A q \in Rooms \ {r} : active'[q] = active[q]
    BY Tables
  <1> HIDE DEF marked
  <1>4. Kept(r)
    BY <1>1, <1>2 DEF Kept
  <1> QED BY <1>3, <1>4, QuietSeats DEF OneRoom, Quiet, Places

\* No request and no step of one changes two rooms.
LEMMA ClientOneRoom ==
  ASSUME TypeOK, Asking, NEW c \in Clients, Request(c) \/ Step(c) \/ Fails(c) \/ Disconnect(c)
  PROVE  OneRoom
  <1> DEFINE r == job[c].room
  <1>1. /\ rooms \in [Rooms -> RoomRow] /\ seats \in [Rooms -> SUBSET Actors]
        /\ active \in [Rooms -> SUBSET Match]
    BY Tables
  <1>2. job[c] \in Job /\ (job[c].pc # "idle" => r \in Rooms) /\ here[c] \in Rooms \cup {NoRoom}
    BY DEF Asking, About, TypeOK
  <1>3. me(c) \in Actors
    BY RoomsAssumption DEF me
  <1>4. ASSUME Request(c) PROVE OneRoom
    <2>1. ASSUME NEW q \in Rooms, CreateRoom(c, q) PROVE OneRoom
      <3>1. /\ rooms[q].status = "unborn" /\ UNCHANGED <<seats, active>>
            /\ rooms' = [rooms EXCEPT ![q] = [rooms[q] EXCEPT !.status = "waiting",
                                                             !.owner = me(c), !.marked = TRUE]]
        BY <2>1 DEF CreateRoom
      <3>2. rooms[q] \in RoomRow
        BY <1>1
      <3>3. rooms'[q].status = "waiting" /\ rooms'[q].max = rooms[q].max
        BY <1>1, <3>1, <3>2 DEF RoomRow
      <3>4. Opened(q)
        BY <3>1, <3>3 DEF Opened, Phase, Places
      <3>5. \A p \in Rooms \ {q} : rooms'[p] = rooms[p]
        BY <1>1, <3>1
      <3> QED BY <3>1, <3>4, <3>5, QuietSeats DEF OneRoom, Changed
    <2>2. ASSUME Rejoin(c) PROVE OneRoom
      <3>1. here[c] \in Rooms
        BY <1>2, <2>2 DEF Rejoin
      <3> QED BY <2>2, <3>1, BackOneRoom DEF Rejoin, Reconnected
    <2>3. CASE UNCHANGED <<rooms, seats, active>>
      BY <2>3, QuietWhenKept
    <2> QED BY <1>4, <2>1, <2>2, <2>3
         DEF Request, JoinRoom, StartRoom, LeaveMatch, DeleteRoom, LeaveRoom, KickParticipant,
             UpdateRoomSettings
  <1>5. ASSUME JoinTx(c) PROVE OneRoom
    <2>1. CASE MayJoin(r, me(c), job[c].bots)
      <3>1. /\ seats' = [seats EXCEPT ![r] = @ \cup {me(c)}] /\ UNCHANGED active
            /\ rooms' = [rooms EXCEPT ![r] = [rooms[r] EXCEPT !.marked = FALSE]]
        BY <1>5, <2>1 DEF JoinTx
      <3>2. r \in Rooms /\ rooms[r] \in RoomRow
        BY <1>1, <1>2, <1>5 DEF JoinTx, at
      <3>3. rooms'[r].status = rooms[r].status /\ rooms'[r].max = rooms[r].max
        BY <1>1, <3>1, <3>2 DEF RoomRow
      <3>4. job[c].bots \in Nat
        BY <1>2, RoomsAssumption DEF Job
      <3>5. me(c) \in seats[r] \/ Cardinality(seats[r]) + job[c].bots < rooms[r].max
        BY <2>1 DEF MayJoin
      <3>6. seats'[r] = seats[r] \cup {me(c)}
        BY <1>1, <3>1, <3>2
      <3>7. Seated(r)
        BY <1>3, <3>1, <3>3, <3>4, <3>5, <3>6 DEF Seated, Places
      <3>8. \A q \in Rooms \ {r} : rooms'[q] = rooms[q] /\ seats'[q] = seats[q]
        BY <1>1, <3>1
      <3> QED BY <3>1, <3>2, <3>7, <3>8, QuietSeats DEF OneRoom, Changed
    <2>2. CASE ~MayJoin(r, me(c), job[c].bots)
      BY <1>5, <2>2, QuietWhenKept DEF JoinTx
    <2> QED BY <2>1, <2>2
  <1>6. ASSUME Subscribe(c) PROVE OneRoom
    <2>1. r \in Rooms
      BY <1>2, <1>6 DEF Subscribe, at
    <2>2. UNCHANGED <<rooms, seats>> /\ (Reconnected(r, me(c)) \/ UNCHANGED active)
      BY <1>6 DEF Subscribe
    <2> QED BY <2>1, <2>2, BackOneRoom, QuietWhenKept DEF Reconnected
  <1>7. ASSUME CommitRemoval(c) PROVE OneRoom
    <2>1. r \in Rooms
      BY <1>2, <1>7 DEF CommitRemoval, at
    <2>2. /\ seats' = [seats EXCEPT ![r] = @ \ {job[c].victim}] /\ UNCHANGED active
          /\ rooms' = [rooms EXCEPT ![r] = [rooms[r] EXCEPT !.marked = markedAfter(r, job[c].seen)]]
      BY <1>7 DEF CommitRemoval
    <2>3. \A q \in Rooms : seats'[q] \subseteq seats[q]
      BY <1>1, <2>2
    <2>4. \A q \in Rooms : \/ rooms'[q] = rooms[q]
                           \/ \E b : rooms'[q] = [rooms[q] EXCEPT !.marked = b]
      BY <1>1, <2>2
    <2> QED BY <2>2, <2>3, <2>4, MarkedQuiet
  <1>8. ASSUME SettingsTx(c) PROVE OneRoom
    <2>1. CASE MayUpdate(r, job[c].max, job[c].bots)
      <3>1. /\ UNCHANGED <<seats, active>>
            /\ rooms' = [rooms EXCEPT ![r] = [rooms[r] EXCEPT !.max = job[c].max, !.bots = job[c].bots]]
        BY <1>8, <2>1 DEF SettingsTx
      <3>2. r \in Rooms /\ rooms[r] \in RoomRow
        BY <1>1, <1>2, <1>8 DEF SettingsTx, at
      <3>3. rooms'[r].status = rooms[r].status /\ rooms'[r].max = job[c].max
        BY <1>1, <3>1, <3>2 DEF RoomRow
      <3>4. job[c].bots \in Nat
        BY <1>2, RoomsAssumption DEF Job
      <3>5. Resized(r)
        BY <2>1, <3>1, <3>3, <3>4 DEF Resized, Phase, MayUpdate
      <3>6. \A q \in Rooms \ {r} : rooms'[q] = rooms[q]
        BY <1>1, <3>1
      <3> QED BY <3>1, <3>2, <3>5, <3>6, QuietSeats DEF OneRoom, Changed
    <2>2. CASE ~MayUpdate(r, job[c].max, job[c].bots)
      BY <1>8, <2>2, QuietWhenKept DEF SettingsTx
    <2> QED BY <2>1, <2>2
  <1>9. ASSUME StartTx(c) PROVE OneRoom
    <2>1. CASE MayStart(r, job[c].seen, job[c].bots)
      <3> DEFINE m == [no |-> dealt[r] + 1, humans |-> job[c].seen, bots |-> job[c].bots, away |-> {}]
      <3>1. r \in Rooms /\ rooms[r] \in RoomRow
        BY <1>1, <1>2, <1>9 DEF StartTx, at
      <3>2. dealt[r] \in 0 .. MaxMatches /\ dealt[r] < MaxMatches /\ dealt'[r] = dealt[r] + 1
        BY <1>9, <2>1, <3>1 DEF StartTx, TypeOK
      <3>3. UNCHANGED seats /\ active' = [active EXCEPT ![r] = @ \cup {m}]
        BY <1>9, <2>1, <3>2, Zenon DEF StartTx
      <3>4. rooms' = [rooms EXCEPT ![r] = [rooms[r] EXCEPT !.status = "playing"]]
        BY <1>9, <2>1 DEF StartTx
      <3>5. m \in Match
        BY <1>2, <3>2, RoomsAssumption DEF Match, Job
      <3>6. /\ m.humans = seats[r] /\ seats[r] # {} /\ rooms[r].status = "waiting"
            /\ Cardinality(m.humans) + m.bots >= 2 /\ Cardinality(m.humans) + m.bots <= rooms[r].max
        BY <2>1 DEF MayStart
      <3>7. rooms'[r].status = "playing" /\ rooms'[r].max = rooms[r].max
        BY <1>1, <3>1, <3>4 DEF RoomRow
      <3> HIDE DEF m
      <3>8. active'[r] = active[r] \cup {m}
        BY <1>1, <3>1, <3>3
      <3>9. \A q \in Rooms \ {r} : rooms'[q] = rooms[q] /\ active'[q] = active[q]
        BY <1>1, <3>3, <3>4
      <3>10. Dealt(r)
        BY <3>3, <3>5, <3>6, <3>7, <3>8 DEF Dealt, Phase, Places
      <3> QED BY <3>1, <3>3, <3>9, <3>10, QuietSeats DEF OneRoom, Changed
    <2>2. CASE ~MayStart(r, job[c].seen, job[c].bots)
      BY <1>9, <2>2, QuietWhenKept DEF StartTx
    <2> QED BY <2>1, <2>2
  <1>10. ASSUME FinishTx(c) \/ TerminateTx(c) PROVE OneRoom
    BY <1>2, <1>10, EndedOneRoom, QuietWhenKept DEF FinishTx, TerminateTx, at
  <1>11. ASSUME DeleteTx(c) PROVE OneRoom
    BY <1>2, <1>11, DroppedOneRoom, QuietWhenKept DEF DeleteTx, at
  <1>12. ASSUME Disconnect(c) PROVE OneRoom
    <2>1. UNCHANGED <<rooms, seats>>
      BY <1>12 DEF Disconnect
    <2>2. CASE /\ here[c] # NoRoom
               /\ active' = [active EXCEPT ![here[c]] =
                    {[m EXCEPT !.away = @ \cup ({me(c)} \cap m.humans)] : m \in @}]
      <3>1. here[c] \in Rooms
        BY <1>2, <2>2
      <3>2. active' = [active EXCEPT ![here[c]] = Without(here[c], me(c))]
        BY <2>2 DEF Without
      <3> QED BY <2>1, <3>1, <3>2, AwayOneRoom
    <2>3. CASE UNCHANGED active
      BY <2>1, <2>3, QuietWhenKept
    <2> QED BY <1>12, <2>2, <2>3 DEF Disconnect
  <1>13. ASSUME Fails(c) \/ JoinRead(c) \/ BeginRemoval(c) PROVE OneRoom
    BY <1>13, QuietWhenKept DEF Fails, JoinRead, BeginRemoval
  <1> QED BY <1>4, <1>5, <1>6, <1>7, <1>8, <1>9, <1>10, <1>11, <1>12, <1>13 DEF Step

LEMMA SweepOneRoom ==
  ASSUME TypeOK, NEW j \in Sweepers, Sweep(j)
  PROVE  OneRoom
  <1>1. ASSUME CommitGuests(j) PROVE OneRoom
    <2>1. \A q \in Rooms : \/ rooms'[q] = rooms[q]
                           \/ \E b : rooms'[q] = [rooms[q] EXCEPT !.marked = b]
      BY <1>1 DEF CommitGuests
    <2>2. UNCHANGED active /\ \A q \in Rooms : seats'[q] \subseteq seats[q]
      BY <1>1 DEF CommitGuests
    <2> QED BY <2>1, <2>2, MarkedQuiet
  <1>2. ASSUME NEW r \in Rooms, EndTimedOut(j, r) PROVE OneRoom
    BY <1>2, EndedOneRoom, QuietWhenKept DEF EndTimedOut
  <1>3. ASSUME NEW r \in Rooms, DeleteStale(j, r) PROVE OneRoom
    BY <1>3, DroppedOneRoom, QuietWhenKept DEF DeleteStale
  <1>4. CASE UNCHANGED <<rooms, seats, active>>
    BY <1>4, QuietWhenKept
  <1> QED BY <1>1, <1>2, <1>3, <1>4
       DEF Sweep, CleanupExpired, DeleteGuestSession, DeleteGuests, FindTimeouts, FindStale, SweepFails

LEMMA NextOneRoom == TypeOK /\ Asking /\ [Next]_vars => OneRoom
  <1> SUFFICES ASSUME TypeOK, Asking, [Next]_vars PROVE OneRoom
    OBVIOUS
  <1>1. ASSUME NEW r \in Rooms, CompleteMatch(r) PROVE OneRoom
    BY <1>1, EndedOneRoom DEF CompleteMatch
  <1>2. ASSUME NEW g \in Guests, ExpireSession(g) PROVE OneRoom
    BY <1>2, QuietWhenKept DEF ExpireSession
  <1>3. ASSUME UNCHANGED vars PROVE OneRoom
    BY <1>3, QuietWhenKept DEF vars
  <1> QED BY <1>1, <1>2, <1>3, ClientOneRoom, SweepOneRoom DEF Next

-----------------------------------------------------------------------------
(* The people and the matches of a room *)

LEMMA QuietSound ==
  ASSUME TypeOK, TypeOK', NEW r \in Rooms, RoomSound(r), Quiet(r)
  PROVE  RoomSound(r)'
  <1>1. /\ IsFiniteSet(seats'[r]) /\ Cardinality(seats'[r]) \in Nat
        /\ Cardinality(seats[r]) \in Nat /\ Cardinality(seats'[r]) <= Cardinality(seats[r])
    BY FS_Subset, FS_CardinalityType DEF RoomSound, Quiet
  <1>2. rooms[r].max \in Nat /\ rooms'[r].max = rooms[r].max
    BY RowOf, RoomsAssumption DEF RoomRow, Quiet, Places
  <1>3. Cardinality(seats'[r]) <= rooms'[r].max
    BY <1>1, <1>2 DEF RoomSound
  <1>4. rooms'[r].status # "playing" => active'[r] = {}
    BY DEF RoomSound, Quiet, Kept
  <1>5. \A m, n \in active'[r] : m = n
    BY DEF RoomSound, Quiet, Kept
  <1>6. \A m \in active'[r] : /\ m.humans # {} /\ IsFiniteSet(m.humans)
                              /\ Cardinality(m.humans) + m.bots \in 2 .. rooms'[r].max
    BY <1>2 DEF RoomSound, Quiet, Kept
  <1> QED BY <1>1, <1>3, <1>4, <1>5, <1>6 DEF RoomSound

\* The match that ends is the only one.
LEMMA NewestIsTheMatch ==
  ASSUME TypeOK, NEW r \in Rooms, RoomSound(r), active[r] # {}
  PROVE  active[r] \ {newest(r)} = {}
  <1>1. active[r] \in SUBSET Match
    BY Tables
  <1>2. PICK x \in active[r] : TRUE
    OBVIOUS
  <1>3. \A n \in active[r] : n = x
    BY <1>2 DEF RoomSound
  <1>4. x.no \in Nat
    BY <1>1, <1>2, RoomsAssumption DEF Match
  <1>5. \A n \in active[r] : n.no <= x.no
    BY <1>3, <1>4
  <1>6. newest(r) \in active[r]
    BY <1>2, <1>5 DEF newest
  <1> QED BY <1>3, <1>6

LEMMA ChangedSound ==
  ASSUME TypeOK, TypeOK', NEW r \in Rooms, RoomSound(r), Changed(r)
  PROVE  RoomSound(r)'
  <1>1. rooms[r].max \in Nat /\ Cardinality(seats[r]) \in Nat
    BY RowOf, RoomsAssumption, FS_CardinalityType DEF RoomRow, RoomSound
  <1>2. rooms'[r].max \in Nat
    BY RoomsAssumption DEF TypeOK
  <1>3. CASE Opened(r)
    BY <1>3 DEF Opened, Phase, Places, RoomSound
  <1>4. CASE Seated(r)
    <2>1. PICK a \in Actors : /\ seats'[r] = seats[r] \cup {a}
                              /\ \/ a \in seats[r]
                                 \/ \E b \in Nat : Cardinality(seats[r]) + b < rooms[r].max
      BY <1>4 DEF Seated
    <2>2. /\ IsFiniteSet(seats'[r])
          /\ Cardinality(seats'[r]) = IF a \in seats[r] THEN Cardinality(seats[r])
                                      ELSE Cardinality(seats[r]) + 1
      <3>1. IsFiniteSet(seats[r])
        BY DEF RoomSound
      <3>2. /\ IsFiniteSet(seats[r] \cup {a})
            /\ Cardinality(seats[r] \cup {a}) = IF a \in seats[r] THEN Cardinality(seats[r])
                                                ELSE Cardinality(seats[r]) + 1
        BY <3>1, FS_AddElement, Zenon
      <3> QED BY <2>1, <3>2, Zenon
    <2>3. Cardinality(seats'[r]) <= rooms[r].max
      BY <1>1, <2>1, <2>2 DEF RoomSound
    <2> QED BY <1>4, <2>2, <2>3 DEF Seated, Places, RoomSound
  <1>5. CASE Resized(r)
    <2>1. active[r] = {} /\ active'[r] = {} /\ seats'[r] = seats[r]
      BY <1>5 DEF Resized, Phase, RoomSound
    <2>2. Cardinality(seats[r]) <= rooms'[r].max
      BY <1>1, <1>2, <1>5 DEF Resized
    <2> QED BY <2>1, <2>2 DEF RoomSound
  <1>6. CASE Dealt(r)
    <2>1. PICK m \in Match :
            /\ active'[r] = active[r] \cup {m} /\ m.humans = seats[r]
            /\ 2 <= Cardinality(m.humans) + m.bots
            /\ Cardinality(m.humans) + m.bots <= rooms[r].max
      BY <1>6 DEF Dealt
    <2>2. active[r] = {} /\ active'[r] = {m}
      BY <1>6, <2>1 DEF Dealt, Phase, RoomSound
    <2>3. m.bots \in Nat
      BY RoomsAssumption DEF Match
    <2>4. Cardinality(m.humans) + m.bots \in 2 .. rooms[r].max
      BY <1>1, <2>1, <2>3
    <2> QED BY <1>6, <2>1, <2>2, <2>4 DEF Dealt, Phase, Places, RoomSound
  <1>7. CASE Ended(r)
    BY <1>7, NewestIsTheMatch DEF Ended, Places, RoomSound
  <1>8. CASE Dropped(r)
    BY <1>1, <1>8, FS_EmptySet DEF Dropped, Phase, Places, RoomSound
  <1> QED BY <1>3, <1>4, <1>5, <1>6, <1>7, <1>8 DEF Changed

LEMMA InitIInv == Init => IInv
  <1> SUFFICES ASSUME Init PROVE IInv
    OBVIOUS
  <1>1. TypeOK /\ Asking
    BY InitTypes
  <1>2. \A r \in Rooms : seats[r] = {} /\ active[r] = {} /\ rooms[r].max = 2
    BY DEF Init, defaultMaxPlayers
  <1>3. IsFiniteSet({}) /\ Cardinality({}) = 0
    BY FS_EmptySet
  <1>4. ASSUME NEW r \in Rooms PROVE RoomSound(r)
    <2>1. IsFiniteSet(seats[r]) /\ Cardinality(seats[r]) = 0
      BY <1>2, <1>3, Zenon
    <2> QED BY <1>2, <2>1 DEF RoomSound
  <1> QED BY <1>1, <1>4 DEF IInv, Sound

LEMMA NextIInv == IInv /\ [Next]_vars => IInv'
  <1> SUFFICES ASSUME IInv, [Next]_vars PROVE IInv'
    OBVIOUS
  <1>1. TypeOK /\ Asking /\ TypeOK' /\ Asking' /\ OneRoom
    BY NextTyped, NextOneRoom DEF IInv
  <1>2. ASSUME NEW r \in Rooms PROVE RoomSound(r)'
    <2>1. RoomSound(r)
      BY DEF IInv, Sound
    <2>2. Quiet(r) \/ Changed(r)
      BY <1>1 DEF OneRoom
    <2> QED BY <1>1, <2>1, <2>2, QuietSound, ChangedSound
  <1> QED BY <1>1, <1>2 DEF IInv, Sound

LEMMA SoundWithinLimit == IInv => SeatsWithinLimit
  BY DEF IInv, Sound, RoomSound, SeatsWithinLimit

\* No room ever has more people in it than places, and no match more players than its
\* room, although JoinRoom counts the bots, UpdateSettings the limit and StartRoom the
\* players before the transaction that uses them locks the room.
THEOREM SeatsLimited == Spec => []SeatsWithinLimit
  BY InitIInv, NextIInv, SoundWithinLimit, PTL DEF Spec

-----------------------------------------------------------------------------
(* The contract *)

table(r) == {[humans |-> m.humans, bots |-> m.bots] : m \in active[r]}

\* The tables, as the contract sees them.
Phases == [r \in Rooms |-> rooms[r].status]
AllTables == [r \in Rooms |-> table(r)]

LEMMA LimitIsTheLargest == SeatLimit \in Limits /\ \A n \in Limits : n <= SeatLimit
  BY RoomsAssumption DEF SeatLimit

LEMMA SameCardinality == ASSUME NEW S PROVE Contract!Cardinality(S) = Cardinality(S)
  BY DEF Cardinality, Contract!Cardinality, IsFiniteSet, Contract!IsFiniteSet

LEMMA QuietStutters ==
  ASSUME NEW r, Quiet(r)
  PROVE  rooms'[r].status = rooms[r].status /\ table(r)' = table(r)
  BY DEF Quiet, Kept, table

\* A step that changes one room, as a step of the contract.
LEMMA ChangedSimulates ==
  ASSUME TypeOK, TypeOK', NEW r \in Rooms, RoomSound(r), Changed(r),
         \A q \in Rooms \ {r} : rooms'[q].status = rooms[q].status /\ table(q)' = table(q)
  PROVE  Contract!ContractNext \/ UNCHANGED <<Phases, AllTables>>
  <1>1. ASSUME NEW to, rooms'[r].status = to PROVE Phases' = [Phases EXCEPT ![r] = to]
    BY <1>1 DEF Phases
  <1>2. ASSUME NEW to, table(r)' = to PROVE AllTables' = [AllTables EXCEPT ![r] = to]
    BY <1>2 DEF AllTables
  <1>3. Phases[r] = rooms[r].status /\ AllTables[r] = table(r)
    BY DEF Phases, AllTables
  <1>4. table(r)' = table(r) => AllTables' = AllTables
    BY DEF AllTables
  <1>5. rooms'[r].status = rooms[r].status => Phases' = Phases
    BY DEF Phases
  <1>6. (active'[r] = active[r] => table(r)' = table(r)) /\ (active'[r] = {} => table(r)' = {})
        /\ (active[r] = {} => table(r) = {})
    BY DEF table
  <1>7. CASE Opened(r)
    <2>1. Contract!Open(r)
      BY <1>1, <1>3, <1>4, <1>6, <1>7 DEF Opened, Phase, Contract!Open, Phases, AllTables, table
    <2> QED BY <2>1 DEF Contract!ContractNext
  <1>8. CASE Seated(r)
    BY <1>4, <1>5, <1>6, <1>8 DEF Seated
  <1>9. CASE Resized(r)
    BY <1>4, <1>5, <1>6, <1>9 DEF Resized, Phase
  <1>10. CASE Dealt(r)
    <2>1. PICK m \in Match :
            /\ active'[r] = active[r] \cup {m} /\ m.humans = seats[r]
            /\ 2 <= Cardinality(m.humans) + m.bots
            /\ Cardinality(m.humans) + m.bots <= rooms[r].max
      BY <1>10 DEF Dealt
    <2> DEFINE t == [humans |-> m.humans, bots |-> m.bots]
    <2>2. active[r] = {} /\ active'[r] = {m} /\ m.humans # {}
      BY <1>10, <2>1 DEF Dealt, Phase, RoomSound
    <2>3. table(r) = {} /\ table(r)' = {t}
      BY <2>2 DEF table
    <2>4. /\ m.bots \in Nat /\ m.humans \in (SUBSET Actors) \ {{}} /\ Cardinality(m.humans) \in Nat
          /\ rooms[r].max \in Nat /\ SeatLimit \in Nat /\ rooms[r].max <= SeatLimit
      <3>1. m.bots \in Nat /\ m.humans \in (SUBSET Actors) \ {{}}
        BY <2>2, RoomsAssumption DEF Match
      <3>2. Cardinality(m.humans) \in Nat
        BY <2>1, FS_CardinalityType DEF RoomSound
      <3>3. rooms[r].max \in Limits
        BY RowOf DEF RoomRow
      <3> QED BY <3>1, <3>2, <3>3, LimitIsTheLargest, RoomsAssumption
    <2>5. t \in Contract!Tables /\ Cardinality(t.humans) + t.bots \in 2 .. SeatLimit
      BY <2>1, <2>4 DEF Contract!Tables
    <2>6. /\ Phases[r] = "waiting" /\ AllTables[r] = {}
          /\ AllTables' = [AllTables EXCEPT ![r] = {t}]
          /\ Phases' = [Phases EXCEPT ![r] = "playing"]
      BY <1>1, <1>2, <1>3, <1>10, <2>3 DEF Dealt, Phase
    <2>7. Contract!Deal(r)
      BY <2>5, <2>6, SameCardinality, Zenon DEF Contract!Deal, Phases, AllTables, table
    <2> QED BY <2>7 DEF Contract!ContractNext
  <1>11. CASE Ended(r)
    <2>1. rooms[r].status = "playing" /\ active'[r] = {} /\ rooms'[r].status = "waiting"
      BY <1>11, NewestIsTheMatch DEF Ended, RoomSound
    <2>2. Contract!End(r)
      BY <1>1, <1>2, <1>3, <1>6, <2>1 DEF Contract!End, Phases, AllTables, table
    <2> QED BY <2>2 DEF Contract!ContractNext
  <1>12. CASE Dropped(r)
    <2>1. /\ rooms[r].status = "waiting" /\ rooms'[r].status = "closed"
          /\ active[r] = {} /\ active'[r] = {}
      BY <1>12 DEF Dropped, Phase, RoomSound
    <2>2. Contract!Close(r)
      BY <1>1, <1>3, <1>4, <1>6, <2>1 DEF Contract!Close, Phases, AllTables, table
    <2> QED BY <2>2 DEF Contract!ContractNext
  <1> QED BY <1>7, <1>8, <1>9, <1>10, <1>11, <1>12 DEF Changed

LEMMA InitContract == Init => Contract!ContractInit
  <1> SUFFICES ASSUME Init PROVE Contract!ContractInit
    OBVIOUS
  <1>1. \A r \in Rooms : rooms[r].status = "unborn" /\ active[r] = {}
    BY DEF Init
  <1> QED BY <1>1 DEF Contract!ContractInit

LEMMA NextContract ==
  IInv /\ IInv' /\ [Next]_vars => [Contract!ContractNext]_<<Phases, AllTables>>
  <1> SUFFICES ASSUME IInv, IInv', [Next]_vars
               PROVE  Contract!ContractNext \/ UNCHANGED <<Phases, AllTables>>
    OBVIOUS
  <1>1. TypeOK /\ TypeOK' /\ Sound /\ OneRoom
    BY NextOneRoom DEF IInv
  <1>2. CASE \A q \in Rooms : Quiet(q)
    BY <1>2, QuietStutters DEF Phases, AllTables
  <1>3. ASSUME NEW r \in Rooms, Changed(r), \A q \in Rooms \ {r} : Quiet(q)
        PROVE  Contract!ContractNext \/ UNCHANGED <<Phases, AllTables>>
    BY <1>1, <1>3, QuietStutters, ChangedSimulates DEF Sound
  <1> QED BY <1>1, <1>2, <1>3 DEF OneRoom

\* However starts, terminations, deletions and the cleanup loop interleave, and whatever
\* fails, the tables implement the contract: a room plays one match at a time, dealt to the
\* people who sit in it, and is deleted only between two.
THEOREM RoomsKeepTheContract == Spec => ImplementsContract
  <1>1. Phases = [r \in Rooms |-> rooms[r].status]
    BY DEF Phases
  <1>2. AllTables = [r \in Rooms |-> {[humans |-> m.humans, bots |-> m.bots] : m \in active[r]}]
    BY DEF AllTables, table
  <1>3. [Contract!ContractNext]_<<Phases, AllTables>>
          => [Contract!ContractNext]_Contract!contractVars
    BY DEF Contract!contractVars, Phases, AllTables, table
  <1> QED BY InitIInv, NextIInv, InitContract, NextContract, <1>3, PTL
       DEF Spec, ImplementsContract, Contract!ContractSpec


-----------------------------------------------------------------------------
(* Seats and connections *)

\* The only connection of its actor.
Single(c) == \A d \in Clients \ {c} : me(d) # me(c)

seatedIn(a) == {r \in Rooms : a \in seats[r]}

\* Leaving a room for good, for another one, or because the subscription failed.
GivingUp(j) == j.pc \in {"remove", "removing"} /\ j.for # "kick"

\* Where an actor a is seated, S, while their connection is in room h and works on j.
SeatedAs(j, h, S, a) ==
  /\ j.pc \in {"join", "joinTx"} => h = NoRoom /\ S = {}
  /\ j.pc = "subscribe" => h = NoRoom /\ S \subseteq {j.room}
  /\ GivingUp(j) =>
       /\ S \subseteq {j.room}
       /\ j.for \in {"switch", "leave", "undo"}
       /\ j.for = "undo" => h = NoRoom
       /\ j.pc = "remove" \/ S # {} => j.victim = a
  /\ j.pc \notin {"join", "joinTx", "subscribe"} /\ ~GivingUp(j) => S \subseteq {h}

SeatsPlaced ==
  \A c \in Clients : me(c) \notin faulty /\ Single(c)
                     => SeatedAs(job[c], here[c], seatedIn(me(c)), me(c))

LEMMA SeatedAsShrinks ==
  ASSUME NEW j, NEW h, NEW a, NEW S, NEW T \in SUBSET S, SeatedAs(j, h, S, a)
  PROVE  SeatedAs(j, h, T, a)
  BY DEF SeatedAs

LEMMA Goes ==
  ASSUME TypeOK, NEW c \in Clients, NEW j, goto(c, j)
  PROVE  job'[c] = j /\ \A d \in Clients \ {c} : job'[d] = job[d]
  BY DEF goto, TypeOK

\* A step of c leaves what other connections do alone.
LEMMA OthersUntouched ==
  ASSUME TypeOK, NEW c \in Clients, Request(c) \/ Step(c) \/ Fails(c) \/ Disconnect(c)
  PROVE  /\ \A d \in Clients \ {c} : job'[d] = job[d] /\ here'[d] = here[d]
         /\ faulty \subseteq faulty'
  <1>1. (\E j : job' = [job EXCEPT ![c] = j]) \/ UNCHANGED job
    <2>1. ASSUME Request(c) PROVE (\E j : goto(c, j)) \/ UNCHANGED job
      BY <2>1 DEF Request, CreateRoom, JoinRoom, StartRoom, LeaveMatch, DeleteRoom, Rejoin,
                  LeaveRoom, KickParticipant, UpdateRoomSettings
    <2>2. ASSUME NEW ok, AfterRemoval(c, ok) PROVE \E j : goto(c, j)
      BY <2>2 DEF AfterRemoval, done
    <2>3. ASSUME Step(c) PROVE (\E j : goto(c, j)) \/ UNCHANGED job
      BY <2>2, <2>3 DEF Step, JoinRead, JoinTx, Subscribe, BeginRemoval, CommitRemoval,
                  SettingsTx, StartTx, FinishTx, TerminateTx, DeleteTx, done
    <2>4. ASSUME Fails(c) \/ Disconnect(c) PROVE (\E j : goto(c, j)) \/ UNCHANGED job
      BY <2>2, <2>4 DEF Fails, Disconnect, done
    <2> QED BY <2>1, <2>3, <2>4 DEF goto
  <1>2. (\E r : here' = [here EXCEPT ![c] = r]) \/ UNCHANGED here
    <2>1. ASSUME Request(c) PROVE UNCHANGED here
      BY <2>1 DEF Request, CreateRoom, JoinRoom, StartRoom, LeaveMatch, DeleteRoom, Rejoin,
                  LeaveRoom, KickParticipant, UpdateRoomSettings
    <2>2. ASSUME Step(c) \/ Fails(c) \/ Disconnect(c)
          PROVE  (\E r : here' = [here EXCEPT ![c] = r]) \/ UNCHANGED here
      BY <2>2 DEF Step, JoinRead, JoinTx, Subscribe, BeginRemoval, CommitRemoval,
                  SettingsTx, StartTx, FinishTx, TerminateTx, DeleteTx, Fails, Disconnect
    <2> QED BY <2>1, <2>2
  <1>3. faulty \subseteq faulty'
    BY DEF Request, CreateRoom, JoinRoom, StartRoom, LeaveMatch, DeleteRoom, Rejoin,
           LeaveRoom, KickParticipant, UpdateRoomSettings,
           Step, JoinRead, JoinTx, Subscribe, BeginRemoval, CommitRemoval,
           SettingsTx, StartTx, FinishTx, TerminateTx, DeleteTx, Fails, Disconnect
  <1> QED BY <1>1, <1>2, <1>3 DEF TypeOK

\* Joining is the only way to get a seat.
LEMMA OnlyJoinsSeat ==
  ASSUME TypeOK, Asking, [Next]_vars
  PROVE  \/ \A r \in Rooms : seats'[r] \subseteq seats[r]
         \/ \E c \in Clients : /\ JoinTx(c)
                               /\ seats' = [seats EXCEPT ![job[c].room] = @ \cup {me(c)}]
  <1>1. seats \in [Rooms -> SUBSET Actors]
    BY Tables
  <1>2. ASSUME NEW c \in Clients, Step(c), ~JoinTx(c) PROVE \A r \in Rooms : seats'[r] \subseteq seats[r]
    BY <1>1, <1>2 DEF Step, JoinRead, Subscribe, BeginRemoval, CommitRemoval,
           SettingsTx, StartTx, FinishTx, TerminateTx, DeleteTx, DropRoom
  <1>3. ASSUME NEW c \in Clients, JoinTx(c)
        PROVE  UNCHANGED seats \/ seats' = [seats EXCEPT ![job[c].room] = @ \cup {me(c)}]
    BY <1>3 DEF JoinTx
  <1>4. ASSUME NEW c \in Clients, Request(c) \/ Fails(c) \/ Disconnect(c) PROVE UNCHANGED seats
    BY <1>4 DEF Request, CreateRoom, JoinRoom, StartRoom, LeaveMatch, DeleteRoom, Rejoin,
           LeaveRoom, KickParticipant, UpdateRoomSettings, Fails, Disconnect
  <1>5. ASSUME NEW j \in Sweepers, Sweep(j) PROVE \A r \in Rooms : seats'[r] \subseteq seats[r]
    <2>1. CASE CommitGuests(j)
      BY <2>1 DEF CommitGuests
    <2>2. CASE ~CommitGuests(j)
      BY <1>1, <1>5, <2>2 DEF Sweep, CleanupExpired, DeleteGuestSession, DeleteGuests, FindTimeouts,
             FindStale, SweepFails, EndTimedOut, DeleteStale, DropRoom
    <2> QED BY <2>1, <2>2
  <1>6. ASSUME NEW r \in Rooms, CompleteMatch(r) PROVE UNCHANGED seats
    BY <1>6 DEF CompleteMatch
  <1>7. ASSUME NEW g \in Guests, ExpireSession(g) PROVE UNCHANGED seats
    BY <1>7 DEF ExpireSession
  <1>8. ASSUME UNCHANGED vars PROVE UNCHANGED seats
    BY <1>8 DEF vars
  <1> QED BY <1>2, <1>3, <1>4, <1>5, <1>6, <1>7, <1>8 DEF Next

\* A step that is not of c.
LEMMA SeatsPlacedOther ==
  ASSUME TypeOK, Asking, [Next]_vars, NEW c \in Clients, Single(c),
         SeatedAs(job[c], here[c], seatedIn(me(c)), me(c)),
         job'[c] = job[c], here'[c] = here[c], ~JoinTx(c)
  PROVE  SeatedAs(job[c], here[c], seatedIn(me(c)), me(c))'
  <1>1. PICK a : a = me(c)
    OBVIOUS
  <1>2. PICK S : S = seatedIn(a)
    OBVIOUS
  <1>3. PICK T : T = seatedIn(a)'
    OBVIOUS
  <1>4. T \subseteq S
    <2>1. CASE \A r \in Rooms : seats'[r] \subseteq seats[r]
      BY <1>2, <1>3, <2>1 DEF seatedIn
    <2>2. CASE \E d \in Clients : /\ JoinTx(d)
                                  /\ seats' = [seats EXCEPT ![job[d].room] = @ \cup {me(d)}]
      <3>1. PICK d \in Clients : /\ JoinTx(d)
                                 /\ seats' = [seats EXCEPT ![job[d].room] = @ \cup {me(d)}]
        BY <2>2
      <3>2. me(d) # a
        BY <1>1, <3>1 DEF Single
      <3>3. \A r \in Rooms : a \in seats'[r] => a \in seats[r]
        BY <3>1, <3>2, Tables
      <3> QED BY <1>2, <1>3, <3>3 DEF seatedIn
    <2> QED BY <2>1, <2>2, OnlyJoinsSeat
  <1>5. SeatedAs(job[c], here[c], S, a)
    BY <1>1, <1>2
  <1>6. SeatedAs(job[c], here[c], T, a)
    BY <1>4, <1>5, SeatedAsShrinks
  <1>7. me(c)' = a
    BY <1>1 DEF me
  <1>8. SeatedAs(job[c], here[c], seatedIn(me(c)), me(c))' = SeatedAs(job'[c], here'[c], T, a)
    BY <1>3, <1>7 DEF SeatedAs, GivingUp
  <1> QED BY <1>6, <1>8

LEMMA SeatedNow ==
  ASSUME NEW c, NEW j, NEW h, job'[c] = j, here'[c] = h,
         SeatedAs(j, h, {r \in Rooms : me(c) \in seats'[r]}, me(c))
  PROVE  SeatedAs(job[c], here[c], seatedIn(me(c)), me(c))'
  <1>1. me(c)' = me(c) /\ seatedIn(me(c))' = {r \in Rooms : me(c) \in seats'[r]}
    BY DEF me, seatedIn
  <1>2. SeatedAs(job[c], here[c], seatedIn(me(c)), me(c))'
          = SeatedAs(job'[c], here'[c], {r \in Rooms : me(c) \in seats'[r]}, me(c))
    BY <1>1 DEF SeatedAs, GivingUp
  <1> QED BY <1>2

\* A step of c that leaves the seats alone.
LEMMA SeatedStill ==
  ASSUME NEW c, NEW j, NEW h, job'[c] = j, here'[c] = h, UNCHANGED seats,
         SeatedAs(j, h, seatedIn(me(c)), me(c))
  PROVE  SeatedAs(job[c], here[c], seatedIn(me(c)), me(c))'
  BY SeatedNow DEF seatedIn

\* A request that is not about the seat of its author.
LEMMA SeatedElsewhere ==
  ASSUME NEW j, NEW h, NEW S, NEW a, S \subseteq {h},
         j.pc \notin {"join", "joinTx", "subscribe"}, ~GivingUp(j)
  PROVE  SeatedAs(j, h, S, a)
  BY DEF SeatedAs

LEMMA SeatedRequest ==
  ASSUME TypeOK, Asking, NEW c \in Clients, Request(c),
         SeatedAs(job[c], here[c], seatedIn(me(c)), me(c))
  PROVE  SeatedAs(job[c], here[c], seatedIn(me(c)), me(c))'
  <1>1. PICK S : S = seatedIn(me(c))
    OBVIOUS
  <1>2. PICK h : h = here[c]
    OBVIOUS
  <1>3. at(c, "idle") /\ here'[c] = h /\ UNCHANGED seats
    BY <1>2 DEF Request, CreateRoom, JoinRoom, StartRoom, LeaveMatch, DeleteRoom, Rejoin,
                LeaveRoom, KickParticipant, UpdateRoomSettings
  <1>4. S \subseteq {h} /\ S \subseteq Rooms
    BY <1>1, <1>2, <1>3 DEF SeatedAs, GivingUp, at, seatedIn
  <1>5. ASSUME UNCHANGED job PROVE SeatedAs(job[c], here[c], seatedIn(me(c)), me(c))'
    BY <1>2, <1>3, <1>5, SeatedStill
  <1>6. ASSUME NEW j, goto(c, j), SeatedAs(j, h, S, me(c))
        PROVE  SeatedAs(job[c], here[c], seatedIn(me(c)), me(c))'
    <2>1. job'[c] = j
      BY <1>6, Goes
    <2> QED BY <1>1, <1>3, <1>6, <2>1, SeatedStill
  <1>7. ASSUME NEW j, goto(c, j), j.pc \in {"settings", "start", "finish", "terminate", "delete"}
        PROVE  SeatedAs(job[c], here[c], seatedIn(me(c)), me(c))'
    <2>1. SeatedAs(j, h, S, me(c))
      BY <1>4, <1>7, SeatedElsewhere DEF GivingUp
    <2> QED BY <1>6, <1>7, <2>1
  <1>8. ASSUME NEW r \in Rooms, JoinRoom(c, r) PROVE SeatedAs(job[c], here[c], seatedIn(me(c)), me(c))'
    <2>1. CASE h = NoRoom
      <3>1. PICK j : j = [NoJob EXCEPT !.pc = "join", !.for = "join", !.room = r]
        OBVIOUS
      <3>2. goto(c, j)
        BY <1>2, <1>8, <2>1, <3>1 DEF JoinRoom
      <3>3. j.pc = "join" /\ S = {}
        BY <1>4, <2>1, <3>1, RoomsAssumption DEF NoJob
      <3>4. SeatedAs(j, h, S, me(c))
        BY <2>1, <3>3 DEF SeatedAs, GivingUp
      <3> QED BY <1>6, <3>2, <3>4
    <2>2. CASE h # NoRoom
      <3>1. PICK j : j = [NoJob EXCEPT !.pc = "remove", !.for = "switch",
                            !.room = h, !.other = r, !.victim = me(c)]
        OBVIOUS
      <3>2. goto(c, j)
        BY <1>2, <1>8, <2>2, <3>1 DEF JoinRoom
      <3>3. j.pc = "remove" /\ j.for = "switch" /\ j.room = h /\ j.victim = me(c)
        BY <3>1 DEF NoJob
      <3>4. SeatedAs(j, h, S, me(c))
        BY <1>4, <3>3 DEF SeatedAs, GivingUp
      <3> QED BY <1>6, <3>2, <3>4
    <2> QED BY <2>1, <2>2
  <1>9. ASSUME LeaveRoom(c) PROVE SeatedAs(job[c], here[c], seatedIn(me(c)), me(c))'
    <2>1. PICK j : j = [NoJob EXCEPT !.pc = "remove", !.for = "leave",
                          !.room = here[c], !.victim = me(c)]
      OBVIOUS
    <2>2. goto(c, j)
      BY <1>9, <2>1 DEF LeaveRoom
    <2>3. j.pc = "remove" /\ j.for = "leave" /\ j.room = h /\ j.victim = me(c)
      BY <1>2, <2>1 DEF NoJob
    <2>4. SeatedAs(j, h, S, me(c))
      BY <1>4, <2>3 DEF SeatedAs, GivingUp
    <2> QED BY <1>6, <2>2, <2>4
  <1>10. ASSUME NEW r \in Rooms, NEW t, KickParticipant(c, r, t)
         PROVE  SeatedAs(job[c], here[c], seatedIn(me(c)), me(c))'
    <2>1. PICK j : j = [NoJob EXCEPT !.pc = "remove", !.for = "kick", !.room = r, !.victim = t]
      OBVIOUS
    <2>2. goto(c, j)
      BY <1>10, <2>1 DEF KickParticipant
    <2>3. j.pc = "remove" /\ j.for = "kick"
      BY <2>1 DEF NoJob
    <2>4. SeatedAs(j, h, S, me(c))
      BY <1>4, <2>3, SeatedElsewhere DEF GivingUp
    <2> QED BY <1>6, <2>2, <2>4
  <1>11. ASSUME NEW r \in Rooms, StartRoom(c, r) \/ LeaveMatch(c, r) \/ DeleteRoom(c, r)
         PROVE  \E j : goto(c, j) /\ j.pc \in {"start", "finish", "terminate", "delete"}
    <2>1. ASSUME StartRoom(c, r)
          PROVE  \E j : goto(c, j) /\ j.pc \in {"start", "finish", "terminate", "delete"}
      <3>1. PICK j : j = [NoJob EXCEPT !.pc = "start", !.room = r, !.seen = seats[r],
                                       !.bots = rooms[r].bots]
        OBVIOUS
      <3>2. goto(c, j)
        BY <2>1, <3>1 DEF StartRoom
      <3>3. j.pc = "start"
        BY <3>1 DEF NoJob
      <3> QED BY <3>2, <3>3
    <2>2. ASSUME LeaveMatch(c, r)
          PROVE  \E j : goto(c, j) /\ j.pc \in {"start", "finish", "terminate", "delete"}
      <3>1. PICK j : j = [NoJob EXCEPT !.pc = "finish", !.room = r]
        OBVIOUS
      <3>2. goto(c, j)
        BY <2>2, <3>1 DEF LeaveMatch
      <3>3. j.pc = "finish"
        BY <3>1 DEF NoJob
      <3> QED BY <3>2, <3>3
    <2>3. ASSUME DeleteRoom(c, r)
          PROVE  \E j : goto(c, j) /\ j.pc \in {"start", "finish", "terminate", "delete"}
      <3>1. PICK p \in {"terminate", "delete"} :
                   p = IF rooms[r].status = "playing" THEN "terminate" ELSE "delete"
        OBVIOUS
      <3>2. PICK j : j = [NoJob EXCEPT !.room = r, !.pc = p]
        OBVIOUS
      <3>3. goto(c, j)
        BY <2>3, <3>1, <3>2 DEF DeleteRoom
      <3>4. j.pc = p
        BY <3>2 DEF NoJob
      <3> QED BY <3>1, <3>3, <3>4
    <2> QED BY <1>11, <2>1, <2>2, <2>3
  <1>12. ASSUME NEW r \in Rooms, NEW m, NEW b, UpdateRoomSettings(c, r, m, b)
         PROVE  \E j : goto(c, j) /\ j.pc = "settings"
    <2>1. PICK n, k : goto(c, [NoJob EXCEPT !.pc = "settings", !.room = r, !.max = n, !.bots = k])
      BY <1>12 DEF UpdateRoomSettings
    <2>2. PICK j : j = [NoJob EXCEPT !.pc = "settings", !.room = r, !.max = n, !.bots = k]
      OBVIOUS
    <2>3. j.pc = "settings"
      BY <2>2 DEF NoJob
    <2> QED BY <2>1, <2>2, <2>3
  <1>13. ASSUME NEW r \in Rooms, CreateRoom(c, r) PROVE UNCHANGED job
    BY <1>13 DEF CreateRoom
  <1>14. ASSUME Rejoin(c) PROVE UNCHANGED job
    BY <1>14 DEF Rejoin
  <1> QED BY <1>5, <1>7, <1>8, <1>9, <1>10, <1>11, <1>12, <1>13, <1>14 DEF Request

\* The handler gives up, or goes back to the room it came from.
LEMMA SeatedAfterRollback ==
  ASSUME NEW c \in Clients, NEW a
  PROVE  SeatedAs(Rollback(c), NoRoom, {}, a)
  <1>1. Rollback(c).pc \in {"join", "idle"}
    BY DEF Rollback, NoJob
  <1> QED BY <1>1 DEF SeatedAs, GivingUp

LEMMA SeatedStep ==
  ASSUME TypeOK, Asking, NEW c \in Clients, Step(c), me(c) \notin faulty',
         SeatedAs(job[c], here[c], seatedIn(me(c)), me(c))
  PROVE  SeatedAs(job[c], here[c], seatedIn(me(c)), me(c))'
  <1>1. PICK S : S = seatedIn(me(c))
    OBVIOUS
  <1>2. PICK h \in Rooms \cup {NoRoom} : h = here[c]
    BY DEF TypeOK
  <1>3. PICK i \in Job : i = job[c]
    BY DEF TypeOK, Job
  <1>4. SeatedAs(i, h, S, me(c)) /\ S \subseteq Rooms /\ (i.pc # "idle" => i.room \in Rooms)
    BY <1>1, <1>2, <1>3 DEF seatedIn, Asking, About
  <1>5. me(c) \in Actors
    BY RoomsAssumption DEF me
  <1>6. ASSUME JoinRead(c) PROVE SeatedAs(job[c], here[c], seatedIn(me(c)), me(c))'
    <2>1. h = NoRoom /\ S = {} /\ here'[c] = h /\ UNCHANGED seats
      BY <1>2, <1>3, <1>4, <1>6 DEF JoinRead, at, SeatedAs
    <2>2. PICK j : /\ goto(c, j)
                   /\ \/ j = Rollback(c)
                      \/ \E b : j = [i EXCEPT !.pc = "joinTx", !.bots = b]
      BY <1>3, <1>6 DEF JoinRead
    <2>3. SeatedAs(j, h, S, me(c))
      <3>1. CASE j = Rollback(c)
        BY <2>1, <3>1, SeatedAfterRollback
      <3>2. CASE \E b : j = [i EXCEPT !.pc = "joinTx", !.bots = b]
        <4>1. j.pc = "joinTx"
          BY <3>2 DEF Job
        <4> QED BY <2>1, <4>1 DEF SeatedAs, GivingUp
      <3> QED BY <2>2, <3>1, <3>2
    <2>4. job'[c] = j
      BY <2>2, Goes
    <2> QED BY <1>1, <2>1, <2>3, <2>4, SeatedStill
  <1>7. ASSUME JoinTx(c) PROVE SeatedAs(job[c], here[c], seatedIn(me(c)), me(c))'
    <2>1. h = NoRoom /\ S = {} /\ here'[c] = h
      BY <1>2, <1>3, <1>4, <1>7 DEF JoinTx, at, SeatedAs
    <2>2. CASE MayJoin(i.room, me(c), i.bots)
      <3>1. PICK j : j = [i EXCEPT !.pc = "subscribe"]
        OBVIOUS
      <3>2. /\ seats' = [seats EXCEPT ![i.room] = @ \cup {me(c)}]
            /\ goto(c, j)
        BY <1>3, <1>7, <2>2, <3>1 DEF JoinTx
      <3>3. j.pc = "subscribe" /\ j.room = i.room
        BY <3>1 DEF Job
      <3>4. {r \in Rooms : me(c) \in seats'[r]} \subseteq {i.room}
        <4>1. \A r \in Rooms : r # i.room => seats'[r] = seats[r]
          BY <3>2, Tables
        <4> QED BY <1>1, <2>1, <4>1 DEF seatedIn
      <3>5. SeatedAs(j, h, {r \in Rooms : me(c) \in seats'[r]}, me(c))
        BY <2>1, <3>3, <3>4 DEF SeatedAs, GivingUp
      <3>6. job'[c] = j
        BY <3>2, Goes
      <3> QED BY <2>1, <3>5, <3>6, SeatedNow
    <2>3. CASE ~MayJoin(i.room, me(c), i.bots)
      <3>1. goto(c, Rollback(c)) /\ UNCHANGED seats
        BY <1>3, <1>7, <2>3 DEF JoinTx
      <3>2. job'[c] = Rollback(c)
        BY <3>1, Goes
      <3> QED BY <1>1, <2>1, <3>1, <3>2, SeatedAfterRollback, SeatedStill
    <2> QED BY <2>2, <2>3
  <1>8. ASSUME Subscribe(c) PROVE SeatedAs(job[c], here[c], seatedIn(me(c)), me(c))'
    <2>1. h = NoRoom /\ S \subseteq {i.room} /\ UNCHANGED seats
      BY <1>2, <1>3, <1>4, <1>8 DEF Subscribe, at, SeatedAs
    <2>2. CASE here' = [here EXCEPT ![c] = i.room] /\ done(c)
      <3>1. job'[c] = NoJob /\ here'[c] = i.room
        BY <2>2, Goes DEF done, TypeOK
      <3>2. SeatedAs(NoJob, i.room, S, me(c))
        BY <2>1, SeatedElsewhere DEF NoJob, GivingUp
      <3> QED BY <1>1, <2>1, <3>1, <3>2, SeatedStill
    <2>3. CASE i.for = "join" /\ ~(here' = [here EXCEPT ![c] = i.room] /\ done(c))
      <3>1. PICK j : j = [i EXCEPT !.pc = "remove", !.for = "undo", !.victim = me(c)]
        OBVIOUS
      <3>2. goto(c, j) /\ here' = here
        BY <1>3, <1>8, <2>3, <3>1 DEF Subscribe
      <3>3. j.pc = "remove" /\ j.for = "undo" /\ j.victim = me(c) /\ j.room = i.room
        BY <3>1 DEF Job
      <3>4. SeatedAs(j, h, S, me(c))
        BY <2>1, <3>3 DEF SeatedAs, GivingUp
      <3>5. job'[c] = j /\ here'[c] = h
        BY <1>2, <3>2, Goes
      <3> QED BY <1>1, <2>1, <3>4, <3>5, SeatedStill
    <2>4. CASE i.for # "join" /\ ~(here' = [here EXCEPT ![c] = i.room] /\ done(c))
      <3>1. me(c) \in faulty'
        BY <1>3, <1>8, <2>4 DEF Subscribe
      <3> QED BY <3>1
    <2> QED BY <2>2, <2>3, <2>4
  <1>9. ASSUME BeginRemoval(c) PROVE SeatedAs(job[c], here[c], seatedIn(me(c)), me(c))'
    <2>1. PICK j : j = [i EXCEPT !.pc = "removing", !.seen = seats[i.room] \ {i.victim},
                          !.victim = IF i.victim \in seats[i.room] THEN i.victim ELSE NoActor]
      OBVIOUS
    <2>2. goto(c, j) /\ here'[c] = h /\ UNCHANGED seats /\ i.pc = "remove" /\ i.room \in Rooms
      BY <1>2, <1>3, <1>4, <1>9, <2>1 DEF BeginRemoval, at
    <2>3. /\ j.pc = "removing" /\ j.for = i.for /\ j.room = i.room
          /\ i.victim \in seats[i.room] => j.victim = i.victim
      BY <2>1 DEF Job
    <2>4. SeatedAs(j, h, S, me(c))
      <3>1. CASE i.for = "kick"
        <4>1. S \subseteq {h}
          BY <1>4, <2>2, <3>1 DEF SeatedAs, GivingUp
        <4> QED BY <2>3, <3>1, <4>1, SeatedElsewhere DEF GivingUp
      <3>2. CASE i.for # "kick"
        <4>1. /\ S \subseteq {i.room} /\ i.victim = me(c) /\ i.for \in {"switch", "leave", "undo"}
              /\ i.for = "undo" => h = NoRoom
          BY <1>4, <2>2, <3>2 DEF SeatedAs, GivingUp
        <4>2. S # {} => me(c) \in seats[i.room]
          BY <1>1, <4>1 DEF seatedIn
        <4>3. S # {} => j.victim = me(c)
          BY <2>3, <4>1, <4>2
        <4> QED BY <2>3, <4>1, <4>3 DEF SeatedAs, GivingUp
      <3> QED BY <3>1, <3>2
    <2>5. job'[c] = j
      BY <2>2, Goes
    <2> QED BY <1>1, <2>2, <2>4, <2>5, SeatedStill
  <1>10. ASSUME CommitRemoval(c) PROVE SeatedAs(job[c], here[c], seatedIn(me(c)), me(c))'
    <2>1. PICK T : T = {r \in Rooms : me(c) \in seats'[r]}
      OBVIOUS
    <2>2. /\ seats' = [seats EXCEPT ![i.room] = @ \ {i.victim}] /\ i.pc = "removing"
          /\ here' = [here EXCEPT ![c] = IF i.for \in {"leave", "switch"} THEN NoRoom ELSE @]
          /\ AfterRemoval(c, TRUE) /\ i.room \in Rooms
      BY <1>3, <1>4, <1>10 DEF CommitRemoval, at
    <2>3. T \subseteq S
      BY <1>1, <2>1, <2>2, Tables DEF seatedIn
    <2>4. i.victim = me(c) => T \subseteq S \ {i.room}
      <3>1. seats'[i.room] = seats[i.room] \ {i.victim}
        BY <2>2, Tables
      <3> QED BY <2>1, <2>3, <3>1
    <2>5. here'[c] = IF i.for \in {"leave", "switch"} THEN NoRoom ELSE h
      BY <1>2, <2>2 DEF TypeOK
    <2>6. CASE i.for = "kick"
      <3>1. job'[c] = NoJob /\ here'[c] = h
        BY <1>3, <2>2, <2>5, <2>6, Goes DEF AfterRemoval, done
      <3>2. S \subseteq {h}
        BY <1>4, <2>2, <2>6 DEF SeatedAs, GivingUp
      <3>3. SeatedAs(NoJob, h, T, me(c))
        BY <2>3, <3>2, SeatedElsewhere DEF NoJob, GivingUp
      <3> QED BY <2>1, <3>1, <3>3, SeatedNow
    <2>7. CASE i.for # "kick"
      <3>1. /\ S \subseteq {i.room} /\ i.for \in {"switch", "leave", "undo"}
            /\ i.for = "undo" => h = NoRoom
            /\ S # {} => i.victim = me(c)
        BY <1>4, <2>2, <2>7 DEF SeatedAs, GivingUp
      <3>2. T = {} /\ here'[c] = NoRoom
        BY <2>3, <2>4, <2>5, <3>1
      <3>3. PICK j : goto(c, j) /\ (j = Rollback(c) \/ j = NoJob \/ j.pc = "join")
        <4>1. CASE i.for = "switch"
          <5>1. PICK j : j = [NoJob EXCEPT !.pc = "join", !.for = "join",
                                !.room = job[c].other, !.other = job[c].room]
            OBVIOUS
          <5>2. goto(c, j)
            BY <1>3, <2>2, <4>1, <5>1 DEF AfterRemoval
          <5>3. j.pc = "join"
            BY <5>1 DEF NoJob
          <5> QED BY <5>2, <5>3
        <4>2. CASE i.for # "switch"
          <5>1. goto(c, Rollback(c)) \/ goto(c, NoJob)
            BY <1>3, <2>2, <4>2 DEF AfterRemoval, done
          <5> QED BY <5>1
        <4> QED BY <4>1, <4>2
      <3>4. SeatedAs(j, NoRoom, {}, me(c))
        <4>1. CASE j = Rollback(c)
          BY <4>1, SeatedAfterRollback
        <4>2. CASE j = NoJob
          BY <4>2 DEF SeatedAs, GivingUp, NoJob
        <4>3. CASE j.pc = "join"
          BY <4>3 DEF SeatedAs, GivingUp
        <4> QED BY <3>3, <4>1, <4>2, <4>3
      <3>5. job'[c] = j
        BY <3>3, Goes
      <3> QED BY <2>1, <3>2, <3>4, <3>5, SeatedNow
    <2> QED BY <2>6, <2>7
  <1>11. ASSUME SettingsTx(c) \/ StartTx(c) \/ FinishTx(c) \/ TerminateTx(c) \/ DeleteTx(c)
         PROVE  SeatedAs(job[c], here[c], seatedIn(me(c)), me(c))'
    <2>1. i.pc \in {"settings", "start", "finish", "terminate", "delete"} /\ here'[c] = h
      BY <1>2, <1>3, <1>11 DEF SettingsTx, StartTx, FinishTx, TerminateTx, DeleteTx, at
    <2>2. S \subseteq {h}
      BY <1>4, <2>1 DEF SeatedAs, GivingUp
    <2>3. PICK T : T = {r \in Rooms : me(c) \in seats'[r]}
      OBVIOUS
    <2>4. T \subseteq S
      <3>1. \A r \in Rooms : seats'[r] \subseteq seats[r]
        BY <1>11, Tables DEF SettingsTx, StartTx, FinishTx, TerminateTx, DeleteTx, DropRoom
      <3> QED BY <1>1, <2>3, <3>1 DEF seatedIn
    <2>5. PICK j : goto(c, j) /\ j.pc \in {"idle", "delete"}
      <3>1. [i EXCEPT !.pc = "delete"].pc = "delete" /\ NoJob.pc = "idle"
        BY DEF Job, NoJob
      <3> QED BY <1>3, <1>11, <3>1 DEF SettingsTx, StartTx, FinishTx, TerminateTx, DeleteTx, done
    <2>6. SeatedAs(j, h, T, me(c))
      BY <2>2, <2>4, <2>5, SeatedElsewhere DEF GivingUp
    <2>7. job'[c] = j
      BY <2>5, Goes
    <2> QED BY <2>1, <2>3, <2>6, <2>7, SeatedNow
  <1> QED BY <1>6, <1>7, <1>8, <1>9, <1>10, <1>11 DEF Step

LEMMA SeatsPlacedInit == Init => SeatsPlaced
  <1> SUFFICES ASSUME Init, NEW c \in Clients
               PROVE  SeatedAs(job[c], here[c], seatedIn(me(c)), me(c))
    BY DEF SeatsPlaced
  <1>1. job[c] = NoJob /\ seatedIn(me(c)) = {}
    BY DEF Init, seatedIn
  <1> QED BY <1>1 DEF SeatedAs, GivingUp, NoJob

LEMMA SeatsPlacedNext ==
  ASSUME TypeOK, Asking, SeatsPlaced, [Next]_vars
  PROVE  SeatsPlaced'
  <1> SUFFICES ASSUME NEW c \in Clients, me(c) \notin faulty', Single(c)
               PROVE  SeatedAs(job[c], here[c], seatedIn(me(c)), me(c))'
    BY DEF SeatsPlaced, Single, me
  <1>1. ASSUME me(c) \notin faulty PROVE SeatedAs(job[c], here[c], seatedIn(me(c)), me(c))
    BY <1>1 DEF SeatsPlaced
  <1>2. ASSUME Request(c) \/ Step(c) \/ Fails(c) \/ Disconnect(c)
        PROVE  SeatedAs(job[c], here[c], seatedIn(me(c)), me(c))'
    <2>1. me(c) \notin faulty
      BY <1>2, OthersUntouched
    <2>2. ~Fails(c) /\ ~Disconnect(c)
      BY DEF Fails, Disconnect
    <2> QED BY <1>1, <1>2, <2>1, <2>2, SeatedRequest, SeatedStep
  <1>3. ASSUME me(c) \notin faulty, job'[c] = job[c], here'[c] = here[c],
               ~(Request(c) \/ Step(c) \/ Fails(c) \/ Disconnect(c))
        PROVE  SeatedAs(job[c], here[c], seatedIn(me(c)), me(c))'
    <2>1. ~JoinTx(c)
      BY <1>3 DEF Step
    <2> QED BY <1>1, <1>3, <2>1, SeatsPlacedOther
  <1>4. ASSUME NEW d \in Clients, Request(d) \/ Step(d) \/ Fails(d) \/ Disconnect(d), d # c
        PROVE  me(c) \notin faulty /\ job'[c] = job[c] /\ here'[c] = here[c]
    BY <1>4, OthersUntouched
  <1>5. ASSUME NEW j \in Sweepers, Sweep(j) PROVE UNCHANGED <<job, here, faulty>>
    BY <1>5 DEF Sweep, CleanupExpired, DeleteGuestSession, DeleteGuests, CommitGuests,
           FindTimeouts, FindStale, SweepFails, EndTimedOut, DeleteStale
  <1>6. ASSUME NEW r \in Rooms, CompleteMatch(r) PROVE UNCHANGED <<job, here, faulty>>
    BY <1>6 DEF CompleteMatch
  <1>7. ASSUME NEW g \in Guests, ExpireSession(g) PROVE UNCHANGED <<job, here, faulty>>
    BY <1>7 DEF ExpireSession
  <1>8. ASSUME UNCHANGED vars PROVE UNCHANGED <<job, here, faulty>>
    BY <1>8 DEF vars
  <1> QED BY <1>2, <1>3, <1>4, <1>5, <1>6, <1>7, <1>8 DEF Next

\* A person whose only connection met no failure is seated, once it has nothing left to
\* do, in no other room than the one it is in, for any number of rooms and people: a
\* switch leaves the old room before it takes a seat, and one that fails half way gives
\* the new seat back. (handleJoinRoom and its two rollbacks, handleLeaveRoom.)
THEOREM SeatsAreWhereConnectionsAre == Spec => []SeatsFollowConnections
  <1>1. TypeOK /\ Asking /\ SeatsPlaced => SeatsFollowConnections
    BY DEF SeatsPlaced, SeatsFollowConnections, SeatedAs, GivingUp, Single, seatedIn, at
  <1>2. Init => TypeOK /\ Asking /\ SeatsPlaced
    BY InitTypes, SeatsPlacedInit
  <1>3. TypeOK /\ Asking /\ SeatsPlaced /\ [Next]_vars => (TypeOK /\ Asking /\ SeatsPlaced)'
    BY NextTyped, SeatsPlacedNext
  <1> QED BY <1>1, <1>2, <1>3, PTL DEF Spec

-----------------------------------------------------------------------------
(* Empty rooms *)

\* Unless another removal or a start came in between: if a removal under way leaves nobody
\* behind, then it saw that; and a cleanup whose deletions empty the room saw that too, and
\* no match has been started meanwhile.
RemoverSaw(r) ==
  \A c \in Removing(r) :
    rooms[r].status # "closed" /\ ~raced[r] /\ seats[r] \subseteq {job[c].victim}
      => job[c].seen = {}

SweeperSaw(r) ==
  \A j \in Sweeping(r) :
    ~raced[r] /\ seats[r] \subseteq sweep[j].gone[r]
      => sweep[j].view[r] = {} /\ rooms[r].status # "playing"

Marked(r) == Exists(r) /\ seats[r] = {} /\ ~raced[r] => rooms[r].marked

Emptiness(r) == RemoverSaw(r) /\ SweeperSaw(r) /\ Marked(r)

\* No removal of the room begins, and none under way changes.
RemovalsCalm(r) ==
  \A c \in Clients : /\ job'[c].pc = "removing" /\ job'[c].room = r
                     => job[c].pc = "removing" /\ job[c].room = r /\ job'[c] = job[c]

SweepsCalm(r) ==
  \A j \in Sweepers : sweep'[j].gone[r] # {}
                      => /\ sweep[j].gone[r] = sweep'[j].gone[r]
                         /\ sweep[j].view[r] = sweep'[j].view[r]

\* A step that is no matter of emptiness.
Calm(r) ==
  /\ RemovalsCalm(r) /\ SweepsCalm(r)
  /\ seats'[r] = seats[r] /\ raced'[r] = raced[r]
  /\ Exists(r)' /\ ~rooms'[r].marked => Exists(r) /\ ~rooms[r].marked
  /\ rooms[r].status = "closed" => rooms'[r].status = "closed"
  /\ rooms'[r].status = "playing" => rooms[r].status = "playing"

LEMMA CalmEmptiness ==
  ASSUME NEW r \in Rooms, Emptiness(r), Calm(r)
  PROVE  Emptiness(r)'
  <1>1. ASSUME NEW c \in Clients, c \in Removing(r)', rooms'[r].status # "closed", ~raced'[r],
               seats'[r] \subseteq {job'[c].victim}
        PROVE  job'[c].seen = {}
    <2>1. c \in Removing(r) /\ job'[c] = job[c]
      BY <1>1 DEF Removing, at, Calm, RemovalsCalm
    <2> QED BY <1>1, <2>1 DEF Emptiness, RemoverSaw, Calm
  <1>2. ASSUME NEW j \in Sweepers, j \in Sweeping(r)', ~raced'[r], seats'[r] \subseteq sweep'[j].gone[r]
        PROVE  sweep'[j].view[r] = {} /\ rooms'[r].status # "playing"
    <2>1. /\ j \in Sweeping(r)
          /\ sweep[j].gone[r] = sweep'[j].gone[r] /\ sweep[j].view[r] = sweep'[j].view[r]
      BY <1>2 DEF Sweeping, Calm, SweepsCalm
    <2> QED BY <1>2, <2>1 DEF Emptiness, SweeperSaw, Calm
  <1>3. Marked(r)'
    BY DEF Emptiness, Marked, Calm, Exists
  <1>4. RemoverSaw(r)'
    BY <1>1 DEF RemoverSaw, Removing
  <1>5. SweeperSaw(r)'
    BY <1>2 DEF SweeperSaw, Sweeping
  <1> QED BY <1>3, <1>4, <1>5 DEF Emptiness

\* Requests that remove nobody.
LEMMA CalmRemovals ==
  ASSUME TypeOK, NEW c \in Clients, NEW j, goto(c, j), j.pc # "removing", NEW r
  PROVE  RemovalsCalm(r)
  <1>1. job'[c] = j /\ \A d \in Clients \ {c} : job'[d] = job[d]
    BY Goes
  <1> QED BY <1>1 DEF RemovalsCalm

LEMMA StillCalm ==
  ASSUME NEW r
  PROVE  (UNCHANGED job => RemovalsCalm(r)) /\ (UNCHANGED sweep => SweepsCalm(r))
  BY DEF RemovalsCalm, SweepsCalm

LEMMA AfterRemovalCalm ==
  ASSUME TypeOK, NEW c \in Clients, NEW ok, AfterRemoval(c, ok), NEW r
  PROVE  RemovalsCalm(r) /\ job'[c].pc # "removing"
  <1>1. PICK j : j = [NoJob EXCEPT !.pc = "join", !.for = "join",
                       !.room = job[c].other, !.other = job[c].room]
    OBVIOUS
  <1>2. goto(c, j) \/ goto(c, Rollback(c)) \/ goto(c, NoJob)
    BY <1>1 DEF AfterRemoval, done
  <1>3. j.pc = "join" /\ Rollback(c).pc \in {"join", "idle"} /\ NoJob.pc = "idle"
    BY <1>1 DEF NoJob, Rollback
  <1> QED BY <1>2, <1>3, CalmRemovals, Goes

\* What a client's steps, other than the first of a removal, make of the removals.
LEMMA ClientCalm ==
  ASSUME TypeOK, Asking, NEW c \in Clients,
         Request(c) \/ Step(c) \/ Fails(c) \/ Disconnect(c), ~BeginRemoval(c), NEW r
  PROVE  RemovalsCalm(r)
  <1>1. job[c] \in Job
    BY DEF Asking, About
  <1>2. NoJob.pc = "idle" /\ Rollback(c).pc \in {"join", "idle"}
    BY DEF NoJob, Rollback
  <1>3. ASSUME done(c) \/ goto(c, Rollback(c)) PROVE RemovalsCalm(r)
    BY <1>2, <1>3, CalmRemovals DEF done
  <1>4. ASSUME NEW p, goto(c, [job[c] EXCEPT !.pc = p]), p # "removing" PROVE RemovalsCalm(r)
    <2>1. [job[c] EXCEPT !.pc = p].pc = p
      BY <1>1 DEF Job
    <2> QED BY <1>4, <2>1, CalmRemovals
  <1>5. ASSUME Request(c) PROVE RemovalsCalm(r)
    <2>1. ASSUME NEW q \in Rooms, JoinRoom(c, q) PROVE RemovalsCalm(r)
      <3>1. PICK k, l : k = [NoJob EXCEPT !.pc = "join", !.for = "join", !.room = q]
                        /\ l = [NoJob EXCEPT !.pc = "remove", !.for = "switch",
                                   !.room = here[c], !.other = q, !.victim = me(c)]
        OBVIOUS
      <3>2. goto(c, k) \/ goto(c, l)
        BY <2>1, <3>1 DEF JoinRoom
      <3>3. k.pc = "join" /\ l.pc = "remove"
        BY <3>1 DEF NoJob
      <3> QED BY <3>2, <3>3, CalmRemovals
    <2>2. ASSUME LeaveRoom(c) PROVE RemovalsCalm(r)
      <3>1. PICK j : j = [NoJob EXCEPT !.pc = "remove", !.for = "leave",
                            !.room = here[c], !.victim = me(c)]
        OBVIOUS
      <3>2. goto(c, j)
        BY <2>2, <3>1 DEF LeaveRoom
      <3>3. j.pc = "remove"
        BY <3>1 DEF NoJob
      <3> QED BY <3>2, <3>3, CalmRemovals
    <2>3. ASSUME NEW q \in Rooms, NEW t, KickParticipant(c, q, t) PROVE RemovalsCalm(r)
      <3>1. PICK j : j = [NoJob EXCEPT !.pc = "remove", !.for = "kick", !.room = q, !.victim = t]
        OBVIOUS
      <3>2. goto(c, j)
        BY <2>3, <3>1 DEF KickParticipant
      <3>3. j.pc = "remove"
        BY <3>1 DEF NoJob
      <3> QED BY <3>2, <3>3, CalmRemovals
    <2>4. ASSUME NEW q \in Rooms, NEW m, NEW b, UpdateRoomSettings(c, q, m, b) PROVE RemovalsCalm(r)
      <3>1. PICK n, k : goto(c, [NoJob EXCEPT !.pc = "settings", !.room = q, !.max = n, !.bots = k])
        BY <2>4 DEF UpdateRoomSettings
      <3>2. PICK j : j = [NoJob EXCEPT !.pc = "settings", !.room = q, !.max = n, !.bots = k]
        OBVIOUS
      <3>3. j.pc = "settings"
        BY <3>2 DEF NoJob
      <3> QED BY <3>1, <3>2, <3>3, CalmRemovals
    <2>5. ASSUME NEW q \in Rooms, StartRoom(c, q) PROVE RemovalsCalm(r)
      <3>1. PICK j : j = [NoJob EXCEPT !.pc = "start", !.room = q, !.seen = seats[q],
                                       !.bots = rooms[q].bots]
        OBVIOUS
      <3>2. goto(c, j)
        BY <2>5, <3>1 DEF StartRoom
      <3>3. j.pc = "start"
        BY <3>1 DEF NoJob
      <3> QED BY <3>2, <3>3, CalmRemovals
    <2>6. ASSUME NEW q \in Rooms, LeaveMatch(c, q) PROVE RemovalsCalm(r)
      <3>1. PICK j : j = [NoJob EXCEPT !.pc = "finish", !.room = q]
        OBVIOUS
      <3>2. goto(c, j)
        BY <2>6, <3>1 DEF LeaveMatch
      <3>3. j.pc = "finish"
        BY <3>1 DEF NoJob
      <3> QED BY <3>2, <3>3, CalmRemovals
    <2>7. ASSUME NEW q \in Rooms, DeleteRoom(c, q) PROVE RemovalsCalm(r)
      <3>1. PICK p \in {"terminate", "delete"} :
                   p = IF rooms[q].status = "playing" THEN "terminate" ELSE "delete"
        OBVIOUS
      <3>2. PICK j : j = [NoJob EXCEPT !.room = q, !.pc = p]
        OBVIOUS
      <3>3. goto(c, j)
        BY <2>7, <3>1, <3>2 DEF DeleteRoom
      <3>4. j.pc = p
        BY <3>2 DEF NoJob
      <3> QED BY <3>1, <3>3, <3>4, CalmRemovals
    <2>8. ASSUME NEW q \in Rooms, CreateRoom(c, q) PROVE UNCHANGED job
      BY <2>8 DEF CreateRoom
    <2>9. ASSUME Rejoin(c) PROVE UNCHANGED job
      BY <2>9 DEF Rejoin
    <2> QED BY <1>5, <2>1, <2>2, <2>3, <2>4, <2>5, <2>6, <2>7, <2>8, <2>9, StillCalm DEF Request
  <1>6. ASSUME JoinRead(c) PROVE RemovalsCalm(r)
    <2>1. \/ goto(c, Rollback(c))
          \/ \E b : goto(c, [job[c] EXCEPT !.pc = "joinTx", !.bots = b])
      BY <1>6 DEF JoinRead
    <2>2. \A b : [job[c] EXCEPT !.pc = "joinTx", !.bots = b].pc = "joinTx"
      BY <1>1 DEF Job
    <2> QED BY <1>3, <2>1, <2>2, CalmRemovals
  <1>7. ASSUME Subscribe(c) PROVE RemovalsCalm(r)
    <2>1. \/ done(c)
          \/ goto(c, [job[c] EXCEPT !.pc = "remove", !.for = "undo", !.victim = me(c)])
      BY <1>7 DEF Subscribe, done
    <2>2. [job[c] EXCEPT !.pc = "remove", !.for = "undo", !.victim = me(c)].pc = "remove"
      BY <1>1 DEF Job
    <2> QED BY <1>3, <2>1, <2>2, CalmRemovals
  <1>8. ASSUME JoinTx(c) PROVE RemovalsCalm(r)
    <2>1. goto(c, Rollback(c)) \/ goto(c, [job[c] EXCEPT !.pc = "subscribe"])
      BY <1>8 DEF JoinTx
    <2> QED BY <1>3, <1>4, <2>1
  <1>9. ASSUME CommitRemoval(c) PROVE RemovalsCalm(r)
    BY <1>9, AfterRemovalCalm DEF CommitRemoval
  <1>10. ASSUME SettingsTx(c) \/ StartTx(c) \/ FinishTx(c) \/ TerminateTx(c) \/ DeleteTx(c)
                  \/ Disconnect(c)
         PROVE  RemovalsCalm(r)
    <2>1. done(c) \/ goto(c, [job[c] EXCEPT !.pc = "delete"])
      BY <1>10 DEF SettingsTx, StartTx, FinishTx, TerminateTx, DeleteTx, Disconnect
    <2> QED BY <1>3, <1>4, <2>1
  <1>11. ASSUME Fails(c) PROVE RemovalsCalm(r)
    <2>1. \/ AfterRemoval(c, FALSE) \/ goto(c, Rollback(c)) \/ done(c)
          \/ goto(c, [job[c] EXCEPT !.pc = "delete"])
      BY <1>11 DEF Fails
    <2> QED BY <1>3, <1>4, <2>1, AfterRemovalCalm
  <1> QED BY <1>5, <1>6, <1>7, <1>8, <1>9, <1>10, <1>11 DEF Step

LEMMA CalmWhenKept ==
  ASSUME NEW r, RemovalsCalm(r), SweepsCalm(r), UNCHANGED <<rooms, seats, raced>>
  PROVE  Calm(r)
  BY DEF Calm, Exists

\* Rows of which only other columns change.
LEMMA CalmWhenRowKept ==
  ASSUME NEW r, RemovalsCalm(r), SweepsCalm(r), UNCHANGED raced, seats'[r] = seats[r],
         rooms'[r].status = rooms[r].status, rooms'[r].marked = rooms[r].marked
  PROVE  Calm(r)
  BY DEF Calm, Exists

\* Somebody sits down whom no removal under way is about.
LEMMA SeatTaken ==
  ASSUME NEW r \in Rooms, NEW a \in Actors, a \in seats'[r], a \notin Held(r),
         RemovalsCalm(r), SweepsCalm(r)
  PROVE  Emptiness(r)'
  <1>1. ASSUME NEW c \in Clients, c \in Removing(r)', seats'[r] \subseteq {job'[c].victim}
        PROVE  FALSE
    <2>1. c \in Removing(r) /\ job'[c] = job[c]
      BY <1>1 DEF Removing, at, RemovalsCalm
    <2>2. a \in {job[c].victim} /\ a # NoActor
      BY <1>1, <2>1, RoomsAssumption
    <2>3. a = job[c].victim
      BY <2>2
    <2>4. a \in {job[d].victim : d \in Removing(r)}
      BY <2>1, <2>3
    <2> QED BY <2>2, <2>4 DEF Held
  <1>2. ASSUME NEW j \in Sweepers, j \in Sweeping(r)', seats'[r] \subseteq sweep'[j].gone[r]
        PROVE  FALSE
    <2>1. j \in Sweeping(r) /\ sweep[j].gone[r] = sweep'[j].gone[r]
      BY <1>2 DEF Sweeping, SweepsCalm
    <2>2. a \in sweep[j].gone[r]
      BY <1>2, <2>1
    <2> QED BY <2>1, <2>2 DEF Held
  <1>3. RemoverSaw(r)'
    BY <1>1 DEF RemoverSaw, Removing
  <1>4. SweeperSaw(r)'
    BY <1>2 DEF SweeperSaw, Sweeping
  <1>5. Marked(r)'
    BY DEF Marked
  <1> QED BY <1>3, <1>4, <1>5 DEF Emptiness

\* The row is dropped, which waits for the removals that hold participants.
LEMMA DroppedEmptiness ==
  ASSUME NEW r \in Rooms, Held(r) = {}, rooms'[r].status = "closed", RemovalsCalm(r), SweepsCalm(r)
  PROVE  Emptiness(r)'
  <1>1. RemoverSaw(r)'
    BY DEF RemoverSaw
  <1>2. Marked(r)'
    BY DEF Marked, Exists
  <1>3. ASSUME NEW j \in Sweepers, j \in Sweeping(r)' PROVE FALSE
    <2>1. j \in Sweeping(r) /\ sweep[j].gone[r] # {}
      BY <1>3 DEF Sweeping, SweepsCalm
    <2> QED BY <2>1 DEF Held
  <1>4. SweeperSaw(r)'
    BY <1>3 DEF SweeperSaw, Sweeping
  <1> QED BY <1>1, <1>2, <1>4 DEF Emptiness

LEMMA DropKeeps ==
  ASSUME TypeOK, NEW r \in Rooms, NEW q \in Rooms, Emptiness(q), Held(r) = {},
         (Deletable(r) /\ DropRoom(r)) \/ UNCHANGED <<rooms, seats>>,
         RemovalsCalm(q), SweepsCalm(q), UNCHANGED raced
  PROVE  Emptiness(q)'
  <1>1. CASE UNCHANGED <<rooms, seats>>
    BY <1>1, CalmWhenKept, CalmEmptiness
  <1>2. CASE DropRoom(r) /\ q = r
    <2>1. rooms'[r].status = "closed"
      BY <1>2, Tables DEF DropRoom, RoomRow
    <2> QED BY <1>2, <2>1, DroppedEmptiness
  <1>3. CASE DropRoom(r) /\ q # r
    <2>1. rooms'[q] = rooms[q] /\ seats'[q] = seats[q]
      BY <1>3, Tables DEF DropRoom
    <2> QED BY <2>1, CalmWhenRowKept, CalmEmptiness
  <1> QED BY <1>1, <1>2, <1>3

\* A match only ends in a room that plays.
LEMMA EndKeeps ==
  ASSUME IInv, NEW r \in Rooms, NEW q \in Rooms, Emptiness(q),
         (active[r] # {} /\ TerminateActiveMatch(r)) \/ UNCHANGED rooms,
         RemovalsCalm(q), SweepsCalm(q), UNCHANGED <<seats, raced>>
  PROVE  Emptiness(q)'
  <1>1. CASE UNCHANGED rooms
    BY <1>1, CalmWhenKept, CalmEmptiness
  <1>2. CASE active[r] # {} /\ TerminateActiveMatch(r)
    <2>1. rooms[r].status = "playing"
      BY <1>2 DEF IInv, Sound, RoomSound
    <2>2. /\ rooms' = [rooms EXCEPT ![r] = [rooms[r] EXCEPT !.status = "waiting"]]
          /\ rooms \in [Rooms -> RoomRow]
      BY <1>2, Tables DEF TerminateActiveMatch, IInv
    <2>3. rooms'[r].status = "waiting" /\ rooms'[r].marked = rooms[r].marked
      BY <2>2 DEF RoomRow
    <2>4. q # r => rooms'[q] = rooms[q]
      BY <2>2
    <2>5. Calm(q)
      BY <2>1, <2>3, <2>4 DEF Calm, Exists
    <2> QED BY <2>5, CalmEmptiness
  <1> QED BY <1>1, <1>2

LEMMA ClientEmptiness ==
  ASSUME IInv, NEW q \in Rooms, Emptiness(q),
         NEW c \in Clients, Request(c) \/ Step(c) \/ Fails(c) \/ Disconnect(c)
  PROVE  Emptiness(q)'
  <1> DEFINE r == job[c].room
  <1>1. /\ TypeOK /\ Asking
        /\ rooms \in [Rooms -> RoomRow] /\ seats \in [Rooms -> SUBSET Actors]
    BY Tables DEF IInv
  <1>2. job[c] \in Job /\ (job[c].pc # "idle" => r \in Rooms)
    BY <1>1 DEF Asking, About
  <1>3. UNCHANGED sweep
    BY DEF Request, CreateRoom, JoinRoom, StartRoom, LeaveMatch, DeleteRoom, Rejoin,
           LeaveRoom, KickParticipant, UpdateRoomSettings,
           Step, JoinRead, JoinTx, Subscribe, BeginRemoval, CommitRemoval,
           SettingsTx, StartTx, FinishTx, TerminateTx, DeleteTx, Fails, Disconnect
  <1>4. SweepsCalm(q)
    BY <1>3, StillCalm
  <1>5. ~BeginRemoval(c) => RemovalsCalm(q)
    BY <1>1, ClientCalm
  <1>6. ASSUME UNCHANGED <<rooms, seats, raced>>, ~BeginRemoval(c) PROVE Emptiness(q)'
    BY <1>4, <1>5, <1>6, CalmWhenKept, CalmEmptiness
  <1>7. ASSUME Request(c) PROVE Emptiness(q)'
    <2>1. ~BeginRemoval(c)
      BY <1>7 DEF BeginRemoval, Request, CreateRoom, JoinRoom, StartRoom, LeaveMatch, DeleteRoom,
                  Rejoin, LeaveRoom, KickParticipant, UpdateRoomSettings, at
    <2>2. ASSUME NEW p \in Rooms, CreateRoom(c, p) PROVE Emptiness(q)'
      <3>1. /\ rooms[p].status = "unborn" /\ UNCHANGED <<seats, raced>>
            /\ rooms' = [rooms EXCEPT ![p] = [rooms[p] EXCEPT !.status = "waiting",
                                                             !.owner = me(c), !.marked = TRUE]]
        BY <2>2 DEF CreateRoom
      <3>2. rooms'[p].status = "waiting" /\ rooms'[p].marked = TRUE
        BY <1>1, <3>1 DEF RoomRow
      <3>3. q # p => rooms'[q] = rooms[q]
        BY <1>1, <3>1
      <3>4. Calm(q)
        BY <1>4, <1>5, <2>1, <3>1, <3>2, <3>3 DEF Calm, Exists
      <3> QED BY <3>4, CalmEmptiness
    <2>3. (\E p \in Rooms : CreateRoom(c, p)) \/ UNCHANGED <<rooms, seats, raced>>
      BY <1>7 DEF Request, JoinRoom, StartRoom, LeaveMatch, DeleteRoom,
                  Rejoin, LeaveRoom, KickParticipant, UpdateRoomSettings
    <2> QED BY <1>6, <2>1, <2>2, <2>3
  <1>8. ASSUME JoinTx(c) PROVE Emptiness(q)'
    <2>1. ~BeginRemoval(c)
      BY <1>8 DEF JoinTx, BeginRemoval, at
    <2>2. CASE ~MayJoin(r, me(c), job[c].bots)
      BY <1>6, <1>8, <2>1, <2>2 DEF JoinTx
    <2>3. CASE MayJoin(r, me(c), job[c].bots)
      <3>1. /\ seats' = [seats EXCEPT ![r] = @ \cup {me(c)}]
            /\ rooms' = [rooms EXCEPT ![r] = [rooms[r] EXCEPT !.marked = FALSE]]
            /\ raced' = [raced EXCEPT ![r] = FALSE]
            /\ me(c) \notin Held(r) /\ r \in Rooms /\ me(c) \in Actors
        BY <1>2, <1>8, <2>3, RoomsAssumption DEF JoinTx, at, me
      <3>2. CASE q = r
        <4>1. me(c) \in seats'[q]
          BY <1>1, <3>1, <3>2
        <4> QED BY <1>4, <1>5, <2>1, <3>1, <3>2, <4>1, SeatTaken
      <3>3. CASE q # r
        <4>1. rooms'[q] = rooms[q] /\ seats'[q] = seats[q] /\ raced'[q] = raced[q]
          BY <1>1, <3>1, <3>3 DEF TypeOK
        <4>2. Calm(q)
          BY <1>4, <1>5, <2>1, <4>1 DEF Calm, Exists
        <4> QED BY <4>2, CalmEmptiness
      <3> QED BY <3>2, <3>3
    <2> QED BY <2>2, <2>3
  <1>9. ASSUME BeginRemoval(c) PROVE Emptiness(q)'
    <2> DEFINE v == job[c].victim
    <2>1. PICK j : j = [job[c] EXCEPT !.pc = "removing", !.seen = seats[r] \ {v},
                                      !.victim = IF v \in seats[r] THEN v ELSE NoActor]
      OBVIOUS
    <2>2. goto(c, j) /\ UNCHANGED <<rooms, seats, raced>> /\ r \in Rooms
      BY <1>2, <1>9, <2>1 DEF BeginRemoval, at
    <2>3. job'[c] = j /\ \A d \in Clients \ {c} : job'[d] = job[d]
      BY <1>1, <2>2, Goes
    <2>4. /\ j.room = r /\ j.seen = seats[r] \ {v}
          /\ j.victim = IF v \in seats[r] THEN v ELSE NoActor
      BY <1>2, <2>1 DEF Job
    <2> HIDE DEF v
    <2>5. CASE q # r
      <3>1. RemovalsCalm(q)
        BY <2>3, <2>4, <2>5 DEF RemovalsCalm
      <3> QED BY <1>4, <2>2, <3>1, CalmWhenKept, CalmEmptiness
    <2>6. CASE q = r
      <3>1. ASSUME NEW d \in Clients, d \in Removing(q)', rooms'[q].status # "closed", ~raced'[q],
                   seats'[q] \subseteq {job'[d].victim}
            PROVE  job'[d].seen = {}
        <4>1. CASE d = c
          <5>1. seats[q] \subseteq {j.victim} /\ seats[q] \subseteq Actors
            BY <1>1, <2>2, <2>3, <3>1, <4>1
          <5>2. j.seen = {}
            BY <2>4, <2>6, <5>1, RoomsAssumption
          <5> QED BY <2>3, <4>1, <5>2
        <4>2. CASE d # c
          <5>1. job'[d] = job[d] /\ d \in Removing(q)
            BY <2>3, <3>1, <4>2 DEF Removing, at
          <5> QED BY <2>2, <3>1, <5>1 DEF Emptiness, RemoverSaw
        <4> QED BY <4>1, <4>2
      <3>2. RemoverSaw(q)'
        BY <3>1 DEF RemoverSaw, Removing
      <3>3. SweeperSaw(q)' /\ Marked(q)'
        BY <1>3, <2>2 DEF Emptiness, SweeperSaw, Sweeping, Marked, Exists
      <3> QED BY <3>2, <3>3 DEF Emptiness
    <2> QED BY <2>5, <2>6
  <1>10. ASSUME CommitRemoval(c) PROVE Emptiness(q)'
    <2>1. /\ seats' = [seats EXCEPT ![r] = @ \ {job[c].victim}]
          /\ rooms' = [rooms EXCEPT ![r] = [rooms[r] EXCEPT !.marked = markedAfter(r, job[c].seen)]]
          /\ raced' = [raced EXCEPT ![r] = @ \/ Removing(r) # {c} \/ Sweeping(r) # {}]
          /\ AfterRemoval(c, TRUE) /\ job[c].pc = "removing" /\ r \in Rooms
      BY <1>2, <1>10 DEF CommitRemoval, at
    <2>2. RemovalsCalm(q) /\ job'[c].pc # "removing"
      BY <1>1, <2>1, AfterRemovalCalm
    <2>3. CASE q # r
      <3>1. rooms'[q] = rooms[q] /\ seats'[q] = seats[q] /\ raced'[q] = raced[q]
        BY <1>1, <2>1, <2>3 DEF TypeOK
      <3>2. Calm(q)
        BY <1>4, <2>2, <3>1 DEF Calm, Exists
      <3> QED BY <3>2, CalmEmptiness
    <2>4. CASE q = r
      <3>1. /\ seats'[q] = seats[q] \ {job[c].victim}
            /\ rooms'[q].status = rooms[q].status
            /\ rooms'[q].marked = markedAfter(q, job[c].seen)
            /\ ~raced'[q] => ~raced[q] /\ Removing(q) = {c} /\ Sweeping(q) = {}
        <4>1. seats'[q] = seats[q] \ {job[c].victim}
          BY <1>1, <2>1, <2>4
        <4>2. rooms'[q] = [rooms[q] EXCEPT !.marked = markedAfter(q, job[c].seen)]
          BY <1>1, <2>1, <2>4
        <4>3. rooms[q] \in RoomRow
          BY <1>1
        <4>4. raced'[q] = (raced[q] \/ Removing(q) # {c} \/ Sweeping(q) # {})
          BY <1>1, <2>1, <2>4, Zenon DEF TypeOK
        <4> QED BY <4>1, <4>2, <4>3, <4>4 DEF RoomRow
      <3>2. ASSUME ~raced'[q] PROVE Removing(q)' = {} /\ Sweeping(q)' = {}
        <4>1. Sweeping(q)' = Sweeping(q)
          BY <1>3 DEF Sweeping
        <4>2. ASSUME NEW d \in Removing(q)' PROVE FALSE
          <5>1. d \in Removing(q) /\ job'[d].pc = "removing"
            BY <2>2, <4>2 DEF Removing, at, RemovalsCalm
          <5>2. d = c
            BY <3>1, <3>2, <5>1
          <5> QED BY <2>2, <5>1, <5>2
        <4> QED BY <3>1, <3>2, <4>1, <4>2
      <3>3. ASSUME Exists(q)', seats'[q] = {}, ~raced'[q] PROVE rooms'[q].marked
        <4>1. c \in Removing(q) /\ Exists(q)
          BY <2>1, <2>4, <3>1, <3>3 DEF Removing, at, Exists
        <4>2. seats[q] \subseteq {job[c].victim} /\ ~raced[q]
          BY <3>1, <3>3
        <4>3. job[c].seen = {}
          BY <4>1, <4>2 DEF Emptiness, RemoverSaw, Exists
        <4> QED BY <3>1, <4>1, <4>3 DEF markedAfter
      <3> QED BY <3>2, <3>3 DEF Emptiness, RemoverSaw, SweeperSaw, Marked
    <2> QED BY <2>3, <2>4
  <1>11. ASSUME SettingsTx(c) PROVE Emptiness(q)'
    <2>1. ~BeginRemoval(c) /\ UNCHANGED <<seats, raced>>
      BY <1>11 DEF SettingsTx, BeginRemoval, at
    <2>2. rooms'[q].status = rooms[q].status /\ rooms'[q].marked = rooms[q].marked
      <3>1. \/ UNCHANGED rooms
            \/ rooms' = [rooms EXCEPT ![r] = [rooms[r] EXCEPT !.max = job[c].max, !.bots = job[c].bots]]
        BY <1>11 DEF SettingsTx
      <3>2. CASE q = r /\ ~UNCHANGED rooms
        <4>1. rooms'[q] = [rooms[q] EXCEPT !.max = job[c].max, !.bots = job[c].bots]
          BY <1>1, <3>1, <3>2
        <4>2. rooms[q] \in RoomRow
          BY <1>1
        <4> QED BY <4>1, <4>2 DEF RoomRow
      <3>3. CASE q # r \/ UNCHANGED rooms
        BY <1>1, <3>1, <3>3
      <3> QED BY <3>2, <3>3
    <2> QED BY <1>4, <1>5, <2>1, <2>2, CalmWhenRowKept, CalmEmptiness
  <1>12. ASSUME StartTx(c) PROVE Emptiness(q)'
    <2>1. ~BeginRemoval(c) /\ UNCHANGED seats /\ r \in Rooms
      BY <1>2, <1>12 DEF StartTx, BeginRemoval, at
    <2>2. CASE ~MayStart(r, job[c].seen, job[c].bots)
      BY <1>6, <1>12, <2>1, <2>2 DEF StartTx
    <2>3. CASE MayStart(r, job[c].seen, job[c].bots)
      <3>1. /\ rooms' = [rooms EXCEPT ![r] = [rooms[r] EXCEPT !.status = "playing"]]
            /\ raced' = [raced EXCEPT ![r] = @ \/ Sweeping(r) # {}]
            /\ seats[r] # {} /\ rooms[r].status = "waiting"
        BY <1>12, <2>3 DEF StartTx, MayStart
      <3>2. CASE q # r
        <4>1. rooms'[q] = rooms[q] /\ raced'[q] = raced[q]
          BY <1>1, <3>1, <3>2 DEF TypeOK
        <4>2. Calm(q)
          BY <1>4, <1>5, <2>1, <4>1 DEF Calm, Exists
        <4> QED BY <4>2, CalmEmptiness
      <3>3. CASE q = r
        <4>1. raced'[q] = (raced[q] \/ Sweeping(q) # {})
          BY <1>1, <3>1, <3>3, Zenon DEF TypeOK
        <4>2. Marked(q)'
          BY <2>1, <3>1, <3>3 DEF Marked
        <4>3. SweeperSaw(q)'
          BY <1>3, <4>1 DEF SweeperSaw, Sweeping
        <4>4. ASSUME NEW d \in Clients, d \in Removing(q)', ~raced'[q],
                     seats'[q] \subseteq {job'[d].victim}
              PROVE  job'[d].seen = {}
          <5>1. d \in Removing(q) /\ job'[d] = job[d]
            BY <1>5, <2>1, <4>4 DEF Removing, at, RemovalsCalm
          <5>2. ~raced[q] /\ rooms[q].status # "closed"
            BY <3>1, <3>3, <4>1, <4>4
          <5> QED BY <2>1, <4>4, <5>1, <5>2 DEF Emptiness, RemoverSaw
        <4>5. RemoverSaw(q)'
          BY <4>4 DEF RemoverSaw, Removing
        <4> QED BY <4>2, <4>3, <4>5 DEF Emptiness
      <3> QED BY <3>2, <3>3
    <2> QED BY <2>2, <2>3
  <1>13. ASSUME FinishTx(c) \/ TerminateTx(c) PROVE Emptiness(q)'
    <2>1. /\ ~BeginRemoval(c) /\ UNCHANGED <<seats, raced>> /\ r \in Rooms
          /\ (active[r] # {} /\ TerminateActiveMatch(r)) \/ UNCHANGED rooms
      BY <1>2, <1>13 DEF FinishTx, TerminateTx, BeginRemoval, at
    <2> QED BY <1>4, <1>5, <2>1, EndKeeps
  <1>14. ASSUME DeleteTx(c) PROVE Emptiness(q)'
    <2>1. /\ ~BeginRemoval(c) /\ UNCHANGED raced /\ r \in Rooms /\ Held(r) = {}
          /\ (Deletable(r) /\ DropRoom(r)) \/ UNCHANGED <<rooms, seats>>
      BY <1>2, <1>14 DEF DeleteTx, BeginRemoval, at
    <2> QED BY <1>1, <1>4, <1>5, <2>1, DropKeeps
  <1>15. ASSUME JoinRead(c) \/ Subscribe(c) PROVE Emptiness(q)'
    <2>1. ~BeginRemoval(c) /\ UNCHANGED <<rooms, seats, raced>>
      BY <1>15 DEF JoinRead, Subscribe, BeginRemoval, at
    <2> QED BY <1>6, <2>1
  <1>16. ASSUME Fails(c) \/ Disconnect(c), ~BeginRemoval(c) PROVE Emptiness(q)'
    <2>1. UNCHANGED <<rooms, seats, raced>>
      BY <1>16 DEF Fails, Disconnect
    <2> QED BY <1>6, <1>16, <2>1
  <1> QED BY <1>7, <1>8, <1>9, <1>10, <1>11, <1>12, <1>13, <1>14, <1>15, <1>16 DEF Step

\* A sweeper that deletes no participant any more.
LEMMA SweepEnds ==
  ASSUME TypeOK, NEW j \in Sweepers, NEW s, s.gone = NoSweep.gone,
         sweep' = [sweep EXCEPT ![j] = s], NEW r \in Rooms
  PROVE  SweepsCalm(r) /\ sweep'[j].gone[r] = {} /\ \A i \in Sweepers \ {j} : sweep'[i] = sweep[i]
  <1>1. NoSweep.gone[r] = {}
    BY DEF NoSweep
  <1>2. sweep'[j] = s /\ \A i \in Sweepers \ {j} : sweep'[i] = sweep[i]
    BY DEF TypeOK
  <1>3. sweep'[j].gone[r] = {}
    BY <1>1, <1>2
  <1> QED BY <1>2, <1>3 DEF SweepsCalm

LEMMA NoSweepGone ==
  ASSUME NEW p, NEW l
  PROVE  /\ [NoSweep EXCEPT !.pc = p].gone = NoSweep.gone
         /\ [NoSweep EXCEPT !.pc = p, !.list = l].gone = NoSweep.gone
  BY DEF NoSweep

\* A room taken off the list of a sweeper.
LEMMA ListShrinks ==
  ASSUME TypeOK, NEW j \in Sweepers, NEW l,
         sweep' = [sweep EXCEPT ![j] = NoSweep] \/ sweep' = [sweep EXCEPT ![j] = [@ EXCEPT !.list = l]],
         NEW r \in Rooms
  PROVE  SweepsCalm(r)
  <1>1. CASE sweep' = [sweep EXCEPT ![j] = NoSweep]
    BY <1>1, SweepEnds
  <1>2. CASE sweep' = [sweep EXCEPT ![j] = [@ EXCEPT !.list = l]]
    <2>1. sweep[j] \in Pass
      BY DEF TypeOK, Pass
    <2>2. PICK s : s = [sweep[j] EXCEPT !.list = l]
      OBVIOUS
    <2>3. s.gone = sweep[j].gone /\ s.view = sweep[j].view
      BY <2>1, <2>2 DEF Pass
    <2>4. sweep' = [sweep EXCEPT ![j] = s]
      BY <1>2, <2>2
    <2>5. sweep'[j] = s /\ \A i \in Sweepers \ {j} : sweep'[i] = sweep[i]
      BY <2>4 DEF TypeOK
    <2> QED BY <2>3, <2>5 DEF SweepsCalm
  <1> QED BY <1>1, <1>2

\* The deletions begin in waiting rooms, and see whom they leave behind.
LEMMA DeleteGuestsEmptiness ==
  ASSUME TypeOK, NEW q \in Rooms, Emptiness(q), NEW j \in Sweepers, NEW G, NEW tick,
         DeleteGuests(j, G, tick)
  PROVE  Emptiness(q)'
  <1>1. PICK gone : gone = [r \in Rooms |-> IF rooms[r].status = "waiting" THEN seats[r] \cap G ELSE {}]
    OBVIOUS
  <1>2. PICK view : view = [r \in Rooms |-> IF gone[r] = {} THEN {} ELSE seats[r] \ gone[r]]
    OBVIOUS
  <1>3. PICK s : s = [NoSweep EXCEPT !.pc = "guests", !.gone = gone, !.tick = tick, !.view = view]
    OBVIOUS
  <1>4. sweep' = [sweep EXCEPT ![j] = s] /\ UNCHANGED <<rooms, seats, job, raced>>
    <2>1. DeleteGuests(j, G, tick)
      OBVIOUS
    <2> QED BY <1>1, <1>2, <1>3, <2>1, Zenon DEF DeleteGuests
  <1>5. s.gone = gone /\ s.view = view
    BY <1>3 DEF NoSweep
  <1>6. sweep'[j] = s /\ \A i \in Sweepers \ {j} : sweep'[i] = sweep[i]
    BY <1>4 DEF TypeOK
  <1>7. RemoverSaw(q)' /\ Marked(q)'
    BY <1>4 DEF Emptiness, RemoverSaw, Removing, at, Marked, Exists
  <1>8. ASSUME NEW i \in Sweepers, i \in Sweeping(q)', ~raced'[q], seats'[q] \subseteq sweep'[i].gone[q]
        PROVE  sweep'[i].view[q] = {} /\ rooms'[q].status # "playing"
    <2>1. CASE i = j
      <3>1. gone[q] # {} /\ seats[q] \subseteq gone[q]
        BY <1>4, <1>5, <1>6, <1>8, <2>1 DEF Sweeping
      <3>2. rooms[q].status = "waiting" /\ view[q] = seats[q] \ gone[q]
        BY <1>1, <1>2, <3>1
      <3> QED BY <1>4, <1>5, <1>6, <2>1, <3>1, <3>2
    <2>2. CASE i # j
      BY <1>4, <1>6, <1>8, <2>2 DEF Emptiness, SweeperSaw, Sweeping
    <2> QED BY <2>1, <2>2
  <1>9. SweeperSaw(q)'
    BY <1>8 DEF SweeperSaw, Sweeping
  <1> QED BY <1>7, <1>9 DEF Emptiness

LEMMA CommitGuestsEmptiness ==
  ASSUME TypeOK, NEW q \in Rooms, Emptiness(q), NEW j \in Sweepers, CommitGuests(j)
  PROVE  Emptiness(q)'
  <1> DEFINE gone == sweep[j].gone[q]
             touched == gone # {}
  <1>1. /\ seats'[q] = seats[q] \ gone
        /\ rooms'[q] = IF touched /\ rooms[q].status = "waiting"
                       THEN [rooms[q] EXCEPT !.marked = (sweep[j].view[q] = {})] ELSE rooms[q]
        /\ raced'[q] = (raced[q] \/ (touched /\ (Removing(q) # {} \/ Sweeping(q) # {j})))
        /\ UNCHANGED job
    BY Zenon DEF CommitGuests
  <1>2. SweepsCalm(q) /\ sweep'[j].gone[q] = {} /\ \A i \in Sweepers \ {j} : sweep'[i] = sweep[i]
    <2>1. PICK s : s = IF sweep[j].tick THEN [NoSweep EXCEPT !.pc = "timeouts"] ELSE NoSweep
      OBVIOUS
    <2>2. sweep' = [sweep EXCEPT ![j] = s]
      BY <2>1 DEF CommitGuests
    <2>3. s.gone = NoSweep.gone
      BY <2>1, NoSweepGone
    <2> QED BY <2>2, <2>3, SweepEnds
  <1>3. RemovalsCalm(q)
    BY <1>1, StillCalm
  <1>4. CASE ~touched
    <2>1. seats'[q] = seats[q] /\ rooms'[q] = rooms[q]
      BY <1>1, <1>4
    <2>2. raced'[q] = raced[q]
      <3>1. raced[q] \in BOOLEAN
        BY DEF TypeOK
      <3> QED BY <1>1, <1>4, <3>1
    <2>3. Calm(q)
      BY <1>2, <1>3, <2>1, <2>2 DEF Calm, Exists
    <2> QED BY <2>3, CalmEmptiness
  <1>5. CASE touched
    <2>1. ASSUME ~raced'[q] PROVE ~raced[q] /\ Removing(q) = {} /\ Sweeping(q) = {j}
      BY <1>1, <1>5, <2>1
    <2>2. ASSUME ~raced'[q] PROVE Removing(q)' = {} /\ Sweeping(q)' = {}
      <3>1. Removing(q)' = {}
        BY <1>1, <2>1, <2>2 DEF Removing, at
      <3>2. ASSUME NEW i \in Sweepers, sweep'[i].gone[q] # {} PROVE FALSE
        <4>1. i # j
          BY <1>2, <3>2
        <4>2. i \in Sweeping(q)
          BY <1>2, <3>2, <4>1 DEF Sweeping
        <4> QED BY <2>1, <2>2, <4>1, <4>2
      <3> QED BY <3>1, <3>2 DEF Sweeping
    <2>3. ASSUME Exists(q)', seats'[q] = {}, ~raced'[q] PROVE rooms'[q].marked
      <3>1. rooms[q] \in RoomRow
        BY RowOf
      <3>2. rooms'[q].status = rooms[q].status
        BY <1>1, <3>1 DEF RoomRow
      <3>3. j \in Sweeping(q) /\ seats[q] \subseteq sweep[j].gone[q] /\ ~raced[q]
        BY <1>1, <2>1, <2>3
      <3>4. sweep[j].view[q] = {} /\ rooms[q].status # "playing"
        BY <3>3 DEF Emptiness, SweeperSaw
      <3>5. rooms[q].status = "waiting"
        BY <2>3, <3>2, <3>4 DEF Exists
      <3>6. rooms'[q] = [rooms[q] EXCEPT !.marked = TRUE]
        BY <1>1, <1>5, <3>4, <3>5
      <3> QED BY <3>1, <3>6 DEF RoomRow
    <2> QED BY <2>2, <2>3 DEF Emptiness, RemoverSaw, SweeperSaw, Marked
  <1> QED BY <1>4, <1>5

LEMMA SweepEmptiness ==
  ASSUME IInv, NEW q \in Rooms, Emptiness(q), NEW j \in Sweepers, Sweep(j)
  PROVE  Emptiness(q)'
  <1>1. TypeOK
    BY DEF IInv
  <1>2. ASSUME NEW G, NEW tick, DeleteGuests(j, G, tick) PROVE Emptiness(q)'
    BY <1>1, <1>2, DeleteGuestsEmptiness
  <1>3. ASSUME CommitGuests(j) PROVE Emptiness(q)'
    BY <1>1, <1>3, CommitGuestsEmptiness
  <1>4. ASSUME FindTimeouts(j) \/ FindStale(j) \/ SweepFails(j) PROVE Emptiness(q)'
    <2>1. UNCHANGED <<rooms, seats, raced, job>>
      BY <1>4 DEF FindTimeouts, FindStale, SweepFails
    <2>2. PICK s : s.gone = NoSweep.gone /\ sweep' = [sweep EXCEPT ![j] = s]
      <3>1. ASSUME FindTimeouts(j)
            PROVE  \E s : s.gone = NoSweep.gone /\ sweep' = [sweep EXCEPT ![j] = s]
        BY <3>1, NoSweepGone DEF FindTimeouts
      <3>2. ASSUME FindStale(j)
            PROVE  \E s : s.gone = NoSweep.gone /\ sweep' = [sweep EXCEPT ![j] = s]
        <4>1. PICK l : sweep' = [sweep EXCEPT ![j] =
                          IF l = {} THEN NoSweep ELSE [NoSweep EXCEPT !.pc = "deleting", !.list = l]]
          BY <3>2 DEF FindStale
        <4>2. PICK s : s = IF l = {} THEN NoSweep ELSE [NoSweep EXCEPT !.pc = "deleting", !.list = l]
          OBVIOUS
        <4>3. s.gone = NoSweep.gone
          BY <4>2, NoSweepGone
        <4> QED BY <4>1, <4>2, <4>3
      <3>3. ASSUME SweepFails(j)
            PROVE  \E s : s.gone = NoSweep.gone /\ sweep' = [sweep EXCEPT ![j] = s]
        BY <3>3 DEF SweepFails
      <3> QED BY <1>4, <3>1, <3>2, <3>3
    <2>3. SweepsCalm(q)
      BY <1>1, <2>2, SweepEnds
    <2> QED BY <2>1, <2>3, StillCalm, CalmWhenKept, CalmEmptiness
  <1>5. ASSUME NEW r \in Rooms, EndTimedOut(j, r) PROVE Emptiness(q)'
    <2>1. /\ UNCHANGED <<seats, raced, job>>
          /\ (active[r] # {} /\ TerminateActiveMatch(r)) \/ UNCHANGED rooms
      BY <1>5 DEF EndTimedOut
    <2>2. SweepsCalm(q)
      <3>1. PICK l : l = sweep[j].list \ {r}
        OBVIOUS
      <3>2. \/ sweep' = [sweep EXCEPT ![j] = NoSweep]
            \/ sweep' = [sweep EXCEPT ![j] = [@ EXCEPT !.list = l]]
        BY <1>5, <3>1 DEF EndTimedOut
      <3> QED BY <1>1, <3>2, ListShrinks
    <2> QED BY <2>1, <2>2, StillCalm, EndKeeps
  <1>6. ASSUME NEW r \in Rooms, DeleteStale(j, r) PROVE Emptiness(q)'
    <2>1. /\ UNCHANGED <<raced, job>> /\ Held(r) = {}
          /\ (Deletable(r) /\ DropRoom(r)) \/ UNCHANGED <<rooms, seats>>
      BY <1>6 DEF DeleteStale
    <2>2. SweepsCalm(q)
      <3>1. PICK l : l = sweep[j].list \ {r}
        OBVIOUS
      <3>2. \/ sweep' = [sweep EXCEPT ![j] = NoSweep]
            \/ sweep' = [sweep EXCEPT ![j] = [@ EXCEPT !.list = l]]
        BY <1>6, <3>1 DEF DeleteStale
      <3> QED BY <1>1, <3>2, ListShrinks
    <2> QED BY <1>1, <2>1, <2>2, StillCalm, DropKeeps
  <1> QED BY <1>2, <1>3, <1>4, <1>5, <1>6 DEF Sweep, CleanupExpired, DeleteGuestSession

LEMMA NextEmptiness ==
  ASSUME IInv, [Next]_vars, NEW q \in Rooms, Emptiness(q)
  PROVE  Emptiness(q)'
  <1>1. ASSUME NEW r \in Rooms, CompleteMatch(r) PROVE Emptiness(q)'
    <2>1. /\ UNCHANGED <<seats, raced, job, sweep>>
          /\ active[r] # {} /\ TerminateActiveMatch(r)
      BY <1>1 DEF CompleteMatch
    <2> QED BY <2>1, StillCalm, EndKeeps
  <1>2. ASSUME UNCHANGED <<rooms, seats, raced, job, sweep>> PROVE Emptiness(q)'
    BY <1>2, StillCalm, CalmWhenKept, CalmEmptiness
  <1>3. ASSUME NEW g \in Guests, ExpireSession(g) PROVE Emptiness(q)'
    BY <1>2, <1>3 DEF ExpireSession
  <1>4. ASSUME UNCHANGED vars PROVE Emptiness(q)'
    BY <1>2, <1>4 DEF vars
  <1> QED BY <1>1, <1>3, <1>4, ClientEmptiness, SweepEmptiness DEF Next

LEMMA InitEmptiness == Init => \A r \in Rooms : Emptiness(r)
  <1> SUFFICES ASSUME Init, NEW r \in Rooms PROVE Emptiness(r)
    OBVIOUS
  <1>1. Removing(r) = {}
    BY DEF Init, Removing, at, NoJob
  <1>2. Sweeping(r) = {}
    BY DEF Init, Sweeping, NoSweep
  <1>3. ~Exists(r)
    BY DEF Init, Exists
  <1> QED BY <1>1, <1>2, <1>3 DEF Emptiness, RemoverSaw, SweeperSaw, Marked

\* However a room empties - its people leave, are kicked or expire, before, in or after a
\* match, while others join and the room is resized, started or deleted - it is marked
\* empty, so that the cleanup loop finds it; the removals that overlapped another removal
\* or a start are the only ones that can miss it.
\* (RemoveParticipant's EXISTS, updateWaitingRoomsEmptyState, the upserts of JoinRoom.)
THEOREM EmptyRoomsAreMarked == Spec => []EmptyRoomIsMarked
  <1> DEFINE Inv == IInv /\ \A r \in Rooms : Emptiness(r)
  <1>1. Inv => EmptyRoomIsMarked
    BY DEF EmptyRoomIsMarked, Emptiness, Marked, Exists
  <1>2. Init => Inv
    BY InitIInv, InitEmptiness
  <1>3. Inv /\ [Next]_vars => Inv'
    <2> SUFFICES ASSUME Inv, [Next]_vars, NEW r \in Rooms PROVE Emptiness(r)'
      BY NextIInv
    <2> QED BY NextEmptiness
  <1> HIDE DEF Inv
  <1> QED BY <1>1, <1>2, <1>3, PTL DEF Spec
=============================================================================
