------------------------------ MODULE TurnTimer ------------------------------
(***************************************************************************)
(* The turn timers of one room.  Every API process keeps, per room, the    *)
(* timer of the last match state one of its handlers got hold of.  Nothing *)
(* keeps the timers of two processes, or a timer and the match, in step:   *)
(* handlers hand over states they read a while ago, and a timer that fires *)
(* learns from the service whether its state is still the current one.     *)
(* A call of the match service is one step here; MatchActions has its      *)
(* steps, and the reasons why it may be taken for one under the room lock. *)
(* Every match has a time limit: without one nothing is ever scheduled.    *)
(***************************************************************************)
EXTENDS TurnMachine, FiniteSets

CONSTANTS
  Processes,    \* API replicas
  NoTimer,
  MaxMatches,   \* bound: matches started in the room
  MaxEvents,    \* bound: kinds of events, of those in Events, that happen, once each
  MaxBusy       \* bound: handlers and timeouts at work when another one starts

Matches == 1 .. MaxMatches
maxBotTurnSteps == 32

\* A client looks at the match, a match is abandoned, a process dies, a call fails.
Events == {"look", "quit", "crash", "failure"}

VARIABLES
  matches,   \* the rows of matches, in the order of created_at
  overdue,   \* the turns of each match whose deadline has been reached: 1 .. overdue[m]
  timers,    \* turnTimerManager.timers of each process, for this room
  fired,     \* applyTimeout goroutines of each process
  notices,   \* what the handlers of each process still have to do with the timers
  rejoin,    \* clients that lost their process and have not come back
  events,    \* the kinds of events that have happened
  early      \* history: the turns a timeout ended before their deadline

vars == <<matches, overdue, timers, fired, notices, rejoin, events, early>>

absent == [status |-> "absent", state |-> InitialState]

Init ==
  /\ matches = [m \in Matches |-> absent]
  /\ overdue = [m \in Matches |-> 0]
  /\ timers = [p \in Processes |-> NoTimer]
  /\ fired = [p \in Processes |-> {}]
  /\ notices = [p \in Processes |-> {}]
  /\ rejoin = FALSE
  /\ events = {}
  /\ early = {}

Active(m) == matches[m].status = "active"
happens(e) == e \notin events /\ Cardinality(events) < MaxEvents /\ events' = events \cup {e}

\* What a handler holds when the service has answered: a match as it was read.
Response(m) == [do |-> "lifecycle", match |-> m, state |-> matches[m].state,
                over |-> matches[m].status = "finished"]

\* GetActiveByRoomID is still to be called, and the timers of the room to be
\* stopped whatever they are for.
Load == [do |-> "load", match |-> 0, state |-> InitialState, over |-> FALSE]
StopRoom == [do |-> "stop", match |-> 0, state |-> InitialState, over |-> FALSE]

Notify(p, n) == notices' = [notices EXCEPT ![p] = @ \cup {n}]
handled(p, n) == [notices EXCEPT ![p] = @ \ {n}]

-----------------------------------------------------------------------------
\* The match ---------------------------------------------------------------

\* applyAutomaticBotTurns: the state after k more moves of the bots.
BotMoves(s, k) ==
  LET after[i \in 0 .. k] ==
        IF i = 0 THEN s
        ELSE LET t == after[i-1]
             IN advanceGameStateVersion(t, ApplyAction(t, BuildBotAction(t)))
  IN after[k]

BotsCanMove(s, k) == \A i \in 0 .. k-1 : BotToMove(BotMoves(s, i))

\* The row of match m after a move to `s` and k bot moves.
Moved(m, s, k) ==
  LET t == BotMoves(advanceGameStateVersion(matches[m].state, s), k)
  IN [status |-> IF t.phase = "finished" THEN "finished" ELSE "active", state |-> t]

\* A move, and the bots' moves after it, through process p.  When all went
\* well the handler, or the timer's callback, then reads the match again, by its
\* id if it is over.  When a bot move fails, the handler of a person's move (`answers`)
\* goes on with the state last stored; the timer's callback gives up.
MoveThrough(p, m, s, answers) ==
  \E k \in 0 .. maxBotTurnSteps :
    LET before == advanceGameStateVersion(matches[m].state, s)
        row == Moved(m, s, k)
        stored == [do |-> "lifecycle", match |-> m, state |-> row.state,
                   over |-> row.status = "finished"]
    IN /\ BotsCanMove(before, k)
       /\ matches' = [matches EXCEPT ![m] = row]
       /\ \/ /\ ~BotToMove(row.state)
             /\ Notify(p, IF row.status = "finished" THEN stored ELSE Load)
             /\ UNCHANGED events
          \/ /\ BotToMove(row.state)
             /\ happens("failure")
             /\ IF answers THEN Notify(p, stored) ELSE UNCHANGED notices

\* start_room.
StartRoom(p, m) ==
  /\ matches[m] = absent
  /\ \A n \in Matches : IF n < m THEN matches[n].status = "finished" ELSE matches[n] = absent
  /\ matches' = [matches EXCEPT ![m].status = "active"]
  /\ Notify(p, Load)
  /\ UNCHANGED <<overdue, timers, fired, rejoin, events, early>>

\* match_action: the person whose turn it is makes a move.
MatchAction(p, m) ==
  LET s == matches[m].state IN
  /\ Active(m) /\ ~BotToMove(s)
  /\ \E move \in Moves :
       Verdict(s, s.player, move) = "ok" /\ MoveThrough(p, m, ApplyAction(s, move), TRUE)
  /\ UNCHANGED <<overdue, timers, fired, rejoin, early>>

\* A join, a repeated or a rejected action: the handler gets the match as it
\* is now, or, for the receipt of an older one, as it ended.
Look(p, m) ==
  /\ matches[m] # absent
  /\ happens("look")
  /\ Notify(p, Response(m))
  /\ UNCHANGED <<matches, overdue, timers, fired, rejoin, early>>

\* leave_match and delete_room end the match in one call and stop the timers
\* of the room in the next one.
LeaveMatch(p, m) ==
  /\ Active(m)
  /\ happens("quit")
  /\ matches' = [matches EXCEPT ![m].status = "finished"]
  /\ Notify(p, StopRoom)
  /\ UNCHANGED <<overdue, timers, fired, rejoin, early>>

\* The cleanup loop ends the match and leaves the timers alone.
CleanupStaleRooms(m) ==
  /\ Active(m)
  /\ happens("quit")
  /\ matches' = [matches EXCEPT ![m].status = "finished"]
  /\ UNCHANGED <<overdue, timers, fired, notices, rejoin, early>>

-----------------------------------------------------------------------------
\* The timers --------------------------------------------------------------

stopMatch(p, m) ==
  timers' = [timers EXCEPT ![p] = IF @ # NoTimer /\ @.match = m THEN NoTimer ELSE @]

\* (mutant) the timer of another match is never replaced
ScheduleForOneMatch(p, m, s) ==
  LET existing == timers[p]
      kept == existing # NoTimer /\ (existing.match # m \/ existing.state.version > s.version)
  IN timers' = IF kept THEN timers
               ELSE [timers EXCEPT ![p] = [match |-> m, state |-> s, running |-> TRUE]]

\* The entry stays when it is for a later match, or a later state of this one.
\* A timer that replaces one of the same turn keeps its deadline, which is that
\* of the turn in any case.
Schedule(p, m, s) ==
  LET existing == timers[p]
      kept == /\ existing # NoTimer
              /\ \/ existing.match > m
                 \/ existing.match = m /\ existing.state.version > s.version
  IN timers' = IF kept THEN timers
               ELSE [timers EXCEPT ![p] = [match |-> m, state |-> s, running |-> TRUE]]

\* The handler goes on with what it got.
Handle(p, n) ==
  /\ n \in notices[p]
  /\ CASE n.do = "stop" -> timers' = [timers EXCEPT ![p] = NoTimer] /\ notices' = handled(p, n)
       [] n.do = "lifecycle" ->
            /\ IF n.over THEN stopMatch(p, n.match) ELSE Schedule(p, n.match, n.state)
            /\ notices' = handled(p, n)
       [] n.do = "load" ->
            /\ notices' = [handled(p, n) EXCEPT ![p] =
                             @ \cup {Response(m) : m \in {m \in Matches : Active(m)}}]
            /\ UNCHANGED timers
  /\ UNCHANGED <<matches, overdue, fired, rejoin, events, early>>

\* The deadline of the turn is reached, or was before: time.AfterFunc starts
\* applyTimeout.  The entry stays in the map, and stopping it has no effect any
\* more.  turnDeadline counts from the start of the turn, on clocks taken to agree.
Fire(p) ==
  LET entry == timers[p]  turn == entry.state.turn IN
  /\ entry # NoTimer
  /\ entry.running
  /\ overdue' = [overdue EXCEPT ![entry.match] = IF turn > @ THEN turn ELSE @]
  /\ timers' = [timers EXCEPT ![p].running = FALSE]
  /\ fired' = [fired EXCEPT ![p] = @ \cup {[match |-> entry.match, state |-> entry.state]}]
  /\ UNCHANGED <<matches, notices, rejoin, events, early>>

\* (mutant) the match the timer was set for is not compared
matchesExpectedTurn(m, req) ==
  LET s == matches[m].state IN
  s.version = req.state.version /\ s.phase = req.state.phase
    /\ s.turn = req.state.turn /\ s.player = req.state.player

\* The active match m is in the state the timer was set for.
matchesExpectedTimeoutState(m, req) ==
  LET s == matches[m].state IN
  m = req.match /\ s.version = req.state.version /\ s.phase = req.state.phase
    /\ s.turn = req.state.turn /\ s.player = req.state.player

\* applyTimeout, without a failure: the turn ends, or the timer is set again
\* for what the match has become, or there is no match any more.
ApplyTimeout(p, req) ==
  /\ req \in fired[p]
  /\ fired' = [fired EXCEPT ![p] = @ \ {req}]
  /\ \/ \E m \in Matches :
          /\ Active(m) /\ matchesExpectedTimeoutState(m, req)
          /\ MoveThrough(p, m, ApplyTurnTimeout(matches[m].state), FALSE)
          /\ early' = early \cup
               {[match |-> m, turn |-> t] : t \in {matches[m].state.turn} \ (1 .. overdue[m])}
     \/ \E m \in Matches :
          /\ Active(m) /\ ~matchesExpectedTimeoutState(m, req)
          /\ Notify(p, Load)
          /\ UNCHANGED <<matches, events, early>>
     \/ /\ \A m \in Matches : ~Active(m)
        /\ UNCHANGED <<matches, notices, events, early>>
  /\ UNCHANGED <<overdue, timers, rejoin>>

-----------------------------------------------------------------------------
\* Failures ----------------------------------------------------------------

\* A timeout's call fails before it changed anything: nothing is scheduled.
TimeoutFails(p, req) ==
  /\ req \in fired[p]
  /\ happens("failure")
  /\ fired' = [fired EXCEPT ![p] = @ \ {req}]
  /\ UNCHANGED <<matches, overdue, timers, notices, rejoin, early>>

\* GetActiveByRoomID fails: the handler gives up.
LoadFails(p) ==
  /\ Load \in notices[p]
  /\ happens("failure")
  /\ notices' = handled(p, Load)
  /\ UNCHANGED <<matches, overdue, timers, fired, rejoin, early>>

\* The process is killed, or shut down (StopAll).  Its clients lose their connections.
Crash(p) ==
  /\ happens("crash")
  /\ timers' = [timers EXCEPT ![p] = NoTimer]
  /\ fired' = [fired EXCEPT ![p] = {}]
  /\ notices' = [notices EXCEPT ![p] = {}]
  /\ rejoin' = TRUE
  /\ UNCHANGED <<matches, overdue, early>>

\* One of these clients connects to some process and joins its room again.
Rejoin(p) ==
  /\ rejoin
  /\ rejoin' = FALSE
  /\ Notify(p, Load)
  /\ UNCHANGED <<matches, overdue, timers, fired, events, early>>

-----------------------------------------------------------------------------
CanServe ==
  Cardinality(UNION {{<<p, w>> : w \in notices[p] \cup fired[p]} : p \in Processes}) < MaxBusy

Next ==
  \/ \E p \in Processes, m \in Matches :
       /\ CanServe
       /\ StartRoom(p, m) \/ MatchAction(p, m) \/ Look(p, m) \/ LeaveMatch(p, m)
  \/ \E m \in Matches : CleanupStaleRooms(m)
  \/ \E p \in Processes :
       \/ \E n \in notices[p] : Handle(p, n)
       \/ \E req \in fired[p] : ApplyTimeout(p, req) \/ TimeoutFails(p, req)
       \/ CanServe /\ Fire(p)
       \/ LoadFails(p) \/ Crash(p) \/ Rejoin(p)

Spec == Init /\ [][Next]_vars

\* Goroutines run, time passes, and clients that lost their connection join
\* again.  Nobody has to start a match or to make a move.
Fairness ==
  /\ \A p \in Processes :
       /\ WF_vars(\E n \in notices[p] : Handle(p, n))
       /\ WF_vars(\E req \in fired[p] : ApplyTimeout(p, req))
       /\ WF_vars(CanServe /\ Fire(p))
  /\ WF_vars(\E p \in Processes : Rejoin(p))

LiveSpec == Spec /\ Fairness

-----------------------------------------------------------------------------
(* Properties *)

\* The type invariant: rows, timers, requests and responses are what the tables
\* and the manager's map can hold.
Timer == [match : Matches, state : GameState, running : BOOLEAN]
Request == [match : Matches, state : GameState]
Notice == [do : {"load", "stop"}, match : {0}, state : {InitialState}, over : {FALSE}]
            \cup [do : {"lifecycle"}, match : Matches, state : GameState, over : BOOLEAN]

TypeOK ==
  /\ \A m \in Matches : /\ matches[m].status \in {"absent", "active", "finished"}
                        /\ matches[m].state \in GameState
                        /\ overdue[m] \in 0 .. matches[m].state.turn
  /\ \A p \in Processes : /\ timers[p] \in Timer \cup {NoTimer}
                          /\ fired[p] \subseteq Request
                          /\ notices[p] \subseteq Notice
  /\ rejoin \in BOOLEAN /\ events \subseteq Events
  /\ early \subseteq [match : Matches, turn : Nat]

\* Nobody loses a turn before its time is up: whatever old timers are still set,
\* or have fired, on any process, for this match or an earlier one, a timeout
\* only ends a turn whose own deadline has passed.
\* (Schedule, applyTimeout, matchesExpectedTimeoutState.)
NoTurnIsCutShort == early = {}

\* A turn does not last for ever, although the timers are kept by processes that
\* crash, do not know of each other's moves and handle states that are out of
\* date: unless a call fails or a match is abandoned, every turn is over in the end.
\* (An abandoned match is excepted because Stop is given a room and no match: late,
\* it removes the timer that the next match has set meanwhile.)
\* (Schedule, stopMatch, applyTimeout and its refresh after a conflict.)
EveryTurnEnds ==
  \A m \in Matches : \A t \in 1 .. Deck + 1 :
    (Active(m) /\ matches[m].state.turn = t)
      ~> (~(Active(m) /\ matches[m].state.turn = t) \/ events \cap {"failure", "quit"} # {})
=============================================================================
