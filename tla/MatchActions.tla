---------------------------- MODULE MatchActions ----------------------------
(***************************************************************************)
(* How match actions of one room are applied by several concurrent service *)
(* calls, on any number of replicas, over one Postgres database and one    *)
(* Redis lock: internal/match/service ApplyAction and ApplyTurnTimeout with *)
(* the repository transactions they run, and the operations that reach the *)
(* same rows without the lock: starting a match, leaving one, taking and   *)
(* losing a seat, and deleting the room with everything recorded in it.    *)
(*                                                                         *)
(* A call is a program counter and its local variables; every database     *)
(* statement or transaction is one step.  A step may fail before it takes  *)
(* effect, and a commit may take effect although the caller sees an error. *)
(***************************************************************************)
EXTENDS TurnMachine, FiniteSets, Sequences

CONSTANTS
  Calls,          \* service calls that may be in flight at the same time
  Matches,        \* match ids, at most one of them active in the room
  Ids,            \* action ids a client may choose
  NoId, NoMatch, NoCall, NoReceipt, NoRequest,   \* null values
  LockMayBeLost,  \* the lock's key can expire under a holder that is still running
  MaxRequests,    \* bound: different commands the clients ever issue
  MaxFaults       \* bound: database errors, lost locks, crashes and lost seats

ASSUME CallAssumption ==
  /\ NoId \notin Ids
  /\ NoMatch \notin Matches
  /\ NoCall \notin Calls
  /\ LockMayBeLost \in BOOLEAN
  /\ MaxRequests \in Nat
  /\ MaxFaults \in Nat

(***************************************************************************)
(* A command as the client sends it.  Two commands of an actor with the    *)
(* same id are retries of each other exactly when they are equal, which is *)
(* what the request hash of the code compares.                             *)
(***************************************************************************)
Command == [actor : Humans, id : Ids, match : Matches, version : Nat,
            phase : Phases, turn : Nat, move : Moves]
\* What a turn timer remembers when it is scheduled.
Timeout == [actor : Players, id : {NoId}, match : Matches, version : Nat,
            phase : Phases, turn : Nat, move : Moves]
Request == Command \cup Timeout

Key == [actor : Humans, id : Ids]
KeyOf(r) == [actor |-> r.actor, id |-> r.id]

Codes == {"none", "not_your_turn", "invalid", "conflict", "id_conflict",
          "not_found", "error"}
Receipt == [cmd : Command, match : Matches, version : Nat,
            status : {"accepted", "rejected"}, code : Codes]
Answer == [cmd : Command, status : {"accepted", "rejected"}, code : Codes, version : Nat]
Commit == [match : Matches, version : Nat, by : Command \cup {NoRequest}]

PCs == {"idle", "lock", "receipt", "load", "check", "persist", "finish",
        "recheck", "reload", "reject", "replay", "reply"}
CallState == [pc : PCs, cmd : Request \cup {NoRequest}, match : Matches \cup {NoMatch},
              snap : GameState,   \* the match as loaded, then as last persisted
              plan : GameState,   \* what the next transaction writes
              done : Nat,         \* version this call committed for its command, or 0
              why  : Codes]       \* a rejection code, or how the transaction failed
IdleCall == [pc |-> "idle", cmd |-> NoRequest, match |-> NoMatch,
             snap |-> InitialState, plan |-> InitialState, done |-> 0, why |-> "none"]

VARIABLES
  room,      \* rooms.status, or "deleted" once the row is gone
  seated,    \* room_participants: the players seated in the room
  matches,   \* the room's rows of matches
  receipts,  \* match_action_receipts, one row per (actor, action id)
  holder,    \* owner of the room's lock key in Redis
  call,      \* the service calls
  issued,    \* commands the clients have issued
  answers,   \* match_action_result messages sent to the clients
  commits,   \* history: the versions written, in order, and for which command
  faults     \* faults left

db == <<room, seated, matches, receipts, commits>>
vars == <<room, seated, matches, receipts, holder, call, issued, answers, commits, faults>>

NoRow == [status |-> "absent", state |-> InitialState]
Row == [status : {"absent", "active", "finished"}, state : GameState]

Init ==
  /\ room = "waiting"
  /\ seated = Humans
  /\ matches = [m \in Matches |-> NoRow]
  /\ receipts = [k \in Key |-> NoReceipt]
  /\ holder = NoCall
  /\ call = [c \in Calls |-> IdleCall]
  /\ issued = {}
  /\ answers = {}
  /\ commits = << >>
  /\ faults = MaxFaults

\* The null values are not values (the code's nil and empty strings).
ASSUME NullAssumption ==
  /\ NoReceipt \notin Receipt
  /\ NoRequest \notin Request

-----------------------------------------------------------------------------
(* Conditions and building blocks. *)

IsTimeout(c) == call[c].cmd.id = NoId
Active(m) == matches[m].status = "active"

\* (mutant) the match id is not compared
sameVersion(m, s, r) == s.version = r.version /\ s.phase = r.phase /\ s.turn = r.turn

\* matchesExpectedActionState and matchesExpectedTimeoutState
matchesExpectedState(m, s, r) ==
  /\ m = r.match
  /\ s.version = r.version
  /\ s.phase = r.phase
  /\ s.turn = r.turn
  /\ r.id = NoId => s.player = r.actor

\* The engine and the version that persistActionResult writes.
nextState(s, r) ==
  advanceGameStateVersion(s, IF r.id = NoId THEN ApplyTurnTimeout(s)
                                            ELSE ApplyAction(s, r.move))
botState(s) == advanceGameStateVersion(s, ApplyAction(s, BuildBotAction(s)))

\* persistActionResult finishes a match through FinishRoomMatch.
persistStep(next) == IF next.phase = "finished" THEN "check" ELSE "persist"

Goto(c, step) == call' = [call EXCEPT ![c].pc = step]

\* The deferred unlock deletes the key only while it still is this call's.
unlock(c) == holder' = IF holder = c THEN NoCall ELSE holder

Return(c) ==
  /\ unlock(c)
  /\ call' = [call EXCEPT ![c] = IdleCall]

\* The call ends and the handler reports to the client (timeouts have none).
ReturnAnswer(c, status, code, version) ==
  /\ Return(c)
  /\ answers' = IF IsTimeout(c) THEN answers
                ELSE answers \cup {[cmd |-> call[c].cmd, status |-> status,
                                    code |-> code, version |-> version]}

Fault == faults > 0 /\ faults' = faults - 1

\* (mutant) a replayed command is not acknowledged
ReplaySilently(c, receipt) == Return(c) /\ UNCHANGED answers

\* replayMatchAction.  The state sent along is read with the receipt: a deletion
\* between the two leaves the command unanswered, as one before them does.
Replay(c, receipt) ==
  IF receipt.cmd = call[c].cmd
  THEN ReturnAnswer(c, receipt.status, receipt.code, receipt.version)
  ELSE ReturnAnswer(c, "rejected", "id_conflict", receipt.version)

\* After a committed step: the bots move next, or the call is over.
AfterCommit(c) ==
  LET s == call[c].plan
      done == IF call[c].done = 0 THEN s.version ELSE call[c].done
  IN call' = [call EXCEPT ![c].snap = s, ![c].done = done,
                          ![c].plan = IF BotToMove(s) THEN botState(s) ELSE s,
                          ![c].pc = IF BotToMove(s) THEN persistStep(botState(s))
                                                    ELSE "reply"]

\* (mutant) a failed transaction is taken for a committed one
AfterFailureUnnoticed(c, why) == Goto(c, "reply") /\ UNCHANGED holder

\* After a failed step: a command not committed yet looks for its receipt, a
\* timeout gives up, a failed bot step ends the call with what was committed.
AfterFailure(c, why) ==
  IF call[c].done # 0
  THEN /\ Goto(c, "reply")
       /\ UNCHANGED holder
  ELSE IF IsTimeout(c) THEN Return(c)
  ELSE /\ call' = [call EXCEPT ![c].pc = "recheck", ![c].why = why]
       /\ UNCHANGED holder

\* (mutants) a transaction that does not check the version, or the status
AnyVersion(c, m) == TRUE
EvenFinished(c, m) == matches[m].state.version = call[c].plan.version - 1

\* WHERE version = expected, and WHERE status = 'active' as well.
AtExpectedVersion(c, m) == matches[m].state.version = call[c].plan.version - 1
Updatable(c, m) == Active(m) /\ AtExpectedVersion(c, m)

\* The receipt row of a committed action; bots and timeouts write none.
CommittedBy(c) == IF IsTimeout(c) \/ call[c].done # 0 THEN NoRequest ELSE call[c].cmd

\* The primary key of match_action_receipts, and its foreign keys.
ReceiptRefused(c) ==
  /\ CommittedBy(c) # NoRequest
  /\ receipts[KeyOf(call[c].cmd)] # NoReceipt \/ room = "deleted"

\* (mutant) the receipt records the version the action was computed from
WriteReceiptBeforeAdvance(c, m) ==
  receipts' = IF CommittedBy(c) = NoRequest THEN receipts
              ELSE [receipts EXCEPT ![KeyOf(call[c].cmd)] =
                      [cmd |-> call[c].cmd, match |-> m, version |-> call[c].snap.version,
                       status |-> "accepted", code |-> "none"]]
WriteReceipt(c, m) ==
  receipts' = IF CommittedBy(c) = NoRequest THEN receipts
              ELSE [receipts EXCEPT ![KeyOf(call[c].cmd)] =
                      [cmd |-> call[c].cmd, match |-> m, version |-> call[c].plan.version,
                       status |-> "accepted", code |-> "none"]]

WriteCommit(c, m) ==
  commits' = Append(commits, [match |-> m, version |-> call[c].plan.version,
                              by |-> CommittedBy(c)])
-----------------------------------------------------------------------------
(* Clients, timers and the operations that do not take the lock. *)

\* A player acts on the match state it was last sent.
IssueCommand ==
  /\ Cardinality(issued) < MaxRequests
  /\ \E m \in Matches, a \in Humans, i \in Ids, v \in Moves :
       /\ Active(m)
       /\ issued' = issued \cup
            {[actor |-> a, id |-> i, match |-> m, version |-> matches[m].state.version,
              phase |-> matches[m].state.phase, turn |-> matches[m].state.turn, move |-> v]}
  /\ UNCHANGED <<db, holder, call, answers, faults>>

\* A command arrives, for the first time or again: the client retries until it
\* is answered, and a retry may overtake a call that is still running.  Only a
\* connection that has joined the room gets this far; it stays joined when the
\* seat or the room is gone.
Deliver(c, r) ==
  /\ call[c].pc = "idle"
  /\ r \in issued
  /\ \A a \in answers : a.cmd # r
  /\ call' = [call EXCEPT ![c] = [IdleCall EXCEPT !.pc = "lock", !.cmd = r]]
  /\ UNCHANGED <<db, holder, issued, answers, faults>>

\* A turn timer scheduled from the current state fires; the call may then wait
\* for the lock while the match moves on.
TurnTimerFires(c, m) ==
  /\ call[c].pc = "idle"
  /\ Active(m)
  /\ LET s == matches[m].state
         r == [actor |-> s.player, id |-> NoId, match |-> m, version |-> s.version,
               phase |-> s.phase, turn |-> s.turn, move |-> "skip_meeple"]
     IN call' = [call EXCEPT ![c] = [IdleCall EXCEPT !.pc = "lock", !.cmd = r]]
  /\ UNCHANGED <<db, holder, issued, answers, faults>>

\* StartRoomWithMatch: the people in the match are the participants of the room.
StartMatch(m) ==
  /\ room = "waiting"
  /\ seated = Humans
  /\ matches[m] = NoRow
  /\ room' = "playing"
  /\ matches' = [matches EXCEPT ![m] = [status |-> "active", state |-> InitialState]]
  /\ UNCHANGED <<seated, receipts, holder, call, issued, answers, commits, faults>>

\* (mutant) the room's status is left behind
LeaveMatchOnly(m) ==
  /\ room = "playing"
  /\ Active(m)
  /\ matches' = [matches EXCEPT ![m].status = "finished"]
  /\ UNCHANGED <<room, seated, receipts, holder, call, issued, answers, commits, faults>>

\* LeaveActiveMatch and TerminateRoomMatch: TerminateActiveMatch with no
\* expected version, no new state and no receipt.
LeaveMatch(m) ==
  /\ room = "playing"
  /\ Active(m)
  /\ matches' = [matches EXCEPT ![m].status = "finished"]
  /\ room' = "waiting"
  /\ UNCHANGED <<seated, receipts, holder, call, issued, answers, commits, faults>>

\* RemoveParticipant, KickParticipant, the removal of an expired guest.  The room
\* may be playing: a removal that was checked before the start can follow it.
LoseSeat(a) ==
  /\ a \in seated
  /\ Fault
  /\ seated' = seated \ {a}
  /\ UNCHANGED <<room, matches, receipts, holder, call, issued, answers, commits>>

\* JoinRoom: a new participant is only taken in while the room waits.
TakeSeat(a) ==
  /\ room = "waiting"
  /\ seated' = seated \cup {a}
  /\ UNCHANGED <<room, matches, receipts, holder, call, issued, answers, commits, faults>>

\* DeleteRoom, for delete_room and for the cleanup of stale rooms: participants,
\* matches and receipts are deleted with the room (ON DELETE CASCADE), whatever
\* calls and retries are still under way.
DeleteRoom ==
  /\ room = "waiting"
  /\ room' = "deleted"
  /\ seated' = {}
  /\ matches' = [m \in Matches |-> NoRow]
  /\ receipts' = [k \in Key |-> NoReceipt]
  /\ UNCHANGED <<holder, call, issued, answers, commits, faults>>
-----------------------------------------------------------------------------
(* The steps of ApplyAction and ApplyTurnTimeout. *)

AcquireLock(c) ==
  /\ call[c].pc = "lock"
  /\ holder = NoCall
  /\ holder' = c
  /\ Goto(c, IF IsTimeout(c) THEN "load" ELSE "receipt")
  /\ UNCHANGED <<db, issued, answers, faults>>

GetActionReceipt(c) ==
  /\ call[c].pc = "receipt"
  /\ LET receipt == receipts[KeyOf(call[c].cmd)]
     IN IF receipt # NoReceipt
        THEN Replay(c, receipt)
        ELSE /\ Goto(c, "load")
             /\ UNCHANGED <<holder, answers>>
  /\ UNCHANGED <<db, issued, faults>>

\* GetActiveByRoomID, the preconditions and the engine.
LoadMatch(c) ==
  /\ call[c].pc = "load"
  /\ \/ /\ \A m \in Matches : ~Active(m)
        /\ ReturnAnswer(c, "rejected", "not_found", 0)
     \/ \E m \in Matches :
          LET s == matches[m].state
              r == call[c].cmd
              verdict == IF ~matchesExpectedState(m, s, r) THEN "conflict"
                         ELSE IF IsTimeout(c) THEN "ok"
                         ELSE Verdict(s, r.actor, r.move)
          IN /\ Active(m)
             /\ IF verdict = "ok"
                THEN /\ call' = [call EXCEPT ![c].match = m, ![c].snap = s,
                                             ![c].plan = nextState(s, r),
                                             ![c].pc = persistStep(nextState(s, r))]
                     /\ UNCHANGED holder
                ELSE IF IsTimeout(c) THEN Return(c)
                ELSE /\ call' = [call EXCEPT ![c].match = m, ![c].snap = s,
                                             ![c].why = verdict, ![c].pc = "reject"]
                     /\ UNCHANGED holder
             /\ UNCHANGED answers
  /\ UNCHANGED <<db, issued, faults>>

\* (mutant) neither the receipt nor the version is checked
PersistUnchecked(c) ==
  /\ call[c].pc = "persist"
  /\ LET m == call[c].match
     IN /\ matches' = [matches EXCEPT ![m].state = call[c].plan]
        /\ WriteReceipt(c, m)
        /\ WriteCommit(c, m)
  /\ AfterCommit(c)
  /\ UNCHANGED <<room, seated, holder, issued, answers, faults>>

\* PersistActionResult: one transaction inserts the receipt, then updates the
\* match only if it is still active at the version the result was computed from.
PersistActionResult(c) ==
  /\ call[c].pc = "persist"
  /\ LET m == call[c].match
     IN IF ReceiptRefused(c) THEN AfterFailure(c, "error") /\ UNCHANGED <<db, faults>>
        ELSE IF ~Updatable(c, m)
        THEN AfterFailure(c, "conflict") /\ UNCHANGED <<db, faults>>
        ELSE /\ matches' = [matches EXCEPT ![m].state = call[c].plan]
             /\ WriteReceipt(c, m)
             /\ WriteCommit(c, m)
             \* the commit is reported, or the caller sees an error instead
             /\ \/ AfterCommit(c) /\ UNCHANGED <<holder, faults>>
                \/ AfterFailure(c, "error") /\ Fault
             /\ UNCHANGED <<room, seated>>
  /\ UNCHANGED <<issued, answers>>

\* The participants of the room, its bots included.
InRoom(a) == room # "deleted" /\ a \in seated \cup Bots

\* FinishRoomMatch first reads the room and its participants: the player who
\* made the last move must still be one of them.
CheckFinisher(c) ==
  /\ call[c].pc = "check"
  /\ IF InRoom(call[c].snap.player) THEN Goto(c, "finish") /\ UNCHANGED holder
     ELSE AfterFailure(c, "error")
  /\ UNCHANGED <<db, issued, answers, faults>>

\* TerminateActiveMatch: whichever match is active in the room by now is the one
\* that is finished, provided it is at the expected version.
TerminateActiveMatch(c) ==
  /\ call[c].pc = "finish"
  /\ \/ /\ \A m \in Matches : ~Active(m)
        /\ AfterFailure(c, "error")
        /\ UNCHANGED <<db, faults>>
     \/ \E m \in Matches :
          /\ Active(m)
          /\ IF ~AtExpectedVersion(c, m)
             THEN AfterFailure(c, "conflict") /\ UNCHANGED <<db, faults>>
             ELSE IF ReceiptRefused(c)
             THEN AfterFailure(c, "error") /\ UNCHANGED <<db, faults>>
             ELSE /\ matches' = [matches EXCEPT ![m] =
                                   [status |-> "finished", state |-> call[c].plan]]
                  /\ WriteReceipt(c, m)
                  /\ WriteCommit(c, m)
                  /\ room' = "waiting"
                  /\ UNCHANGED seated
                  /\ \/ AfterCommit(c) /\ UNCHANGED <<holder, faults>>
                     \/ AfterFailure(c, "error") /\ Fault
  /\ UNCHANGED <<issued, answers>>

\* (mutant) a failed transaction is reported without looking for the receipt
RejectAtOnce(c) ==
  /\ call[c].pc = "recheck"
  /\ ReturnAnswer(c, "rejected", "conflict", 0)
  /\ UNCHANGED <<db, issued, faults>>

\* The transaction failed: the receipt may be there all the same.
RecheckReceipt(c) ==
  /\ call[c].pc = "recheck"
  /\ LET receipt == receipts[KeyOf(call[c].cmd)]
     IN IF receipt # NoReceipt THEN Replay(c, receipt)
        ELSE IF call[c].why = "conflict"
        THEN /\ Goto(c, "reload")
             /\ UNCHANGED <<holder, answers>>
        ELSE Return(c) /\ UNCHANGED answers
  /\ UNCHANGED <<db, issued, faults>>

\* GetByID, for the version a rejection receipt records.  A conflict is reported
\* even if the match is gone by now and the receipt cannot be written.
ReloadMatch(c) ==
  /\ call[c].pc = "reload"
  /\ IF matches[call[c].match] = NoRow
     THEN ReturnAnswer(c, "rejected", "conflict", 0)
     ELSE /\ call' = [call EXCEPT ![c].snap = matches[call[c].match].state, ![c].pc = "reject"]
          /\ UNCHANGED <<holder, answers>>
  /\ UNCHANGED <<db, issued, faults>>

\* rejectMatchAction, SaveActionReceipt: a rejection is remembered like an
\* acceptance, unless the room is gone, which leaves the command unanswered.
SaveRejection(c) ==
  /\ call[c].pc = "reject"
  /\ LET k == KeyOf(call[c].cmd)
         version == call[c].snap.version
     IN IF receipts[k] # NoReceipt
        THEN Goto(c, "replay") /\ UNCHANGED <<receipts, holder, answers, faults>>
        ELSE IF room = "deleted"
        THEN Return(c) /\ UNCHANGED <<receipts, answers, faults>>
        ELSE /\ receipts' = [receipts EXCEPT ![k] =
                   [cmd |-> call[c].cmd, match |-> call[c].match, version |-> version,
                    status |-> "rejected", code |-> call[c].why]]
             /\ \/ ReturnAnswer(c, "rejected", call[c].why, version) /\ UNCHANGED faults
                \/ Return(c) /\ Fault /\ UNCHANGED answers
  /\ UNCHANGED <<room, seated, matches, commits, issued>>

\* rejectMatchAction lost the race for the receipt, and reads it if it still can.
ReplaySaved(c) ==
  /\ call[c].pc = "replay"
  /\ LET receipt == receipts[KeyOf(call[c].cmd)]
     IN IF receipt # NoReceipt THEN Replay(c, receipt) ELSE Return(c) /\ UNCHANGED answers
  /\ UNCHANGED <<db, issued, faults>>

\* The command itself, not a bot after it, ended the match: the state for the
\* answer can then only be read back from the database.
EndedByCommand(c) == call[c].snap.phase = "finished" /\ call[c].snap.version = call[c].done

\* The state for the answer is read and the command acknowledged, unless the
\* room was deleted with the match the command has ended.
Acknowledge(c) ==
  /\ call[c].pc = "reply"
  /\ IF room = "deleted" /\ EndedByCommand(c)
     THEN Return(c) /\ UNCHANGED answers
     ELSE ReturnAnswer(c, "accepted", "none", call[c].done)
  /\ UNCHANGED <<db, issued, faults>>
-----------------------------------------------------------------------------
(* Faults. *)

\* A database step fails without effect, or the lock's context was cancelled.
\* A command whose transaction failed stays unanswered, except that a version
\* conflict is reported although it could not be recorded; once a command is
\* committed, only the state of a match it has ended is worth failing for.
DatabaseError(c) ==
  /\ call[c].pc \notin {"idle", "lock"}
  /\ Fault
  /\ CASE call[c].pc \in {"check", "persist", "finish"} ->
            AfterFailure(c, "error") /\ UNCHANGED answers
       [] call[c].pc = "recheck" /\ call[c].why = "conflict" ->
            Goto(c, "reload") /\ UNCHANGED <<holder, answers>>
       [] call[c].pc = "reload" -> ReturnAnswer(c, "rejected", "conflict", 0)
       [] call[c].pc = "reply" /\ ~EndedByCommand(c) ->
            ReturnAnswer(c, "accepted", "none", call[c].done)
       [] OTHER -> Return(c) /\ UNCHANGED answers
  /\ UNCHANGED <<db, issued>>

\* The replica dies: its calls vanish, their key stays in Redis until it expires.
Crash(c) ==
  /\ call[c].pc # "idle"
  /\ Fault
  /\ call' = [call EXCEPT ![c] = IdleCall]
  /\ UNCHANGED <<db, holder, issued, answers>>

\* The key of a holder that is gone expires.
LockExpires ==
  /\ holder # NoCall
  /\ call[holder].pc \in {"idle", "lock"}
  /\ holder' = NoCall
  /\ UNCHANGED <<db, call, issued, answers, faults>>

\* The key expires although its holder still runs: it could not extend it.
LockIsLost ==
  /\ LockMayBeLost
  /\ holder # NoCall
  /\ call[holder].pc \notin {"idle", "lock"}
  /\ Fault
  /\ holder' = NoCall
  /\ UNCHANGED <<db, call, issued, answers>>
-----------------------------------------------------------------------------
ServiceStep(c) ==
  \/ AcquireLock(c) \/ GetActionReceipt(c) \/ LoadMatch(c)
  \/ PersistActionResult(c) \/ CheckFinisher(c) \/ TerminateActiveMatch(c)
  \/ RecheckReceipt(c) \/ ReloadMatch(c) \/ SaveRejection(c) \/ ReplaySaved(c)
  \/ Acknowledge(c)

Next ==
  \/ IssueCommand
  \/ \E m \in Matches : StartMatch(m) \/ LeaveMatch(m)
  \/ \E a \in Humans : LoseSeat(a) \/ TakeSeat(a)
  \/ DeleteRoom
  \/ \E c \in Calls, r \in issued : Deliver(c, r)
  \/ \E c \in Calls, m \in Matches : TurnTimerFires(c, m)
  \/ \E c \in Calls : ServiceStep(c) \/ DatabaseError(c) \/ Crash(c)
  \/ LockExpires
  \/ LockIsLost

Spec == Init /\ [][Next]_vars
-----------------------------------------------------------------------------
(* Properties. *)

TypeOK ==
  /\ room \in {"waiting", "playing", "deleted"}
  /\ seated \subseteq Humans
  /\ matches \in [Matches -> Row]
  /\ receipts \in [Key -> Receipt \cup {NoReceipt}]
  /\ holder \in Calls \cup {NoCall}
  /\ call \in [Calls -> CallState]
  /\ issued \subseteq Command
  /\ answers \subseteq Answer
  /\ commits \in Seq(Commit)
  /\ faults \in Nat

\* What a call's local variables say about the database: the strengthening that
\* makes the invariants below inductive.
CallOK(l) ==
  /\ l.pc # "idle" => l.cmd \in Request
  /\ l.pc \in {"receipt", "recheck", "reload", "reject", "replay"} => l.cmd \in Command
  /\ l.pc \notin {"check", "persist", "finish", "reply"} => l.done = 0
  /\ l.pc \in {"check", "persist", "finish", "recheck", "reload", "reject"} =>
       l.match \in Matches
  /\ l.pc = "persist" => l.plan.phase # "finished"
  /\ l.pc = "replay" /\ room # "deleted" => receipts[KeyOf(l.cmd)] # NoReceipt
  /\ l.pc = "reply" => l.done # 0
  /\ l.done # 0 /\ l.cmd \in Command /\ room # "deleted" =>
       LET receipt == receipts[KeyOf(l.cmd)]
       IN /\ receipt # NoReceipt
          /\ receipt.cmd = l.cmd
          /\ receipt.status = "accepted"
          /\ receipt.version = l.done

CallInv == \A c \in Calls : CallOK(call[c])

\* An active match has a player to move, and a room.
ActiveIsRunning == \A m \in Matches :
  Active(m) => matches[m].state.phase # "finished" /\ room # "deleted"

\* Every command changes a match at most once however often it is delivered,
\* retried or left in doubt by a failed commit: two commits made for the same
\* actor and action id are one commit (ApplyAction, insertActionReceipt).
AppliedAtMostOnce ==
  \A i, j \in DOMAIN commits :
    /\ commits[i].by # NoRequest
    /\ commits[j].by # NoRequest
    /\ KeyOf(commits[i].by) = KeyOf(commits[j].by)
    => i = j

\* A receipt says "accepted" exactly when its command was committed, with the
\* match and version the commit wrote (the receipt and the match row are
\* written by one transaction).  The receipts go with their room, and no call
\* that is still running writes one then (migration 012).
ReceiptIffCommit ==
  /\ \A k \in Key : receipts[k] # NoReceipt /\ receipts[k].status = "accepted" =>
       \E i \in DOMAIN commits :
         commits[i] = [match |-> receipts[k].match, version |-> receipts[k].version,
                       by |-> receipts[k].cmd]
  /\ room # "deleted" => \A i \in DOMAIN commits : commits[i].by # NoRequest =>
       receipts[KeyOf(commits[i].by)] =
         [cmd |-> commits[i].by, match |-> commits[i].match,
          version |-> commits[i].version, status |-> "accepted", code |-> "none"]

\* No update is lost and no version is skipped: the versions committed to a
\* match are 2..n, each by one commit, n being the version it is at for as long
\* as its row exists (the version check of PersistActionResult and
\* TerminateActiveMatch).
OneCommitPerVersion ==
  /\ \A i, j \in DOMAIN commits :
       i # j /\ commits[i].match = commits[j].match => commits[i].version # commits[j].version
  /\ room # "deleted" => \A m \in Matches :
       {commits[i].version : i \in {j \in DOMAIN commits : commits[j].match = m}}
         = 2..matches[m].state.version

\* A command is committed only on the very state its sender saw: its match, one
\* version up.
CommittedAsExpected ==
  \A i \in DOMAIN commits :
    LET x == commits[i]
    IN x.by # NoRequest => x.match = x.by.match /\ x.version = x.by.version + 1

\* An acknowledgement is backed by a receipt that survives the call and lives as
\* long as the room: the client never drops a command the database does not hold.
AckIsDurable ==
  \A a \in answers : a.status = "accepted" /\ room # "deleted" =>
    LET receipt == receipts[KeyOf(a.cmd)]
    IN receipt # NoReceipt /\ receipt.cmd = a.cmd /\ receipt.status = "accepted"
       /\ receipt.version = a.version

Applied(r) == \E i \in DOMAIN commits : commits[i].by = r

\* A client that hears "rejected" can forget the command: it has not been applied
\* and never will be, not even by a retry still in flight.  One case is excepted:
\* when the reply to an applied command was lost and the room has been deleted
\* with its receipt, the retry can only be told that there is no match
\* (ApplyAction finds neither a receipt nor an active match).
RejectedIsNeverApplied ==
  \A a \in answers : a.status = "rejected" /\ Applied(a.cmd) =>
    a.code = "not_found" /\ room = "deleted"

\* The room is "playing" exactly while one of its matches is active.
PlayingIffActive ==
  /\ Cardinality({m \in Matches : Active(m)}) <= 1
  /\ room = "playing" <=> \E m \in Matches : Active(m)

\* The room is gone and everything recorded in it with it.
Erased == room = "deleted" /\ (\A m \in Matches : matches[m] = NoRow)
                           /\ (\A k \in Key : receipts[k] = NoReceipt)

\* A finished match and a written receipt never change: no late bot step, timeout
\* or retry reaches them.  They can only disappear, all of them at once, when the
\* room is deleted while nobody plays in it, and no call that outlives the room
\* brings anything of it back (DeleteRoom and the ON DELETE CASCADEs).
HistoryIsFrozen ==
  [][/\ \/ /\ \A m \in Matches : matches[m].status = "finished" => matches'[m] = matches[m]
           /\ \A k \in Key : receipts[k] # NoReceipt => receipts'[k] = receipts[k]
        \/ room = "waiting" /\ Erased'
     /\ room = "deleted" => Erased']_vars

-----------------------------------------------------------------------------
(* The promise the service keeps. *)

Log == INSTANCE GameLog

\* Calls, lock, failures and retries are invisible: what happens to matches and
\* receipts is a run of GameLog, in which every command is applied in one step
\* to the state its sender named and refused only when it cannot be applied, until
\* the log is erased with its room.
\* (The promise of ApplyAction and ApplyTurnTimeout as a whole.)
ImplementsLog == Log!LogInit /\ [][Log!LogNext(issued)]_<<room, matches, receipts>>

(* Progress. *)

\* The process keeps running its calls, Redis lets keys of dead holders expire,
\* and a player in the room who has no answer retries (the retries of each meet
\* finitely many faults).
Fairness ==
  /\ \A c \in Calls : WF_vars(ServiceStep(c))
  /\ WF_vars(LockExpires)
  /\ \A a \in Humans : WF_vars(a \in seated /\ \E c \in Calls, r \in issued :
                                               r.actor = a /\ Deliver(c, r))

FairSpec == Spec /\ Fairness

\* No command of a player who keeps the seat stays unanswered: an unacknowledged
\* call (a failed transaction, a crash, a lost lock) is repaired by the client's
\* retry.  Without a seat (lost in a race with the start of the match, or deleted
\* with the room) it is not: FinishRoomMatch refuses the last move of such a
\* player every time, and the handler acknowledges nothing.
EveryCommandAnswered ==
  \A a \in Humans, i \in Ids :
    <>[](a \in seated) =>
      ((\E r \in issued : r.actor = a /\ r.id = i)
         ~> \A r \in issued : r.actor = a /\ r.id = i => \E x \in answers : x.cmd = r)
=============================================================================
