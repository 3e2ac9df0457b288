------------------------------- MODULE GameLog -------------------------------
(***************************************************************************)
(* What the match service promises, with no calls, locks or failures: the  *)
(* matches of a room are played one after another, every command is either *)
(* applied, in one step, to the state its sender named, or refused for     *)
(* good once it cannot be applied any more.  Between two matches the log   *)
(* can be erased, and then nothing is recorded any more.                   *)
(***************************************************************************)
EXTENDS TurnMachine

CONSTANTS Matches, Ids, NoId, NoReceipt

VARIABLES room, matches, receipts

logVars == <<room, matches, receipts>>

Commands == [actor : Humans, id : Ids, match : Matches, version : Nat,
             phase : Phases, turn : Nat, move : Moves]
Keys == [actor : Humans, id : Ids]
keyOf(r) == [actor |-> r.actor, id |-> r.id]

absent == [status |-> "absent", state |-> InitialState]

LogInit ==
  /\ room = "waiting"
  /\ matches = [m \in Matches |-> absent]
  /\ receipts = [k \in Keys |-> NoReceipt]

Start(m) ==
  /\ room = "waiting"
  /\ matches[m] = absent
  /\ matches' = [matches EXCEPT ![m] = [status |-> "active", state |-> InitialState]]
  /\ room' = "playing"
  /\ UNCHANGED receipts

Abandon(m) ==
  /\ matches[m].status = "active"
  /\ matches' = [matches EXCEPT ![m].status = "finished"]
  /\ room' = "waiting"
  /\ UNCHANGED receipts

\* The active match moves from its current state to `next`.
Move(m, next) ==
  /\ matches[m].status = "active"
  /\ LET s == advanceGameStateVersion(matches[m].state, next)
         over == next.phase = "finished"
     IN /\ matches' = [matches EXCEPT ![m] =
                         [status |-> IF over THEN "finished" ELSE "active", state |-> s]]
        /\ room' = IF over THEN "waiting" ELSE room

Applicable(r) ==
  LET s == matches[r.match].state
  IN /\ matches[r.match].status = "active"
     /\ s.version = r.version /\ s.phase = r.phase /\ s.turn = r.turn
     /\ Verdict(s, r.actor, r.move) = "ok"

receiptFor(r, m, version, status, code) ==
  [cmd |-> r, match |-> m, version |-> version, status |-> status, code |-> code]

\* A player's command, applied in one step.
Play(r) ==
  /\ receipts[keyOf(r)] = NoReceipt
  /\ Applicable(r)
  /\ Move(r.match, ApplyAction(matches[r.match].state, r.move))
  /\ receipts' = [receipts EXCEPT ![keyOf(r)] =
       receiptFor(r, r.match, r.version + 1, "accepted", "none")]

\* A command is refused only when it can no longer be applied.
Refuse(r) ==
  /\ receipts[keyOf(r)] = NoReceipt
  /\ ~Applicable(r)
  /\ \E m \in Matches, code \in {"not_your_turn", "invalid", "conflict"} :
       /\ matches[m] # absent
       /\ \E v \in 1..matches[m].state.version :
            receipts' = [receipts EXCEPT ![keyOf(r)] =
                           receiptFor(r, m, v, "rejected", code)]
  /\ UNCHANGED <<room, matches>>

\* The server moves for a player whose time is up, or for a bot.
MoveForPlayer(m) ==
  /\ \/ Move(m, ApplyTurnTimeout(matches[m].state))
     \/ /\ BotToMove(matches[m].state)
        /\ Move(m, ApplyAction(matches[m].state, BuildBotAction(matches[m].state)))
  /\ UNCHANGED receipts

\* The room is deleted, with the record of everything played in it.
Erase ==
  /\ room = "waiting"
  /\ room' = "deleted"
  /\ matches' = [m \in Matches |-> absent]
  /\ receipts' = [k \in Keys |-> NoReceipt]

\* The commands that can have been issued by now name a state that was reached.
Known(r) == matches[r.match] # absent /\ r.version <= matches[r.match].state.version

LogNext(R) ==
  \/ \E m \in Matches : Start(m) \/ Abandon(m) \/ MoveForPlayer(m)
  \/ Erase
  \/ \E r \in R : Known(r) /\ (Play(r) \/ Refuse(r))
=============================================================================
