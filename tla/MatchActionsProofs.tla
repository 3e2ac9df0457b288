-------------------------- MODULE MatchActionsProofs --------------------------
(***************************************************************************)
(* What MatchActions guarantees for any number of calls, matches, players, *)
(* commands and faults, whether or not the lock can be lost.               *)
(***************************************************************************)
EXTENDS MatchActions, TurnMachineProofs, FiniteSetTheorems

-----------------------------------------------------------------------------
(* Types of what the steps compute. *)

\* A request is a timeout exactly when it carries no action id.
LEMMA RequestKinds ==
  ASSUME NEW r \in Request
  PROVE  /\ r.id = NoId <=> r \notin Command
         /\ r.id # NoId => KeyOf(r) \in Key
         /\ r.move \in Moves
  BY CallAssumption DEF Request, Command, Timeout, KeyOf, Key

\* The state an action, a timeout or a bot writes is well formed and one version up.
LEMMA PlanType ==
  ASSUME NEW s \in GameState, s.phase # "finished"
  PROVE  /\ \A r \in Request : /\ nextState(s, r) \in GameState
                               /\ nextState(s, r).version = s.version + 1
         /\ botState(s) \in GameState
         /\ botState(s).version = s.version + 1
<1>1. ASSUME NEW r \in Request
      PROVE  nextState(s, r) \in GameState /\ nextState(s, r).version = s.version + 1
  <2>1. r.move \in Moves
    BY RequestKinds
  <2>2. ApplyAction(s, r.move) \in GameState /\ ApplyTurnTimeout(s) \in GameState
    BY <2>1, EngineTypes
  <2>3. QED
    BY <2>2, AdvanceVersion DEF nextState
<1>2. "place_tile" \in Moves
  BY DEF Moves
<1>3. ApplyAction(s, BuildBotAction(s)) \in GameState
  <2>1. BuildBotAction(s) \in Moves
    BY <1>2, EngineTypes
  <2>2. QED
    BY <2>1, EngineTypes
<1>4. botState(s) \in GameState /\ botState(s).version = s.version + 1
  BY <1>3, AdvanceVersion DEF botState
<1>5. QED
  BY <1>1, <1>4

LEMMA IdleCallType == IdleCall \in CallState
  BY InitialStateType DEF IdleCall, CallState, PCs, Codes

\* Where a call may go without changing anything else of it.
LEMMA GotoType ==
  ASSUME TypeOK, NEW c \in Calls, NEW step \in PCs, Goto(c, step)
  PROVE  call' \in [Calls -> CallState]
  BY DEF Goto, TypeOK, CallState

LEMMA ReturnType ==
  ASSUME TypeOK, NEW c \in Calls, Return(c)
  PROVE  /\ call' \in [Calls -> CallState]
         /\ holder' \in Calls \cup {NoCall}
  BY IdleCallType DEF Return, unlock, TypeOK

\* Steps that end a call with an answer keep the types.
LEMMA ReturnAnswerType ==
  ASSUME TypeOK, CallInv, NEW c \in Calls, call[c].pc # "idle",
         NEW status \in {"accepted", "rejected"}, NEW code \in Codes, NEW version \in Nat,
         ReturnAnswer(c, status, code, version)
  PROVE  /\ call' \in [Calls -> CallState]
         /\ holder' \in Calls \cup {NoCall}
         /\ answers' \subseteq Answer
<1>1. call' \in [Calls -> CallState] /\ holder' \in Calls \cup {NoCall}
  BY ReturnType DEF ReturnAnswer
<1>2. ~IsTimeout(c) => call[c].cmd \in Command
  BY RequestKinds DEF CallInv, CallOK, IsTimeout
<1>3. answers' \subseteq Answer
  BY <1>2 DEF ReturnAnswer, Answer, TypeOK
<1>4. QED
  BY <1>1, <1>3

LEMMA ReplayType ==
  ASSUME TypeOK, CallInv, NEW c \in Calls, call[c].pc # "idle",
         NEW receipt \in Receipt, Replay(c, receipt)
  PROVE  /\ call' \in [Calls -> CallState]
         /\ holder' \in Calls \cup {NoCall}
         /\ answers' \subseteq Answer
<1>1. /\ receipt.status \in {"accepted", "rejected"}
      /\ receipt.code \in Codes
      /\ receipt.version \in Nat
  BY DEF Receipt
<1>2. "id_conflict" \in Codes
  BY DEF Codes
<1>3. QED
  BY <1>1, <1>2, ReturnAnswerType DEF Replay

-----------------------------------------------------------------------------
(* Frames: what one call's step leaves alone. *)

\* Receipts are only ever added, as long as there is a room.
ReceiptsGrow ==
  room' # "deleted" =>
    room # "deleted" /\ \A k \in Key : receipts[k] # NoReceipt => receipts'[k] = receipts[k]

\* A call keeps its facts while receipts grow.
LEMMA CallOKStable ==
  ASSUME NEW l \in CallState, CallOK(l), ReceiptsGrow
  PROVE  CallOK(l)'
<1>1. l.cmd \in Command => KeyOf(l.cmd) \in Key
  BY DEF KeyOf, Key, Command
<1>2. QED
  BY <1>1 DEF CallOK, ReceiptsGrow

\* If one call steps, the others keep their facts.
LEMMA CallFrame ==
  ASSUME TypeOK, CallInv, ReceiptsGrow, NEW c \in Calls,
         \A d \in Calls \ {c} : call'[d] = call[d],
         CallOK(call[c])'
  PROVE  CallInv'
<1> SUFFICES ASSUME NEW d \in Calls
             PROVE  CallOK(call[d])'
  BY DEF CallInv
<1>1. CASE d = c
  BY <1>1
<1>2. CASE d # c
  <2>1. call[d] \in CallState /\ CallOK(call[d]) /\ call'[d] = call[d]
    BY <1>2 DEF TypeOK, CallInv
  <2>2. QED
    BY <2>1, CallOKStable DEF CallOK
<1>3. QED
  BY <1>1, <1>2

\* An idle call has nothing to keep.
LEMMA IdleFrame ==
  ASSUME TypeOK, CallInv, ReceiptsGrow, NEW c \in Calls,
         call' = [call EXCEPT ![c] = IdleCall]
  PROVE  CallInv'
<1>1. call'[c] = IdleCall /\ \A d \in Calls \ {c} : call'[d] = call[d]
  BY DEF TypeOK
<1>2. CallOK(IdleCall)'
  BY DEF CallOK, IdleCall
<1>3. CallOK(call[c])'
  BY <1>1, <1>2
<1>4. QED
  BY <1>1, <1>3, CallFrame

\* A step of a call leaves the receipts alone.
LEMMA SameReceipts ==
  ASSUME UNCHANGED receipts, room' = room \/ room # "deleted" PROVE ReceiptsGrow
  BY DEF ReceiptsGrow

\* A failed transaction leaves a consistent call, whether or not it committed.
LEMMA AfterFailureInv ==
  ASSUME TypeOK, CallInv, ReceiptsGrow, NEW c \in Calls,
         call[c].pc \in {"check", "persist", "finish"},
         NEW why \in Codes, AfterFailure(c, why) \/ (AfterFailure(c, why) /\ Fault)
  PROVE  /\ call' \in [Calls -> CallState]
         /\ holder' \in Calls \cup {NoCall}
         /\ CallInv'
<1> USE DEF AfterFailure
<1>0. call[c] \in CallState /\ CallOK(call[c]) /\ call[c].cmd \in Request
  BY DEF TypeOK, CallInv, CallOK
<1>1. CASE call[c].done # 0
  <2>1. Goto(c, "reply") /\ UNCHANGED holder
    BY <1>1
  <2>2. /\ call' \in [Calls -> CallState]
        /\ call'[c] = [call[c] EXCEPT !.pc = "reply"]
        /\ \A d \in Calls \ {c} : call'[d] = call[d]
    BY <2>1, GotoType DEF Goto, TypeOK, PCs
  <2>3. CallOK(call[c])'
    BY <2>2, <1>0, <1>1, CallOKStable DEF CallOK, CallState
  <2>4. QED
    BY <2>1, <2>2, <2>3, CallFrame DEF TypeOK
<1>2. CASE call[c].done = 0 /\ IsTimeout(c)
  <2>1. Return(c)
    BY <1>2
  <2>2. QED
    BY <2>1, ReturnType, IdleFrame DEF Return
<1>3. CASE call[c].done = 0 /\ ~IsTimeout(c)
  <2>1. /\ call' = [call EXCEPT ![c].pc = "recheck", ![c].why = why]
        /\ UNCHANGED holder
    BY <1>3
  <2>2. /\ call' \in [Calls -> CallState]
        /\ call'[c] = [call[c] EXCEPT !.pc = "recheck", !.why = why]
        /\ \A d \in Calls \ {c} : call'[d] = call[d]
    <3> DEFINE l == [call[c] EXCEPT !.pc = "recheck", !.why = why]
    <3>1. l \in CallState
      BY <1>0 DEF CallState, PCs
    <3>2. call \in [Calls -> CallState]
      BY DEF TypeOK
    <3>3. call' = [call EXCEPT ![c] = l]
      BY <2>1, <3>2 DEF CallState
    <3>4. QED
      BY <3>1, <3>2, <3>3
  <2>3. call[c].cmd \in Command
    BY <1>0, <1>3, RequestKinds DEF IsTimeout
  <2>4. CallOK(call[c])'
    BY <2>2, <2>3, <1>0, <1>3 DEF CallOK, CallState
  <2>5. QED
    BY <2>1, <2>2, <2>4, CallFrame DEF TypeOK
<1>4. QED
  BY <1>1, <1>2, <1>3

\* A committed transaction leaves a call that knows its command is recorded.
LEMMA AfterCommitInv ==
  ASSUME TypeOK, CallInv, ReceiptsGrow, NEW c \in Calls,
         call[c].pc \in {"persist", "finish"}, call[c].plan.version # 0,
         NEW m \in Matches, WriteReceipt(c, m), AfterCommit(c)
  PROVE  /\ call' \in [Calls -> CallState]
         /\ CallInv'
<1> DEFINE s == call[c].plan
<1> DEFINE done == IF call[c].done = 0 THEN s.version ELSE call[c].done
<1>1. call[c] \in CallState /\ CallOK(call[c]) /\ call[c].cmd \in Request
      /\ call[c].match \in Matches
  BY DEF TypeOK, CallInv, CallOK
<1>2. s \in GameState /\ done \in Nat /\ done # 0
  BY <1>1 DEF CallState, GameState
<1>3. BotToMove(s) => botState(s) \in GameState
  BY <1>2, PlanType DEF BotToMove
<1>4. persistStep(botState(s)) \in {"check", "persist"}
      /\ (persistStep(botState(s)) = "persist" => botState(s).phase # "finished")
  BY DEF persistStep
<1>5. PICK l \in CallState :
        /\ call' = [call EXCEPT ![c] = l]
        /\ l.cmd = call[c].cmd /\ l.match = call[c].match /\ l.done = done
        /\ l.pc \in {"check", "persist", "reply"}
        /\ l.pc = "persist" => l.plan.phase # "finished"
  <2>1. CASE BotToMove(s)
    <3> DEFINE l == [call[c] EXCEPT !.snap = s, !.done = done, !.plan = botState(s),
                                    !.pc = persistStep(botState(s))]
    <3>1. l \in CallState
      BY <1>1, <1>2, <1>3, <1>4, <2>1 DEF CallState, PCs
    <3>2. call' = [call EXCEPT ![c] = l]
      BY <2>1 DEF AfterCommit, TypeOK
    <3>3. /\ l.cmd = call[c].cmd /\ l.match = call[c].match /\ l.done = done
          /\ l.pc = persistStep(botState(s)) /\ l.plan = botState(s)
      BY <1>1 DEF CallState
    <3> HIDE DEF l, s, done
    <3>4. QED
      BY <3>1, <3>2, <3>3, <1>4
  <2>2. CASE ~BotToMove(s)
    <3> DEFINE l == [call[c] EXCEPT !.snap = s, !.done = done, !.plan = s, !.pc = "reply"]
    <3>1. l \in CallState
      BY <1>1, <1>2 DEF CallState, PCs
    <3>2. call' = [call EXCEPT ![c] = l]
      BY <2>2 DEF AfterCommit, TypeOK
    <3>3. /\ l.cmd = call[c].cmd /\ l.match = call[c].match /\ l.done = done
          /\ l.pc = "reply"
      BY <1>1 DEF CallState
    <3>4. QED
      BY <3>1, <3>2, <3>3
  <2>3. QED
    BY <2>1, <2>2
<1>6. call'[c] = l /\ \A d \in Calls \ {c} : call'[d] = call[d]
  BY <1>5 DEF TypeOK
<1>7. ASSUME l.cmd \in Command, room' # "deleted"
      PROVE  /\ receipts'[KeyOf(l.cmd)] # NoReceipt
             /\ receipts'[KeyOf(l.cmd)].cmd = l.cmd
             /\ receipts'[KeyOf(l.cmd)].status = "accepted"
             /\ receipts'[KeyOf(l.cmd)].version = done
  <2>1. call[c].cmd \in Command /\ KeyOf(l.cmd) \in Key /\ ~IsTimeout(c)
    BY <1>5, <1>7, <1>1, RequestKinds DEF IsTimeout, Command, KeyOf, Key
  <2>2. CASE call[c].done = 0
    <3>1. CommittedBy(c) = call[c].cmd /\ CommittedBy(c) # NoRequest
      BY <2>1, <2>2, <1>1, NullAssumption DEF CommittedBy
    <3>2. receipts'[KeyOf(l.cmd)] =
            [cmd |-> l.cmd, match |-> m, version |-> s.version,
             status |-> "accepted", code |-> "none"]
      BY <3>1, <2>1, <1>5 DEF WriteReceipt, TypeOK
    <3>3. [cmd |-> l.cmd, match |-> m, version |-> s.version,
           status |-> "accepted", code |-> "none"] \in Receipt
      BY <1>2, <1>7 DEF Receipt, Codes, GameState
    <3>4. QED
      BY <3>2, <3>3, <2>2, NullAssumption
  <2>3. CASE call[c].done # 0
    BY <2>1, <2>3, <1>1, <1>5, <1>7 DEF CallOK, ReceiptsGrow
  <2>4. QED
    BY <2>2, <2>3
<1>8. CallOK(call[c])'
  BY <1>5, <1>6, <1>7, <1>1, <1>2 DEF CallOK
<1>9. QED
  BY <1>5, <1>6, <1>8, CallFrame DEF TypeOK

-----------------------------------------------------------------------------
(* Each action keeps the types and the facts of the calls. *)

TypeInv == TypeOK /\ CallInv /\ ActiveIsRunning

\* A call that changes to l, and what l must know.
LEMMA CallStep ==
  ASSUME TypeOK, CallInv, ReceiptsGrow, NEW c \in Calls, NEW l \in CallState,
         call' = [call EXCEPT ![c] = l], CallOK(l)'
  PROVE  call' \in [Calls -> CallState] /\ CallInv'
<1>1. call' \in [Calls -> CallState]
  BY DEF TypeOK
<1>2. call'[c] = l /\ \A d \in Calls \ {c} : call'[d] = call[d]
  BY DEF TypeOK
<1>3. CallOK(call[c])'
  BY <1>2 DEF CallOK
<1>4. QED
  BY <1>1, <1>2, <1>3, CallFrame

LEMMA GotoInv ==
  ASSUME TypeOK, CallInv, ReceiptsGrow, NEW c \in Calls, NEW step \in PCs, Goto(c, step),
         call[c].pc # "idle",
         step \in {"receipt", "recheck", "reload", "reject", "replay"} =>
           call[c].cmd \in Command,
         step \notin {"check", "persist", "finish", "reply"} => call[c].done = 0,
         step \in {"check", "persist", "finish", "recheck", "reload", "reject"} =>
           call[c].match \in Matches,
         step = "persist" => call[c].plan.phase # "finished",
         step = "replay" => receipts[KeyOf(call[c].cmd)] # NoReceipt,
         step = "reply" => call[c].done # 0
  PROVE  call' \in [Calls -> CallState] /\ CallInv'
<1>1. call[c] \in CallState /\ CallOK(call[c])
  BY DEF TypeOK, CallInv
<1>2. PICK l \in CallState : l = [call[c] EXCEPT !.pc = step]
  BY <1>1 DEF CallState
<1>3. /\ l.pc = step /\ l.cmd = call[c].cmd /\ l.match = call[c].match
      /\ l.plan = call[c].plan /\ l.done = call[c].done
  BY <1>1, <1>2 DEF CallState
<1>4. call' = [call EXCEPT ![c] = l]
  BY <1>2 DEF Goto
<1>5. l.cmd \in Command => KeyOf(l.cmd) \in Key
  BY DEF KeyOf, Key, Command
<1>6. CallOK(l)'
  BY <1>1, <1>3, <1>5 DEF CallOK, ReceiptsGrow
<1>7. QED
  BY <1>4, <1>6, CallStep

LEMMA ReturnInv ==
  ASSUME TypeOK, CallInv, ReceiptsGrow, NEW c \in Calls, Return(c)
  PROVE  /\ call' \in [Calls -> CallState]
         /\ holder' \in Calls \cup {NoCall}
         /\ CallInv'
  BY ReturnType, IdleFrame DEF Return

\* Steps that leave the matches alone keep the active ones running.
LEMMA SameMatches ==
  ASSUME ActiveIsRunning, UNCHANGED <<room, matches>> PROVE ActiveIsRunning'
  BY DEF ActiveIsRunning, Active

LEMMA IssueCommandInv == ASSUME TypeInv, IssueCommand PROVE TypeInv'
<1> USE DEF TypeInv, IssueCommand, db
<1>1. issued' \subseteq Command
  <2>1. PICK m \in Matches, a \in Humans, i \in Ids, v \in Moves :
          issued' = issued \cup
            {[actor |-> a, id |-> i, match |-> m, version |-> matches[m].state.version,
              phase |-> matches[m].state.phase, turn |-> matches[m].state.turn, move |-> v]}
    OBVIOUS
  <2>2. matches[m].state \in GameState
    BY DEF TypeOK, Row
  <2>3. QED
    BY <2>1, <2>2 DEF TypeOK, Command, GameState
<1>2. TypeOK'
  BY <1>1 DEF TypeOK
<1>3. CallInv'
  BY DEF CallInv, CallOK
<1>4. QED
  BY <1>2, <1>3, SameMatches

LEMMA NewCallInv ==
  ASSUME TypeInv, NEW c \in Calls, NEW r \in Request,
         call' = [call EXCEPT ![c] = [IdleCall EXCEPT !.pc = "lock", !.cmd = r]],
         UNCHANGED <<db, holder, issued, answers, faults>>
  PROVE  TypeInv'
<1> DEFINE l == [IdleCall EXCEPT !.pc = "lock", !.cmd = r]
<1>1. l \in CallState
  BY IdleCallType DEF CallState, PCs, IdleCall
<1>2. CallOK(l)'
  BY DEF CallOK, IdleCall
<1>3. call' \in [Calls -> CallState] /\ CallInv'
  <2> HIDE DEF l
  <2> QED
    BY <1>1, <1>2, CallStep, SameReceipts DEF TypeInv, db, l
<1>4. QED
  BY <1>3, SameMatches DEF TypeInv, TypeOK, db

LEMMA DeliverInv == ASSUME TypeInv, NEW c \in Calls, NEW r \in issued, Deliver(c, r) PROVE TypeInv'
<1>1. r \in Request
  BY DEF TypeInv, TypeOK, Request
<1>2. QED
  BY <1>1, NewCallInv DEF Deliver

LEMMA TurnTimerFiresInv ==
  ASSUME TypeInv, NEW c \in Calls, NEW m \in Matches, TurnTimerFires(c, m) PROVE TypeInv'
<1> DEFINE s == matches[m].state
<1> DEFINE r == [actor |-> s.player, id |-> NoId, match |-> m, version |-> s.version,
                 phase |-> s.phase, turn |-> s.turn, move |-> "skip_meeple"]
<1>1. s \in GameState /\ s.phase # "finished"
  BY DEF TurnTimerFires, TypeInv, TypeOK, Row, ActiveIsRunning
<1>2. s.player \in Players
  BY <1>1 DEF GameState
<1>3. r \in Request
  BY <1>1, <1>2 DEF Request, Timeout, GameState, Moves
<1>4. QED
  BY <1>3, NewCallInv DEF TurnTimerFires

LEMMA StartMatchInv == ASSUME TypeInv, NEW m \in Matches, StartMatch(m) PROVE TypeInv'
<1>1. /\ matches' \in [Matches -> Row]
      /\ ActiveIsRunning'
  BY InitialStateType
  DEF StartMatch, TypeInv, TypeOK, Row, ActiveIsRunning, Active, InitialState
<1>2. CallInv'
  BY DEF StartMatch, TypeInv, CallInv, CallOK
<1>3. QED
  BY <1>1, <1>2 DEF StartMatch, TypeInv, TypeOK

LEMMA LeaveMatchInv == ASSUME TypeInv, NEW m \in Matches, LeaveMatch(m) PROVE TypeInv'
<1>1. /\ matches' \in [Matches -> Row]
      /\ ActiveIsRunning'
  BY DEF LeaveMatch, TypeInv, TypeOK, Row, ActiveIsRunning, Active
<1>2. CallInv'
  BY DEF LeaveMatch, TypeInv, CallInv, CallOK
<1>3. QED
  BY <1>1, <1>2 DEF LeaveMatch, TypeInv, TypeOK

LEMMA SeatInv ==
  ASSUME TypeInv, NEW a \in Humans, LoseSeat(a) \/ TakeSeat(a) PROVE TypeInv'
<1>1. seated' \subseteq Humans /\ faults' \in Nat
  BY DEF LoseSeat, TakeSeat, Fault, TypeInv, TypeOK
<1>2. CallInv'
  BY DEF LoseSeat, TakeSeat, TypeInv, CallInv, CallOK
<1>3. QED
  BY <1>1, <1>2, SameMatches DEF LoseSeat, TakeSeat, TypeInv, TypeOK

LEMMA DeleteRoomInv == ASSUME TypeInv, DeleteRoom PROVE TypeInv'
<1>1. NoRow \in Row /\ NoRow.status # "active"
  BY InitialStateType DEF NoRow, Row
<1>2. /\ matches' \in [Matches -> Row] /\ receipts' \in [Key -> Receipt \cup {NoReceipt}]
      /\ ActiveIsRunning'
  BY <1>1 DEF DeleteRoom, ActiveIsRunning, Active
<1>3. CallInv'
  BY DEF DeleteRoom, TypeInv, CallInv, CallOK
<1>4. QED
  BY <1>2, <1>3 DEF DeleteRoom, TypeInv, TypeOK

LEMMA AcquireLockInv == ASSUME TypeInv, NEW c \in Calls, AcquireLock(c) PROVE TypeInv'
<1> DEFINE step == IF IsTimeout(c) THEN "load" ELSE "receipt"
<1>1. call[c] \in CallState /\ CallOK(call[c]) /\ call[c].pc = "lock"
  BY DEF AcquireLock, TypeInv, TypeOK, CallInv
<1>2. step = "receipt" => call[c].cmd \in Command
  BY <1>1, RequestKinds DEF CallOK, IsTimeout
<1>3. step \in PCs /\ Goto(c, step) /\ ReceiptsGrow /\ call[c].done = 0
  BY <1>1, SameReceipts DEF AcquireLock, PCs, db, CallOK
<1>4. call' \in [Calls -> CallState] /\ CallInv'
  BY <1>1, <1>2, <1>3, GotoInv DEF TypeInv
<1>5. QED
  BY <1>4, SameMatches DEF AcquireLock, TypeInv, TypeOK, db

\* A stored receipt and a call that reads it.
LEMMA ReplayInv ==
  ASSUME TypeInv, NEW c \in Calls, call[c].pc # "idle", call[c].cmd \in Command,
         receipts[KeyOf(call[c].cmd)] # NoReceipt,
         Replay(c, receipts[KeyOf(call[c].cmd)]),
         UNCHANGED <<db, issued>>, faults' \in Nat
  PROVE  TypeInv'
<1>1. receipts[KeyOf(call[c].cmd)] \in Receipt
  BY DEF TypeInv, TypeOK, KeyOf, Key, Command
<1>2. Return(c)
  BY DEF Replay, ReturnAnswer
<1>3. CallInv'
  BY <1>2, ReturnInv, SameReceipts DEF TypeInv, db
<1>4. QED
  BY <1>1, <1>3, ReplayType, SameMatches DEF TypeInv, TypeOK, db

\* A call that ends, with or without an answer.
LEMMA AnswerInv ==
  ASSUME TypeInv, NEW c \in Calls, call[c].pc # "idle",
         NEW status \in {"accepted", "rejected"}, NEW code \in Codes, NEW version \in Nat,
         ReturnAnswer(c, status, code, version), UNCHANGED <<db, issued>>, faults' \in Nat
  PROVE  TypeInv'
<1>1. Return(c)
  BY DEF ReturnAnswer
<1>2. CallInv'
  BY <1>1, ReturnInv, SameReceipts DEF TypeInv, db
<1>3. QED
  BY <1>2, ReturnAnswerType, SameMatches DEF TypeInv, TypeOK, db

LEMMA SilentInv ==
  ASSUME TypeInv, NEW c \in Calls,
         Return(c), UNCHANGED <<db, issued, answers>>, faults' \in Nat
  PROVE  TypeInv'
  BY ReturnInv, SameReceipts, SameMatches DEF TypeInv, TypeOK, db

LEMMA GetActionReceiptInv ==
  ASSUME TypeInv, NEW c \in Calls, GetActionReceipt(c) PROVE TypeInv'
<1>1. call[c].pc = "receipt" /\ call[c].cmd \in Command /\ call[c].done = 0
  BY DEF GetActionReceipt, TypeInv, CallInv, CallOK
<1>2. CASE receipts[KeyOf(call[c].cmd)] # NoReceipt
  <2>1. Replay(c, receipts[KeyOf(call[c].cmd)]) /\ UNCHANGED <<db, issued>> /\ faults' \in Nat
    BY <1>2 DEF GetActionReceipt, TypeInv, TypeOK
  <2>2. QED
    BY <1>1, <1>2, <2>1, ReplayInv
<1>3. CASE receipts[KeyOf(call[c].cmd)] = NoReceipt
  <2>1. Goto(c, "load") /\ UNCHANGED <<db, holder, issued, answers, faults>> /\ "load" \in PCs
    BY <1>3 DEF GetActionReceipt, PCs
  <2>2. call' \in [Calls -> CallState] /\ CallInv'
    BY <1>1, <2>1, GotoInv, SameReceipts DEF TypeInv, db
  <2>3. QED
    BY <2>1, <2>2, SameMatches DEF TypeInv, TypeOK, db
<1>4. QED
  BY <1>2, <1>3

LEMMA LoadMatchInv == ASSUME TypeInv, NEW c \in Calls, LoadMatch(c) PROVE TypeInv'
<1>1. /\ call[c] \in CallState /\ call[c].cmd \in Request /\ call[c].done = 0
      /\ call[c].pc = "load"
  BY DEF LoadMatch, TypeInv, TypeOK, CallInv, CallOK
<1>2. ReceiptsGrow /\ UNCHANGED <<db, issued, faults>> /\ faults' \in Nat
  BY SameReceipts DEF LoadMatch, db, TypeInv, TypeOK
<1>3. CASE ReturnAnswer(c, "rejected", "not_found", 0)
  BY <1>1, <1>2, <1>3, AnswerInv DEF Codes
<1>4. CASE Return(c) /\ UNCHANGED answers
  BY <1>2, <1>4, SilentInv
<1>5. ASSUME NEW m \in Matches, Active(m),
             call' = [call EXCEPT ![c].match = m, ![c].snap = matches[m].state,
                                  ![c].plan = nextState(matches[m].state, call[c].cmd),
                                  ![c].pc = persistStep(nextState(matches[m].state, call[c].cmd))],
             UNCHANGED <<holder, answers>>
      PROVE  TypeInv'
  <2> DEFINE s == matches[m].state
  <2> DEFINE n == nextState(s, call[c].cmd)
  <2>1. s \in GameState /\ s.phase # "finished"
    BY <1>5 DEF TypeInv, TypeOK, Row, ActiveIsRunning
  <2>2. n \in GameState
    BY <1>1, <2>1, PlanType
  <2>3. PICK l \in CallState : l = [call[c] EXCEPT !.match = m, !.snap = s, !.plan = n,
                                                   !.pc = persistStep(n)]
    BY <1>1, <2>1, <2>2 DEF CallState, PCs, persistStep
  <2>4. /\ l.pc = persistStep(n) /\ l.cmd = call[c].cmd /\ l.match = m /\ l.plan = n
        /\ l.done = 0
    BY <1>1, <2>3 DEF CallState
  <2>5. call' = [call EXCEPT ![c] = l]
    BY <1>1, <1>5, <2>3 DEF TypeInv, TypeOK, CallState
  <2>6. CallOK(l)'
    BY <1>1, <2>4 DEF CallOK, persistStep
  <2>7. QED
    BY <1>2, <1>5, <2>5, <2>6, CallStep, SameMatches DEF TypeInv, TypeOK, db
<1>6. ASSUME NEW m \in Matches, Active(m), NEW verdict \in Codes, ~IsTimeout(c),
             call' = [call EXCEPT ![c].match = m, ![c].snap = matches[m].state,
                                  ![c].why = verdict, ![c].pc = "reject"],
             UNCHANGED <<holder, answers>>
      PROVE  TypeInv'
  <2> DEFINE s == matches[m].state
  <2>1. s \in GameState /\ call[c].cmd \in Command
    BY <1>1, <1>6, RequestKinds DEF TypeInv, TypeOK, Row, IsTimeout
  <2>2. PICK l \in CallState : l = [call[c] EXCEPT !.match = m, !.snap = s, !.why = verdict,
                                                   !.pc = "reject"]
    BY <1>1, <2>1 DEF CallState, PCs
  <2>3. l.pc = "reject" /\ l.cmd = call[c].cmd /\ l.match = m /\ l.done = 0
    BY <1>1, <2>2 DEF CallState
  <2>4. call' = [call EXCEPT ![c] = l]
    BY <1>1, <1>6, <2>2 DEF TypeInv, TypeOK, CallState
  <2>5. CallOK(l)'
    BY <1>1, <2>1, <2>3 DEF CallOK
  <2>6. QED
    BY <1>2, <1>6, <2>4, <2>5, CallStep, SameMatches DEF TypeInv, TypeOK, db
<1>7. ASSUME NEW s, NEW actor, NEW move 
      PROVE  Verdict(s, actor, move) # "ok" => Verdict(s, actor, move) \in Codes
  BY DEF Verdict, Codes
<1>8. "conflict" \in Codes
  BY DEF Codes
<1>9. QED
  BY <1>3, <1>4, <1>5, <1>6, <1>7, <1>8 DEF LoadMatch

\* A failed transaction writes nothing.
LEMMA FailedInv ==
  ASSUME TypeInv, NEW c \in Calls, call[c].pc \in {"check", "persist", "finish"},
         NEW why \in Codes, AfterFailure(c, why),
         UNCHANGED <<db, issued, answers>>, faults' \in Nat
  PROVE  TypeInv'
  BY AfterFailureInv, SameReceipts, SameMatches DEF TypeInv, TypeOK, db

\* The rows a transaction writes are well formed.
LEMMA WriteType ==
  ASSUME TypeOK, NEW c \in Calls, NEW m \in Matches,
         call[c].cmd \in Request, ~ReceiptRefused(c), room # "deleted",
         WriteReceipt(c, m), WriteCommit(c, m)
  PROVE  /\ receipts' \in [Key -> Receipt \cup {NoReceipt}]
         /\ commits' \in Seq(Commit)
         /\ ReceiptsGrow
<1>1. call[c].plan.version \in Nat
  BY DEF TypeOK, CallState, GameState
<1>2. CASE CommittedBy(c) = NoRequest
  <2>1. receipts' = receipts
    BY <1>2 DEF WriteReceipt
  <2>2. [match |-> m, version |-> call[c].plan.version, by |-> CommittedBy(c)] \in Commit
    BY <1>1, <1>2 DEF Commit
  <2>3. QED
    BY <2>1, <2>2, SameReceipts DEF TypeOK, WriteCommit
<1>3. CASE CommittedBy(c) # NoRequest
  <2>1. CommittedBy(c) = call[c].cmd /\ call[c].cmd \in Command /\ KeyOf(call[c].cmd) \in Key
    BY <1>3, RequestKinds DEF CommittedBy, IsTimeout
  <2>2. receipts[KeyOf(call[c].cmd)] = NoReceipt
    BY <1>3 DEF ReceiptRefused
  <2>3. [match |-> m, version |-> call[c].plan.version, by |-> CommittedBy(c)] \in Commit
    BY <1>1, <2>1 DEF Commit
  <2>4. [cmd |-> call[c].cmd, match |-> m, version |-> call[c].plan.version,
         status |-> "accepted", code |-> "none"] \in Receipt
    BY <1>1, <2>1 DEF Receipt, Codes
  <2>5. /\ receipts' \in [Key -> Receipt \cup {NoReceipt}]
        /\ ReceiptsGrow
    BY <1>3, <2>1, <2>2, <2>4 DEF WriteReceipt, TypeOK, ReceiptsGrow
  <2>6. QED
    BY <2>3, <2>5 DEF TypeOK, WriteCommit
<1>4. QED
  BY <1>2, <1>3

\* A transaction that committed: what it wrote, and a call that knows or does not.
LEMMA CommittedInv ==
  ASSUME TypeInv, NEW c \in Calls, NEW m \in Matches, call[c].pc \in {"persist", "finish"},
         Active(m), AtExpectedVersion(c, m), ~ReceiptRefused(c),
         WriteReceipt(c, m), WriteCommit(c, m),
         \/ AfterCommit(c) /\ UNCHANGED <<holder, faults>>
         \/ AfterFailure(c, "error") /\ Fault,
         matches' \in [Matches -> Row], ActiveIsRunning', room' \in {"waiting", "playing"},
         UNCHANGED <<seated, issued, answers>>
  PROVE  TypeInv'
<1>1. call[c].cmd \in Request
  BY DEF TypeInv, CallInv, CallOK
<1>2. call[c].plan.version # 0
  <2>1. matches[m].state.version \in Nat /\ call[c].plan.version \in Nat
    BY DEF TypeInv, TypeOK, CallState, Row, GameState
  <2>2. QED
    BY <2>1 DEF AtExpectedVersion
<1>3. /\ receipts' \in [Key -> Receipt \cup {NoReceipt}]
      /\ commits' \in Seq(Commit)
      /\ ReceiptsGrow
  BY <1>1, WriteType DEF TypeInv, ActiveIsRunning
<1>4. CASE AfterCommit(c) /\ UNCHANGED <<holder, faults>>
  <2>1. call' \in [Calls -> CallState] /\ CallInv'
    BY <1>2, <1>3, <1>4, AfterCommitInv DEF TypeInv
  <2>2. QED
    BY <1>3, <1>4, <2>1 DEF TypeInv, TypeOK
<1>5. CASE AfterFailure(c, "error") /\ Fault
  <2>1. /\ call' \in [Calls -> CallState]
        /\ holder' \in Calls \cup {NoCall}
        /\ CallInv'
    BY <1>3, <1>5, AfterFailureInv DEF TypeInv, Codes
  <2>2. faults' \in Nat
    BY <1>5 DEF Fault, TypeInv, TypeOK
  <2>3. QED
    BY <1>3, <2>1, <2>2 DEF TypeInv, TypeOK
<1>6. QED
  BY <1>4, <1>5

LEMMA PersistActionResultInv ==
  ASSUME TypeInv, NEW c \in Calls, PersistActionResult(c) PROVE TypeInv'
<1> DEFINE m == call[c].match
<1>1. /\ call[c].pc = "persist" /\ m \in Matches /\ call[c].plan.phase # "finished"
      /\ call[c].plan \in GameState /\ "error" \in Codes /\ "conflict" \in Codes
  BY DEF PersistActionResult, TypeInv, TypeOK, CallInv, CallOK, CallState, Codes
<1>2. CASE ReceiptRefused(c) \/ ~Updatable(c, m)
  <2>1. /\ AfterFailure(c, "error") \/ AfterFailure(c, "conflict")
        /\ UNCHANGED <<db, issued, answers>> /\ faults' \in Nat
    BY <1>2 DEF PersistActionResult, TypeInv, TypeOK
  <2>2. QED
    BY <1>1, <2>1, FailedInv
<1>3. CASE ~ReceiptRefused(c) /\ Updatable(c, m)
  <2>1. /\ matches' = [matches EXCEPT ![m].state = call[c].plan]
        /\ WriteReceipt(c, m) /\ WriteCommit(c, m)
        /\ \/ AfterCommit(c) /\ UNCHANGED <<holder, faults>>
           \/ AfterFailure(c, "error") /\ Fault
        /\ UNCHANGED <<room, seated, issued, answers>>
    BY <1>3 DEF PersistActionResult
  <2>2. matches' \in [Matches -> Row] /\ ActiveIsRunning'
    BY <1>1, <2>1 DEF TypeInv, TypeOK, Row, ActiveIsRunning, Active
  <2>3. Active(m) /\ AtExpectedVersion(c, m) /\ room' \in {"waiting", "playing"}
    BY <1>1, <1>3, <2>1 DEF Updatable, TypeInv, TypeOK, ActiveIsRunning
  <2>4. QED
    BY <1>1, <1>3, <2>1, <2>2, <2>3, CommittedInv DEF TypeInv, TypeOK
<1>4. QED
  BY <1>2, <1>3

LEMMA TerminateActiveMatchInv ==
  ASSUME TypeInv, NEW c \in Calls, TerminateActiveMatch(c) PROVE TypeInv'
<1>1. /\ call[c].pc = "finish" /\ call[c].plan \in GameState
      /\ "error" \in Codes /\ "conflict" \in Codes
  BY DEF TerminateActiveMatch, TypeInv, TypeOK, CallState, Codes
<1>2. CASE AfterFailure(c, "error") /\ UNCHANGED <<db, issued, answers, faults>>
  BY <1>1, <1>2, FailedInv DEF TypeInv, TypeOK
<1>3. CASE AfterFailure(c, "conflict") /\ UNCHANGED <<db, issued, answers, faults>>
  BY <1>1, <1>3, FailedInv DEF TypeInv, TypeOK
<1>4. ASSUME NEW m \in Matches, Active(m), AtExpectedVersion(c, m), ~ReceiptRefused(c),
             matches' = [matches EXCEPT ![m] = [status |-> "finished", state |-> call[c].plan]],
             WriteReceipt(c, m), WriteCommit(c, m), room' = "waiting",
             \/ AfterCommit(c) /\ UNCHANGED <<holder, faults>>
             \/ AfterFailure(c, "error") /\ Fault,
             UNCHANGED <<seated, issued, answers>>
      PROVE  TypeInv'
  <2>1. matches' \in [Matches -> Row] /\ ActiveIsRunning'
    BY <1>1, <1>4 DEF TypeInv, TypeOK, Row, ActiveIsRunning, Active
  <2>2. QED
    BY <1>1, <1>4, <2>1, CommittedInv
<1>5. QED
  BY <1>2, <1>3, <1>4 DEF TerminateActiveMatch

LEMMA CheckFinisherInv == ASSUME TypeInv, NEW c \in Calls, CheckFinisher(c) PROVE TypeInv'
<1>1. /\ call[c].pc = "check" /\ call[c].match \in Matches /\ "finish" \in PCs
      /\ "error" \in Codes /\ UNCHANGED <<db, issued, answers>> /\ faults' \in Nat
  BY DEF CheckFinisher, TypeInv, TypeOK, CallInv, CallOK, PCs, Codes
<1>2. CASE AfterFailure(c, "error")
  BY <1>1, <1>2, FailedInv
<1>3. CASE Goto(c, "finish") /\ UNCHANGED holder
  <2>1. call' \in [Calls -> CallState] /\ CallInv'
    BY <1>1, <1>3, GotoInv, SameReceipts DEF TypeInv, db
  <2>2. QED
    BY <1>1, <1>3, <2>1, SameMatches DEF TypeInv, TypeOK, db
<1>4. QED
  BY <1>2, <1>3 DEF CheckFinisher

LEMMA ToReloadInv ==
  ASSUME TypeInv, NEW c \in Calls, call[c].pc = "recheck", Goto(c, "reload"),
         UNCHANGED <<db, holder, issued, answers>>, faults' \in Nat
  PROVE  TypeInv'
<1>1. /\ call[c].cmd \in Command /\ call[c].done = 0 /\ call[c].match \in Matches
      /\ "reload" \in PCs
  BY DEF TypeInv, CallInv, CallOK, PCs
<1>2. call' \in [Calls -> CallState] /\ CallInv'
  BY <1>1, GotoInv, SameReceipts DEF TypeInv, db
<1>3. QED
  BY <1>2, SameMatches DEF TypeInv, TypeOK, db

LEMMA RecheckReceiptInv == ASSUME TypeInv, NEW c \in Calls, RecheckReceipt(c) PROVE TypeInv'
<1>1. /\ call[c].pc = "recheck" /\ call[c].cmd \in Command /\ call[c].done = 0
      /\ UNCHANGED <<db, issued, faults>> /\ faults' \in Nat
  BY DEF RecheckReceipt, TypeInv, TypeOK, CallInv, CallOK
<1>2. CASE receipts[KeyOf(call[c].cmd)] # NoReceipt
  BY <1>1, <1>2, ReplayInv DEF RecheckReceipt
<1>3. CASE Return(c) /\ UNCHANGED answers
  BY <1>1, <1>3, SilentInv
<1>4. CASE Goto(c, "reload") /\ UNCHANGED <<holder, answers>>
  BY <1>1, <1>4, ToReloadInv
<1>5. QED
  BY <1>2, <1>3, <1>4 DEF RecheckReceipt

LEMMA ReloadMatchInv == ASSUME TypeInv, NEW c \in Calls, ReloadMatch(c) PROVE TypeInv'
<1> DEFINE s == matches[call[c].match].state
<1>1. /\ call[c] \in CallState /\ call[c].pc = "reload" /\ call[c].cmd \in Command
      /\ call[c].done = 0 /\ call[c].match \in Matches
  BY DEF ReloadMatch, TypeInv, TypeOK, CallInv, CallOK
<1>0. CASE ReturnAnswer(c, "rejected", "conflict", 0)
  BY <1>0, <1>1, AnswerInv DEF ReloadMatch, TypeInv, TypeOK, Codes
<1> SUFFICES ASSUME call' = [call EXCEPT ![c].snap = s, ![c].pc = "reject"],
                    UNCHANGED <<holder, answers>>
             PROVE  TypeInv'
  BY <1>0 DEF ReloadMatch
<1>2. PICK l \in CallState : l = [call[c] EXCEPT !.snap = s, !.pc = "reject"]
  BY <1>1 DEF CallState, PCs, TypeInv, TypeOK, Row
<1>3. /\ l.pc = "reject" /\ l.cmd = call[c].cmd /\ l.match = call[c].match /\ l.done = 0
      /\ call' = [call EXCEPT ![c] = l]
  BY <1>1, <1>2 DEF CallState, ReloadMatch, TypeInv, TypeOK
<1>4. CallOK(l)'
  BY <1>1, <1>3 DEF CallOK, Request
<1>5. QED
  BY <1>3, <1>4, CallStep, SameReceipts, SameMatches
  DEF ReloadMatch, TypeInv, TypeOK, db

LEMMA SaveRejectionInv == ASSUME TypeInv, NEW c \in Calls, SaveRejection(c) PROVE TypeInv'
<1> DEFINE k == KeyOf(call[c].cmd)
<1>1. /\ call[c] \in CallState /\ call[c].pc = "reject" /\ call[c].cmd \in Command
      /\ call[c].done = 0 /\ call[c].match \in Matches /\ k \in Key
      /\ call[c].snap.version \in Nat /\ call[c].why \in Codes
      /\ UNCHANGED <<room, seated, matches, commits, issued>> /\ faults' \in Nat
  <2>1. call[c] \in CallState /\ CallOK(call[c]) /\ call[c].pc = "reject"
    BY DEF SaveRejection, TypeInv, TypeOK, CallInv
  <2>2. call[c].cmd \in Command /\ call[c].done = 0 /\ call[c].match \in Matches
    BY <2>1 DEF CallOK
  <2>3. k \in Key
    BY <2>2 DEF KeyOf, Key, Command
  <2>4. call[c].snap.version \in Nat /\ call[c].why \in Codes
    BY <2>1 DEF CallState, GameState
  <2>5. UNCHANGED <<room, seated, matches, commits, issued>> /\ faults' \in Nat
    BY DEF SaveRejection, Fault, TypeInv, TypeOK
  <2>6. QED
    BY <2>1, <2>2, <2>3, <2>4, <2>5
<1>2. CASE receipts[k] # NoReceipt
  <2>1. Goto(c, "replay") /\ UNCHANGED <<receipts, holder, answers>> /\ "replay" \in PCs
    BY <1>2 DEF SaveRejection, PCs
  <2>2. call' \in [Calls -> CallState] /\ CallInv'
    BY <1>1, <1>2, <2>1, GotoInv, SameReceipts DEF TypeInv
  <2>3. QED
    BY <1>1, <2>1, <2>2, SameMatches DEF TypeInv, TypeOK
<1>5. CASE receipts[k] = NoReceipt /\ room = "deleted"
  BY <1>1, <1>5, SilentInv DEF SaveRejection, db
<1>3. CASE receipts[k] = NoReceipt /\ room # "deleted"
  <2>1. /\ receipts' = [receipts EXCEPT ![k] =
             [cmd |-> call[c].cmd, match |-> call[c].match, version |-> call[c].snap.version,
              status |-> "rejected", code |-> call[c].why]]
        /\ \/ ReturnAnswer(c, "rejected", call[c].why, call[c].snap.version)
           \/ Return(c) /\ UNCHANGED answers
    BY <1>3 DEF SaveRejection
  <2>2. receipts' \in [Key -> Receipt \cup {NoReceipt}] /\ ReceiptsGrow
    BY <1>1, <1>3, <2>1 DEF TypeInv, TypeOK, Receipt, ReceiptsGrow
  <2>3. Return(c)
    BY <2>1 DEF ReturnAnswer
  <2>4. /\ call' \in [Calls -> CallState]
        /\ holder' \in Calls \cup {NoCall}
        /\ CallInv'
    BY <2>2, <2>3, ReturnInv DEF TypeInv
  <2>5. answers' \subseteq Answer
    BY <1>1, <2>1, ReturnAnswerType DEF TypeInv, TypeOK
  <2>6. QED
    BY <1>1, <2>2, <2>4, <2>5, SameMatches DEF TypeInv, TypeOK
<1>4. QED
  BY <1>2, <1>3, <1>5

LEMMA ReplaySavedInv == ASSUME TypeInv, NEW c \in Calls, ReplaySaved(c) PROVE TypeInv'
<1>1. /\ call[c].pc = "replay" /\ call[c].cmd \in Command
      /\ UNCHANGED <<db, issued, faults>> /\ faults' \in Nat
  BY DEF ReplaySaved, TypeInv, TypeOK, CallInv, CallOK
<1>2. CASE receipts[KeyOf(call[c].cmd)] # NoReceipt
  BY <1>1, <1>2, ReplayInv DEF ReplaySaved
<1>3. CASE receipts[KeyOf(call[c].cmd)] = NoReceipt
  BY <1>1, <1>3, SilentInv DEF ReplaySaved
<1>4. QED
  BY <1>2, <1>3

LEMMA AcknowledgeInv == ASSUME TypeInv, NEW c \in Calls, Acknowledge(c) PROVE TypeInv'
<1>1. /\ call[c].pc = "reply" /\ call[c].done \in Nat /\ "none" \in Codes
      /\ UNCHANGED <<db, issued, faults>> /\ faults' \in Nat
  BY DEF Acknowledge, TypeInv, TypeOK, CallState, Codes
<1>2. CASE Return(c) /\ UNCHANGED answers
  BY <1>1, <1>2, SilentInv
<1>3. CASE ReturnAnswer(c, "accepted", "none", call[c].done)
  BY <1>1, <1>3, AnswerInv
<1>4. QED
  BY <1>2, <1>3 DEF Acknowledge

LEMMA DatabaseErrorInv == ASSUME TypeInv, NEW c \in Calls, DatabaseError(c) PROVE TypeInv'
<1>1. /\ call[c] \in CallState /\ call[c].pc # "idle"
      /\ UNCHANGED <<db, issued>> /\ faults' \in Nat
      /\ "error" \in Codes /\ "conflict" \in Codes /\ "none" \in Codes
  BY DEF DatabaseError, Fault, TypeInv, TypeOK, Codes
<1>2. CASE /\ call[c].pc \in {"check", "persist", "finish"}
           /\ AfterFailure(c, "error") /\ UNCHANGED answers
  BY <1>1, <1>2, FailedInv
<1>3. CASE /\ call[c].pc = "recheck" /\ Goto(c, "reload") /\ UNCHANGED <<holder, answers>>
  BY <1>1, <1>3, ToReloadInv
<1>4. CASE ReturnAnswer(c, "rejected", "conflict", 0)
  BY <1>1, <1>4, AnswerInv
<1>5. CASE ReturnAnswer(c, "accepted", "none", call[c].done)
  <2>1. call[c].done \in Nat
    BY <1>1 DEF CallState
  <2>2. QED
    BY <1>1, <1>5, <2>1, AnswerInv
<1>6. CASE Return(c) /\ UNCHANGED answers
  BY <1>1, <1>6, SilentInv
<1>7. QED
  BY <1>2, <1>3, <1>4, <1>5, <1>6 DEF DatabaseError

LEMMA CrashInv == ASSUME TypeInv, NEW c \in Calls, Crash(c) PROVE TypeInv'
<1>1. CallInv' /\ call' \in [Calls -> CallState]
  BY IdleFrame, IdleCallType, SameReceipts DEF Crash, TypeInv, TypeOK, db
<1>2. QED
  BY <1>1, SameMatches DEF Crash, Fault, TypeInv, TypeOK, db

LEMMA LockInv == ASSUME TypeInv, LockExpires \/ LockIsLost PROVE TypeInv'
<1>1. CallInv'
  BY DEF LockExpires, LockIsLost, TypeInv, CallInv, CallOK, db
<1>2. QED
  BY <1>1, SameMatches DEF LockExpires, LockIsLost, Fault, TypeInv, TypeOK, db

LEMMA InitInv == Init => TypeInv
<1> SUFFICES ASSUME Init PROVE TypeInv
  OBVIOUS
<1>1. TypeOK
  BY IdleCallType, InitialStateType, CallAssumption DEF Init, TypeOK, Row, NoRow
<1>2. CallInv
  BY DEF Init, CallInv, CallOK, IdleCall
<1>3. ActiveIsRunning
  BY DEF Init, ActiveIsRunning, Active, NoRow
<1>4. QED
  BY <1>1, <1>2, <1>3 DEF TypeInv

LEMMA ServiceStepInv == ASSUME TypeInv, NEW c \in Calls, ServiceStep(c) PROVE TypeInv'
  BY AcquireLockInv, GetActionReceiptInv, LoadMatchInv, PersistActionResultInv,
     CheckFinisherInv, TerminateActiveMatchInv, RecheckReceiptInv, ReloadMatchInv,
     SaveRejectionInv, ReplaySavedInv, AcknowledgeInv DEF ServiceStep

LEMMA NextInv == TypeInv /\ [Next]_vars => TypeInv'
<1> SUFFICES ASSUME TypeInv, [Next]_vars PROVE TypeInv'
  OBVIOUS
<1>1. CASE UNCHANGED vars
  BY <1>1 DEF vars, TypeInv, TypeOK, CallInv, CallOK, ActiveIsRunning, Active
<1>2. CASE Next
  BY <1>2, IssueCommandInv, StartMatchInv, LeaveMatchInv, SeatInv, DeleteRoomInv,
     DeliverInv, TurnTimerFiresInv, ServiceStepInv, DatabaseErrorInv, CrashInv, LockInv DEF Next
<1>3. QED
  BY <1>1, <1>2

\* The types are right, every call's local variables agree with the database,
\* and an active match always has a player to move, in every reachable state.
THEOREM TypesCorrect == Spec => []TypeOK
<1>1. Init => TypeInv
  BY InitInv
<1>2. TypeInv /\ [Next]_vars => TypeInv'
  BY NextInv
<1>3. TypeInv => TypeOK
  BY DEF TypeInv
<1>4. QED
  BY <1>1, <1>2, <1>3, PTL DEF Spec

-----------------------------------------------------------------------------
(* What a step may do to the receipts and the history. *)

\* Nothing is written (a match that starts has the state its empty row shows).
Quiet ==
  /\ UNCHANGED <<receipts, commits>>
  /\ room' = "deleted" <=> room = "deleted"
  /\ \A m \in Matches : matches'[m].state = matches[m].state

\* A transaction commits the result of call c to match m.
Committing(c, m) ==
  /\ Active(m) /\ room' # "deleted"
  /\ call[c].cmd \in Request
  /\ AtExpectedVersion(c, m)
  /\ ~ReceiptRefused(c)
  /\ WriteReceipt(c, m)
  /\ WriteCommit(c, m)
  /\ matches'[m].state = call[c].plan
  /\ \A n \in Matches \ {m} : matches'[n].state = matches[n].state

\* A rejection is recorded under key k.
Rejecting(k) ==
  /\ UNCHANGED <<room, matches, commits>>
  /\ room # "deleted"
  /\ receipts[k] = NoReceipt
  /\ \E r \in Receipt : r.status = "rejected" /\ receipts' = [receipts EXCEPT ![k] = r]

LEMMA PersistWrites ==
  ASSUME TypeInv, NEW c \in Calls, PersistActionResult(c)
  PROVE  Quiet \/ \E m \in Matches : Committing(c, m)
<1> DEFINE m == call[c].match
<1>1. m \in Matches /\ call[c].cmd \in Request
  BY DEF PersistActionResult, TypeInv, CallInv, CallOK
<1>2. CASE ReceiptRefused(c) \/ ~Updatable(c, m)
  BY <1>2 DEF PersistActionResult, Quiet, db
<1>3. CASE ~ReceiptRefused(c) /\ Updatable(c, m)
  <2>1. /\ matches' = [matches EXCEPT ![m].state = call[c].plan]
        /\ WriteReceipt(c, m) /\ WriteCommit(c, m) /\ AtExpectedVersion(c, m)
        /\ Active(m) /\ UNCHANGED room
    BY <1>3 DEF PersistActionResult, Updatable
  <2>2. /\ matches'[m].state = call[c].plan
        /\ \A n \in Matches \ {m} : matches'[n].state = matches[n].state
    BY <1>1, <2>1 DEF TypeInv, TypeOK, Row
  <2>3. room' # "deleted"
    BY <1>1, <2>1 DEF TypeInv, ActiveIsRunning
  <2>4. QED
    BY <1>1, <1>3, <2>1, <2>2, <2>3 DEF Committing
<1>4. QED
  BY <1>2, <1>3

LEMMA TerminateWrites ==
  ASSUME TypeInv, NEW c \in Calls, TerminateActiveMatch(c)
  PROVE  Quiet \/ \E m \in Matches : Committing(c, m)
<1>1. call[c].cmd \in Request
  BY DEF TerminateActiveMatch, TypeInv, CallInv, CallOK
<1>2. CASE UNCHANGED db
  BY <1>2 DEF Quiet, db
<1>3. ASSUME NEW m \in Matches, Active(m), AtExpectedVersion(c, m), ~ReceiptRefused(c),
             room' = "waiting",
             matches' = [matches EXCEPT ![m] = [status |-> "finished", state |-> call[c].plan]],
             WriteReceipt(c, m), WriteCommit(c, m)
      PROVE  Committing(c, m)
  <2>1. /\ matches'[m].state = call[c].plan
        /\ \A n \in Matches \ {m} : matches'[n].state = matches[n].state
    BY <1>3 DEF TypeInv, TypeOK
  <2>2. QED
    BY <1>1, <1>3, <2>1 DEF Committing
<1>4. QED
  BY <1>2, <1>3 DEF TerminateActiveMatch

LEMMA RejectionWrites ==
  ASSUME TypeInv, NEW c \in Calls, SaveRejection(c)
  PROVE  Quiet \/ \E k \in Key : Rejecting(k)
<1> DEFINE k == KeyOf(call[c].cmd)
<1>1. /\ call[c] \in CallState /\ CallOK(call[c]) /\ call[c].pc = "reject"
      /\ UNCHANGED <<room, matches, commits, issued>>
  BY DEF SaveRejection, TypeInv, TypeOK, CallInv
<1>2. call[c].cmd \in Command /\ call[c].match \in Matches /\ k \in Key
  BY <1>1 DEF CallOK, KeyOf, Key, Command
<1>3. CASE receipts[k] # NoReceipt \/ room = "deleted"
  BY <1>1, <1>3 DEF SaveRejection, Quiet
<1>4. CASE receipts[k] = NoReceipt /\ room # "deleted"
  <2> DEFINE r == [cmd |-> call[c].cmd, match |-> call[c].match,
                   version |-> call[c].snap.version,
                   status |-> "rejected", code |-> call[c].why]
  <2>1. receipts' = [receipts EXCEPT ![k] = r]
    BY <1>4 DEF SaveRejection
  <2>2. r \in Receipt /\ r.status = "rejected"
    BY <1>1, <1>2 DEF Receipt, CallState, GameState
  <2>3. QED
    BY <1>1, <1>2, <1>4, <2>1, <2>2 DEF Rejecting
<1>5. QED
  BY <1>3, <1>4

LEMMA StepWrites ==
  ASSUME TypeInv, [Next]_vars
  PROVE  \/ Quiet
         \/ \E c \in Calls, m \in Matches : Committing(c, m)
         \/ \E k \in Key : Rejecting(k)
         \/ DeleteRoom
<1>1. CASE UNCHANGED vars
  BY <1>1 DEF vars, Quiet
<1>2. ASSUME NEW m \in Matches, StartMatch(m) PROVE Quiet
  BY <1>2 DEF StartMatch, Quiet, NoRow, TypeInv, TypeOK
<1>3. ASSUME NEW m \in Matches, LeaveMatch(m) PROVE Quiet
  BY <1>3 DEF LeaveMatch, Quiet, TypeInv, TypeOK, Row
<1>4. ASSUME UNCHANGED <<room, matches, receipts, commits>> PROVE Quiet
  BY <1>4 DEF Quiet
<1>5. CASE \/ IssueCommand \/ LockExpires \/ LockIsLost
           \/ \E c \in Calls, r \in issued : Deliver(c, r)
           \/ \E c \in Calls, m \in Matches : TurnTimerFires(c, m)
           \/ \E c \in Calls : DatabaseError(c) \/ Crash(c)
           \/ \E a \in Humans : LoseSeat(a) \/ TakeSeat(a)
  BY <1>4, <1>5 DEF IssueCommand, LockExpires, LockIsLost, Deliver, TurnTimerFires,
                    DatabaseError, Crash, LoseSeat, TakeSeat, db
<1>6. ASSUME NEW c \in Calls, ServiceStep(c)
      PROVE  Quiet \/ (\E m \in Matches : Committing(c, m)) \/ \E k \in Key : Rejecting(k)
  <2>1. CASE \/ AcquireLock(c) \/ GetActionReceipt(c) \/ LoadMatch(c) \/ CheckFinisher(c)
             \/ RecheckReceipt(c) \/ ReloadMatch(c) \/ ReplaySaved(c) \/ Acknowledge(c)
    BY <1>4, <2>1 DEF AcquireLock, GetActionReceipt, LoadMatch, CheckFinisher,
                      RecheckReceipt, ReloadMatch, ReplaySaved, Acknowledge, db
  <2>2. QED
    BY <1>6, <2>1, PersistWrites, TerminateWrites, RejectionWrites DEF ServiceStep
<1>7. QED
  BY <1>1, <1>2, <1>3, <1>5, <1>6 DEF Next

LEMMA AppendFacts ==
  ASSUME NEW S, NEW s \in Seq(S), NEW x \in S
  PROVE  /\ DOMAIN Append(s, x) = DOMAIN s \cup {Len(s) + 1}
         /\ Len(s) + 1 \notin DOMAIN s
         /\ \A i \in DOMAIN s : Append(s, x)[i] = s[i]
         /\ Append(s, x)[Len(s) + 1] = x
  OBVIOUS

\* A committing step, in terms of the history.
LEMMA CommittingFacts ==
  ASSUME TypeInv, NEW c \in Calls, NEW m \in Matches, Committing(c, m)
  PROVE  LET x == [match |-> m, version |-> call[c].plan.version, by |-> CommittedBy(c)]
             n == Len(commits) + 1
         IN /\ x \in Commit
            /\ x.version = matches[m].state.version + 1
            /\ matches[m].state.version \in Nat
            /\ DOMAIN commits' = DOMAIN commits \cup {n}
            /\ n \notin DOMAIN commits
            /\ \A i \in DOMAIN commits : commits'[i] = commits[i] /\ commits[i] \in Commit
            /\ commits'[n] = x
            /\ ReceiptsGrow /\ room # "deleted" /\ room' # "deleted"
            /\ matches'[m].state.version = x.version
<1> DEFINE x == [match |-> m, version |-> call[c].plan.version, by |-> CommittedBy(c)]
<1>1. call[c].plan.version \in Nat /\ matches[m].state.version \in Nat
      /\ commits \in Seq(Commit)
  BY DEF TypeInv, TypeOK, CallState, Row, GameState
<1>2. CommittedBy(c) \in Command \cup {NoRequest}
  BY RequestKinds DEF Committing, CommittedBy, IsTimeout
<1>3. x \in Commit
  BY <1>1, <1>2 DEF Commit
<1>4. x.version = matches[m].state.version + 1
  BY <1>1 DEF Committing, AtExpectedVersion
<1>5. commits' = Append(commits, x)
  BY DEF Committing, WriteCommit
<1>6. \A i \in DOMAIN commits : commits[i] \in Commit
  BY <1>1
<1>7. ReceiptsGrow
  BY WriteType DEF Committing, TypeInv, ActiveIsRunning
<1>8. matches'[m].state.version = x.version
  BY DEF Committing
<1> HIDE DEF x
<1>9. /\ DOMAIN commits' = DOMAIN commits \cup {Len(commits) + 1}
      /\ Len(commits) + 1 \notin DOMAIN commits
      /\ \A i \in DOMAIN commits : commits'[i] = commits[i]
      /\ commits'[Len(commits) + 1] = x
  BY <1>1, <1>3, <1>5, AppendFacts
<1>10. room # "deleted" /\ room' # "deleted"
  BY DEF Committing, TypeInv, ActiveIsRunning
<1>11. QED
  BY <1>1, <1>3, <1>4, <1>6, <1>7, <1>8, <1>9, <1>10 DEF x

-----------------------------------------------------------------------------
(* A receipt is accepted exactly when its command was committed. *)

LEMMA CommittingReceipts ==
  ASSUME TypeInv, ReceiptIffCommit,
         NEW c \in Calls, NEW m \in Matches, Committing(c, m)
  PROVE  ReceiptIffCommit'
<1> DEFINE x == [match |-> m, version |-> call[c].plan.version, by |-> CommittedBy(c)]
<1> DEFINE n == Len(commits) + 1
<1> DEFINE row == [cmd |-> call[c].cmd, match |-> m, version |-> call[c].plan.version,
                   status |-> "accepted", code |-> "none"]
<1>1. /\ x \in Commit
      /\ DOMAIN commits' = DOMAIN commits \cup {n}
      /\ \A i \in DOMAIN commits : commits'[i] = commits[i] /\ commits[i] \in Commit
      /\ commits'[n] = x
      /\ ReceiptsGrow /\ room # "deleted" /\ room' # "deleted"
  BY CommittingFacts
<1>2. \A i \in DOMAIN commits : commits[i].by # NoRequest =>
        /\ KeyOf(commits[i].by) \in Key
        /\ receipts[KeyOf(commits[i].by)] # NoReceipt
  <2> SUFFICES ASSUME NEW i \in DOMAIN commits, commits[i].by # NoRequest
               PROVE  /\ KeyOf(commits[i].by) \in Key
                      /\ receipts[KeyOf(commits[i].by)] # NoReceipt
    OBVIOUS
  <2>1. commits[i].by \in Command /\ commits[i].match \in Matches /\ commits[i].version \in Nat
    BY <1>1 DEF Commit
  <2>2. [cmd |-> commits[i].by, match |-> commits[i].match,
         version |-> commits[i].version, status |-> "accepted", code |-> "none"] \in Receipt
    BY <2>1 DEF Receipt, Codes
  <2>3. QED
    BY <1>1, <2>1, <2>2, NullAssumption DEF ReceiptIffCommit, KeyOf, Key, Command
<1>3. CASE CommittedBy(c) = NoRequest
  <2>1. receipts' = receipts /\ x.by = NoRequest
    BY <1>3 DEF Committing, WriteReceipt
  <2>2. QED
    BY <1>1, <2>1 DEF ReceiptIffCommit
<1>4. CASE CommittedBy(c) # NoRequest
  <2> DEFINE k == KeyOf(call[c].cmd)
  <2>1. /\ CommittedBy(c) = call[c].cmd /\ call[c].cmd \in Command /\ k \in Key
        /\ receipts[k] = NoReceipt
    BY <1>4, RequestKinds DEF CommittedBy, IsTimeout, Committing, ReceiptRefused
  <2>2. receipts' = [receipts EXCEPT ![k] = row] /\ receipts \in [Key -> Receipt \cup {NoReceipt}]
    BY <1>4 DEF Committing, WriteReceipt, TypeInv, TypeOK
  <2>3. receipts'[k] = row /\ \A q \in Key \ {k} : receipts'[q] = receipts[q]
    BY <2>1, <2>2
  <2>4. x.by = call[c].cmd /\ x.match = row.match /\ x.version = row.version
        /\ row.cmd = call[c].cmd
    BY <2>1
  <2>5. ASSUME NEW q \in Key, receipts'[q] # NoReceipt, receipts'[q].status = "accepted"
        PROVE  \E i \in DOMAIN commits' :
                 commits'[i] = [match |-> receipts'[q].match, version |-> receipts'[q].version,
                                by |-> receipts'[q].cmd]
    <3>1. CASE q = k
      BY <3>1, <1>1, <2>1, <2>3
    <3>2. CASE q # k
      BY <3>2, <1>1, <2>3, <2>5 DEF ReceiptIffCommit
    <3>3. QED
      BY <3>1, <3>2
  <2>6. ASSUME NEW i \in DOMAIN commits', commits'[i].by # NoRequest
        PROVE  receipts'[KeyOf(commits'[i].by)] =
                 [cmd |-> commits'[i].by, match |-> commits'[i].match,
                  version |-> commits'[i].version, status |-> "accepted", code |-> "none"]
    <3>1. CASE i = n
      BY <3>1, <1>1, <2>1, <2>3
    <3>2. CASE i \in DOMAIN commits
      <4>1. commits'[i] = commits[i]
        BY <3>2, <1>1
      <4>2. receipts'[KeyOf(commits[i].by)] = receipts[KeyOf(commits[i].by)]
        BY <3>2, <4>1, <2>6, <1>1, <1>2 DEF ReceiptsGrow
      <4>3. QED
        BY <1>1, <3>2, <4>1, <4>2, <2>6 DEF ReceiptIffCommit
    <3>3. QED
      BY <3>1, <3>2, <1>1
  <2>7. QED
    BY <2>5, <2>6 DEF ReceiptIffCommit
<1>5. QED
  BY <1>3, <1>4

LEMMA RejectingReceipts ==
  ASSUME TypeInv, ReceiptIffCommit, NEW k \in Key, Rejecting(k)
  PROVE  ReceiptIffCommit'
<1>1. PICK r \in Receipt : r.status = "rejected" /\ receipts' = [receipts EXCEPT ![k] = r]
  BY DEF Rejecting
<1>2. /\ receipts'[k] = r
      /\ \A q \in Key \ {k} : receipts'[q] = receipts[q]
      /\ receipts[k] = NoReceipt /\ commits' = commits
      /\ room # "deleted" /\ room' # "deleted"
  BY <1>1 DEF Rejecting, TypeInv, TypeOK
<1>3. \A i \in DOMAIN commits : commits[i].by # NoRequest =>
        KeyOf(commits[i].by) \in Key /\ KeyOf(commits[i].by) # k
  <2> SUFFICES ASSUME NEW i \in DOMAIN commits, commits[i].by # NoRequest
               PROVE  KeyOf(commits[i].by) \in Key /\ KeyOf(commits[i].by) # k
    OBVIOUS
  <2>1. commits[i] \in Commit
    BY DEF TypeInv, TypeOK
  <2>2. commits[i].by \in Command /\ commits[i].match \in Matches /\ commits[i].version \in Nat
    BY <2>1 DEF Commit
  <2>3. [cmd |-> commits[i].by, match |-> commits[i].match,
         version |-> commits[i].version, status |-> "accepted", code |-> "none"] \in Receipt
    BY <2>2 DEF Receipt, Codes
  <2>4. receipts[KeyOf(commits[i].by)] # NoReceipt
    BY <1>2, <2>3, NullAssumption DEF ReceiptIffCommit
  <2>5. QED
    BY <1>2, <2>2, <2>4 DEF KeyOf, Key, Command
<1>4. QED
  BY <1>1, <1>2, <1>3 DEF ReceiptIffCommit

LEMMA ReceiptIffCommitStep ==
  ASSUME TypeInv, ReceiptIffCommit, [Next]_vars PROVE ReceiptIffCommit'
<1>1. CASE Quiet
  BY <1>1 DEF Quiet, ReceiptIffCommit
<1>2. CASE DeleteRoom
  BY <1>2 DEF DeleteRoom, ReceiptIffCommit
<1>3. QED
  BY <1>1, <1>2, StepWrites, CommittingReceipts, RejectingReceipts

\* A receipt reads "accepted" exactly when the command was committed: the two
\* are written by one transaction and neither is lost or overwritten while there
\* is a room, whatever fails, retries or runs without the lock; a deletion takes
\* every receipt, and none comes back.
THEOREM ReceiptsTellTheTruth == Spec => []ReceiptIffCommit
<1>1. Init => TypeInv /\ ReceiptIffCommit
  BY InitInv DEF Init, ReceiptIffCommit
<1>2. TypeInv /\ ReceiptIffCommit /\ [Next]_vars => (TypeInv /\ ReceiptIffCommit)'
  BY NextInv, ReceiptIffCommitStep
<1>3. QED
  BY <1>1, <1>2, PTL DEF Spec

-----------------------------------------------------------------------------
(* One commit per version of a match. *)

\* OneCommitPerVersion, member by member.
Committed(m, v) == \E i \in DOMAIN commits : commits[i].match = m /\ commits[i].version = v

Versions ==
  /\ \A i, j \in DOMAIN commits :
       i # j /\ commits[i].match = commits[j].match => commits[i].version # commits[j].version
  /\ room # "deleted" =>
       \A m \in Matches : \A v : Committed(m, v) <=> v \in 2..matches[m].state.version

LEMMA VersionsMeanOneCommit == Versions <=> OneCommitPerVersion
<1>1. ASSUME NEW m \in Matches
      PROVE  (\A v : Committed(m, v) <=> v \in 2..matches[m].state.version)
             <=> {commits[i].version : i \in {j \in DOMAIN commits : commits[j].match = m}}
                   = 2..matches[m].state.version
  BY DEF Committed
<1>2. QED
  BY <1>1 DEF Versions, OneCommitPerVersion

LEMMA CommittingVersions ==
  ASSUME TypeInv, Versions, NEW c \in Calls, NEW m \in Matches, Committing(c, m)
  PROVE  Versions'
<1> DEFINE x == [match |-> m, version |-> call[c].plan.version, by |-> CommittedBy(c)]
<1> DEFINE n == Len(commits) + 1
<1>1. /\ x.match = m /\ x.version = matches[m].state.version + 1
      /\ matches[m].state.version \in Nat
      /\ DOMAIN commits' = DOMAIN commits \cup {n}
      /\ n \notin DOMAIN commits
      /\ \A i \in DOMAIN commits : commits'[i] = commits[i]
      /\ commits'[n] = x
      /\ matches'[m].state.version = x.version
      /\ room # "deleted"
  BY CommittingFacts
<1>2. \A p \in Matches \ {m} : matches'[p].state = matches[p].state
  BY DEF Committing
<1>3. matches[m].state.version # 0
  BY DEF TypeInv, TypeOK, Row, GameState
<1>4. \A i \in DOMAIN commits : commits[i].match = m => commits[i].version # x.version
  <2>1. ~Committed(m, x.version)
    BY <1>1 DEF Versions
  <2>2. QED
    BY <2>1 DEF Committed
<1>5. \A p \in Matches : \A v : Committed(p, v)' <=> Committed(p, v) \/ (p = m /\ v = x.version)
  BY <1>1 DEF Committed
<1>6. \A v : v \in 2..x.version <=> v \in 2..matches[m].state.version \/ v = x.version
  <2> SUFFICES ASSUME NEW a \in Nat, a # 0, NEW v
               PROVE  v \in 2..(a + 1) <=> v \in 2..a \/ v = a + 1
    BY <1>1, <1>3
  <2>1. CASE v \in Int
    BY <2>1
  <2>2. CASE v \notin Int
    BY <2>2
  <2>3. QED
    BY <2>1, <2>2
<1>7. \A p \in Matches : \A v : Committed(p, v)' <=> v \in 2..matches'[p].state.version
  BY <1>1, <1>2, <1>5, <1>6 DEF Versions
<1>8. \A i, j \in DOMAIN commits' :
        i # j /\ commits'[i].match = commits'[j].match => commits'[i].version # commits'[j].version
  BY <1>1, <1>4 DEF Versions
<1>9. QED
  BY <1>7, <1>8 DEF Versions

LEMMA VersionsStep == ASSUME TypeInv, Versions, [Next]_vars PROVE Versions'
<1>1. CASE Quiet
  BY <1>1 DEF Quiet, Versions, Committed
<1>2. ASSUME NEW k \in Key, Rejecting(k) PROVE Versions'
  BY <1>2 DEF Rejecting, Versions, Committed
<1>3. CASE DeleteRoom
  BY <1>3 DEF DeleteRoom, Versions
<1>4. QED
  BY <1>1, <1>2, <1>3, StepWrites, CommittingVersions

LEMMA VersionsInit == Init => Versions
<1> SUFFICES ASSUME Init PROVE Versions
  OBVIOUS
<1>1. DOMAIN commits = {}
  BY DEF Init
<1>2. ASSUME NEW m \in Matches, NEW v PROVE v \notin 2..matches[m].state.version
  BY DEF Init, NoRow, InitialState
<1>3. QED
  BY <1>1, <1>2 DEF Versions, Committed

\* No update of a match is lost, repeated or skipped, even when two calls both
\* believe they hold the room's lock: its versions 2..n are committed once each,
\* and none of them again after the match has been deleted.
THEOREM VersionsAreCommittedOnce == Spec => []OneCommitPerVersion
<1>1. Init => TypeInv /\ Versions
  BY InitInv, VersionsInit
<1>2. TypeInv /\ Versions /\ [Next]_vars => (TypeInv /\ Versions)'
  BY NextInv, VersionsStep
<1>3. Versions => OneCommitPerVersion
  BY VersionsMeanOneCommit
<1>4. QED
  BY <1>1, <1>2, <1>3, PTL DEF Spec

LEMMA AtMostOnce ==
  ASSUME ReceiptIffCommit, Versions, room # "deleted" PROVE AppliedAtMostOnce
<1> SUFFICES ASSUME NEW i \in DOMAIN commits, NEW j \in DOMAIN commits,
                    commits[i].by # NoRequest, commits[j].by # NoRequest,
                    KeyOf(commits[i].by) = KeyOf(commits[j].by)
             PROVE  i = j
  BY DEF AppliedAtMostOnce
<1>1. [cmd |-> commits[i].by, match |-> commits[i].match,
       version |-> commits[i].version, status |-> "accepted", code |-> "none"]
      = [cmd |-> commits[j].by, match |-> commits[j].match,
         version |-> commits[j].version, status |-> "accepted", code |-> "none"]
  BY DEF ReceiptIffCommit
<1>2. commits[i].match = commits[j].match /\ commits[i].version = commits[j].version
  BY <1>1
<1>3. QED
  BY <1>2 DEF Versions

\* Nothing is committed in a room that has been deleted.
LEMMA NothingAfterDeletion ==
  ASSUME TypeInv, [Next]_vars, room' = "deleted" PROVE UNCHANGED commits
  BY StepWrites DEF Quiet, Committing, Rejecting, DeleteRoom

\* A command changes the game at most once, however many times it is delivered,
\* by whatever replicas, through lost locks, failed commits and crashes, and after
\* the room has been deleted.
THEOREM CommandsApplyAtMostOnce == Spec => []AppliedAtMostOnce
<1> DEFINE Inv == TypeInv /\ ReceiptIffCommit /\ Versions
<1>1. Init => Inv /\ AppliedAtMostOnce
  BY InitInv, VersionsInit DEF Init, ReceiptIffCommit, AppliedAtMostOnce
<1>2. Inv /\ [Next]_vars => Inv'
  BY NextInv, ReceiptIffCommitStep, VersionsStep
<1>3. TypeInv /\ AppliedAtMostOnce /\ [Next]_vars /\ (room = "deleted")' => AppliedAtMostOnce'
  BY NothingAfterDeletion DEF AppliedAtMostOnce
<1>4. Inv /\ ~(room = "deleted") => AppliedAtMostOnce
  BY AtMostOnce
<1>5. QED
  BY <1>1, <1>2, <1>3, <1>4, PTL DEF Spec

-----------------------------------------------------------------------------
(* Acknowledgements are durable. *)

Durable(a) ==
  LET receipt == receipts[KeyOf(a.cmd)]
  IN receipt # NoReceipt /\ receipt.cmd = a.cmd /\ receipt.status = "accepted"
     /\ receipt.version = a.version

\* What a step may add to the answers.
Honest ==
  \A a \in answers' :
    a \in answers \/ a.status = "rejected" \/ Durable(a) \/ room = "deleted"

LEMMA ReplayHonest ==
  ASSUME TypeInv, NEW c \in Calls, call[c].cmd \in Command,
         receipts[KeyOf(call[c].cmd)] # NoReceipt,
         Replay(c, receipts[KeyOf(call[c].cmd)])
  PROVE  Honest
<1> DEFINE receipt == receipts[KeyOf(call[c].cmd)]
<1>1. receipt.status \in {"accepted", "rejected"}
  <2>1. KeyOf(call[c].cmd) \in Key
    BY DEF KeyOf, Key, Command
  <2>2. QED
    BY <2>1 DEF TypeInv, TypeOK, Receipt
<1>2. CASE receipt.cmd = call[c].cmd
  BY <1>1, <1>2 DEF Replay, ReturnAnswer, Honest, Durable
<1>3. CASE receipt.cmd # call[c].cmd
  BY <1>3 DEF Replay, ReturnAnswer, Honest
<1>4. QED
  BY <1>2, <1>3

\* A call that committed its command may say so.
LEMMA DoneHonest ==
  ASSUME TypeInv, NEW c \in Calls, call[c].pc = "reply",
         ReturnAnswer(c, "accepted", "none", call[c].done)
  PROVE  Honest
<1>1. CallOK(call[c]) /\ call[c].cmd \in Request
  BY DEF TypeInv, CallInv, CallOK
<1>2. ~IsTimeout(c) => call[c].cmd \in Command
  BY <1>1, RequestKinds DEF IsTimeout
<1>3. QED
  BY <1>1, <1>2 DEF CallOK, ReturnAnswer, Honest, Durable

LEMMA StepHonest == ASSUME TypeInv, [Next]_vars PROVE Honest
<1>1. ASSUME UNCHANGED answers PROVE Honest
  BY <1>1 DEF Honest
<1>2. ASSUME NEW c, NEW code, NEW version, ReturnAnswer(c, "rejected", code, version)
      PROVE  Honest
  BY <1>2 DEF ReturnAnswer, Honest
<1>3. CASE UNCHANGED vars
  BY <1>1, <1>3 DEF vars
<1>4. CASE \/ IssueCommand \/ LockExpires \/ LockIsLost
           \/ \E m \in Matches : StartMatch(m) \/ LeaveMatch(m)
           \/ \E c \in Calls, r \in issued : Deliver(c, r)
           \/ \E c \in Calls, m \in Matches : TurnTimerFires(c, m)
           \/ \E a \in Humans : LoseSeat(a) \/ TakeSeat(a)
           \/ DeleteRoom
           \/ \E c \in Calls : Crash(c)
  BY <1>1, <1>4 DEF IssueCommand, LockExpires, LockIsLost, StartMatch, LeaveMatch, Deliver,
                    LoseSeat, TakeSeat, DeleteRoom, TurnTimerFires, Crash
<1>5. ASSUME NEW c \in Calls, DatabaseError(c) PROVE Honest
  BY <1>1, <1>2, <1>5, DoneHonest DEF DatabaseError
<1>6. ASSUME NEW c \in Calls, ServiceStep(c) PROVE Honest
  <2>1. CASE \/ AcquireLock(c) \/ CheckFinisher(c)
             \/ PersistActionResult(c) \/ TerminateActiveMatch(c)
    BY <1>1, <2>1 DEF AcquireLock, CheckFinisher, PersistActionResult, TerminateActiveMatch
  <2>2. CASE GetActionReceipt(c) \/ RecheckReceipt(c)
    BY <1>1, <2>2, ReplayHonest DEF GetActionReceipt, RecheckReceipt, TypeInv, CallInv, CallOK
  <2>3. CASE LoadMatch(c) \/ ReloadMatch(c) \/ SaveRejection(c)
    BY <1>1, <1>2, <2>3 DEF LoadMatch, ReloadMatch, SaveRejection
  <2>4. CASE ReplaySaved(c)
    BY <1>1, <2>4, ReplayHonest DEF ReplaySaved, TypeInv, CallInv, CallOK
  <2>5. CASE Acknowledge(c)
    BY <1>1, <2>5, DoneHonest DEF Acknowledge
  <2>6. QED
    BY <1>6, <2>1, <2>2, <2>3, <2>4, <2>5 DEF ServiceStep
<1>7. QED
  BY <1>3, <1>4, <1>5, <1>6 DEF Next

LEMMA StepReceiptsGrow == ASSUME TypeInv, [Next]_vars PROVE ReceiptsGrow
<1>1. ASSUME NEW k \in Key, Rejecting(k) PROVE ReceiptsGrow
  BY <1>1 DEF Rejecting, ReceiptsGrow, TypeInv, TypeOK
<1>2. CASE Quiet
  BY <1>2 DEF Quiet, ReceiptsGrow
<1>3. CASE DeleteRoom
  BY <1>3 DEF DeleteRoom, ReceiptsGrow
<1>4. QED
  BY <1>1, <1>2, <1>3, StepWrites, CommittingFacts

LEMMA AckStep == ASSUME TypeInv, AckIsDurable, [Next]_vars PROVE AckIsDurable'
<1> SUFFICES ASSUME NEW a \in answers', a.status = "accepted", room' # "deleted"
             PROVE  Durable(a)'
  BY DEF AckIsDurable, Durable
<1>1. a \in Answer
  BY NextInv DEF TypeInv, TypeOK
<1>2. Durable(a) /\ room # "deleted"
  BY StepHonest, StepReceiptsGrow DEF Honest, AckIsDurable, Durable, ReceiptsGrow
<1>3. KeyOf(a.cmd) \in Key
  BY <1>1 DEF Answer, KeyOf, Key, Command
<1>4. QED
  BY <1>2, <1>3, StepReceiptsGrow DEF Durable, ReceiptsGrow

\* A client that is told "accepted" can forget the command: the database holds
\* its receipt, with the version it was told, and keeps it as long as the room.
THEOREM AcknowledgedIsDurable == Spec => []AckIsDurable
<1>1. Init => TypeInv /\ AckIsDurable
  BY InitInv DEF Init, AckIsDurable
<1>2. TypeInv /\ AckIsDurable /\ [Next]_vars => (TypeInv /\ AckIsDurable)'
  BY NextInv, AckStep
<1>3. QED
  BY <1>1, <1>2, PTL DEF Spec

-----------------------------------------------------------------------------
(* The room's status and its matches. *)

OneActive ==
  /\ \A m, n \in Matches : Active(m) /\ Active(n) => m = n
  /\ room = "playing" <=> \E m \in Matches : Active(m)

LEMMA OneActiveCounts == OneActive => PlayingIffActive
<1> SUFFICES ASSUME OneActive PROVE PlayingIffActive
  OBVIOUS
<1> DEFINE A == {m \in Matches : Active(m)}
<1>1. CASE A = {}
  BY <1>1, FS_EmptySet DEF OneActive, PlayingIffActive
<1>2. CASE A # {}
  <2>1. PICK m \in Matches : A = {m}
    BY <1>2 DEF OneActive
  <2>2. Cardinality(A) = 1
    BY <2>1, FS_Singleton
  <2>3. QED
    BY <2>2 DEF OneActive, PlayingIffActive
<1>3. QED
  BY <1>1, <1>2

\* No step but the commit of a final state and the ones without lock touch them.
LEMMA OneActiveStep == ASSUME TypeInv, OneActive, [Next]_vars PROVE OneActive'
<1> USE DEF OneActive, Active
<1>1. matches \in [Matches -> Row]
  BY DEF TypeInv, TypeOK
<1>2. ASSUME UNCHANGED <<room, matches>> PROVE OneActive'
  BY <1>2
<1>3. CASE UNCHANGED vars
  BY <1>2, <1>3 DEF vars
<1>4. CASE \/ IssueCommand \/ LockExpires \/ LockIsLost
           \/ \E c \in Calls, r \in issued : Deliver(c, r)
           \/ \E c \in Calls, m \in Matches : TurnTimerFires(c, m)
           \/ \E c \in Calls : DatabaseError(c) \/ Crash(c)
           \/ \E a \in Humans : LoseSeat(a) \/ TakeSeat(a)
  BY <1>2, <1>4 DEF IssueCommand, LockExpires, LockIsLost, Deliver, TurnTimerFires,
                    DatabaseError, Crash, LoseSeat, TakeSeat, db
<1>5. ASSUME NEW m \in Matches, StartMatch(m) PROVE OneActive'
  BY <1>1, <1>5 DEF StartMatch
<1>6. ASSUME NEW m \in Matches, LeaveMatch(m) PROVE OneActive'
  BY <1>1, <1>6 DEF LeaveMatch, Row
<1>7. ASSUME NEW c \in Calls, PersistActionResult(c) PROVE OneActive'
  <2>1. CASE UNCHANGED db
    BY <1>2, <2>1 DEF db
  <2>2. CASE /\ Active(call[c].match) /\ UNCHANGED room
             /\ matches' = [matches EXCEPT ![call[c].match].state = call[c].plan]
    BY <1>1, <2>2 DEF Row
  <2>3. QED
    BY <1>7, <2>1, <2>2 DEF PersistActionResult, Updatable
<1>8. ASSUME NEW c \in Calls, TerminateActiveMatch(c) PROVE OneActive'
  <2>1. CASE UNCHANGED db
    BY <1>2, <2>1 DEF db
  <2>2. ASSUME NEW m \in Matches, Active(m), room' = "waiting",
               matches' = [matches EXCEPT ![m] = [status |-> "finished", state |-> call[c].plan]]
        PROVE  OneActive'
    BY <1>1, <2>2
  <2>3. QED
    BY <1>8, <2>1, <2>2 DEF TerminateActiveMatch
<1>9. ASSUME NEW c \in Calls, ServiceStep(c) PROVE OneActive'
  <2>1. CASE \/ AcquireLock(c) \/ GetActionReceipt(c) \/ LoadMatch(c) \/ CheckFinisher(c)
             \/ RecheckReceipt(c) \/ ReloadMatch(c) \/ ReplaySaved(c) \/ Acknowledge(c)
             \/ SaveRejection(c)
    BY <1>2, <2>1 DEF AcquireLock, GetActionReceipt, LoadMatch, CheckFinisher, SaveRejection,
                      RecheckReceipt, ReloadMatch, ReplaySaved, Acknowledge, db
  <2>2. QED
    BY <1>7, <1>8, <1>9, <2>1 DEF ServiceStep
<1>10. CASE DeleteRoom
  BY <1>10 DEF DeleteRoom, NoRow
<1>11. QED
  BY <1>3, <1>4, <1>5, <1>6, <1>9, <1>10 DEF Next

\* A room is "playing" exactly while one, and only one, of its matches is active,
\* although starting and leaving a match do not take the lock that actions take.
THEOREM RoomFollowsMatch == Spec => []PlayingIffActive
<1>1. Init => TypeInv /\ OneActive
  BY InitInv DEF Init, OneActive, Active, NoRow
<1>2. TypeInv /\ OneActive /\ [Next]_vars => (TypeInv /\ OneActive)'
  BY NextInv, OneActiveStep
<1>3. OneActive => PlayingIffActive
  BY OneActiveCounts
<1>4. QED
  BY <1>1, <1>2, <1>3, PTL DEF Spec

-----------------------------------------------------------------------------
(* History. *)

Frozen ==
  /\ \A m \in Matches : matches[m].status = "finished" => matches'[m] = matches[m]
  /\ \A k \in Key : receipts[k] # NoReceipt => receipts'[k] = receipts[k]

\* In a deleted room nothing is active, so nothing is written any more.
LEMMA StepErased ==
  ASSUME TypeInv, room = "deleted" => Erased, [Next]_vars, room' = "deleted"
  PROVE  Erased'
<1>1. ASSUME UNCHANGED <<room, matches, receipts>> PROVE Erased'
  BY <1>1 DEF Erased
<1>2. CASE DeleteRoom
  BY <1>2 DEF DeleteRoom, Erased
<1>3. \A m \in Matches : ~StartMatch(m) /\ ~LeaveMatch(m)
  BY DEF StartMatch, LeaveMatch
<1>4. CASE \/ UNCHANGED vars
           \/ IssueCommand \/ LockExpires \/ LockIsLost
           \/ \E c \in Calls, r \in issued : Deliver(c, r)
           \/ \E c \in Calls, m \in Matches : TurnTimerFires(c, m)
           \/ \E c \in Calls : DatabaseError(c) \/ Crash(c)
           \/ \E a \in Humans : LoseSeat(a) \/ TakeSeat(a)
  BY <1>1, <1>4 DEF vars, IssueCommand, LockExpires, LockIsLost, Deliver, TurnTimerFires,
                    DatabaseError, Crash, LoseSeat, TakeSeat, db
<1>5. ASSUME NEW c \in Calls, ServiceStep(c) PROVE Erased'
  <2>1. CASE \/ AcquireLock(c) \/ GetActionReceipt(c) \/ LoadMatch(c) \/ CheckFinisher(c)
             \/ RecheckReceipt(c) \/ ReloadMatch(c) \/ ReplaySaved(c) \/ Acknowledge(c)
    BY <1>1, <2>1 DEF AcquireLock, GetActionReceipt, LoadMatch, CheckFinisher,
                      RecheckReceipt, ReloadMatch, ReplaySaved, Acknowledge, db
  <2>2. CASE SaveRejection(c)
    BY <1>1, <2>2 DEF SaveRejection
  <2>3. CASE PersistActionResult(c)
    <3>1. call[c].match \in Matches
      BY <2>3 DEF PersistActionResult, TypeInv, CallInv, CallOK
    <3>2. Updatable(c, call[c].match) => room' # "deleted"
      BY <2>3, <3>1 DEF PersistActionResult, Updatable, TypeInv, ActiveIsRunning, db
    <3>3. QED
      BY <1>1, <2>3, <3>2 DEF PersistActionResult, db
  <2>4. CASE TerminateActiveMatch(c)
    BY <1>1, <2>4 DEF TerminateActiveMatch, db
  <2>5. QED
    BY <1>5, <2>1, <2>2, <2>3, <2>4 DEF ServiceStep
<1>6. QED
  BY <1>2, <1>3, <1>4, <1>5 DEF Next

LEMMA StepFrozen == ASSUME TypeInv, [Next]_vars PROVE Frozen \/ DeleteRoom
<1> SUFFICES ASSUME ~DeleteRoom PROVE Frozen
  OBVIOUS
<1>1. matches \in [Matches -> Row]
  BY DEF TypeInv, TypeOK
<1>2. \A k \in Key : receipts[k] # NoReceipt => receipts'[k] = receipts[k]
  <2>1. ASSUME NEW k \in Key, Rejecting(k) PROVE ReceiptsGrow /\ room' # "deleted"
    BY <2>1 DEF Rejecting, ReceiptsGrow, TypeInv, TypeOK
  <2>2. QED
    BY <2>1, StepWrites, CommittingFacts DEF Quiet, ReceiptsGrow
<1>3. ASSUME UNCHANGED matches PROVE Frozen
  BY <1>2, <1>3 DEF Frozen
<1>4. ASSUME NEW m \in Matches, matches[m].status # "finished",
             \A n \in Matches \ {m} : matches'[n] = matches[n]
      PROVE  Frozen
  BY <1>2, <1>4 DEF Frozen
<1>5. ASSUME NEW m \in Matches, StartMatch(m) \/ LeaveMatch(m) PROVE Frozen
  BY <1>1, <1>4, <1>5 DEF StartMatch, LeaveMatch, NoRow, Active
<1>6. ASSUME NEW c \in Calls, PersistActionResult(c) PROVE Frozen
  <2>1. call[c].match \in Matches
    BY <1>6 DEF PersistActionResult, TypeInv, CallInv, CallOK
  <2>2. CASE UNCHANGED db
    BY <1>3, <2>2 DEF db
  <2>3. CASE /\ Active(call[c].match)
             /\ matches' = [matches EXCEPT ![call[c].match].state = call[c].plan]
    BY <1>1, <1>4, <2>1, <2>3 DEF Active
  <2>4. QED
    BY <1>6, <2>2, <2>3 DEF PersistActionResult, Updatable
<1>7. ASSUME NEW c \in Calls, TerminateActiveMatch(c) PROVE Frozen
  <2>1. CASE UNCHANGED db
    BY <1>3, <2>1 DEF db
  <2>2. ASSUME NEW m \in Matches, Active(m),
               matches' = [matches EXCEPT ![m] = [status |-> "finished", state |-> call[c].plan]]
        PROVE  Frozen
    BY <1>1, <1>4, <2>2 DEF Active
  <2>3. QED
    BY <1>7, <2>1, <2>2 DEF TerminateActiveMatch
<1>8. CASE \/ UNCHANGED vars
           \/ IssueCommand \/ LockExpires \/ LockIsLost
           \/ \E c \in Calls, r \in issued : Deliver(c, r)
           \/ \E c \in Calls, m \in Matches : TurnTimerFires(c, m)
           \/ \E c \in Calls : DatabaseError(c) \/ Crash(c)
           \/ \E a \in Humans : LoseSeat(a) \/ TakeSeat(a)
  BY <1>3, <1>8 DEF vars, IssueCommand, LockExpires, LockIsLost, Deliver, TurnTimerFires,
                    DatabaseError, Crash, LoseSeat, TakeSeat, db
<1>9. ASSUME NEW c \in Calls, ServiceStep(c) PROVE Frozen
  <2>1. CASE \/ AcquireLock(c) \/ GetActionReceipt(c) \/ LoadMatch(c) \/ CheckFinisher(c)
             \/ RecheckReceipt(c) \/ ReloadMatch(c) \/ ReplaySaved(c) \/ Acknowledge(c)
             \/ SaveRejection(c)
    BY <1>3, <2>1 DEF AcquireLock, GetActionReceipt, LoadMatch, CheckFinisher, SaveRejection,
                      RecheckReceipt, ReloadMatch, ReplaySaved, Acknowledge, db
  <2>2. QED
    BY <1>6, <1>7, <1>9, <2>1 DEF ServiceStep
<1>10. QED
  BY <1>5, <1>8, <1>9 DEF Next

\* No step, however late or repeated, changes a finished match or a receipt: they
\* disappear together, when a waiting room is deleted, and nothing is ever
\* recorded in that room again.
THEOREM HistoryStaysFrozen == Spec => HistoryIsFrozen
<1> DEFINE Inv == TypeInv /\ (room = "deleted" => Erased)
<1> DEFINE Step == /\ \/ Frozen
                      \/ room = "waiting" /\ Erased'
                   /\ room = "deleted" => Erased'
<1>1. Init => Inv
  BY InitInv DEF Init
<1>2. Inv /\ [Next]_vars => Inv' /\ Step
  <2> SUFFICES ASSUME Inv, [Next]_vars PROVE Inv' /\ Step
    OBVIOUS
  <2>1. TypeInv' /\ (room' = "deleted" => Erased')
    BY NextInv, StepErased
  <2>2. room = "deleted" => room' = "deleted"
    BY StepReceiptsGrow DEF ReceiptsGrow
  <2>3. Frozen \/ (room = "waiting" /\ Erased')
    BY <2>1, StepFrozen DEF DeleteRoom
  <2>4. QED
    BY <2>1, <2>2, <2>3 DEF Erased
<1>3. Spec => [][Step]_vars
  BY <1>1, <1>2, PTL DEF Spec
<1>4. [][Step]_vars <=> HistoryIsFrozen
  BY DEF Frozen, HistoryIsFrozen
<1>5. QED
  BY <1>3, <1>4
=============================================================================
