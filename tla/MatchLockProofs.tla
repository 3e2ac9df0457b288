--------------------------- MODULE MatchLockProofs ---------------------------
(***************************************************************************)
(* What the room lock is for.  As long as the key cannot expire under its  *)
(* holder, the call that works on a match is alone with it, although       *)
(* starting and leaving a match do not take the lock: commands are         *)
(* committed only on the state their senders saw, a rejection is final,    *)
(* and matches and receipts are a run of GameLog.  The argument is about a *)
(* room that stands; of a deleted one, only that nothing is written and    *)
(* nothing is remembered in it.                                            *)
(***************************************************************************)
EXTENDS MatchActionsProofs

\* A call that has the lock, or had it when it was taken from it.
Running(c) == call[c].pc \notin {"idle", "lock"}
Guarded == \A c \in Calls : Running(c) => holder = c

\* A match that has not been moved in is as it was dealt.
RowsOK ==
  \A m \in Matches : /\ matches[m].status = "absent" => matches[m] = NoRow
                     /\ matches[m].state.version = 1 => matches[m].state = InitialState

\* Commands name a state that their match has reached.
Known(r) == matches[r.match] # NoRow /\ r.version <= matches[r.match].state.version
IssuedOK == \A r \in issued : Known(r)

\* The command can be applied to its match as it is now.
Applicable(r) ==
  LET s == matches[r.match].state
  IN /\ Active(r.match)
     /\ s.version = r.version /\ s.phase = r.phase /\ s.turn = r.turn
     /\ Verdict(s, r.actor, r.move) = "ok"

\* The call has seen that its command cannot be applied any more.
Failing(l) == l.pc \in {"reload", "reject"} \/ (l.pc = "recheck" /\ l.why = "conflict")

\* The call has found no receipt for its command and has not written one.
Pending(l) ==
  /\ l.cmd \in Command /\ l.done = 0
  /\ l.pc \in {"load", "check", "persist", "finish"} \/ Failing(l)

\* The call is about to write: its snapshot is what the match is still like, and its
\* plan what the engine makes of it.
Working(l) ==
  /\ matches[l.match].state = l.snap /\ matches[l.match].status # "absent"
  /\ l.done = 0 =>
       /\ matchesExpectedState(l.match, l.snap, l.cmd) /\ l.plan = nextState(l.snap, l.cmd)
       /\ l.cmd \in Command => Verdict(l.snap, l.cmd.actor, l.cmd.move) = "ok"
  /\ l.done # 0 => BotToMove(l.snap) /\ l.plan = botState(l.snap) /\ l.snap.version # 1
  /\ l.pc = "persist" <=> l.plan.phase # "finished"
  /\ \A n \in Matches \ {l.match} : Active(n) => matches[n].state = InitialState

LockOK(l) ==
  /\ l.cmd \in Command => l.cmd \in issued
  /\ Pending(l) => receipts[KeyOf(l.cmd)] = NoReceipt
  /\ l.pc \in {"check", "persist", "finish"} => Working(l)
  /\ Failing(l) => ~Applicable(l.cmd) /\ matches[l.match] # NoRow
  /\ l.pc = "reload" => l.why = "conflict"
  /\ l.pc = "reject" => /\ l.why \in {"not_your_turn", "invalid", "conflict"}
                        /\ l.snap.version <= matches[l.match].state.version

AloneInv == Guarded /\ RowsOK /\ IssuedOK /\ \A c \in Calls : LockOK(call[c])

\* The client was told that its command failed: it has not been committed and will not be.
Refused(r) ==
  /\ r \in issued
  /\ \A i \in DOMAIN commits : commits[i].by # r
  /\ receipts[KeyOf(r)] # NoReceipt \/ ~Applicable(r)
RefusedOK == \A a \in answers : a.status = "rejected" => Refused(a.cmd)

-----------------------------------------------------------------------------
(* Calls that do not move. *)

\* A call that does not run knows nothing of the database.
LEMMA RestingOK ==
  ASSUME NEW l \in CallState, l.pc \in {"idle", "lock"}, l.cmd \in Command => l.cmd \in issued
  PROVE  LockOK(l)
  BY DEF LockOK, Pending, Failing

\* What a call knows stays true while matches and receipts stay as they are.
LEMMA LockOKStable ==
  ASSUME NEW l \in CallState, LockOK(l), UNCHANGED <<matches, receipts>>, issued \subseteq issued'
  PROVE  LockOK(l)'
<1>1. Pending(l)' <=> Pending(l)
  BY DEF Pending, Failing
<1>2. Working(l)' <=> Working(l)
  BY DEF Working, Active
<1>3. Applicable(l.cmd)' <=> Applicable(l.cmd)
  BY DEF Applicable, Active
<1>4. Failing(l)' <=> Failing(l)
  BY DEF Failing
<1>5. QED
  BY <1>1, <1>2, <1>3, <1>4 DEF LockOK

\* Rows that do not change stay as they are, and the commands stay known.
LEMMA SameRows ==
  ASSUME AloneInv, UNCHANGED <<matches, issued>> PROVE RowsOK' /\ IssuedOK'
  BY DEF AloneInv, RowsOK, IssuedOK, Known

\* A step of the call that has the lock, or that takes it: no other call runs.
LEMMA AloneFrame ==
  ASSUME TypeInv, AloneInv, NEW c \in Calls, Running(c) \/ holder = NoCall,
         \A d \in Calls \ {c} : call'[d] = call[d], UNCHANGED issued,
         LockOK(call[c])', RowsOK', IssuedOK', Running(c)' => holder' = c
  PROVE  AloneInv'
<1>1. ASSUME NEW d \in Calls \ {c} PROVE ~Running(d)
  <2>1. Running(d) => holder = d
    BY DEF AloneInv, Guarded
  <2>2. Running(c) => holder = c
    BY DEF AloneInv, Guarded
  <2>3. QED
    BY <2>1, <2>2, CallAssumption
<1>2. ASSUME NEW d \in Calls \ {c} PROVE ~Running(d)' /\ LockOK(call[d])'
  <2>1. call'[d] = call[d] /\ call[d] \in CallState /\ call[d].pc \in {"idle", "lock"}
    BY <1>1 DEF Running, TypeInv, TypeOK
  <2>2. call[d].cmd \in Command => call[d].cmd \in issued
    BY DEF AloneInv, LockOK
  <2> DEFINE l == call[d]
  <2>3. LockOK(l)'
    <3>1. l \in CallState /\ l.pc \in {"idle", "lock"} /\ (l.cmd \in Command => l.cmd \in issued)
      BY <2>1, <2>2
    <3>2. QED
      BY <2>1, <2>2 DEF LockOK, Pending, Failing
  <2>4. QED
    BY <2>1, <2>3 DEF Running
<1>3. QED
  BY <1>2 DEF AloneInv, Guarded

\* A step that leaves the calls, or one that does not run, and the rows alone.
LEMMA AsideFrame ==
  ASSUME TypeInv, TypeInv', AloneInv, UNCHANGED <<matches, receipts, holder>>, issued \subseteq issued',
         IssuedOK',
         \A d \in Calls : \/ call'[d] = call[d]
                          \/ /\ call'[d].pc \in {"idle", "lock"}
                             /\ call'[d].cmd \in Command => call'[d].cmd \in issued
  PROVE  AloneInv'
<1>1. RowsOK'
  BY DEF AloneInv, RowsOK
<1>2. ASSUME NEW d \in Calls PROVE LockOK(call[d])' /\ (Running(d)' => holder' = d)
  <2>1. CASE call'[d] = call[d]
    <3>1. call[d] \in CallState /\ LockOK(call[d])
      BY DEF AloneInv, TypeInv, TypeOK
    <3> DEFINE l == call[d]
    <3>2. LockOK(l)'
      BY <3>1, <2>1, LockOKStable DEF LockOK
    <3>3. QED
      BY <2>1, <3>2 DEF AloneInv, Guarded, Running
  <2>2. CASE /\ call'[d].pc \in {"idle", "lock"}
             /\ call'[d].cmd \in Command => call'[d].cmd \in issued
    BY <2>2 DEF LockOK, Pending, Failing, Running
  <2>3. QED
    BY <2>1, <2>2
<1>3. QED
  BY <1>1, <1>2 DEF AloneInv, Guarded

-----------------------------------------------------------------------------
(* Clients, timers, faults, and the operations that do not take the lock. *)

LEMMA IssueCommandAlone == ASSUME TypeInv, AloneInv, IssueCommand PROVE AloneInv'
<1>1. TypeInv'
  BY IssueCommandInv
<1>2. /\ UNCHANGED <<matches, receipts, holder, call>> /\ issued \subseteq issued'
      /\ issued' \subseteq Command
  BY <1>1 DEF IssueCommand, db, TypeInv, TypeOK
<1>3. IssuedOK'
  <2> SUFFICES ASSUME NEW r \in issued' PROVE Known(r)
    BY <1>2 DEF IssuedOK, Known
  <2>1. CASE r \in issued
    BY <2>1 DEF AloneInv, IssuedOK
  <2>2. CASE r \notin issued
    <3>1. PICK m \in Matches : Active(m) /\ r.match = m /\ r.version = matches[m].state.version
      BY <2>2 DEF IssueCommand
    <3>2. matches[m].state.version \in Nat
      BY DEF TypeInv, TypeOK, Row, GameState
    <3>3. QED
      BY <3>1, <3>2 DEF Known, Active, NoRow
  <2>3. QED
    BY <2>1, <2>2
<1>4. QED
  BY <1>1, <1>2, <1>3, AsideFrame

LEMMA NewCallAlone ==
  ASSUME TypeInv, TypeInv', AloneInv, NEW c \in Calls, NEW r \in Request,
         r \in Command => r \in issued,
         call' = [call EXCEPT ![c] = [IdleCall EXCEPT !.pc = "lock", !.cmd = r]],
         UNCHANGED <<db, holder, issued>>
  PROVE  AloneInv'
<1>1. call'[c] = [IdleCall EXCEPT !.pc = "lock", !.cmd = r]
      /\ \A d \in Calls \ {c} : call'[d] = call[d]
  BY DEF TypeInv, TypeOK
<1>2. call'[c].pc = "lock" /\ call'[c].cmd = r
  <2> DEFINE l == [IdleCall EXCEPT !.pc = "lock", !.cmd = r]
  <2>1. l.pc = "lock" /\ l.cmd = r
    BY DEF IdleCall
  <2>2. call'[c] = l
    BY <1>1
  <2> HIDE DEF l
  <2>3. QED
    BY <2>1, <2>2
<1>3. IssuedOK'
  BY SameRows DEF db
<1>4. QED
  BY <1>1, <1>2, <1>3, AsideFrame DEF db

LEMMA DeliverAlone ==
  ASSUME TypeInv, AloneInv, NEW c \in Calls, NEW r \in issued, Deliver(c, r) PROVE AloneInv'
<1>1. TypeInv' /\ r \in Request
  BY DeliverInv DEF TypeInv, TypeOK, Request
<1>2. QED
  BY <1>1, NewCallAlone DEF Deliver

LEMMA TurnTimerFiresAlone ==
  ASSUME TypeInv, AloneInv, NEW c \in Calls, NEW m \in Matches, TurnTimerFires(c, m)
  PROVE  AloneInv'
<1> DEFINE s == matches[m].state
           r == [actor |-> s.player, id |-> NoId, match |-> m, version |-> s.version,
                 phase |-> s.phase, turn |-> s.turn, move |-> "skip_meeple"]
<1>1. TypeInv'
  BY TurnTimerFiresInv
<1>2. s \in GameState /\ s.phase # "finished"
  BY DEF TurnTimerFires, TypeInv, TypeOK, Row, ActiveIsRunning
<1>3. r \in Timeout
  BY <1>2 DEF Timeout, GameState, Moves
<1>4. r \in Request /\ r \notin Command
  BY <1>3, CallAssumption DEF Request, Timeout, Command
<1>5. call' = [call EXCEPT ![c] = [IdleCall EXCEPT !.pc = "lock", !.cmd = r]]
      /\ UNCHANGED <<db, holder, issued>>
  BY DEF TurnTimerFires
<1> HIDE DEF r
<1>6. QED
  BY <1>1, <1>4, <1>5, NewCallAlone

LEMMA CrashAlone == ASSUME TypeInv, AloneInv, NEW c \in Calls, Crash(c) PROVE AloneInv'
<1>1. TypeInv'
  BY CrashInv
<1>2. call'[c] = IdleCall /\ \A d \in Calls \ {c} : call'[d] = call[d]
  BY DEF Crash, TypeInv, TypeOK
<1>3. IdleCall.pc = "idle" /\ IdleCall.cmd \notin Command
  BY NullAssumption DEF IdleCall, Request
<1>4. UNCHANGED <<matches, receipts, holder, issued>> /\ IssuedOK'
  BY SameRows DEF Crash, db
<1>5. QED
  BY <1>1, <1>2, <1>3, <1>4, AsideFrame

\* Taking or losing a seat touches nothing a call has read.
LEMMA SeatAlone ==
  ASSUME TypeInv, AloneInv, NEW a \in Humans, LoseSeat(a) \/ TakeSeat(a) PROVE AloneInv'
<1>1. TypeInv'
  BY SeatInv
<1>2. UNCHANGED <<matches, receipts, holder, call, issued>> /\ IssuedOK'
  BY SameRows DEF LoseSeat, TakeSeat
<1>3. QED
  BY <1>1, <1>2, AsideFrame

LEMMA LockExpiresAlone == ASSUME TypeInv, AloneInv, LockExpires PROVE AloneInv'
<1>1. \A d \in Calls : ~Running(d)
  BY DEF LockExpires, AloneInv, Guarded, Running
<1>2. UNCHANGED <<matches, receipts, call, issued>>
  BY DEF LockExpires, db
<1>3. \A d \in Calls : ~Running(d)' /\ LockOK(call[d])'
  <2> SUFFICES ASSUME NEW d \in Calls PROVE ~Running(d)' /\ LockOK(call[d])'
    OBVIOUS
  <2> DEFINE l == call[d]
  <2>1. l \in CallState /\ LockOK(l)
    BY DEF AloneInv, TypeInv, TypeOK
  <2>2. LockOK(l)'
    BY <1>2, <2>1, LockOKStable DEF LockOK
  <2>3. QED
    BY <1>1, <1>2, <2>2 DEF Running
<1>4. QED
  BY <1>2, <1>3, SameRows DEF AloneInv, Guarded

\* A match that starts was never named by a command nor loaded by a call.
LEMMA StartMatchAlone == ASSUME TypeInv, AloneInv, NEW m \in Matches, StartMatch(m) PROVE AloneInv'
<1>1. /\ matches[m] = NoRow /\ UNCHANGED <<receipts, holder, call, issued>>
      /\ matches'[m] = [status |-> "active", state |-> InitialState]
      /\ \A n \in Matches \ {m} : matches'[n] = matches[n]
      /\ \A n \in Matches : matches'[n].state = matches[n].state
  BY DEF StartMatch, TypeInv, TypeOK, NoRow
<1>2. RowsOK'
  BY <1>1 DEF AloneInv, RowsOK
<1>3. ASSUME NEW r \in issued PROVE r.match \in Matches \ {m} /\ matches[r.match] # NoRow
  BY <1>1, <1>3 DEF AloneInv, IssuedOK, Known, TypeInv, TypeOK, Command
<1>4. IssuedOK'
  BY <1>1, <1>3 DEF AloneInv, IssuedOK, Known
<1>5. ASSUME NEW l \in CallState, LockOK(l), CallOK(l) PROVE LockOK(l)'
  <2>1. Pending(l)' <=> Pending(l)
    BY <1>1 DEF Pending, Failing
  <2>2. l.pc \in {"check", "persist", "finish", "recheck", "reload", "reject"} => l.match \in Matches
    BY <1>5 DEF CallOK
  <2>3. l.pc \in {"check", "persist", "finish"} => Working(l)'
    <3> SUFFICES ASSUME l.pc \in {"check", "persist", "finish"} PROVE Working(l)'
      OBVIOUS
    <3>1. Working(l) /\ l.match \in Matches
      BY <1>5, <2>2 DEF LockOK
    <3>2. l.match # m
      BY <1>1, <3>1 DEF Working, NoRow
    <3>3. matches'[l.match] = matches[l.match]
      BY <1>1, <3>1, <3>2
    <3>4. ASSUME NEW n \in Matches \ {l.match}, Active(n)' PROVE matches'[n].state = InitialState
      BY <1>1, <3>1, <3>4 DEF Working, Active
    <3>5. QED
      BY <1>1, <3>1, <3>3, <3>4 DEF Working
  <2>4. Failing(l) => ~Applicable(l.cmd)' /\ matches'[l.match] # NoRow
    <3> SUFFICES ASSUME Failing(l) PROVE ~Applicable(l.cmd)' /\ matches'[l.match] # NoRow
      OBVIOUS
    <3>1. l.cmd \in issued /\ ~Applicable(l.cmd) /\ matches[l.match] # NoRow /\ l.match \in Matches
      BY <1>5, <2>2 DEF LockOK, Failing, CallOK
    <3>2. matches'[l.cmd.match] = matches[l.cmd.match] /\ matches'[l.match] = matches[l.match]
      BY <1>1, <1>3, <3>1
    <3>3. QED
      BY <3>1, <3>2 DEF Applicable, Active
  <2>5. l.pc = "reject" => l.snap.version <= matches'[l.match].state.version
    BY <1>1, <1>5, <2>2 DEF LockOK
  <2>6. Failing(l)' <=> Failing(l)
    BY DEF Failing
  <2>7. QED
    BY <1>1, <1>5, <2>1, <2>3, <2>4, <2>5, <2>6 DEF LockOK
<1>6. ASSUME NEW d \in Calls PROVE LockOK(call[d])'
  <2>1. PICK l \in CallState : l = call[d]
    BY DEF TypeInv, TypeOK
  <2>2. LockOK(l) /\ CallOK(l)
    BY <2>1 DEF AloneInv, TypeInv, CallInv
  <2>3. LockOK(l)' /\ call'[d] = l
    BY <1>1, <1>5, <2>1, <2>2
  <2>4. QED
    BY <2>3 DEF LockOK
<1>7. QED
  BY <1>1, <1>2, <1>4, <1>6 DEF AloneInv, Guarded, Running

\* A match that is left keeps its state; what could not be applied still cannot.
LEMMA LeaveMatchAlone == ASSUME TypeInv, AloneInv, NEW m \in Matches, LeaveMatch(m) PROVE AloneInv'
<1>1. /\ UNCHANGED <<receipts, holder, call, issued>>
      /\ \A n \in Matches : /\ matches'[n].state = matches[n].state
                            /\ matches'[n].status = "active" => matches[n].status = "active"
                            /\ matches[n].status # "absent" => matches'[n].status # "absent"
                            /\ matches'[n] = matches[n] \/ matches'[n].status = "finished"
  BY DEF LeaveMatch, TypeInv, TypeOK, Row
<1>2. \A n \in Matches : matches[n] # NoRow => matches'[n] # NoRow
  <2>1. NoRow.status # "finished"
    BY DEF NoRow
  <2>2. QED
    BY <1>1, <2>1
<1>3. RowsOK'
  BY <1>1 DEF AloneInv, RowsOK
<1>4. ASSUME NEW r \in issued PROVE r.match \in Matches
  BY <1>4 DEF TypeInv, TypeOK, Command
<1>5. IssuedOK'
  BY <1>1, <1>2, <1>4 DEF AloneInv, IssuedOK, Known
<1>6. ASSUME NEW l \in CallState, LockOK(l), CallOK(l) PROVE LockOK(l)'
  <2>1. Pending(l)' <=> Pending(l)
    BY <1>1 DEF Pending, Failing
  <2>2. l.pc \in {"check", "persist", "finish", "recheck", "reload", "reject"} => l.match \in Matches
    BY <1>6 DEF CallOK
  <2>3. l.pc \in {"check", "persist", "finish"} => Working(l)'
    BY <1>1, <1>6, <2>2 DEF LockOK, Working, Active
  <2>4. Failing(l) => ~Applicable(l.cmd)' /\ matches'[l.match] # NoRow
    <3> SUFFICES ASSUME Failing(l) PROVE ~Applicable(l.cmd)' /\ matches'[l.match] # NoRow
      OBVIOUS
    <3>1. l.cmd \in issued /\ ~Applicable(l.cmd) /\ matches[l.match] # NoRow /\ l.match \in Matches
      BY <1>6, <2>2 DEF LockOK, Failing, CallOK
    <3>2. l.cmd.match \in Matches
      BY <1>4, <3>1
    <3>3. ~Applicable(l.cmd)'
      BY <1>1, <3>1, <3>2 DEF Applicable, Active
    <3>4. QED
      BY <1>2, <3>1, <3>3
  <2>5. l.pc = "reject" => l.snap.version <= matches'[l.match].state.version
    BY <1>1, <1>6, <2>2 DEF LockOK
  <2>6. Failing(l)' <=> Failing(l)
    BY DEF Failing
  <2>7. QED
    BY <1>1, <1>6, <2>1, <2>3, <2>4, <2>5, <2>6 DEF LockOK
<1>7. ASSUME NEW d \in Calls PROVE LockOK(call[d])'
  <2>1. PICK l \in CallState : l = call[d]
    BY DEF TypeInv, TypeOK
  <2>2. LockOK(l) /\ CallOK(l)
    BY <2>1 DEF AloneInv, TypeInv, CallInv
  <2>3. LockOK(l)' /\ call'[d] = l
    BY <1>1, <1>6, <2>1, <2>2
  <2>4. QED
    BY <2>3 DEF LockOK
<1>8. QED
  BY <1>1, <1>3, <1>5, <1>7 DEF AloneInv, Guarded, Running

-----------------------------------------------------------------------------
(* Steps of the call that has the lock, up to its transaction. *)

LEMMA GotoFields ==
  ASSUME TypeInv, NEW c \in Calls, NEW step, Goto(c, step)
  PROVE  /\ call'[c].pc = step /\ call'[c].cmd = call[c].cmd /\ call'[c].match = call[c].match
         /\ call'[c].snap = call[c].snap /\ call'[c].plan = call[c].plan
         /\ call'[c].done = call[c].done /\ call'[c].why = call[c].why
         /\ \A d \in Calls \ {c} : call'[d] = call[d]
<1>1. call[c] \in CallState /\ call \in [Calls -> CallState]
  BY DEF TypeInv, TypeOK
<1>2. call'[c] = [call[c] EXCEPT !.pc = step]
  BY <1>1 DEF Goto
<1>3. \A d \in Calls \ {c} : call'[d] = call[d]
  BY <1>1 DEF Goto
<1>4. QED
  BY <1>1, <1>2, <1>3 DEF CallState

LEMMA ReturnAlone ==
  ASSUME TypeInv, AloneInv, NEW c \in Calls, Running(c), Return(c), UNCHANGED issued,
         RowsOK', IssuedOK'
  PROVE  AloneInv'
<1>1. call'[c] = IdleCall /\ \A d \in Calls \ {c} : call'[d] = call[d]
  BY DEF Return, TypeInv, TypeOK
<1>2. IdleCall.pc = "idle" /\ IdleCall.cmd \notin Command
  BY NullAssumption DEF IdleCall, Request
<1>3. LockOK(call[c])' /\ ~Running(c)'
  BY <1>1, <1>2 DEF LockOK, Pending, Failing, Running
<1>4. QED
  BY <1>1, <1>3, AloneFrame

LEMMA AfterFailureFacts ==
  ASSUME TypeInv, NEW c \in Calls, NEW why, AfterFailure(c, why)
  PROVE  \/ Return(c)
         \/ /\ UNCHANGED holder
            /\ \A d \in Calls \ {c} : call'[d] = call[d]
            /\ call'[c].cmd = call[c].cmd /\ call'[c].match = call[c].match
            /\ call'[c].done = call[c].done
            /\ \/ call'[c].pc = "reply" /\ call[c].done # 0
               \/ /\ call'[c].pc = "recheck" /\ call'[c].why = why
                  /\ call[c].done = 0 /\ ~IsTimeout(c)
<1>1. CASE call[c].done # 0
  BY <1>1, GotoFields DEF AfterFailure
<1>2. CASE call[c].done = 0 /\ IsTimeout(c)
  BY <1>2 DEF AfterFailure
<1>3. CASE call[c].done = 0 /\ ~IsTimeout(c)
  <2>1. call[c] \in CallState /\ call \in [Calls -> CallState]
    BY DEF TypeInv, TypeOK
  <2> DEFINE l == [call[c] EXCEPT !.pc = "recheck", !.why = why]
  <2>2. call' = [call EXCEPT ![c] = l] /\ UNCHANGED holder
    BY <1>3, <2>1 DEF AfterFailure
  <2>3. /\ l.pc = "recheck" /\ l.why = why /\ l.cmd = call[c].cmd /\ l.match = call[c].match
        /\ l.done = call[c].done
    BY <2>1 DEF CallState
  <2>4. call'[c] = l /\ \A d \in Calls \ {c} : call'[d] = call[d]
    BY <2>1, <2>2
  <2> HIDE DEF l
  <2>5. QED
    BY <1>3, <2>2, <2>3, <2>4
<1>4. QED
  BY <1>1, <1>2, <1>3

\* A failed transaction, or one whose commit went unnoticed.
LEMMA FailedAlone ==
  ASSUME TypeInv, AloneInv, NEW c \in Calls, Running(c), NEW why, AfterFailure(c, why),
         UNCHANGED issued, RowsOK', IssuedOK',
         why = "conflict" /\ call[c].done = 0 /\ ~IsTimeout(c) =>
           /\ UNCHANGED <<matches, receipts>>
           /\ receipts[KeyOf(call[c].cmd)] = NoReceipt
           /\ ~Applicable(call[c].cmd) /\ matches[call[c].match] # NoRow
  PROVE  AloneInv'
<1>1. CASE Return(c)
  BY <1>1, ReturnAlone
<1>2. CASE /\ UNCHANGED holder
           /\ \A d \in Calls \ {c} : call'[d] = call[d]
           /\ call'[c].cmd = call[c].cmd /\ call'[c].match = call[c].match
           /\ call'[c].done = call[c].done
           /\ \/ call'[c].pc = "reply" /\ call[c].done # 0
              \/ /\ call'[c].pc = "recheck" /\ call'[c].why = why
                 /\ call[c].done = 0 /\ ~IsTimeout(c)
  <2>1. call[c].cmd \in Command => call[c].cmd \in issued
    BY DEF AloneInv, LockOK
  <2>2. holder = c
    BY DEF AloneInv, Guarded
  <2>3. CASE call'[c].pc = "reply"
    <3>1. LockOK(call[c])'
      BY <1>2, <2>1, <2>3 DEF LockOK, Pending, Failing
    <3>2. QED
      BY <1>2, <2>2, <3>1, AloneFrame
  <2>4. CASE /\ call'[c].pc = "recheck" /\ call'[c].why = why
             /\ call[c].done = 0 /\ ~IsTimeout(c)
    <3>1. Failing(call[c])' => why = "conflict"
      BY <2>4 DEF Failing
    <3>2. Pending(call[c])' => Failing(call[c])'
      BY <2>4 DEF Pending
    <3>3. Failing(call[c])' => /\ ~Applicable(call[c].cmd)' /\ matches'[call'[c].match] # NoRow
                               /\ receipts'[KeyOf(call'[c].cmd)] = NoReceipt
      BY <1>2, <2>4, <3>1 DEF Applicable, Active
    <3>4. LockOK(call[c])'
      BY <1>2, <2>1, <2>4, <3>2, <3>3 DEF LockOK
    <3>5. QED
      BY <1>2, <2>2, <3>4, AloneFrame
  <2>5. QED
    BY <1>2, <2>3, <2>4
<1>3. QED
  BY <1>1, <1>2, AfterFailureFacts

LEMMA AcquireLockAlone == ASSUME TypeInv, AloneInv, NEW c \in Calls, AcquireLock(c) PROVE AloneInv'
<1>1. /\ call[c].pc = "lock" /\ holder = NoCall /\ holder' = c
      /\ UNCHANGED <<matches, receipts, issued>> /\ RowsOK' /\ IssuedOK'
  BY SameRows DEF AcquireLock, db
<1>2. /\ call'[c].pc = IF IsTimeout(c) THEN "load" ELSE "receipt"
      /\ call'[c].cmd = call[c].cmd
      /\ \A d \in Calls \ {c} : call'[d] = call[d]
  BY GotoFields DEF AcquireLock
<1>3. call[c].cmd \in Command => call[c].cmd \in issued /\ ~IsTimeout(c)
  <2>1. call[c].cmd \in Command => call[c].cmd \in issued
    BY DEF AloneInv, LockOK
  <2>2. call[c].cmd \in Command => call[c].cmd.id \in Ids
    BY DEF Command
  <2>3. QED
    BY <2>1, <2>2, CallAssumption DEF IsTimeout
<1>4. call'[c].pc \in {"load", "receipt"} /\ (call'[c].pc = "load" => call[c].cmd \notin Command)
  BY <1>2, <1>3
<1>5. LockOK(call[c])'
  BY <1>1, <1>2, <1>3, <1>4 DEF LockOK, Pending, Failing
<1>6. QED
  BY <1>1, <1>2, <1>5, AloneFrame

\* Replaying a receipt ends the call.
LEMMA ReplayReturns == ASSUME NEW c, NEW receipt, Replay(c, receipt) PROVE Return(c)
  BY DEF Replay, ReturnAnswer

LEMMA GetActionReceiptAlone ==
  ASSUME TypeInv, AloneInv, NEW c \in Calls, GetActionReceipt(c) PROVE AloneInv'
<1>1. /\ call[c].pc = "receipt" /\ Running(c) /\ call[c].done = 0
      /\ UNCHANGED <<matches, receipts, issued>> /\ RowsOK' /\ IssuedOK'
  BY SameRows DEF GetActionReceipt, db, Running, TypeInv, CallInv, CallOK
<1>2. CASE receipts[KeyOf(call[c].cmd)] # NoReceipt
  BY <1>1, <1>2, ReplayReturns, ReturnAlone DEF GetActionReceipt
<1>3. CASE receipts[KeyOf(call[c].cmd)] = NoReceipt
  <2>1. Goto(c, "load") /\ UNCHANGED holder
    BY <1>3 DEF GetActionReceipt
  <2>2. /\ call'[c].pc = "load" /\ call'[c].cmd = call[c].cmd
        /\ \A d \in Calls \ {c} : call'[d] = call[d]
    BY <2>1, GotoFields
  <2>3. LockOK(call[c])'
    BY <1>1, <1>3, <2>2 DEF LockOK, Pending, Failing, AloneInv
  <2>4. QED
    BY <1>1, <2>1, <2>2, <2>3, AloneFrame DEF AloneInv, Guarded
<1>4. QED
  BY <1>2, <1>3

LEMMA CheckFinisherAlone ==
  ASSUME TypeInv, AloneInv, NEW c \in Calls, CheckFinisher(c) PROVE AloneInv'
<1>1. /\ call[c].pc = "check" /\ Running(c)
      /\ UNCHANGED <<matches, receipts, issued>> /\ RowsOK' /\ IssuedOK'
  BY SameRows DEF CheckFinisher, db, Running
<1>2. CASE AfterFailure(c, "error")
  BY <1>1, <1>2, FailedAlone
<1>3. CASE Goto(c, "finish") /\ UNCHANGED holder
  <2>1. /\ call'[c].pc = "finish" /\ call'[c].cmd = call[c].cmd /\ call'[c].match = call[c].match
        /\ call'[c].snap = call[c].snap /\ call'[c].plan = call[c].plan
        /\ call'[c].done = call[c].done
        /\ \A d \in Calls \ {c} : call'[d] = call[d]
    BY <1>3, GotoFields
  <2>2. LockOK(call[c]) /\ Working(call[c])
    BY <1>1 DEF AloneInv, LockOK
  <2>3. Working(call[c])'
    BY <1>1, <2>1, <2>2 DEF Working, Active
  <2>4. Pending(call[c])' => Pending(call[c])
    BY <1>1, <2>1 DEF Pending, Failing
  <2>5. LockOK(call[c])'
    BY <1>1, <2>1, <2>2, <2>3, <2>4 DEF LockOK, Failing
  <2>6. QED
    BY <1>1, <1>3, <2>1, <2>5, AloneFrame DEF AloneInv, Guarded
<1>4. QED
  BY <1>2, <1>3 DEF CheckFinisher

\* The call has learnt that its command is out of date and has no receipt.
LEMMA ToReloadAlone ==
  ASSUME TypeInv, AloneInv, NEW c \in Calls, call[c].pc = "recheck", call[c].why = "conflict",
         Goto(c, "reload"), UNCHANGED <<matches, receipts, issued, holder>>
  PROVE  AloneInv'
<1>1. Running(c) /\ RowsOK' /\ IssuedOK'
  BY SameRows DEF Running
<1>2. /\ call'[c].pc = "reload" /\ call'[c].cmd = call[c].cmd /\ call'[c].match = call[c].match
      /\ call'[c].why = call[c].why
      /\ \A d \in Calls \ {c} : call'[d] = call[d]
  BY GotoFields
<1>3. LockOK(call[c]) /\ Failing(call[c]) /\ call[c].done = 0 /\ call[c].cmd \in Command
  BY DEF AloneInv, Failing, TypeInv, CallInv, CallOK
<1>4. /\ receipts[KeyOf(call[c].cmd)] = NoReceipt /\ call[c].cmd \in issued
      /\ ~Applicable(call[c].cmd) /\ matches[call[c].match] # NoRow
  BY <1>3 DEF LockOK, Pending
<1>5. ~Applicable(call[c].cmd)'
  BY <1>2, <1>4 DEF Applicable, Active
<1>6. LockOK(call[c])'
  BY <1>2, <1>4, <1>5 DEF LockOK
<1>7. QED
  BY <1>1, <1>2, <1>6, AloneFrame DEF AloneInv, Guarded

LEMMA RecheckReceiptAlone ==
  ASSUME TypeInv, AloneInv, NEW c \in Calls, RecheckReceipt(c) PROVE AloneInv'
<1>1. /\ call[c].pc = "recheck" /\ Running(c)
      /\ UNCHANGED <<matches, receipts, issued>> /\ RowsOK' /\ IssuedOK'
  BY SameRows DEF RecheckReceipt, db, Running
<1>2. CASE Return(c)
  BY <1>1, <1>2, ReturnAlone
<1>3. CASE call[c].why = "conflict" /\ Goto(c, "reload") /\ UNCHANGED holder
  BY <1>1, <1>3, ToReloadAlone
<1>4. QED
  BY <1>2, <1>3, ReplayReturns DEF RecheckReceipt

LEMMA ReloadMatchAlone ==
  ASSUME TypeInv, AloneInv, NEW c \in Calls, ReloadMatch(c) PROVE AloneInv'
<1>0. matches[call[c].match] # NoRow
  BY DEF ReloadMatch, AloneInv, LockOK, Failing
<1>1. /\ call[c].pc = "reload" /\ Running(c)
      /\ UNCHANGED <<matches, receipts, issued, holder>> /\ RowsOK' /\ IssuedOK'
  BY <1>0, SameRows DEF ReloadMatch, db, Running
<1> DEFINE s == matches[call[c].match].state
           l == [call[c] EXCEPT !.snap = s, !.pc = "reject"]
<1>2. call[c] \in CallState /\ call \in [Calls -> CallState] /\ call[c].match \in Matches
  BY <1>1 DEF TypeInv, TypeOK, CallInv, CallOK
<1>3. /\ l.pc = "reject" /\ l.cmd = call[c].cmd /\ l.match = call[c].match
      /\ l.snap = s /\ l.why = call[c].why
  BY <1>2 DEF CallState
<1>4. call' = [call EXCEPT ![c] = l]
  BY <1>0, <1>2 DEF ReloadMatch
<1>5. call'[c] = l /\ \A d \in Calls \ {c} : call'[d] = call[d]
  BY <1>2, <1>4
<1>6. /\ call'[c].pc = "reject" /\ call'[c].cmd = call[c].cmd /\ call'[c].match = call[c].match
      /\ call'[c].snap = s /\ call'[c].why = call[c].why
  <2> HIDE DEF l
  <2>1. QED
    BY <1>3, <1>5
<1>7. s.version \in Nat
  BY <1>2 DEF TypeInv, TypeOK, Row, GameState
<1> HIDE DEF l
<1>8. LockOK(call[c]) /\ Failing(call[c]) /\ call[c].done = 0 /\ call[c].cmd \in Command
  BY <1>1 DEF AloneInv, Failing, TypeInv, CallInv, CallOK
<1>9. /\ receipts[KeyOf(call[c].cmd)] = NoReceipt /\ call[c].cmd \in issued
      /\ ~Applicable(call[c].cmd) /\ matches[call[c].match] # NoRow /\ call[c].why = "conflict"
  BY <1>1, <1>8 DEF LockOK, Pending
<1>10. ~Applicable(call[c].cmd)'
  BY <1>1, <1>6, <1>9 DEF Applicable, Active
<1>11. LockOK(call[c])'
  BY <1>1, <1>6, <1>7, <1>9, <1>10 DEF LockOK
<1>12. QED
  BY <1>1, <1>5, <1>11, AloneFrame DEF AloneInv, Guarded

\* The engine's verdict on a command of the call, as LoadMatch sees it.
Ruling(c, m) ==
  IF ~matchesExpectedState(m, matches[m].state, call[c].cmd) THEN "conflict"
  ELSE IF IsTimeout(c) THEN "ok"
  ELSE Verdict(matches[m].state, call[c].cmd.actor, call[c].cmd.move)

\* The call that holds the lock plans on the match that is active.
LEMMA LoadedAlone ==
  ASSUME TypeInv, OneActive, AloneInv, NEW c \in Calls, NEW m \in Matches,
         call[c].pc = "load", Active(m), Ruling(c, m) = "ok",
         call' = [call EXCEPT ![c].match = m, ![c].snap = matches[m].state,
                              ![c].plan = nextState(matches[m].state, call[c].cmd),
                              ![c].pc = persistStep(nextState(matches[m].state, call[c].cmd))],
         UNCHANGED <<matches, receipts, issued, holder>>
  PROVE  AloneInv'
<1> DEFINE s == matches[m].state
           r == call[c].cmd
           next == nextState(s, r)
           l == [call[c] EXCEPT !.match = m, !.snap = s, !.plan = next, !.pc = persistStep(next)]
<1>1. call[c] \in CallState /\ call \in [Calls -> CallState] /\ call[c].done = 0
      /\ Running(c) /\ RowsOK' /\ IssuedOK'
  BY SameRows DEF TypeInv, TypeOK, CallInv, CallOK, Running
<1>2. /\ l.pc = persistStep(next) /\ l.cmd = r /\ l.match = m /\ l.snap = s /\ l.plan = next
      /\ l.done = call[c].done
  BY <1>1 DEF CallState
<1>3. call' = [call EXCEPT ![c] = l]
  BY <1>1
<1>4. call'[c] = l /\ \A d \in Calls \ {c} : call'[d] = call[d]
  BY <1>1, <1>3
<1>5. /\ call'[c].pc = persistStep(next) /\ call'[c].cmd = r /\ call'[c].match = m
      /\ call'[c].snap = s /\ call'[c].plan = next /\ call'[c].done = 0
  <2> HIDE DEF l
  <2>1. QED
    BY <1>1, <1>2, <1>4
<1>6. matchesExpectedState(m, s, r) /\ (IsTimeout(c) \/ Verdict(s, r.actor, r.move) = "ok")
  BY DEF Ruling
<1>7. r \in Command => /\ r \in issued /\ receipts[KeyOf(r)] = NoReceipt
                       /\ Verdict(s, r.actor, r.move) = "ok"
  <2>1. r \in Command => ~IsTimeout(c)
    BY CallAssumption DEF Command, IsTimeout
  <2>2. r \in Command => Pending(call[c]) /\ r \in issued
    BY <1>1 DEF Pending, AloneInv, LockOK
  <2>3. QED
    BY <1>6, <2>1, <2>2 DEF AloneInv, LockOK
<1> HIDE DEF l, s, r, next
<1>8. matches[m].state = s /\ matches[m].status # "absent"
  BY DEF s, Active
<1>9. \A n \in Matches \ {m} : ~Active(n)
  BY DEF OneActive
<1>10. next = nextState(s, r)
  BY DEF next
<1>11. call'[c].pc \in {"check", "persist"} /\ (call'[c].pc = "persist" <=> next.phase # "finished")
  BY <1>5 DEF persistStep
<1>12. Working(call[c])'
  <2>1. matches'[m] = matches[m] /\ \A n \in Matches : Active(n)' <=> Active(n)
    BY DEF Active
  <2>2. \A n \in Matches \ {m} : ~Active(n)'
    BY <1>9, <2>1
  <2>3. QED
    BY <1>5, <1>6, <1>7, <1>8, <1>10, <1>11, <2>1, <2>2 DEF Working
<1>13. LockOK(call[c])'
  <2>1. ~Failing(call[c])'
    BY <1>11 DEF Failing
  <2>2. call'[c].cmd \in Command => receipts'[KeyOf(call'[c].cmd)] = NoReceipt
    BY <1>5, <1>7
  <2>3. QED
    BY <1>5, <1>7, <1>11, <1>12, <2>1, <2>2 DEF LockOK, Pending
<1>14. QED
  BY <1>1, <1>4, <1>13, AloneFrame DEF AloneInv, Guarded

\* A command the match does not allow is not allowed to any match of the room.
LEMMA RefusedByMatch ==
  ASSUME TypeInv, OneActive, NEW c \in Calls, NEW m \in Matches, Active(m),
         call[c].cmd \in issued, Ruling(c, m) # "ok"
  PROVE  ~Applicable(call[c].cmd)
<1> DEFINE r == call[c].cmd
<1>1. r \in Command /\ r.match \in Matches /\ ~IsTimeout(c)
  BY CallAssumption DEF TypeInv, TypeOK, Command, IsTimeout
<1>2. CASE r.match = m
  BY <1>1, <1>2, CallAssumption DEF Applicable, Ruling, matchesExpectedState, IsTimeout
<1>3. CASE r.match # m
  BY <1>1, <1>3 DEF OneActive, Applicable
<1>4. QED
  BY <1>2, <1>3

LEMMA RefusedAlone ==
  ASSUME TypeInv, OneActive, AloneInv, NEW c \in Calls, NEW m \in Matches,
         call[c].pc = "load", Active(m), Ruling(c, m) # "ok", ~IsTimeout(c),
         call' = [call EXCEPT ![c].match = m, ![c].snap = matches[m].state,
                              ![c].why = Ruling(c, m), ![c].pc = "reject"],
         UNCHANGED <<matches, receipts, issued, holder>>
  PROVE  AloneInv'
<1> DEFINE s == matches[m].state
           why == Ruling(c, m)
           l == [call[c] EXCEPT !.match = m, !.snap = s, !.why = why, !.pc = "reject"]
<1>1. call[c] \in CallState /\ call \in [Calls -> CallState] /\ call[c].done = 0
      /\ Running(c) /\ RowsOK' /\ IssuedOK' /\ call[c].cmd \in Request /\ s.version \in Nat
  BY SameRows DEF TypeInv, TypeOK, CallInv, CallOK, Running, Row, GameState
<1>2. /\ l.pc = "reject" /\ l.cmd = call[c].cmd /\ l.match = m /\ l.snap = s /\ l.why = why
      /\ l.done = call[c].done
  BY <1>1 DEF CallState
<1>3. call' = [call EXCEPT ![c] = l]
  BY <1>1
<1>4. call'[c] = l /\ \A d \in Calls \ {c} : call'[d] = call[d]
  BY <1>1, <1>3
<1> HIDE DEF l, s, why
<1>5. /\ call'[c].pc = "reject" /\ call'[c].cmd = call[c].cmd /\ call'[c].match = m
      /\ call'[c].snap = s /\ call'[c].why = why
  BY <1>2, <1>4
<1>6. call[c].cmd \in Command
  BY <1>1, RequestKinds DEF IsTimeout
<1>7. call[c].cmd \in issued /\ receipts[KeyOf(call[c].cmd)] = NoReceipt
  BY <1>1, <1>6 DEF AloneInv, LockOK, Pending
<1>8. ~Applicable(call[c].cmd)
  BY <1>7, RefusedByMatch
<1>9. ~Applicable(call[c].cmd)'
  BY <1>5, <1>8 DEF Applicable, Active
<1>10. matches[m] # NoRow /\ s.version <= matches[m].state.version
  BY <1>1 DEF Active, NoRow, s
<1>11. why \in {"not_your_turn", "invalid", "conflict"}
  BY DEF why, Ruling, Verdict
<1>12. LockOK(call[c])'
  BY <1>5, <1>7, <1>9, <1>10, <1>11 DEF LockOK
<1>13. QED
  BY <1>1, <1>4, <1>12, AloneFrame DEF AloneInv, Guarded

LEMMA LoadMatchAlone ==
  ASSUME TypeInv, OneActive, AloneInv, NEW c \in Calls, LoadMatch(c) PROVE AloneInv'
<1>1. /\ call[c].pc = "load" /\ Running(c)
      /\ UNCHANGED <<matches, receipts, issued>> /\ RowsOK' /\ IssuedOK'
  BY SameRows DEF LoadMatch, db, Running
<1>2. CASE Return(c)
  BY <1>1, <1>2, ReturnAlone
<1>3. ASSUME NEW m \in Matches, Active(m),
             \/ /\ Ruling(c, m) = "ok"
                /\ call' = [call EXCEPT ![c].match = m, ![c].snap = matches[m].state,
                              ![c].plan = nextState(matches[m].state, call[c].cmd),
                              ![c].pc = persistStep(nextState(matches[m].state, call[c].cmd))]
             \/ /\ Ruling(c, m) # "ok" /\ ~IsTimeout(c)
                /\ call' = [call EXCEPT ![c].match = m, ![c].snap = matches[m].state,
                                        ![c].why = Ruling(c, m), ![c].pc = "reject"],
             UNCHANGED holder
      PROVE  AloneInv'
  BY <1>1, <1>3, LoadedAlone, RefusedAlone
<1>4. \/ Return(c)
      \/ \E m \in Matches :
           /\ Active(m)
           /\ \/ Return(c)
              \/ /\ \/ /\ Ruling(c, m) = "ok"
                       /\ call' = [call EXCEPT ![c].match = m, ![c].snap = matches[m].state,
                                     ![c].plan = nextState(matches[m].state, call[c].cmd),
                                     ![c].pc = persistStep(nextState(matches[m].state, call[c].cmd))]
                    \/ /\ Ruling(c, m) # "ok" /\ ~IsTimeout(c)
                       /\ call' = [call EXCEPT ![c].match = m, ![c].snap = matches[m].state,
                                               ![c].why = Ruling(c, m), ![c].pc = "reject"]
                 /\ UNCHANGED holder
  BY Zenon DEF LoadMatch, ReturnAnswer, Ruling
<1>5. QED
  BY <1>2, <1>3, <1>4

\* With the lock held, nobody else records the receipt first.
LEMMA NothingRecorded ==
  ASSUME TypeInv, AloneInv, NEW c \in Calls, call[c].pc \in {"reload", "reject"}
  PROVE  /\ call[c].cmd \in issued /\ call[c].cmd \in Command /\ KeyOf(call[c].cmd) \in Key
         /\ receipts[KeyOf(call[c].cmd)] = NoReceipt
         /\ ~Applicable(call[c].cmd) /\ matches[call[c].match] # NoRow /\ call[c].match \in Matches
         /\ call[c].pc = "reject" => /\ call[c].why \in {"not_your_turn", "invalid", "conflict"}
                                     /\ call[c].snap.version <= matches[call[c].match].state.version
<1>1. LockOK(call[c]) /\ CallOK(call[c])
  BY DEF TypeInv, CallInv, AloneInv
<1>2. Failing(call[c]) /\ call[c].cmd \in Command /\ call[c].done = 0 /\ call[c].match \in Matches
  BY <1>1 DEF Failing, CallOK
<1>3. Pending(call[c])
  BY <1>2 DEF Pending
<1>4. KeyOf(call[c].cmd) \in Key
  BY <1>2 DEF KeyOf, Key, Command
<1>5. QED
  BY <1>1, <1>2, <1>3, <1>4 DEF LockOK

LEMMA SaveRejectionAlone ==
  ASSUME TypeInv, AloneInv, NEW c \in Calls, SaveRejection(c) PROVE AloneInv'
<1>1. /\ call[c].pc = "reject" /\ Running(c) /\ UNCHANGED <<matches, issued>>
      /\ RowsOK' /\ IssuedOK'
  BY SameRows DEF SaveRejection, Running
<1>2. receipts[KeyOf(call[c].cmd)] = NoReceipt
  BY <1>1, NothingRecorded
<1>3. Return(c)
  BY <1>2 DEF SaveRejection, ReturnAnswer
<1>4. QED
  BY <1>1, <1>3, ReturnAlone

LEMMA AnsweredAlone ==
  ASSUME TypeInv, AloneInv, NEW c \in Calls, ReplaySaved(c) \/ Acknowledge(c) PROVE AloneInv'
<1>1. /\ Running(c) /\ UNCHANGED <<matches, receipts, issued>> /\ RowsOK' /\ IssuedOK'
  BY SameRows DEF ReplaySaved, Acknowledge, Running, db
<1>2. Return(c)
  BY ReplayReturns DEF ReplaySaved, Acknowledge, ReturnAnswer
<1>3. QED
  BY <1>1, <1>2, ReturnAlone

LEMMA DatabaseErrorAlone ==
  ASSUME TypeInv, AloneInv, NEW c \in Calls, DatabaseError(c) PROVE AloneInv'
<1>1. /\ Running(c) /\ UNCHANGED <<matches, receipts, issued>> /\ RowsOK' /\ IssuedOK'
  BY SameRows DEF DatabaseError, Running, db
<1>2. CASE Return(c)
  BY <1>1, <1>2, ReturnAlone
<1>3. CASE AfterFailure(c, "error")
  BY <1>1, <1>3, FailedAlone
<1>4. CASE call[c].pc = "recheck" /\ call[c].why = "conflict" /\ Goto(c, "reload") /\ UNCHANGED holder
  BY <1>1, <1>4, ToReloadAlone
<1>5. QED
  BY <1>2, <1>3, <1>4 DEF DatabaseError, ReturnAnswer

-----------------------------------------------------------------------------
(* The transactions. *)

\* The call commits its plan to the match it has loaded.
Writing(c) ==
  LET m == call[c].match
      over == call[c].plan.phase = "finished"
  IN /\ call[c].pc \in {"persist", "finish"}
     /\ Active(m)
     /\ ~ReceiptRefused(c)
     /\ matches' = [matches EXCEPT ![m] =
                      [status |-> IF over THEN "finished" ELSE "active", state |-> call[c].plan]]
     /\ room' = IF over THEN "waiting" ELSE room
     /\ WriteReceipt(c, m)
     /\ WriteCommit(c, m)
     /\ \/ AfterCommit(c) /\ UNCHANGED <<holder, faults>>
        \/ AfterFailure(c, "error") /\ Fault
     /\ UNCHANGED <<issued, answers>>

\* The transaction fails; a command fails for good when its match is over.
Failed(c) ==
  /\ UNCHANGED <<db, issued, answers>>
  /\ \/ AfterFailure(c, "error")
     \/ AfterFailure(c, "conflict") /\ ~Active(call[c].match)

\* What the plan of a working call is.
LEMMA WorkingFacts ==
  ASSUME TypeInv, AloneInv, NEW c \in Calls, call[c].pc \in {"check", "persist", "finish"}
  PROVE  /\ Working(call[c]) /\ call[c].match \in Matches
         /\ call[c].snap \in GameState /\ call[c].plan \in GameState /\ call[c].cmd \in Request
         /\ Active(call[c].match) => call[c].snap.phase # "finished"
         /\ Active(call[c].match) => call[c].plan.version = call[c].snap.version + 1
<1>1. /\ Working(call[c]) /\ call[c].match \in Matches /\ call[c] \in CallState
      /\ call[c].cmd \in Request
  BY DEF AloneInv, LockOK, TypeInv, TypeOK, CallInv, CallOK
<1>2. call[c].snap \in GameState /\ call[c].plan \in GameState
  BY <1>1 DEF CallState
<1>3. Active(call[c].match) => call[c].snap.phase # "finished"
  BY <1>1 DEF Working, TypeInv, ActiveIsRunning
<1>4. ASSUME Active(call[c].match) PROVE call[c].plan.version = call[c].snap.version + 1
  <2>1. CASE call[c].done = 0
    BY <1>1, <1>2, <1>3, <1>4, <2>1, PlanType DEF Working
  <2>2. CASE call[c].done # 0
    BY <1>1, <1>2, <1>3, <1>4, <2>2, PlanType DEF Working
  <2>3. QED
    BY <2>1, <2>2
<1>5. QED
  BY <1>1, <1>2, <1>3, <1>4

LEMMA PersistOutcome ==
  ASSUME TypeInv, AloneInv, NEW c \in Calls, PersistActionResult(c)
  PROVE  Writing(c) \/ Failed(c)
<1> DEFINE m == call[c].match
<1>1. /\ call[c].pc = "persist" /\ Working(call[c]) /\ m \in Matches
      /\ Active(m) => call[c].plan.version = call[c].snap.version + 1
      /\ call[c].snap.version \in Nat
  BY WorkingFacts DEF PersistActionResult, GameState
<1>2. CASE ReceiptRefused(c)
  BY <1>2 DEF PersistActionResult, Failed
<1>3. CASE ~ReceiptRefused(c) /\ ~Updatable(c, m)
  <2>1. ~Active(m)
    BY <1>1, <1>3 DEF Updatable, AtExpectedVersion, Working
  <2>2. QED
    BY <1>3, <2>1 DEF PersistActionResult, Failed
<1>4. CASE ~ReceiptRefused(c) /\ Updatable(c, m)
  <2>1. /\ matches' = [matches EXCEPT ![m].state = call[c].plan]
        /\ WriteReceipt(c, m) /\ WriteCommit(c, m)
        /\ \/ AfterCommit(c) /\ UNCHANGED <<holder, faults>>
           \/ AfterFailure(c, "error") /\ Fault
        /\ UNCHANGED <<room, issued, answers>>
    BY <1>4 DEF PersistActionResult
  <2>2. call[c].plan.phase # "finished"
    BY <1>1 DEF Working
  <2>3. matches' = [matches EXCEPT ![m] = [status |-> "active", state |-> call[c].plan]]
    <3>1. matches[m] \in Row /\ matches[m].status = "active" /\ matches \in [Matches -> Row]
      BY <1>1, <1>4 DEF TypeInv, TypeOK, Updatable, Active
    <3>2. [matches[m] EXCEPT !.state = call[c].plan] = [status |-> "active", state |-> call[c].plan]
      BY <3>1 DEF Row
    <3>3. matches' = [matches EXCEPT ![m] = [matches[m] EXCEPT !.state = call[c].plan]]
      BY <2>1, <3>1
    <3>4. QED
      BY <3>2, <3>3, Zenon
  <2>4. /\ matches' = [matches EXCEPT ![m] =
                         [status |-> IF call[c].plan.phase = "finished" THEN "finished" ELSE "active",
                          state |-> call[c].plan]]
        /\ room' = IF call[c].plan.phase = "finished" THEN "waiting" ELSE room
    BY <2>1, <2>2, <2>3
  <2>5. QED
    BY <1>1, <1>4, <2>1, <2>4, Zenon DEF Writing, Updatable
<1>5. QED
  BY <1>2, <1>3, <1>4

\* The first command of a match cannot be its last.
LEMMA FirstIsNotLast ==
  ASSUME NEW r \in Request,
         r \in Command => Verdict(InitialState, r.actor, r.move) = "ok"
  PROVE  nextState(InitialState, r).phase # "finished"
<1>1. CASE r.id = NoId
  BY <1>1, DeckAssumption DEF nextState, ApplyTurnTimeout, InitialState, placeTile, resolveTurn,
                              advanceGameStateVersion
<1>2. CASE r.id # NoId
  <2>1. r \in Command
    BY <1>2, RequestKinds
  <2>2. r.move = "place_tile"
    BY <2>1 DEF Verdict, InitialState
  <2>3. QED
    BY <1>2, <2>2 DEF nextState, ApplyAction, InitialState, placeTile, advanceGameStateVersion
<1>3. QED
  BY <1>1, <1>2

LEMMA AdvancedVersion ==
  ASSUME NEW s \in GameState, NEW r
  PROVE  nextState(s, r).version = s.version + 1 /\ botState(s).version = s.version + 1
  BY DEF nextState, botState, advanceGameStateVersion, ApplyAction, ApplyTurnTimeout, placeTile,
         resolveTurn, GameState

\* FinishRoomMatch finishes whichever match is active: it is the one the call loaded.
LEMMA FinishedMatch ==
  ASSUME TypeInv, OneActive, AloneInv, NEW c \in Calls, call[c].pc = "finish",
         NEW m \in Matches, Active(m), AtExpectedVersion(c, m)
  PROVE  m = call[c].match
<1> DEFINE n == call[c].match
           s == call[c].snap
<1> SUFFICES ASSUME m # n PROVE FALSE
  OBVIOUS
<1>1. /\ Working(call[c]) /\ n \in Matches /\ s \in GameState /\ call[c].cmd \in Request
  BY WorkingFacts
<1>2. /\ matches[n].state = s /\ matches[n].status # "absent" /\ call[c].plan.phase = "finished"
      /\ matches[m].state = InitialState
  BY <1>1 DEF Working
<1>3. call[c].plan.version = 2
  <2>1. call[c].plan.version \in Nat
    BY DEF TypeInv, TypeOK, CallState, GameState
  <2>2. QED
    BY <1>2, <2>1 DEF AtExpectedVersion, InitialState
<1>4. call[c].plan.version = s.version + 1 /\ s.version \in Nat
  <2>1. call[c].done = 0 => call[c].plan = nextState(s, call[c].cmd)
    BY <1>1 DEF Working
  <2>2. call[c].done # 0 => call[c].plan = botState(s)
    BY <1>1 DEF Working
  <2>3. nextState(s, call[c].cmd).version = s.version + 1 /\ botState(s).version = s.version + 1
    BY <1>1, AdvancedVersion
  <2>4. QED
    BY <1>1, <2>1, <2>2, <2>3 DEF GameState
<1>5. s.version = 1
  BY <1>3, <1>4
<1>6. s = InitialState
  BY <1>1, <1>2, <1>5 DEF AloneInv, RowsOK
<1>7. call[c].done = 0
  BY <1>1, <1>5 DEF Working
<1>8. /\ call[c].plan = nextState(InitialState, call[c].cmd)
      /\ call[c].cmd \in Command => Verdict(InitialState, call[c].cmd.actor, call[c].cmd.move) = "ok"
  BY <1>1, <1>6, <1>7 DEF Working
<1>9. QED
  BY <1>1, <1>2, <1>8, FirstIsNotLast

LEMMA TerminateOutcome ==
  ASSUME TypeInv, OneActive, AloneInv, NEW c \in Calls, TerminateActiveMatch(c)
  PROVE  Writing(c) \/ Failed(c)
<1> DEFINE m == call[c].match
<1>1. /\ call[c].pc = "finish" /\ Working(call[c]) /\ m \in Matches
      /\ Active(m) => call[c].plan.version = call[c].snap.version + 1
      /\ call[c].snap.version \in Nat
  BY WorkingFacts DEF TerminateActiveMatch, GameState
<1>2. CASE UNCHANGED db /\ AfterFailure(c, "error")
  BY <1>2 DEF TerminateActiveMatch, Failed
<1>3. ASSUME NEW n \in Matches, Active(n), ~AtExpectedVersion(c, n), AfterFailure(c, "conflict"),
             UNCHANGED db
      PROVE  Failed(c)
  <2>1. Active(m) => n = m
    BY <1>1, <1>3 DEF OneActive
  <2>2. Active(m) => AtExpectedVersion(c, m)
    BY <1>1 DEF Working, AtExpectedVersion
  <2>3. ~Active(m)
    BY <1>3, <2>1, <2>2
  <2>4. QED
    BY <1>3, <2>3 DEF TerminateActiveMatch, Failed
<1>4. ASSUME NEW n \in Matches, Active(n), AtExpectedVersion(c, n), ~ReceiptRefused(c),
             matches' = [matches EXCEPT ![n] = [status |-> "finished", state |-> call[c].plan]],
             WriteReceipt(c, n), WriteCommit(c, n), room' = "waiting",
             \/ AfterCommit(c) /\ UNCHANGED <<holder, faults>>
             \/ AfterFailure(c, "error") /\ Fault
      PROVE  Writing(c)
  <2>1. n = m
    BY <1>1, <1>4, FinishedMatch
  <2>2. call[c].plan.phase = "finished"
    BY <1>1 DEF Working
  <2>3. /\ matches' = [matches EXCEPT ![m] =
                         [status |-> IF call[c].plan.phase = "finished" THEN "finished" ELSE "active",
                          state |-> call[c].plan]]
        /\ room' = IF call[c].plan.phase = "finished" THEN "waiting" ELSE room
    BY <1>4, <2>1, <2>2
  <2>4. UNCHANGED <<issued, answers>>
    BY DEF TerminateActiveMatch
  <2>5. QED
    BY <1>1, <1>4, <2>1, <2>3, <2>4, Zenon DEF Writing
<1>5. QED
  BY <1>2, <1>3, <1>4, Zenon DEF TerminateActiveMatch

\* A commit moves the match from the state the call loaded, and a command that is
\* committed is applied to the state its sender saw.
LEMMA WritingFacts ==
  ASSUME TypeInv, AloneInv, NEW c \in Calls, Writing(c)
  PROVE  LET m == call[c].match
             p == call[c].plan
             r == call[c].cmd
         IN /\ m \in Matches /\ p \in GameState /\ Running(c) /\ Working(call[c])
            /\ matches[m].state \in GameState /\ p.version = matches[m].state.version + 1
            /\ matches'[m] = [status |-> IF p.phase = "finished" THEN "finished" ELSE "active",
                             state |-> p]
            /\ matches'[m].state = p /\ matches'[m].status \in {"finished", "active"}
            /\ matches[m].state.version \in Nat \ {0}
            /\ \A n \in Matches \ {m} : matches'[n] = matches[n]
            /\ CommittedBy(c) # NoRequest =>
                 /\ CommittedBy(c) = r /\ r \in Command /\ r \in issued /\ r.match = m
                 /\ Applicable(r) /\ KeyOf(r) \in Key /\ receipts[KeyOf(r)] = NoReceipt
                 /\ r.version = matches[m].state.version
                 /\ p = nextState(matches[m].state, r)
<1> DEFINE m == call[c].match
           p == call[c].plan
           r == call[c].cmd
<1>1. /\ m \in Matches /\ p \in GameState /\ Running(c) /\ Working(call[c]) /\ r \in Request
      /\ matches[m].state = call[c].snap /\ call[c].snap \in GameState
      /\ p.version = call[c].snap.version + 1 /\ Active(m)
  <2>1. call[c].pc \in {"check", "persist", "finish"} /\ Active(m) /\ Running(c)
    BY DEF Writing, Running
  <2>2. QED
    BY <2>1, WorkingFacts DEF Working
<1>2. /\ matches'[m] = [status |-> IF p.phase = "finished" THEN "finished" ELSE "active", state |-> p]
      /\ matches'[m].state = p /\ matches'[m].status \in {"finished", "active"}
      /\ \A n \in Matches \ {m} : matches'[n] = matches[n]
  <2> DEFINE row == [status |-> IF p.phase = "finished" THEN "finished" ELSE "active", state |-> p]
  <2>1. matches' = [matches EXCEPT ![m] = row]
    BY DEF Writing
  <2>2. matches \in [Matches -> Row]
    BY DEF TypeInv, TypeOK
  <2>3. row.state = p /\ row.status \in {"finished", "active"}
    OBVIOUS
  <2> HIDE DEF row
  <2>4. matches'[m] = row /\ \A n \in Matches \ {m} : matches'[n] = matches[n]
    BY <1>1, <2>1, <2>2
  <2>5. QED
    BY <2>3, <2>4 DEF row
<1>3. ASSUME CommittedBy(c) # NoRequest
      PROVE  /\ CommittedBy(c) = r /\ r \in Command /\ r \in issued /\ r.match = m
             /\ Applicable(r) /\ KeyOf(r) \in Key /\ receipts[KeyOf(r)] = NoReceipt
             /\ r.version = matches[m].state.version
             /\ p = nextState(matches[m].state, r)
  <2>1. /\ CommittedBy(c) = r /\ r \in Command /\ KeyOf(r) \in Key /\ call[c].done = 0
        /\ receipts[KeyOf(r)] = NoReceipt
    BY <1>1, <1>3, RequestKinds DEF CommittedBy, IsTimeout, Writing, ReceiptRefused
  <2>2. r \in issued
    BY <2>1 DEF AloneInv, LockOK
  <2>3. /\ matchesExpectedState(m, call[c].snap, r) /\ p = nextState(call[c].snap, r)
        /\ Verdict(call[c].snap, r.actor, r.move) = "ok"
    BY <1>1, <2>1 DEF Working
  <2>4. QED
    BY <1>1, <2>1, <2>2, <2>3 DEF matchesExpectedState, Applicable
<1>4. matches[m].state.version \in Nat \ {0}
  BY <1>1 DEF GameState
<1> HIDE DEF m, p, r
<1>5. QED
  BY <1>1, <1>2, <1>3, <1>4 DEF m, p, r

LEMMA WritingRows ==
  ASSUME TypeInv, AloneInv, NEW c \in Calls, Writing(c) PROVE RowsOK' /\ IssuedOK'
<1> DEFINE m == call[c].match
           p == call[c].plan
<1>1. /\ m \in Matches /\ p.version = matches[m].state.version + 1
      /\ matches[m].state.version \in Nat \ {0}
      /\ matches'[m].state = p /\ matches'[m].status \in {"finished", "active"}
      /\ \A n \in Matches \ {m} : matches'[n] = matches[n]
  BY WritingFacts
<1>2. RowsOK'
  BY <1>1 DEF AloneInv, RowsOK
<1>3. NoRow.status = "absent"
  BY DEF NoRow
<1>4. ASSUME NEW r \in issued PROVE Known(r)'
  <2>1. Known(r) /\ r.match \in Matches /\ r.version \in Nat
    BY DEF AloneInv, IssuedOK, TypeInv, TypeOK, Command
  <2>2. QED
    BY <1>1, <1>3, <2>1 DEF Known
<1>5. QED
  BY <1>2, <1>4 DEF IssuedOK, Writing

\* After its commit the call plans the bot's move on the state it has written.
LEMMA CommittedAlone ==
  ASSUME TypeInv, OneActive, AloneInv, NEW c \in Calls, Writing(c), AfterCommit(c), UNCHANGED holder
  PROVE  AloneInv'
<1> DEFINE m == call[c].match
           s == call[c].plan
           done == IF call[c].done = 0 THEN s.version ELSE call[c].done
           plan == IF BotToMove(s) THEN botState(s) ELSE s
           pc == IF BotToMove(s) THEN persistStep(botState(s)) ELSE "reply"
           l == [call[c] EXCEPT !.snap = s, !.done = done, !.plan = plan, !.pc = pc]
<1>1. /\ m \in Matches /\ Running(c) /\ s \in GameState /\ s.version = matches[m].state.version + 1
      /\ matches[m].state.version \in Nat \ {0}
      /\ matches'[m].state = s /\ matches'[m].status \in {"finished", "active"}
      /\ \A n \in Matches \ {m} : matches'[n] = matches[n]
  BY WritingFacts
<1>2. Active(m) /\ UNCHANGED issued
  BY DEF Writing
<1>3. call[c] \in CallState /\ call \in [Calls -> CallState]
  BY DEF TypeInv, TypeOK
<1>4. call' = [call EXCEPT ![c] = l]
  BY <1>3 DEF AfterCommit
<1>5. /\ l.pc = pc /\ l.cmd = call[c].cmd /\ l.match = m /\ l.snap = s /\ l.plan = plan
      /\ l.done = done
  BY <1>3 DEF CallState
<1>6. call'[c] = l /\ \A d \in Calls \ {c} : call'[d] = call[d]
  BY <1>3, <1>4
<1>7. done # 0
  BY <1>1
<1>8. /\ pc \in {"check", "persist", "reply"}
      /\ pc # "reply" => /\ BotToMove(s) /\ plan = botState(s)
                         /\ pc = "persist" <=> plan.phase # "finished"
  BY DEF persistStep
<1>9. call[c].cmd \in Command => call[c].cmd \in issued
  BY DEF AloneInv, LockOK
<1> HIDE DEF l, done, plan, pc
<1>10. /\ call'[c].pc = pc /\ call'[c].cmd = call[c].cmd /\ call'[c].match = m
       /\ call'[c].snap = s /\ call'[c].plan = plan /\ call'[c].done = done
  BY <1>5, <1>6
<1> HIDE DEF m, s
<1>11. pc # "reply" => Working(call[c])'
  <2>1. \A n \in Matches \ {m} : ~Active(n)'
    BY <1>1, <1>2 DEF OneActive, Active
  <2>2. s.version # 1
    BY <1>1
  <2>3. QED
    BY <1>1, <1>7, <1>8, <1>10, <2>1, <2>2 DEF Working
<1>12. ~Failing(call[c])' /\ ~Pending(call[c])'
  BY <1>7, <1>8, <1>10 DEF Failing, Pending
<1>13. LockOK(call[c])'
  BY <1>2, <1>8, <1>9, <1>10, <1>11, <1>12 DEF LockOK
<1>14. QED
  BY <1>1, <1>2, <1>6, <1>13, WritingRows, AloneFrame DEF AloneInv, Guarded

LEMMA WritingAlone ==
  ASSUME TypeInv, OneActive, AloneInv, NEW c \in Calls, Writing(c) PROVE AloneInv'
<1>1. CASE AfterCommit(c) /\ UNCHANGED holder
  BY <1>1, CommittedAlone
<1>2. CASE AfterFailure(c, "error")
  <2>1. Running(c) /\ UNCHANGED issued
    BY DEF Writing, Running
  <2>2. QED
    BY <1>2, <2>1, WritingRows, FailedAlone
<1>3. QED
  BY <1>1, <1>2 DEF Writing

LEMMA FailedWriteAlone ==
  ASSUME TypeInv, AloneInv, NEW c \in Calls, call[c].pc \in {"persist", "finish"}, Failed(c)
  PROVE  AloneInv'
<1>1. Running(c) /\ UNCHANGED <<matches, receipts, issued>> /\ RowsOK' /\ IssuedOK'
  BY SameRows DEF Running, Failed, db
<1>2. CASE AfterFailure(c, "error")
  BY <1>1, <1>2, FailedAlone
<1>3. CASE AfterFailure(c, "conflict") /\ ~Active(call[c].match)
  <2>1. /\ Working(call[c]) /\ call[c].cmd \in Request
        /\ matches[call[c].match] # NoRow
    BY WorkingFacts DEF Working, NoRow
  <2>2. ASSUME call[c].done = 0, ~IsTimeout(c)
        PROVE  receipts[KeyOf(call[c].cmd)] = NoReceipt /\ ~Applicable(call[c].cmd)
    <3>1. call[c].cmd \in Command /\ Pending(call[c])
      BY <2>1, <2>2, RequestKinds DEF IsTimeout, Pending
    <3>2. call[c].cmd.match = call[c].match
      BY <2>1, <2>2 DEF Working, matchesExpectedState
    <3>3. QED
      BY <1>3, <3>1, <3>2 DEF AloneInv, LockOK, Applicable
  <2>3. QED
    BY <1>1, <1>3, <2>1, <2>2, FailedAlone
<1>4. QED
  BY <1>2, <1>3 DEF Failed

-----------------------------------------------------------------------------
(* The invariant. *)

\* What a step of a room whose lock is kept does to the database.
DbStep ==
  \/ UNCHANGED <<room, matches, receipts, commits>>
  \/ \E m \in Matches : StartMatch(m) \/ LeaveMatch(m)
  \/ \E c \in Calls : Writing(c)
  \/ \E c \in Calls : SaveRejection(c)
  \/ DeleteRoom

LEMMA StepOnDb ==
  ASSUME TypeInv, OneActive, AloneInv, [Next]_vars PROVE DbStep
<1>1. CASE UNCHANGED vars
  BY <1>1 DEF vars, DbStep, db
<1>2. CASE \/ IssueCommand \/ LockExpires \/ LockIsLost
           \/ \E c \in Calls, r \in issued : Deliver(c, r)
           \/ \E c \in Calls, m \in Matches : TurnTimerFires(c, m)
           \/ \E c \in Calls : DatabaseError(c) \/ Crash(c)
           \/ \E a \in Humans : LoseSeat(a) \/ TakeSeat(a)
  BY <1>2 DEF IssueCommand, LockExpires, LockIsLost, Deliver, TurnTimerFires, DatabaseError,
              Crash, LoseSeat, TakeSeat, DbStep, db
<1>3. ASSUME NEW c \in Calls, ServiceStep(c) PROVE DbStep
  <2>1. CASE \/ AcquireLock(c) \/ GetActionReceipt(c) \/ LoadMatch(c) \/ CheckFinisher(c)
             \/ RecheckReceipt(c) \/ ReloadMatch(c) \/ ReplaySaved(c) \/ Acknowledge(c)
    BY <2>1 DEF AcquireLock, GetActionReceipt, LoadMatch, CheckFinisher, RecheckReceipt,
                ReloadMatch, ReplaySaved, Acknowledge, DbStep, db
  <2>2. CASE PersistActionResult(c) \/ TerminateActiveMatch(c)
    BY <2>2, PersistOutcome, TerminateOutcome DEF Failed, DbStep, db
  <2>3. QED
    BY <1>3, <2>1, <2>2 DEF ServiceStep, DbStep
<1>4. QED
  BY <1>1, <1>2, <1>3 DEF Next, DbStep

LEMMA AloneStep ==
  ASSUME LockMayBeLost = FALSE, TypeInv, OneActive, AloneInv, [Next]_vars, ~DeleteRoom
  PROVE  AloneInv'
<1>1. CASE UNCHANGED vars
  <2>1. TypeInv' /\ IssuedOK'
    BY <1>1, NextInv, SameRows DEF vars
  <2>2. QED
    BY <1>1, <2>1, AsideFrame DEF vars
<1>2. ASSUME NEW c \in Calls, PersistActionResult(c) \/ TerminateActiveMatch(c) PROVE AloneInv'
  <2>1. call[c].pc \in {"persist", "finish"}
    BY <1>2 DEF PersistActionResult, TerminateActiveMatch
  <2>2. QED
    BY <1>2, <2>1, PersistOutcome, TerminateOutcome, WritingAlone, FailedWriteAlone
<1>3. ASSUME NEW c \in Calls, ServiceStep(c) PROVE AloneInv'
  BY <1>2, <1>3, AcquireLockAlone, GetActionReceiptAlone, LoadMatchAlone, CheckFinisherAlone,
     RecheckReceiptAlone, ReloadMatchAlone, SaveRejectionAlone, AnsweredAlone DEF ServiceStep
<1>4. CASE LockIsLost
  BY <1>4 DEF LockIsLost
<1>5. QED
  BY <1>1, <1>3, <1>4, IssueCommandAlone, StartMatchAlone, LeaveMatchAlone, SeatAlone,
     DeliverAlone, TurnTimerFiresAlone, DatabaseErrorAlone, CrashAlone, LockExpiresAlone DEF Next

LEMMA AloneInit == Init => AloneInv
<1> SUFFICES ASSUME Init PROVE AloneInv
  OBVIOUS
<1>1. Guarded /\ RowsOK /\ IssuedOK
  BY DEF Init, Guarded, Running, RowsOK, IssuedOK, IdleCall, NoRow
<1>2. \A c \in Calls : LockOK(call[c])
  BY NullAssumption DEF Init, IdleCall, LockOK, Pending, Failing, Request
<1>3. QED
  BY <1>1, <1>2 DEF AloneInv

\* Everything the results below rest on, in a room that stands ...
JointInv == TypeInv /\ OneActive /\ ReceiptIffCommit /\ AloneInv /\ room # "deleted"

\* ... and in any room.
RoomInv ==
  /\ TypeInv /\ OneActive /\ ReceiptIffCommit
  /\ room # "deleted" => AloneInv
  /\ room = "deleted" => Erased

LEMMA StandingRoom == RoomInv /\ room # "deleted" <=> JointInv
  BY DEF RoomInv, JointInv

LEMMA RoomInit == Init => RoomInv
  BY InitInv, AloneInit DEF Init, OneActive, Active, NoRow, ReceiptIffCommit, RoomInv

\* A room is deleted by DeleteRoom, and for good.
LEMMA Deletion ==
  ASSUME TypeInv, [Next]_vars
  PROVE  /\ room' = "deleted" => UNCHANGED commits
         /\ room = "deleted" => room' = "deleted"
         /\ room # "deleted" => (room' = "deleted" <=> DeleteRoom)
<1>1. room = "deleted" => room' = "deleted"
  BY StepReceiptsGrow DEF ReceiptsGrow
<1>2. room # "deleted" /\ room' = "deleted" => DeleteRoom
  BY StepWrites DEF Quiet, Committing, Rejecting
<1>3. QED
  BY <1>1, <1>2, NothingAfterDeletion DEF DeleteRoom

LEMMA RoomStep ==
  ASSUME LockMayBeLost = FALSE, RoomInv, [Next]_vars PROVE RoomInv'
<1>1. TypeInv' /\ OneActive' /\ ReceiptIffCommit'
  BY NextInv, OneActiveStep, ReceiptIffCommitStep DEF RoomInv
<1>2. room' # "deleted" => AloneInv'
  BY AloneStep, Deletion DEF RoomInv
<1>3. room' = "deleted" => Erased'
  BY StepErased DEF RoomInv
<1>4. QED
  BY <1>1, <1>2, <1>3 DEF RoomInv

-----------------------------------------------------------------------------
(* Commands are committed as expected. *)

\* A commit, in terms of the history.
LEMMA WritingHistory ==
  ASSUME JointInv, NEW c \in Calls, Writing(c)
  PROVE  LET n == Len(commits) + 1
         IN /\ DOMAIN commits' = DOMAIN commits \cup {n}
            /\ \A i \in DOMAIN commits : commits'[i] = commits[i]
            /\ commits'[n].match = call[c].match /\ commits'[n].by = CommittedBy(c)
            /\ commits'[n].version = matches[call[c].match].state.version + 1
<1> DEFINE m == call[c].match
<1>1. /\ m \in Matches /\ call[c].plan.version = matches[m].state.version + 1
      /\ matches[m].state.version \in Nat
      /\ matches'[m].state = call[c].plan /\ \A n \in Matches \ {m} : matches'[n] = matches[n]
  BY WritingFacts DEF JointInv
<1>2. call[c].cmd \in Request /\ ~ReceiptRefused(c) /\ WriteReceipt(c, m) /\ WriteCommit(c, m)
  BY DEF JointInv, Writing, TypeInv, CallInv, CallOK
<1>3. AtExpectedVersion(c, m) /\ Active(m) /\ room' # "deleted"
  BY <1>1 DEF AtExpectedVersion, Writing, JointInv
<1>4. Committing(c, m)
  BY <1>1, <1>2, <1>3 DEF Committing
<1>5. /\ DOMAIN commits' = DOMAIN commits \cup {Len(commits) + 1}
      /\ \A i \in DOMAIN commits : commits'[i] = commits[i]
      /\ commits'[Len(commits) + 1] =
           [match |-> m, version |-> call[c].plan.version, by |-> CommittedBy(c)]
  BY <1>1, <1>4, CommittingFacts DEF JointInv
<1>6. QED
  BY <1>1, <1>5

LEMMA ExpectedStep ==
  ASSUME RoomInv, CommittedAsExpected, [Next]_vars PROVE CommittedAsExpected'
<1>1. CASE UNCHANGED commits
  BY <1>1 DEF CommittedAsExpected
<1>0. CASE room' = "deleted"
  BY <1>0, <1>1, Deletion DEF RoomInv
<1> SUFFICES ASSUME room' # "deleted", JointInv PROVE CommittedAsExpected'
  BY <1>0, Deletion, StandingRoom DEF RoomInv
<1>2. ASSUME NEW c \in Calls, Writing(c) PROVE CommittedAsExpected'
  <2> DEFINE n == Len(commits) + 1
  <2>1. /\ DOMAIN commits' = DOMAIN commits \cup {n}
        /\ \A i \in DOMAIN commits : commits'[i] = commits[i]
        /\ commits'[n].match = call[c].match /\ commits'[n].by = CommittedBy(c)
        /\ commits'[n].version = matches[call[c].match].state.version + 1
    BY <1>2, WritingHistory
  <2>2. CommittedBy(c) # NoRequest =>
          /\ CommittedBy(c).match = call[c].match
          /\ CommittedBy(c).version = matches[call[c].match].state.version
    BY <1>2, WritingFacts DEF JointInv
  <2> HIDE DEF n
  <2>3. QED
    BY <2>1, <2>2 DEF CommittedAsExpected
<1>3. QED
  BY <1>1, <1>2, StepOnDb
  DEF JointInv, DbStep, StartMatch, LeaveMatch, SaveRejection, DeleteRoom

\* As long as the lock holds, a command is committed only on the very state its
\* sender saw, one version up: no bot step, timeout or other command comes
\* between the load of the match and the transaction (ApplyAction's
\* matchesExpectedActionState and the lock of the room around it).
THEOREM CommandsHitTheirState ==
  ASSUME LockMayBeLost = FALSE PROVE Spec => []CommittedAsExpected
<1>1. Init => RoomInv /\ CommittedAsExpected
  BY RoomInit DEF Init, CommittedAsExpected
<1>2. RoomInv /\ CommittedAsExpected /\ [Next]_vars => (RoomInv /\ CommittedAsExpected)'
  BY RoomStep, ExpectedStep
<1>3. QED
  BY <1>1, <1>2, PTL DEF Spec

-----------------------------------------------------------------------------
(* A rejection is final. *)

\* A command that cannot be applied never can again: its match exists, finished
\* matches stay finished, and versions only grow.
LEMMA StaysInapplicable ==
  ASSUME JointInv, DbStep, ~DeleteRoom, NEW r \in issued, ~Applicable(r)
  PROVE  ~Applicable(r)'
<1>1. Known(r) /\ r \in Command /\ r.match \in Matches /\ r.version \in Nat
  BY DEF JointInv, AloneInv, IssuedOK, TypeInv, TypeOK, Command
<1>2. ASSUME matches'[r.match] = matches[r.match] PROVE ~Applicable(r)'
  BY <1>2 DEF Applicable, Active
<1>3. ASSUME NEW m \in Matches, StartMatch(m) PROVE ~Applicable(r)'
  <2>1. r.match # m
    BY <1>1, <1>3 DEF StartMatch, Known
  <2>2. QED
    BY <1>1, <1>2, <1>3, <2>1 DEF StartMatch, JointInv, TypeInv, TypeOK
<1>4. ASSUME NEW m \in Matches, LeaveMatch(m) PROVE ~Applicable(r)'
  <2>1. CASE r.match = m
    BY <1>4, <2>1 DEF LeaveMatch, JointInv, TypeInv, TypeOK, Row, Applicable, Active
  <2>2. CASE r.match # m
    BY <1>1, <1>2, <1>4, <2>2 DEF LeaveMatch, JointInv, TypeInv, TypeOK
  <2>3. QED
    BY <2>1, <2>2
<1>5. ASSUME NEW c \in Calls, Writing(c) PROVE ~Applicable(r)'
  <2> DEFINE m == call[c].match
             p == call[c].plan
  <2>1. /\ p.version = matches[m].state.version + 1 /\ matches[m].state.version \in Nat
        /\ matches'[m].state = p /\ \A n \in Matches \ {m} : matches'[n] = matches[n]
    BY <1>5, WritingFacts DEF JointInv
  <2>2. CASE r.match = m
    BY <1>1, <2>1, <2>2 DEF Known, Applicable
  <2>3. CASE r.match # m
    BY <1>1, <1>2, <2>1, <2>3
  <2>4. QED
    BY <2>2, <2>3
<1>6. CASE UNCHANGED matches
  BY <1>2, <1>6
<1>7. QED
  BY <1>3, <1>4, <1>5, <1>6 DEF DbStep, SaveRejection

LEMMA IssuedStays == ASSUME [Next]_vars PROVE issued \subseteq issued'
<1>1. ASSUME UNCHANGED issued PROVE issued \subseteq issued'
  BY <1>1
<1>2. CASE IssueCommand
  BY <1>2 DEF IssueCommand
<1>3. CASE \/ UNCHANGED vars \/ LockExpires \/ LockIsLost \/ DeleteRoom
           \/ \E a \in Humans : LoseSeat(a) \/ TakeSeat(a)
           \/ \E m \in Matches : StartMatch(m) \/ LeaveMatch(m)
           \/ \E c \in Calls, r \in issued : Deliver(c, r)
           \/ \E c \in Calls, m \in Matches : TurnTimerFires(c, m)
           \/ \E c \in Calls : DatabaseError(c) \/ Crash(c)
  BY <1>1, <1>3 DEF vars, LockExpires, LockIsLost, StartMatch, LeaveMatch, Deliver,
                    TurnTimerFires, DatabaseError, Crash, LoseSeat, TakeSeat, DeleteRoom
<1>4. ASSUME NEW c \in Calls, ServiceStep(c) PROVE issued \subseteq issued'
  BY <1>1, <1>4 DEF ServiceStep, AcquireLock, GetActionReceipt, LoadMatch, PersistActionResult,
                    CheckFinisher, TerminateActiveMatch, RecheckReceipt, ReloadMatch,
                    SaveRejection, ReplaySaved, Acknowledge
<1>5. QED
  BY <1>2, <1>3, <1>4 DEF Next

LEMMA StaysRefused ==
  ASSUME JointInv, JointInv', [Next]_vars, NEW r, Refused(r) PROVE Refused(r)'
<1>1. /\ r \in issued /\ r \in issued' /\ r \in Command /\ KeyOf(r) \in Key
      /\ DbStep /\ ~DeleteRoom
  BY IssuedStays, StepOnDb, Deletion DEF Refused, JointInv, TypeInv, TypeOK, Command, KeyOf, Key
<1>2. receipts[KeyOf(r)] # NoReceipt => receipts'[KeyOf(r)] # NoReceipt
  BY <1>1, StepReceiptsGrow DEF ReceiptsGrow, JointInv
<1>3. ~Applicable(r) => ~Applicable(r)'
  BY <1>1, StaysInapplicable
<1>4. \A i \in DOMAIN commits' : commits'[i].by # r
  <2>1. CASE UNCHANGED commits
    BY <2>1 DEF Refused
  <2>2. ASSUME NEW c \in Calls, Writing(c) PROVE \A i \in DOMAIN commits' : commits'[i].by # r
    <3> DEFINE n == Len(commits) + 1
    <3>1. /\ DOMAIN commits' = DOMAIN commits \cup {n}
          /\ \A i \in DOMAIN commits : commits'[i] = commits[i]
          /\ commits'[n].by = CommittedBy(c)
      BY <2>2, WritingHistory
    <3>2. CommittedBy(c) # r
      <4>1. r # NoRequest
        BY <1>1, NullAssumption DEF Request
      <4>2. CommittedBy(c) # NoRequest =>
              Applicable(CommittedBy(c)) /\ receipts[KeyOf(CommittedBy(c))] = NoReceipt
        BY <2>2, WritingFacts DEF JointInv
      <4>3. QED
        BY <4>1, <4>2 DEF Refused
    <3> HIDE DEF n
    <3>3. QED
      BY <3>1, <3>2 DEF Refused
  <2>3. QED
    BY <1>1, <2>1, <2>2 DEF DbStep, StartMatch, LeaveMatch, SaveRejection
<1>5. QED
  BY <1>1, <1>2, <1>3, <1>4 DEF Refused

\* Only a command with its own accepted receipt has been committed.
LEMMA NotCommitted ==
  ASSUME JointInv, NEW r \in Command,
         \/ receipts[KeyOf(r)] = NoReceipt
         \/ receipts[KeyOf(r)].cmd # r
         \/ receipts[KeyOf(r)].status = "rejected"
  PROVE  \A i \in DOMAIN commits : commits[i].by # r
<1> SUFFICES ASSUME NEW i \in DOMAIN commits, commits[i].by = r PROVE FALSE
  OBVIOUS
<1> DEFINE row == [cmd |-> r, match |-> commits[i].match, version |-> commits[i].version,
                   status |-> "accepted", code |-> "none"]
<1>1. commits[i] \in Commit /\ r # NoRequest
  BY NullAssumption DEF JointInv, TypeInv, TypeOK, Request
<1>2. receipts[KeyOf(r)] = row
  BY <1>1 DEF JointInv, ReceiptIffCommit
<1>3. row \in Receipt
  BY <1>1 DEF Commit, Receipt, Codes
<1>4. QED
  BY <1>2, <1>3, NullAssumption

\* What a step may answer.
Final == \A a \in answers' : a \in answers \/ a.status # "rejected" \/ Refused(a.cmd)

LEMMA RejectedFinal ==
  ASSUME NEW c \in Calls, NEW code, NEW version, ReturnAnswer(c, "rejected", code, version),
         ~IsTimeout(c) => Refused(call[c].cmd)
  PROVE  Final
  BY DEF ReturnAnswer, Final

LEMMA ReplayFinal ==
  ASSUME JointInv, NEW c \in Calls, call[c].cmd \in Command,
         receipts[KeyOf(call[c].cmd)] # NoReceipt, Replay(c, receipts[KeyOf(call[c].cmd)])
  PROVE  Final
<1> DEFINE r == call[c].cmd
           receipt == receipts[KeyOf(r)]
<1>1. r \in issued
  BY DEF JointInv, AloneInv, LockOK
<1>2. receipt.cmd # r \/ receipt.status = "rejected" => Refused(r)
  BY <1>1, NotCommitted DEF Refused
<1>3. CASE receipt.cmd = r
  BY <1>2, <1>3 DEF Replay, ReturnAnswer, Final
<1>4. CASE receipt.cmd # r
  BY <1>2, <1>4, RejectedFinal DEF Replay
<1>5. QED
  BY <1>3, <1>4

\* A call that rejects its command has looked for the receipt and the match.
LEMMA RejectingRefuses ==
  ASSUME JointInv, NEW c \in Calls, call[c].pc \in {"reload", "reject"}
  PROVE  Refused(call[c].cmd)
<1>1. /\ call[c].cmd \in issued /\ call[c].cmd \in Command
      /\ receipts[KeyOf(call[c].cmd)] = NoReceipt /\ ~Applicable(call[c].cmd)
  BY NothingRecorded DEF JointInv
<1>2. QED
  BY <1>1, NotCommitted DEF Refused

LEMMA LoadMatchFinal == ASSUME JointInv, NEW c \in Calls, LoadMatch(c) PROVE Final
<1>1. CASE UNCHANGED answers
  BY <1>1 DEF Final
<1>2. CASE /\ \A m \in Matches : ~Active(m)
           /\ ReturnAnswer(c, "rejected", "not_found", 0)
  <2>1. ASSUME ~IsTimeout(c) PROVE Refused(call[c].cmd)
    <3>1. call[c].pc = "load" /\ call[c].cmd \in Request /\ call[c].done = 0
      BY DEF LoadMatch, JointInv, TypeInv, CallInv, CallOK
    <3>2. call[c].cmd \in Command
      BY <2>1, <3>1, RequestKinds DEF IsTimeout
    <3>3. call[c].cmd \in issued /\ receipts[KeyOf(call[c].cmd)] = NoReceipt
      BY <3>1, <3>2 DEF JointInv, AloneInv, LockOK, Pending
    <3>4. ~Applicable(call[c].cmd)
      BY <1>2, <3>2 DEF Applicable, Command
    <3>5. QED
      BY <3>2, <3>3, <3>4, NotCommitted DEF Refused
  <2>2. QED
    BY <1>2, <2>1, RejectedFinal
<1>3. QED
  BY <1>1, <1>2 DEF LoadMatch

LEMMA StepFinal == ASSUME JointInv, [Next]_vars PROVE Final
<1>1. ASSUME UNCHANGED answers PROVE Final
  BY <1>1 DEF Final
<1>2. ASSUME NEW c, NEW code, NEW version, ReturnAnswer(c, "accepted", code, version)
      PROVE  Final
  BY <1>2 DEF ReturnAnswer, Final
<1>3. CASE \/ UNCHANGED vars \/ IssueCommand \/ LockExpires \/ LockIsLost
           \/ \E m \in Matches : StartMatch(m) \/ LeaveMatch(m)
           \/ \E c \in Calls, r \in issued : Deliver(c, r)
           \/ \E c \in Calls, m \in Matches : TurnTimerFires(c, m)
           \/ \E a \in Humans : LoseSeat(a) \/ TakeSeat(a)
           \/ DeleteRoom
           \/ \E c \in Calls : Crash(c)
  BY <1>1, <1>3 DEF vars, IssueCommand, LockExpires, LockIsLost, StartMatch, LeaveMatch, Deliver,
                    LoseSeat, TakeSeat, DeleteRoom, TurnTimerFires, Crash
<1>4. ASSUME NEW c \in Calls, DatabaseError(c) PROVE Final
  <2>1. CASE call[c].pc = "reload" /\ ReturnAnswer(c, "rejected", "conflict", 0)
    BY <2>1, RejectingRefuses, RejectedFinal
  <2>2. QED
    BY <1>1, <1>2, <1>4, <2>1 DEF DatabaseError
<1>5. ASSUME NEW c \in Calls, ServiceStep(c) PROVE Final
  <2>1. CASE \/ AcquireLock(c) \/ CheckFinisher(c) \/ ReloadMatch(c)
             \/ PersistActionResult(c) \/ TerminateActiveMatch(c)
    <3>1. ReloadMatch(c) => UNCHANGED answers
      BY DEF ReloadMatch, JointInv, AloneInv, LockOK, Failing
    <3>2. QED
      BY <1>1, <2>1, <3>1 DEF AcquireLock, CheckFinisher, PersistActionResult,
                              TerminateActiveMatch
  <2>2. CASE GetActionReceipt(c) \/ RecheckReceipt(c)
    <3>1. call[c].cmd \in Command
      BY <2>2 DEF GetActionReceipt, RecheckReceipt, JointInv, TypeInv, CallInv, CallOK
    <3>2. QED
      BY <1>1, <2>2, <3>1, ReplayFinal DEF GetActionReceipt, RecheckReceipt
  <2>3. CASE SaveRejection(c)
    <3>1. call[c].pc = "reject"
      BY <2>3 DEF SaveRejection
    <3>2. Refused(call[c].cmd)
      BY <3>1, RejectingRefuses
    <3>3. QED
      BY <1>1, <2>3, <3>2, RejectedFinal DEF SaveRejection
  <2>4. CASE ReplaySaved(c)
    <3>1. call[c].cmd \in Command /\ receipts[KeyOf(call[c].cmd)] # NoReceipt
      BY <2>4 DEF ReplaySaved, JointInv, TypeInv, CallInv, CallOK
    <3>2. QED
      BY <2>4, <3>1, ReplayFinal DEF ReplaySaved
  <2>5. CASE Acknowledge(c)
    BY <1>1, <1>2, <2>5 DEF Acknowledge
  <2>6. QED
    BY <1>5, <2>1, <2>2, <2>3, <2>4, <2>5, LoadMatchFinal DEF ServiceStep
<1>6. QED
  BY <1>3, <1>4, <1>5 DEF Next

LEMMA RefusedOKStep ==
  ASSUME JointInv, JointInv', RefusedOK, [Next]_vars PROVE RefusedOK'
<1> SUFFICES ASSUME NEW a \in answers', a.status = "rejected" PROVE Refused(a.cmd)'
  BY DEF RefusedOK
<1>1. Refused(a.cmd)
  BY StepFinal DEF Final, RefusedOK
<1>2. QED
  BY <1>1, StaysRefused

\* A call that is going to report a conflict.
Hopeless(l) == l.pc = "reload" \/ (l.pc = "recheck" /\ l.why = "conflict")
HopelessOK == \A c \in Calls : Hopeless(call[c]) => ~Applied(call[c].cmd)

\* In a room that stands, a conflict is only reported for want of a receipt.
LEMMA HopelessStanding == JointInv => HopelessOK
<1> SUFFICES ASSUME JointInv, NEW c \in Calls, Hopeless(call[c]) PROVE ~Applied(call[c].cmd)
  BY DEF HopelessOK
<1>1. /\ LockOK(call[c]) /\ Failing(call[c]) /\ call[c].done = 0 /\ call[c].cmd \in Command
  BY DEF Hopeless, Failing, JointInv, AloneInv, TypeInv, CallInv, CallOK
<1>2. receipts[KeyOf(call[c].cmd)] = NoReceipt
  BY <1>1 DEF LockOK, Pending
<1>3. QED
  BY <1>1, <1>2, NotCommitted DEF Applied

\* What a call may do in a deleted room: no transaction of a command tells a conflict.
LEMMA LateFailure ==
  ASSUME TypeInv, room = "deleted", NEW c \in Calls, PersistActionResult(c), Hopeless(call[c])'
  PROVE  FALSE
<1>1. call[c].match \in Matches /\ call[c].cmd \in Request /\ call[c].cmd # NoRequest
  BY NullAssumption DEF PersistActionResult, TypeInv, CallInv, CallOK
<1>2. ~Updatable(c, call[c].match)
  BY <1>1 DEF Updatable, TypeInv, ActiveIsRunning
<1>3. CASE ReceiptRefused(c)
  <2>1. AfterFailure(c, "error")
    BY <1>3 DEF PersistActionResult
  <2>2. ~Return(c)
    BY DEF Return, Hopeless, IdleCall, TypeInv, TypeOK
  <2>3. QED
    BY <2>1, <2>2, AfterFailureFacts DEF Hopeless
<1>4. CASE ~ReceiptRefused(c)
  <2>1. AfterFailure(c, "conflict")
    BY <1>2, <1>4 DEF PersistActionResult
  <2>2. IsTimeout(c) \/ call[c].done # 0
    BY <1>1, <1>4 DEF ReceiptRefused, CommittedBy
  <2>3. ~Return(c)
    BY DEF Return, Hopeless, IdleCall, TypeInv, TypeOK
  <2>4. QED
    BY <2>1, <2>2, <2>3, AfterFailureFacts DEF Hopeless
<1>5. QED
  BY <1>3, <1>4

\* Nothing is recorded in a deleted room, nothing is active, and nothing is found.
LEMMA NothingFound ==
  ASSUME TypeInv, Erased
  PROVE  /\ room = "deleted"
         /\ \A m \in Matches : ~Active(m)
         /\ \A c \in Calls : call[c].pc \in {"receipt", "recheck", "reject", "replay"} =>
              receipts[KeyOf(call[c].cmd)] = NoReceipt
         /\ \A c \in Calls : call[c].pc = "reload" => matches[call[c].match] = NoRow
<1>1. \A m \in Matches : ~Active(m)
  BY DEF Erased, Active, NoRow
<1>2. ASSUME NEW c \in Calls, call[c].pc \in {"receipt", "recheck", "reject", "replay"}
      PROVE  receipts[KeyOf(call[c].cmd)] = NoReceipt
  BY <1>2 DEF Erased, TypeInv, CallInv, CallOK, KeyOf, Key, Command
<1>3. \A c \in Calls : call[c].pc = "reload" => matches[call[c].match] = NoRow
  BY DEF Erased, TypeInv, CallInv, CallOK
<1>4. QED
  BY <1>1, <1>2, <1>3 DEF Erased

LEMMA HopelessStays ==
  ASSUME TypeInv, Erased, [Next]_vars, NEW d \in Calls, Hopeless(call[d])'
  PROVE  Hopeless(call[d]) /\ call'[d].cmd = call[d].cmd
<1>1. ASSUME call'[d] = call[d] PROVE Hopeless(call[d]) /\ call'[d].cmd = call[d].cmd
  BY <1>1 DEF Hopeless
<1>2. ASSUME NEW c \in Calls, call'[c].pc \in {"idle", "lock"},
             \A e \in Calls \ {c} : call'[e] = call[e]
      PROVE  call'[d] = call[d]
  BY <1>2 DEF Hopeless
<1>3. ASSUME NEW c \in Calls, call' = [call EXCEPT ![c] = IdleCall]
      PROVE  call'[d] = call[d]
  <2>1. call'[c] = IdleCall /\ \A e \in Calls \ {c} : call'[e] = call[e]
    BY <1>3 DEF TypeInv, TypeOK
  <2>2. IdleCall.pc = "idle"
    BY DEF IdleCall
  <2>3. QED
    BY <1>2, <2>1, <2>2
<1>4. ASSUME NEW c \in Calls, Return(c) PROVE call'[d] = call[d]
  BY <1>3, <1>4 DEF Return
<1>5. ASSUME NEW c \in Calls, NEW step \in PCs \ {"reload", "recheck"}, Goto(c, step)
      PROVE  call'[d] = call[d]
  BY <1>5, GotoFields DEF Hopeless
<1>6. ASSUME NEW c \in Calls, AfterFailure(c, "error") PROVE call'[d] = call[d]
  BY <1>4, <1>6, AfterFailureFacts DEF Hopeless
<1>7. ASSUME NEW c \in Calls, call[c].pc = "recheck", call[c].why = "conflict", Goto(c, "reload")
      PROVE  Hopeless(call[d]) /\ call'[d].cmd = call[d].cmd
  BY <1>7, GotoFields DEF Hopeless
<1>8. CASE \/ UNCHANGED vars \/ IssueCommand \/ LockExpires \/ LockIsLost \/ DeleteRoom
           \/ \E m \in Matches : StartMatch(m) \/ LeaveMatch(m)
           \/ \E a \in Humans : LoseSeat(a) \/ TakeSeat(a)
  BY <1>1, <1>8 DEF vars, IssueCommand, LockExpires, LockIsLost, DeleteRoom, StartMatch,
                    LeaveMatch, LoseSeat, TakeSeat
<1>9. ASSUME NEW c \in Calls, NEW r \in issued, Deliver(c, r) PROVE call'[d] = call[d]
  <2>1. PICK l : l = [IdleCall EXCEPT !.pc = "lock", !.cmd = r]
    OBVIOUS
  <2>2. l.pc = "lock" /\ call' = [call EXCEPT ![c] = l]
    BY <1>9, <2>1 DEF Deliver, IdleCall
  <2>3. call'[c] = l /\ \A e \in Calls \ {c} : call'[e] = call[e]
    BY <2>2 DEF TypeInv, TypeOK
  <2>4. QED
    BY <1>2, <2>2, <2>3
<1>10. ASSUME NEW c \in Calls, NEW m \in Matches, TurnTimerFires(c, m) PROVE call'[d] = call[d]
  BY <1>10, NothingFound DEF TurnTimerFires
<1>11. ASSUME NEW c \in Calls, Crash(c) PROVE call'[d] = call[d]
  BY <1>3, <1>11 DEF Crash
<1>12. ASSUME NEW c \in Calls, DatabaseError(c)
       PROVE  Hopeless(call[d]) /\ call'[d].cmd = call[d].cmd
  BY <1>1, <1>4, <1>6, <1>7, <1>12 DEF DatabaseError, ReturnAnswer
<1>13. ASSUME NEW c \in Calls, ServiceStep(c)
       PROVE  Hopeless(call[d]) /\ call'[d].cmd = call[d].cmd
  <2>1. {"load", "receipt", "finish", "replay"} \subseteq PCs \ {"reload", "recheck"}
    BY DEF PCs
  <2>2. CASE AcquireLock(c)
    BY <1>1, <1>5, <2>1, <2>2 DEF AcquireLock
  <2>3. CASE GetActionReceipt(c)
    BY <1>1, <1>5, <2>1, <2>3, NothingFound DEF GetActionReceipt
  <2>4. CASE LoadMatch(c)
    BY <1>1, <1>4, <2>4, NothingFound DEF LoadMatch, ReturnAnswer
  <2>5. CASE CheckFinisher(c)
    BY <1>1, <1>5, <1>6, <2>1, <2>5 DEF CheckFinisher
  <2>6. CASE PersistActionResult(c)
    <3>1. c # d
      BY <2>6, LateFailure, NothingFound
    <3>2. call'[d] = call[d]
      <4>1. call[c].match \in Matches
        BY <2>6 DEF PersistActionResult, TypeInv, CallInv, CallOK
      <4>2. AfterFailure(c, "error") \/ AfterFailure(c, "conflict")
        BY <2>6, <4>1, NothingFound DEF PersistActionResult, Updatable
      <4>3. QED
        BY <1>4, <3>1, <4>2, AfterFailureFacts
    <3>3. QED
      BY <1>1, <3>2
  <2>7. CASE TerminateActiveMatch(c)
    BY <1>1, <1>6, <2>7, NothingFound DEF TerminateActiveMatch
  <2>8. CASE RecheckReceipt(c)
    BY <1>1, <1>4, <1>7, <2>8, NothingFound DEF RecheckReceipt
  <2>9. CASE ReloadMatch(c)
    BY <1>1, <1>4, <2>9, NothingFound DEF ReloadMatch, ReturnAnswer
  <2>10. CASE SaveRejection(c)
    BY <1>1, <1>4, <2>10, NothingFound DEF SaveRejection
  <2>11. CASE ReplaySaved(c)
    BY <1>1, <1>4, <2>11, NothingFound DEF ReplaySaved
  <2>12. CASE Acknowledge(c)
    BY <1>1, <1>4, <2>12 DEF Acknowledge, ReturnAnswer
  <2>13. QED
    BY <1>13, <2>2, <2>3, <2>4, <2>5, <2>6, <2>7, <2>8, <2>9, <2>10, <2>11, <2>12
    DEF ServiceStep
<1>14. QED
  BY <1>1, <1>8, <1>9, <1>10, <1>11, <1>12, <1>13 DEF Next

\* What a step may answer when the room is gone.
Late ==
  \A a \in answers' : \/ a \in answers \/ a.status # "rejected" \/ a.code = "not_found"
                      \/ ~Applied(a.cmd)

LEMMA StepLate == ASSUME TypeInv, Erased, HopelessOK, [Next]_vars PROVE Late
<1>1. ASSUME UNCHANGED answers PROVE Late
  BY <1>1 DEF Late
<1>2. ASSUME NEW c, NEW code, NEW version, ReturnAnswer(c, "accepted", code, version)
      PROVE  Late
  BY <1>2 DEF ReturnAnswer, Late
<1>3. ASSUME NEW c, NEW version, ReturnAnswer(c, "rejected", "not_found", version)
      PROVE  Late
  BY <1>3 DEF ReturnAnswer, Late
<1>4. ASSUME NEW c \in Calls, call[c].pc = "reload", ReturnAnswer(c, "rejected", "conflict", 0)
      PROVE  Late
  <2>1. ~Applied(call[c].cmd)
    BY <1>4 DEF HopelessOK, Hopeless
  <2>2. QED
    BY <1>4, <2>1 DEF ReturnAnswer, Late
<1>5. CASE \/ UNCHANGED vars \/ IssueCommand \/ LockExpires \/ LockIsLost \/ DeleteRoom
           \/ \E m \in Matches : StartMatch(m) \/ LeaveMatch(m)
           \/ \E a \in Humans : LoseSeat(a) \/ TakeSeat(a)
           \/ \E c \in Calls, r \in issued : Deliver(c, r)
           \/ \E c \in Calls, m \in Matches : TurnTimerFires(c, m)
           \/ \E c \in Calls : Crash(c)
  BY <1>1, <1>5 DEF vars, IssueCommand, LockExpires, LockIsLost, DeleteRoom, StartMatch,
                    LeaveMatch, LoseSeat, TakeSeat, Deliver, TurnTimerFires, Crash
<1>6. ASSUME NEW c \in Calls, DatabaseError(c) PROVE Late
  BY <1>1, <1>2, <1>4, <1>6 DEF DatabaseError
<1>7. ASSUME NEW c \in Calls, ServiceStep(c) PROVE Late
  <2>1. CASE \/ AcquireLock(c) \/ CheckFinisher(c)
             \/ PersistActionResult(c) \/ TerminateActiveMatch(c)
    BY <1>1, <2>1 DEF AcquireLock, CheckFinisher, PersistActionResult, TerminateActiveMatch
  <2>2. CASE \/ GetActionReceipt(c) \/ RecheckReceipt(c) \/ SaveRejection(c) \/ ReplaySaved(c)
    BY <1>1, <2>2, NothingFound DEF GetActionReceipt, RecheckReceipt, SaveRejection, ReplaySaved
  <2>3. CASE LoadMatch(c)
    BY <1>3, <2>3, NothingFound DEF LoadMatch
  <2>4. CASE ReloadMatch(c)
    BY <1>4, <2>4, NothingFound DEF ReloadMatch
  <2>5. CASE Acknowledge(c)
    BY <1>1, <1>2, <2>5 DEF Acknowledge
  <2>6. QED
    BY <1>7, <2>1, <2>2, <2>3, <2>4, <2>5 DEF ServiceStep
<1>8. QED
  BY <1>5, <1>6, <1>7 DEF Next

\* What clients have been told, and what calls are about to tell them.
ToldOK ==
  /\ room # "deleted" => RefusedOK
  /\ room = "deleted" => HopelessOK
  /\ \A a \in answers : a.status = "rejected" /\ a.code # "not_found" => ~Applied(a.cmd)

LEMMA ToldStep ==
  ASSUME RoomInv, RoomInv', ToldOK, [Next]_vars PROVE ToldOK'
<1>1. CASE room' # "deleted"
  <2>1. JointInv /\ JointInv' /\ RefusedOK
    BY <1>1, Deletion DEF RoomInv, JointInv, ToldOK
  <2>2. RefusedOK'
    BY <2>1, RefusedOKStep
  <2>3. QED
    BY <1>1, <2>2 DEF ToldOK, RefusedOK, Refused, Applied
<1>2. CASE room' = "deleted" /\ room # "deleted"
  <2>1. DeleteRoom /\ HopelessOK
    BY <1>2, Deletion, StandingRoom, HopelessStanding DEF RoomInv
  <2>2. QED
    BY <1>2, <2>1 DEF DeleteRoom, ToldOK, HopelessOK, Hopeless, Applied
<1>3. CASE room = "deleted"
  <2>1. Erased /\ HopelessOK /\ room' = "deleted" /\ UNCHANGED commits
    BY <1>3, Deletion DEF RoomInv, ToldOK
  <2>2. HopelessOK'
    BY <2>1, HopelessStays DEF HopelessOK, Applied, RoomInv
  <2>3. Late
    BY <2>1, StepLate DEF RoomInv
  <2>4. QED
    BY <2>1, <2>2, <2>3 DEF ToldOK, Late, Applied
<1>4. QED
  BY <1>1, <1>2, <1>3

\* As long as the lock holds, a client that hears "rejected" can forget the
\* command: it has not been applied and never will be, whatever retries of it are
\* still in flight and whether or not the rejection could be recorded
\* (rejectMatchAction, and the answers given without a receipt).  The one answer
\* that may be wrong is "there is no match", to the retry of a command whose
\* receipt has been deleted with its room.
THEOREM RejectionsAreFinal ==
  ASSUME LockMayBeLost = FALSE PROVE Spec => []RejectedIsNeverApplied
<1>1. Init => RoomInv /\ ToldOK
  BY RoomInit DEF Init, ToldOK, RefusedOK
<1>2. RoomInv /\ ToldOK /\ [Next]_vars => (RoomInv /\ ToldOK)'
  BY RoomStep, ToldStep
<1>3. ToldOK => RejectedIsNeverApplied
  BY DEF ToldOK, RefusedOK, Refused, RejectedIsNeverApplied, Applied
<1>4. QED
  BY <1>1, <1>2, <1>3, PTL DEF Spec

-----------------------------------------------------------------------------
(* Matches and receipts are a run of GameLog. *)

\* The operators of GameLog's own TurnMachine are those of this one.
LEMMA SameGame ==
  /\ Log!InitialState = InitialState /\ Log!absent = NoRow /\ Log!Keys = Key
  /\ \A r : Log!keyOf(r) = KeyOf(r)
  /\ \A s, a, v : Log!Verdict(s, a, v) = Verdict(s, a, v)
  /\ \A s, v : Log!ApplyAction(s, v) = ApplyAction(s, v)
  /\ \A s : Log!ApplyTurnTimeout(s) = ApplyTurnTimeout(s)
  /\ \A s : Log!BuildBotAction(s) = BuildBotAction(s)
  /\ \A s : Log!BotToMove(s) <=> BotToMove(s)
  /\ \A s, n : Log!advanceGameStateVersion(s, n) = advanceGameStateVersion(s, n)
<1>1. Log!InitialState = InitialState /\ Log!absent = NoRow
  BY DEF Log!InitialState, InitialState, Log!absent, NoRow
<1>2. Log!Keys = Key
  BY DEF Log!Keys, Key, Log!Humans, Humans
<1>3. \A r : Log!keyOf(r) = KeyOf(r)
  BY DEF Log!keyOf, KeyOf
<1>4. \A s, a, v : Log!Verdict(s, a, v) = Verdict(s, a, v)
  BY Zenon DEF Log!Verdict, Verdict
<1>5. \A s : Log!placeTile(s) = placeTile(s) /\ Log!resolveTurn(s) = resolveTurn(s)
  BY Zenon DEF Log!placeTile, placeTile, Log!resolveTurn, resolveTurn
<1>6. \A s, v : Log!ApplyAction(s, v) = ApplyAction(s, v)
  BY <1>5, Zenon DEF Log!ApplyAction, ApplyAction
<1>7. \A s : Log!ApplyTurnTimeout(s) = ApplyTurnTimeout(s)
  BY <1>5, Zenon DEF Log!ApplyTurnTimeout, ApplyTurnTimeout
<1>8. \A s : Log!BuildBotAction(s) = BuildBotAction(s)
  BY Zenon DEF Log!BuildBotAction, BuildBotAction
<1>9. \A s : Log!BotToMove(s) <=> BotToMove(s)
  BY Zenon DEF Log!BotToMove, BotToMove
<1>10. \A s, n : Log!advanceGameStateVersion(s, n) = advanceGameStateVersion(s, n)
  BY Zenon DEF Log!advanceGameStateVersion, advanceGameStateVersion
<1>11. QED
  BY <1>1, <1>2, <1>3, <1>4, <1>6, <1>7, <1>8, <1>9, <1>10

LEMMA SameConditions ==
  ASSUME NEW r
  PROVE  (Log!Applicable(r) <=> Applicable(r)) /\ (Log!Known(r) <=> Known(r))
  BY SameGame, Zenon DEF Log!Applicable, Applicable, Active, Log!Known, Known

LEMMA StartIsLogged ==
  ASSUME NEW m \in Matches, StartMatch(m) PROVE Log!LogNext(issued)
<1>1. Log!Start(m)
  BY SameGame, Zenon DEF StartMatch, Log!Start
<1>2. QED
  BY <1>1 DEF Log!LogNext

LEMMA LeaveIsLogged ==
  ASSUME NEW m \in Matches, LeaveMatch(m) PROVE Log!LogNext(issued)
<1>1. Log!Abandon(m)
  BY Zenon DEF LeaveMatch, Active, Log!Abandon
<1>2. QED
  BY <1>1 DEF Log!LogNext

\* A commit is a move of the match it is made to.
LEMMA WritingMoves ==
  ASSUME JointInv, NEW c \in Calls, Writing(c),
         NEW next \in GameState,
         call[c].plan = advanceGameStateVersion(matches[call[c].match].state, next)
  PROVE  Log!Move(call[c].match, next)
<1> DEFINE m == call[c].match
           s == matches[m].state
<1>1. Active(m) /\ s \in GameState
  BY WritingFacts DEF Writing, JointInv
<1>2. call[c].plan.phase = next.phase
  BY <1>1, AdvanceVersion
<1>3. call[c].plan = Log!advanceGameStateVersion(s, next)
  BY SameGame
<1>4. /\ matches' = [matches EXCEPT ![m] =
                       [status |-> IF next.phase = "finished" THEN "finished" ELSE "active",
                        state |-> call[c].plan]]
      /\ room' = IF next.phase = "finished" THEN "waiting" ELSE room
  BY <1>2, Zenon DEF Writing
<1>5. QED
  BY <1>1, <1>3, <1>4, Zenon DEF Active, Log!Move

\* The state the engine returns, for a command, a timeout and a bot.
LEMMA EngineReturns ==
  ASSUME NEW s \in GameState, s.phase # "finished"
  PROVE  /\ \A v \in Moves : ApplyAction(s, v) \in GameState
         /\ ApplyTurnTimeout(s) \in GameState
         /\ ApplyAction(s, BuildBotAction(s)) \in GameState
<1>1. "place_tile" \in Moves
  BY DEF Moves
<1>2. BuildBotAction(s) \in Moves
  BY <1>1, EngineTypes
<1>3. QED
  BY <1>1, <1>2, EngineTypes

LEMMA CommandIsLogged ==
  ASSUME JointInv, NEW c \in Calls, Writing(c), CommittedBy(c) # NoRequest
  PROVE  Log!LogNext(issued)
<1> DEFINE m == call[c].match
           r == call[c].cmd
           s == matches[m].state
           next == ApplyAction(s, r.move)
<1>1. /\ CommittedBy(c) = r /\ r \in Command /\ r \in issued /\ r.match = m /\ m \in Matches
      /\ Applicable(r) /\ KeyOf(r) \in Key /\ receipts[KeyOf(r)] = NoReceipt
      /\ r.version = s.version /\ call[c].plan = nextState(s, r) /\ s \in GameState
      /\ call[c].plan.version = s.version + 1
  BY WritingFacts DEF JointInv
<1>2. r.id # NoId /\ r.move \in Moves
  BY <1>1, CallAssumption DEF Command
<1>3. s.phase # "finished"
  BY <1>1 DEF Applicable, Verdict
<1>4. next \in GameState /\ call[c].plan = advanceGameStateVersion(s, next)
  BY <1>1, <1>2, <1>3, EngineReturns DEF nextState
<1>5. Log!Move(m, next)
  BY <1>4, WritingMoves
<1>6. receipts' = [receipts EXCEPT ![KeyOf(r)] =
                    [cmd |-> r, match |-> m, version |-> r.version + 1,
                     status |-> "accepted", code |-> "none"]]
  BY <1>1, Zenon DEF Writing, WriteReceipt
<1> HIDE DEF r, next, m
<1>7. Log!Move(r.match, Log!ApplyAction(matches[r.match].state, r.move))
  BY <1>1, <1>5, SameGame, Zenon DEF next
<1>8. receipts' = [receipts EXCEPT ![Log!keyOf(r)] =
                    Log!receiptFor(r, r.match, r.version + 1, "accepted", "none")]
  BY <1>1, <1>6, SameGame, Zenon DEF Log!receiptFor
<1>9. Log!Play(r)
  BY <1>1, <1>7, <1>8, SameGame, SameConditions, Zenon DEF Log!Play
<1>10. Log!Known(r)
  BY <1>1, SameConditions DEF JointInv, AloneInv, IssuedOK
<1>11. QED
  BY <1>1, <1>9, <1>10 DEF Log!LogNext

LEMMA ServerMoveIsLogged ==
  ASSUME JointInv, NEW c \in Calls, Writing(c), CommittedBy(c) = NoRequest
  PROVE  Log!LogNext(issued)
<1> DEFINE m == call[c].match
           s == matches[m].state
<1>1. /\ m \in Matches /\ Working(call[c]) /\ s = call[c].snap /\ s \in GameState
      /\ Active(m) /\ receipts' = receipts
  BY WritingFacts DEF JointInv, Writing, Working, WriteReceipt
<1>2. s.phase # "finished"
  BY <1>1 DEF JointInv, TypeInv, ActiveIsRunning
<1>3. call[c].cmd \in Request
  BY DEF Writing, JointInv, TypeInv, CallInv, CallOK
<1>4. CASE call[c].done = 0
  <2>1. call[c].cmd.id = NoId
    BY <1>3, <1>4, NullAssumption DEF CommittedBy, IsTimeout
  <2>2. call[c].plan = advanceGameStateVersion(s, ApplyTurnTimeout(s))
    BY <1>1, <1>4, <2>1 DEF Working, nextState
  <2>3. Log!Move(m, ApplyTurnTimeout(s))
    BY <1>1, <1>2, <2>2, EngineReturns, WritingMoves
  <2>4. Log!MoveForPlayer(m)
    BY <1>1, <2>3, SameGame, Zenon DEF Log!MoveForPlayer
  <2>5. QED
    BY <1>1, <2>4 DEF Log!LogNext
<1>5. CASE call[c].done # 0
  <2>1. BotToMove(s) /\ call[c].plan = advanceGameStateVersion(s, ApplyAction(s, BuildBotAction(s)))
    BY <1>1, <1>5 DEF Working, botState
  <2>2. Log!Move(m, ApplyAction(s, BuildBotAction(s)))
    BY <1>1, <1>2, <2>1, EngineReturns, WritingMoves
  <2>3. Log!MoveForPlayer(m)
    BY <1>1, <2>1, <2>2, SameGame, Zenon DEF Log!MoveForPlayer
  <2>4. QED
    BY <1>1, <2>3 DEF Log!LogNext
<1>6. QED
  BY <1>4, <1>5

LEMMA RejectionIsLogged ==
  ASSUME JointInv, NEW c \in Calls, SaveRejection(c) PROVE Log!LogNext(issued)
<1> DEFINE m == call[c].match
           r == call[c].cmd
           v == call[c].snap.version
           code == call[c].why
<1>1. call[c].pc = "reject" /\ UNCHANGED <<room, matches>>
  BY DEF SaveRejection
<1>2. /\ r \in issued /\ r \in Command /\ receipts[KeyOf(r)] = NoReceipt /\ ~Applicable(r)
      /\ m \in Matches /\ matches[m] # NoRow /\ v <= matches[m].state.version
      /\ code \in {"not_your_turn", "invalid", "conflict"}
  BY <1>1, NothingRecorded DEF JointInv
<1>3. v \in 1..matches[m].state.version
  <2>1. v \in Nat \ {0} /\ matches[m].state.version \in Nat
    BY <1>2 DEF JointInv, TypeInv, TypeOK, CallState, GameState, Row
  <2>2. QED
    BY <1>2, <2>1
<1>4. receipts' = [receipts EXCEPT ![KeyOf(r)] =
                    [cmd |-> r, match |-> m, version |-> v, status |-> "rejected", code |-> code]]
  <2>1. room # "deleted"
    BY DEF JointInv
  <2>2. QED
    BY <1>2, <2>1, Zenon DEF SaveRejection
<1> HIDE DEF m, r, v, code
<1>5. receipts' = [receipts EXCEPT ![Log!keyOf(r)] = Log!receiptFor(r, m, v, "rejected", code)]
  BY <1>4, SameGame, Zenon DEF Log!receiptFor
<1>6. Log!Refuse(r)
  BY <1>1, <1>2, <1>3, <1>5, SameGame, SameConditions, Zenon DEF Log!Refuse
<1>7. Log!Known(r)
  BY <1>2, SameConditions DEF JointInv, AloneInv, IssuedOK
<1>8. QED
  BY <1>2, <1>6, <1>7 DEF Log!LogNext

LEMMA DeletionIsLogged == ASSUME DeleteRoom PROVE Log!LogNext(issued)
<1>1. Log!Erase
  BY SameGame, Zenon DEF DeleteRoom, Log!Erase
<1>2. QED
  BY <1>1 DEF Log!LogNext

LEMMA StepIsLogged ==
  ASSUME RoomInv, RoomInv', [Next]_vars
  PROVE  [Log!LogNext(issued)]_<<room, matches, receipts>>
<1>1. CASE room # "deleted"
  <2>1. JointInv
    BY <1>1, StandingRoom
  <2>2. QED
    BY <2>1, StepOnDb, StartIsLogged, LeaveIsLogged, CommandIsLogged, ServerMoveIsLogged,
       RejectionIsLogged, DeletionIsLogged DEF JointInv, DbStep
<1>2. CASE room = "deleted"
  <2>1. Erased /\ Erased'
    BY <1>2, Deletion DEF RoomInv
  <2>2. matches' = matches
    BY <2>1 DEF Erased, RoomInv, TypeInv, TypeOK
  <2>3. receipts' = receipts
    BY <2>1 DEF Erased, RoomInv, TypeInv, TypeOK
  <2>4. QED
    BY <2>1, <2>2, <2>3 DEF Erased
<1>3. QED
  BY <1>1, <1>2

\* As long as the lock holds, calls, failures and retries are invisible: matches
\* and receipts change as if every command were applied or refused in one step,
\* and the server moved only for bots and for players whose time is up
\* (ApplyAction and ApplyTurnTimeout as a whole implement GameLog), until the
\* record is erased with the room.
THEOREM ServiceKeepsTheLog ==
  ASSUME LockMayBeLost = FALSE PROVE Spec => ImplementsLog
<1>1. Init => RoomInv /\ Log!LogInit
  BY RoomInit, SameGame, Zenon DEF Init, Log!LogInit
<1>2. RoomInv /\ [Next]_vars => RoomInv'
  BY RoomStep
<1>3. RoomInv /\ RoomInv' /\ [Next]_vars => [Log!LogNext(issued)]_<<room, matches, receipts>>
  BY StepIsLogged
<1>4. QED
  BY <1>1, <1>2, <1>3, PTL DEF Spec, ImplementsLog
=============================================================================
