--------------------------- MODULE TurnTimerProofs ---------------------------
(***************************************************************************)
(* What TurnTimer guarantees for any number of processes, matches, events  *)
(* and handlers at work.                                                   *)
(***************************************************************************)
EXTENDS TurnTimer, TurnMachineProofs, WellFoundedInduction

-----------------------------------------------------------------------------
(* Induction over the natural numbers, for sets of numbers. *)

LEMMA LeastNumber ==
  ASSUME NEW T, T \subseteq Nat, T # {}
  PROVE  \E n \in T : \A m \in T : n <= m
<1> DEFINE R == OpToRel(<, Nat)
<1>1. IsWellFoundedOn(R, Nat)
  BY NatLessThanWellFounded
<1>2. \A m, n \in Nat : m < n => <<m, n>> \in R
  BY DEF OpToRel
<1> HIDE DEF R
<1>3. PICK n \in T : \A m \in T : <<m, n>> \notin R
  BY <1>1, WFMin
<1>4. ASSUME NEW m \in T PROVE n <= m
  <2>1. m \in Nat /\ n \in Nat /\ <<m, n>> \notin R
    BY <1>3
  <2>2. ~(m < n)
    BY <1>2, <2>1
  <2>3. QED
    BY <2>1, <2>2
<1>5. QED
  BY <1>4

LEMMA SetInduction ==
  ASSUME NEW S, 0 \in S, \A n \in Nat : n \in S => n + 1 \in S
  PROVE  Nat \subseteq S
<1> DEFINE T == Nat \ S
<1> SUFFICES ASSUME T # {} PROVE FALSE
  OBVIOUS
<1>1. PICK n \in T : \A m \in T : n <= m
  <2>1. T \subseteq Nat
    OBVIOUS
  <2> HIDE DEF T
  <2>2. QED
    BY <2>1, LeastNumber
<1>2. n \in Nat /\ n \notin S /\ n # 0
  OBVIOUS
<1>3. n - 1 \in Nat /\ n - 1 \notin T
  <2>1. n - 1 \in Nat /\ ~(n <= n - 1)
    BY <1>2
  <2>2. QED
    BY <1>1, <2>1
<1>4. n - 1 \in S
  BY <1>3
<1>5. (n - 1) + 1 \in S
  BY <1>3, <1>4
<1>6. (n - 1) + 1 = n
  BY <1>2
<1>7. QED
  BY <1>2, <1>5, <1>6

-----------------------------------------------------------------------------
(* The moves of the bots. *)

\* One move of a bot.
botStep(t) == advanceGameStateVersion(t, ApplyAction(t, BuildBotAction(t)))

\* The recursion of BotMoves.
IsRun(f, s, k) == f = [i \in 0 .. k |-> IF i = 0 THEN s ELSE botStep(f[i-1])]

LEMMA RunValues ==
  ASSUME NEW f, NEW s, NEW k \in Nat, IsRun(f, s, k)
  PROVE  f[0] = s /\ \A i \in Nat : i + 1 <= k => f[i+1] = botStep(f[i])
<1>1. DOMAIN f = 0 .. k /\ \A i \in 0 .. k : f[i] = IF i = 0 THEN s ELSE botStep(f[i-1])
  BY Zenon DEF IsRun
<1>2. f[0] = s
  <2>1. 0 \in 0 .. k
    OBVIOUS
  <2>2. QED
    BY <1>1, <2>1
<1>3. ASSUME NEW i \in Nat, i + 1 <= k PROVE f[i+1] = botStep(f[i])
  <2>1. i + 1 \in 0 .. k /\ i + 1 # 0 /\ (i + 1) - 1 = i
    BY <1>3
  <2>2. QED
    BY <1>1, <2>1
<1>4. QED
  BY <1>2, <1>3

LEMMA RunsExist ==
  ASSUME NEW s PROVE \A k \in Nat : \E f : IsRun(f, s, k)
<1> DEFINE S == {k \in Nat : \E f : IsRun(f, s, k)}
<1>1. 0 \in S
  <2> DEFINE f == [i \in 0 .. 0 |-> s]
  <2>1. IsRun(f, s, 0)
    BY DEF IsRun
  <2>2. QED
    BY <2>1
<1>2. ASSUME NEW n \in Nat, n \in S PROVE n + 1 \in S
  <2>1. PICK f : IsRun(f, s, n)
    BY <1>2
  <2> DEFINE g == [i \in 0 .. n + 1 |-> IF i = n + 1 THEN botStep(f[n]) ELSE f[i]]
  <2>2. f[0] = s /\ \A i \in Nat : i + 1 <= n => f[i+1] = botStep(f[i])
    BY <2>1, RunValues
  <2>3. ASSUME NEW i \in 0 .. n + 1 PROVE g[i] = IF i = 0 THEN s ELSE botStep(g[i-1])
    <3>1. CASE i = 0
      BY <2>2, <3>1
    <3>2. CASE i # 0 /\ i # n + 1
      <4>1. i - 1 \in Nat /\ (i - 1) + 1 <= n /\ (i - 1) + 1 = i /\ i - 1 \in 0 .. n + 1
            /\ i - 1 # n + 1
        BY <3>2
      <4>2. f[i] = botStep(f[i-1])
        BY <2>2, <4>1
      <4>3. g[i] = f[i] /\ g[i-1] = f[i-1]
        BY <3>2, <4>1
      <4> HIDE DEF g
      <4>4. QED
        BY <3>2, <4>2, <4>3
    <3>3. CASE i = n + 1
      <4>1. i - 1 = n /\ n \in 0 .. n + 1 /\ n # n + 1 /\ i # 0
        BY <3>3
      <4>2. g[i] = botStep(f[n]) /\ g[n] = f[n]
        BY <3>3, <4>1
      <4> HIDE DEF g
      <4>3. QED
        BY <3>3, <4>1, <4>2
    <3>4. QED
      BY <3>1, <3>2, <3>3
  <2>4. g = [i \in 0 .. n + 1 |-> g[i]]
    OBVIOUS
  <2> HIDE DEF g
  <2>5. IsRun(g, s, n + 1)
    BY <2>3, <2>4 DEF IsRun
  <2>6. QED
    BY <2>5
<1> HIDE DEF S
<1>3. Nat \subseteq S
  BY <1>1, <1>2, SetInduction
<1>4. QED
  BY <1>3 DEF S

\* Runs from the same state agree.
LEMMA RunsAgree ==
  ASSUME NEW s, NEW k \in Nat, NEW l \in Nat, NEW f, NEW g, IsRun(f, s, k), IsRun(g, s, l)
  PROVE  \A i \in Nat : i <= k /\ i <= l => f[i] = g[i]
<1> DEFINE S == {i \in Nat : i <= k /\ i <= l => f[i] = g[i]}
<1>1. 0 \in S
  BY RunValues
<1>2. ASSUME NEW n \in Nat, n \in S PROVE n + 1 \in S
  <2> SUFFICES ASSUME n + 1 <= k, n + 1 <= l PROVE f[n+1] = g[n+1]
    OBVIOUS
  <2>1. f[n] = g[n]
    BY <1>2
  <2>2. f[n+1] = botStep(f[n]) /\ g[n+1] = botStep(g[n])
    BY RunValues
  <2>3. QED
    BY <2>1, <2>2
<1> HIDE DEF S
<1>3. Nat \subseteq S
  BY <1>1, <1>2, SetInduction
<1>4. QED
  BY <1>3 DEF S

\* BotMoves is the last state of the run.
LEMMA BotMovesRun ==
  ASSUME NEW s, NEW k \in Nat, NEW f, IsRun(f, s, k)
  PROVE  BotMoves(s, k) = f[k]
<1> DEFINE g == CHOOSE h : h = [i \in 0 .. k |->
                  IF i = 0 THEN s
                  ELSE LET t == h[i-1]
                       IN advanceGameStateVersion(t, ApplyAction(t, BuildBotAction(t)))]
<1>1. IsRun(g, s, k)
  BY Zenon DEF IsRun, botStep
<1>2. BotMoves(s, k) = g[k]
  BY Zenon DEF BotMoves
<1> HIDE DEF g
<1>3. QED
  BY <1>1, <1>2, RunsAgree

LEMMA BotMovesStep ==
  ASSUME NEW s
  PROVE  /\ BotMoves(s, 0) = s
         /\ \A k \in Nat : BotMoves(s, k+1) = botStep(BotMoves(s, k))
<1>1. BotMoves(s, 0) = s
  <2>1. PICK f : IsRun(f, s, 0)
    BY RunsExist
  <2>2. QED
    BY <2>1, BotMovesRun, RunValues
<1>2. ASSUME NEW k \in Nat PROVE BotMoves(s, k+1) = botStep(BotMoves(s, k))
  <2>1. PICK f : IsRun(f, s, k)
    BY RunsExist
  <2>2. PICK g : IsRun(g, s, k+1)
    BY RunsExist
  <2>3. BotMoves(s, k) = f[k] /\ BotMoves(s, k+1) = g[k+1]
    BY <2>1, <2>2, BotMovesRun
  <2>4. f[k] = g[k]
    BY <2>1, <2>2, RunsAgree
  <2>5. g[k+1] = botStep(g[k])
    BY <2>2, RunValues
  <2>6. QED
    BY <2>3, <2>4, <2>5
<1>3. QED
  BY <1>1, <1>2

\* No move takes a turn back.
LEMMA TurnsAdvance ==
  ASSUME NEW s \in GameState, s.phase # "finished", NEW move \in Moves
  PROVE  ApplyAction(s, move).turn >= s.turn /\ ApplyTurnTimeout(s).turn >= s.turn
<1>1. ASSUME NEW t \in GameState PROVE resolveTurn(t).turn >= t.turn
  BY DEF resolveTurn, GameState
<1>2. placeTile(s) \in GameState /\ placeTile(s).turn = s.turn
  BY EngineTypes DEF placeTile, GameState
<1>3. resolveTurn(s).turn >= s.turn /\ resolveTurn(placeTile(s)).turn >= s.turn
  BY <1>1, <1>2
<1>4. s.turn >= s.turn
  BY DEF GameState
<1>5. QED
  BY <1>2, <1>3, <1>4 DEF ApplyAction, ApplyTurnTimeout

LEMMA BotStepAdvances ==
  ASSUME NEW s \in GameState, BotToMove(s)
  PROVE  botStep(s) \in GameState /\ botStep(s).turn >= s.turn
<1>1. s.phase # "finished"
  BY DEF BotToMove
<1>2. PICK move \in Moves : move = BuildBotAction(s)
  BY <1>1, EngineTypes DEF BuildBotAction, Moves
<1>3. PICK n \in GameState : n = ApplyAction(s, move) /\ n.turn >= s.turn
  BY <1>1, EngineTypes, TurnsAdvance
<1>4. advanceGameStateVersion(s, n) \in GameState
  BY AdvanceVersion
<1>5. advanceGameStateVersion(s, n).turn = n.turn
  BY DEF advanceGameStateVersion, GameState
<1>6. botStep(s) = advanceGameStateVersion(s, n)
  BY <1>2, <1>3 DEF botStep
<1>7. QED
  BY <1>3, <1>4, <1>5, <1>6

\* However many moves the bots make.
LEMMA BotsAdvance ==
  ASSUME NEW s \in GameState, NEW k \in Nat, BotsCanMove(s, k)
  PROVE  BotMoves(s, k) \in GameState /\ BotMoves(s, k).turn >= s.turn
<1> DEFINE S == {i \in Nat : i <= k => BotMoves(s, i) \in GameState /\ BotMoves(s, i).turn >= s.turn}
<1>1. 0 \in S
  <2>1. BotMoves(s, 0) = s
    BY BotMovesStep
  <2>2. s.turn >= s.turn
    BY DEF GameState
  <2>3. QED
    BY <2>1, <2>2
<1>2. ASSUME NEW n \in Nat, n \in S PROVE n + 1 \in S
  <2> SUFFICES ASSUME n + 1 <= k
               PROVE  BotMoves(s, n+1) \in GameState /\ BotMoves(s, n+1).turn >= s.turn
    OBVIOUS
  <2>1. PICK t \in GameState : t = BotMoves(s, n) /\ t.turn >= s.turn
    <3>1. n <= k
      OBVIOUS
    <3>2. QED
      BY <1>2, <3>1
  <2>2. BotToMove(t)
    <3>1. n \in 0 .. k-1
      OBVIOUS
    <3>2. QED
      BY <2>1, <3>1 DEF BotsCanMove
  <2>3. botStep(t) \in GameState /\ botStep(t).turn >= t.turn
    BY <2>2, BotStepAdvances
  <2>4. BotMoves(s, n+1) = botStep(t)
    BY <2>1, BotMovesStep
  <2>5. s.turn \in Nat /\ t.turn \in Nat /\ botStep(t).turn \in Nat
    BY <2>3 DEF GameState
  <2>6. QED
    BY <2>1, <2>3, <2>4, <2>5
<1> HIDE DEF S
<1>3. k \in S
  BY <1>1, <1>2, SetInduction
<1>4. k <= k
  OBVIOUS
<1>5. QED
  BY <1>3, <1>4 DEF S

-----------------------------------------------------------------------------
(* The inductive invariant.  Early reads of the match, old timers and late   *)
(* timeouts all hold a state the match has been in, so that their turn is    *)
(* not ahead of the match; and a timeout is only on its way for a turn whose *)
(* deadline has passed.                                                      *)

Row == [status : {"absent", "active", "finished"}, state : GameState]

\* What somebody holds is a state of a match that the match has reached.
Reached(h) ==
  h.match \in Matches /\ h.state \in GameState /\ h.state.turn \in 1 .. matches[h.match].state.turn

RowsOK ==
  /\ matches \in [Matches -> Row]
  /\ \A m \in Matches : /\ matches[m].state.turn >= 1
                        /\ Active(m) => matches[m].state.phase # "finished"

OverdueOK ==
  /\ overdue \in [Matches -> Nat]
  /\ \A m \in Matches : overdue[m] <= matches[m].state.turn

TimersOK ==
  /\ timers \in [Processes -> Timer \cup {NoTimer}]
  /\ \A p \in Processes : timers[p] # NoTimer => Reached(timers[p])

FiredOK ==
  /\ fired \in [Processes -> SUBSET Request]
  /\ \A p \in Processes : \A req \in fired[p] :
       Reached(req) /\ req.state.turn <= overdue[req.match]

NoticesOK ==
  /\ notices \in [Processes -> SUBSET Notice]
  /\ \A p \in Processes : \A n \in notices[p] : n.do = "lifecycle" => Reached(n)

TimerInv ==
  /\ RowsOK /\ OverdueOK /\ TimersOK /\ FiredOK /\ NoticesOK
  /\ rejoin \in BOOLEAN /\ events \subseteq Events
  /\ early = {}

\* A match does not go back.
Grows ==
  RowsOK' /\ \A m \in Matches : matches'[m].state.turn >= matches[m].state.turn

LEMMA InvImpliesTypes == TimerInv => TypeOK /\ NoTurnIsCutShort
<1> SUFFICES ASSUME TimerInv PROVE TypeOK /\ NoTurnIsCutShort
  OBVIOUS
<1>1. ASSUME NEW m \in Matches
      PROVE  /\ matches[m].status \in {"absent", "active", "finished"}
             /\ matches[m].state \in GameState
             /\ overdue[m] \in 0 .. matches[m].state.turn
  <2>1. matches[m] \in Row
    BY DEF TimerInv, RowsOK
  <2>2. matches[m].state \in GameState /\ matches[m].status \in {"absent", "active", "finished"}
    BY <2>1 DEF Row
  <2>3. matches[m].state.turn \in Nat /\ overdue[m] \in Nat /\ overdue[m] <= matches[m].state.turn
    BY <2>2 DEF GameState, TimerInv, OverdueOK
  <2>4. QED
    BY <2>2, <2>3
<1>2. ASSUME NEW p \in Processes
      PROVE  /\ timers[p] \in Timer \cup {NoTimer}
             /\ fired[p] \subseteq Request
             /\ notices[p] \subseteq Notice
  BY DEF TimerInv, TimersOK, FiredOK, NoticesOK
<1>3. QED
  BY <1>1, <1>2 DEF TypeOK, TimerInv, NoTurnIsCutShort

LEMMA InitInv == Init => TimerInv
<1> SUFFICES ASSUME Init PROVE TimerInv
  OBVIOUS
<1>1. absent \in Row /\ absent.state.turn >= 1 /\ absent.status # "active" /\ 0 <= absent.state.turn
  <2>1. InitialState \in GameState /\ InitialState.turn = 1
    BY InitialStateType DEF InitialState
  <2>2. QED
    BY <2>1 DEF absent, Row
<1>2. RowsOK /\ OverdueOK
  BY <1>1 DEF Init, RowsOK, OverdueOK, Active
<1>3. TimersOK /\ FiredOK /\ NoticesOK
  BY DEF Init, TimersOK, FiredOK, NoticesOK
<1>4. QED
  BY <1>2, <1>3 DEF Init, TimerInv, Events

-----------------------------------------------------------------------------
(* What is unchanged stays right while the matches go on. *)

LEMMA ReachedStays ==
  ASSUME NEW h, Reached(h), RowsOK, Grows
  PROVE  Reached(h)'
<1>1. h.match \in Matches /\ h.state \in GameState /\ h.state.turn \in 1 .. matches[h.match].state.turn
  BY DEF Reached
<1>2. matches[h.match] \in Row /\ matches'[h.match] \in Row
  BY <1>1 DEF RowsOK, Grows
<1>3. matches[h.match].state.turn \in Nat /\ matches'[h.match].state.turn \in Nat
      /\ h.state.turn \in Nat
  BY <1>1, <1>2 DEF Row, GameState
<1>4. h.state.turn \in 1 .. matches'[h.match].state.turn
  BY <1>1, <1>3 DEF Grows
<1>5. QED
  BY <1>1, <1>4 DEF Reached

LEMMA MatchesStay ==
  ASSUME TimerInv, UNCHANGED matches
  PROVE  Grows
<1>1. RowsOK'
  BY DEF TimerInv, RowsOK, Active
<1>2. ASSUME NEW m \in Matches PROVE matches'[m].state.turn >= matches[m].state.turn
  BY DEF TimerInv, RowsOK, Row, GameState
<1>3. QED
  BY <1>1, <1>2 DEF Grows

LEMMA OverdueStays ==
  ASSUME TimerInv, Grows, UNCHANGED overdue
  PROVE  OverdueOK'
<1>1. ASSUME NEW m \in Matches PROVE overdue[m] <= matches'[m].state.turn
  <2>1. matches[m] \in Row /\ matches'[m] \in Row
    BY DEF TimerInv, RowsOK, Grows
  <2>2. matches[m].state.turn \in Nat /\ matches'[m].state.turn \in Nat /\ overdue[m] \in Nat
    BY <2>1 DEF TimerInv, OverdueOK, Row, GameState
  <2>3. matches[m].state.turn <= matches'[m].state.turn /\ overdue[m] <= matches[m].state.turn
    BY <2>2 DEF Grows, TimerInv, OverdueOK
  <2>4. QED
    BY <2>2, <2>3
<1>2. QED
  BY <1>1 DEF TimerInv, OverdueOK

LEMMA TimersStay ==
  ASSUME TimerInv, Grows, UNCHANGED timers
  PROVE  TimersOK'
<1>1. ASSUME NEW p \in Processes, timers[p] # NoTimer PROVE Reached(timers[p])'
  <2>1. PICK h : h = timers[p]
    OBVIOUS
  <2>2. Reached(h)
    BY <1>1, <2>1 DEF TimerInv, TimersOK
  <2>3. Reached(h)'
    BY <2>2, ReachedStays DEF TimerInv
  <2>4. timers'[p] = h
    BY <2>1
  <2>5. QED
    BY <2>3, <2>4 DEF Reached
<1>2. QED
  BY <1>1 DEF TimerInv, TimersOK

LEMMA FiredStays ==
  ASSUME TimerInv, Grows, UNCHANGED <<fired, overdue>>
  PROVE  FiredOK'
<1>1. ASSUME NEW p \in Processes, NEW req \in fired[p]
      PROVE Reached(req)' /\ req.state.turn <= overdue'[req.match]
  BY ReachedStays DEF TimerInv, FiredOK
<1>2. QED
  BY <1>1 DEF TimerInv, FiredOK

\* A handler has less, or nothing more than these, to do.
LEMMA FiredShrinks ==
  ASSUME TimerInv, Grows, UNCHANGED overdue, NEW q \in Processes,
         NEW R, fired' = [fired EXCEPT ![q] = R], R \subseteq fired[q]
  PROVE  FiredOK'
<1>1. fired' \in [Processes -> SUBSET Request] /\ \A p \in Processes : fired'[p] \subseteq fired[p]
  BY DEF TimerInv, FiredOK
<1>2. ASSUME NEW p \in Processes, NEW req \in fired'[p]
      PROVE Reached(req)' /\ req.state.turn <= overdue'[req.match]
  <2>1. req \in fired[p]
    BY <1>1
  <2>2. QED
    BY <2>1, ReachedStays DEF TimerInv, FiredOK
<1>3. QED
  BY <1>1, <1>2 DEF FiredOK

LEMMA NoticesGrow ==
  ASSUME TimerInv, Grows, NEW q \in Processes, NEW N, N \subseteq Notice,
         \A n \in N \ notices[q] : n.do = "lifecycle" => Reached(n)',
         notices' = [notices EXCEPT ![q] = N]
  PROVE  NoticesOK'
<1>1. notices' \in [Processes -> SUBSET Notice]
  BY DEF TimerInv, NoticesOK
<1>2. ASSUME NEW p \in Processes, NEW n \in notices'[p], n.do = "lifecycle"
      PROVE  Reached(n)'
  <2>1. CASE n \in notices[p]
    BY <1>2, <2>1, ReachedStays DEF TimerInv, NoticesOK
  <2>2. CASE n \notin notices[p]
    <3>1. p = q /\ n \in N
      BY <2>2 DEF TimerInv, NoticesOK
    <3>2. QED
      BY <1>2, <2>2, <3>1
  <2>3. QED
    BY <2>1, <2>2
<1>3. QED
  BY <1>1, <1>2 DEF NoticesOK

LEMMA NoticesStay ==
  ASSUME TimerInv, Grows, UNCHANGED notices
  PROVE  NoticesOK'
<1>1. ASSUME NEW p \in Processes, NEW n \in notices[p], n.do = "lifecycle" PROVE Reached(n)'
  BY <1>1, ReachedStays DEF TimerInv, NoticesOK
<1>2. QED
  BY <1>1 DEF TimerInv, NoticesOK

-----------------------------------------------------------------------------
(* The steps. *)

LEMMA AnswersAreNotices ==
  /\ Load \in Notice /\ Load.do # "lifecycle"
  /\ StopRoom \in Notice /\ StopRoom.do # "lifecycle"
  BY DEF Load, StopRoom, Notice

\* What a handler reads of a match is a state it has reached.
LEMMA ResponsesAreReached ==
  ASSUME TimerInv, NEW m \in Matches
  PROVE  Response(m) \in Notice /\ Reached(Response(m))
<1>1. matches[m] \in Row /\ matches[m].state.turn >= 1
  BY DEF TimerInv, RowsOK
<1>2. matches[m].state \in GameState /\ (matches[m].status = "finished") \in BOOLEAN
  BY <1>1 DEF Row
<1>3. Response(m) \in Notice
  BY <1>2 DEF Response, Notice
<1>4. matches[m].state.turn \in 1 .. matches[m].state.turn
  BY <1>1, <1>2 DEF GameState
<1>5. Response(m).match = m /\ Response(m).state = matches[m].state
  BY DEF Response
<1>6. QED
  BY <1>2, <1>3, <1>4, <1>5 DEF Reached

\* A row that is replaced by a later one.
LEMMA RowGrows ==
  ASSUME TimerInv, NEW m \in Matches, NEW row \in Row,
         row.state.turn >= matches[m].state.turn,
         row.status = "active" => row.state.phase # "finished",
         matches' = [matches EXCEPT ![m] = row]
  PROVE  Grows
<1>1. matches' \in [Matches -> Row]
  BY DEF TimerInv, RowsOK
<1>2. ASSUME NEW n \in Matches
      PROVE  /\ matches'[n].state.turn >= 1
             /\ Active(n)' => matches'[n].state.phase # "finished"
             /\ matches'[n].state.turn >= matches[n].state.turn
  <2>1. matches[n] \in Row /\ matches[n].state.turn \in Nat /\ matches[n].state.turn >= 1
    BY DEF TimerInv, RowsOK, Row, GameState
  <2>2. CASE n = m
    <3>1. matches'[n] = row /\ row.state.turn \in Nat
      BY <2>2 DEF TimerInv, RowsOK, Row, GameState
    <3>2. QED
      BY <2>1, <2>2, <3>1 DEF Active
  <2>3. CASE n # m
    <3>1. matches'[n] = matches[n]
      BY <2>3 DEF TimerInv, RowsOK
    <3>2. QED
      BY <2>1, <3>1 DEF Active, TimerInv, RowsOK
  <2>4. QED
    BY <2>2, <2>3
<1>3. QED
  BY <1>1, <1>2 DEF Grows, RowsOK

\* A match that ends as it is.
LEMMA EndedGrows ==
  ASSUME TimerInv, NEW m \in Matches, NEW st \in {"active", "finished"},
         st = "active" => matches[m].state.phase # "finished",
         matches' = [matches EXCEPT ![m].status = st]
  PROVE  Grows
<1>1. PICK row \in Row : row = [status |-> st, state |-> matches[m].state]
  BY DEF TimerInv, RowsOK, Row
<1>2. matches[m] \in Row /\ matches \in [Matches -> Row]
  BY DEF TimerInv, RowsOK
<1>3. [matches[m] EXCEPT !.status = st] = row
  BY <1>1, <1>2 DEF Row
<1>4. matches' = [matches EXCEPT ![m] = row]
  BY <1>3
<1>5. row.state.turn >= matches[m].state.turn
  BY <1>1, <1>2 DEF Row, GameState
<1>6. QED
  BY <1>1, <1>4, <1>5, RowGrows

LEMMA HappensInEvents ==
  ASSUME TimerInv, NEW e \in Events, happens(e)
  PROVE  events' \subseteq Events
  BY DEF happens, TimerInv

\* A handler is given something that is no state of a match.
LEMMA NotifyKeeps ==
  ASSUME TimerInv, Grows, NEW p \in Processes, NEW n \in Notice,
         n.do = "lifecycle" => Reached(n)', Notify(p, n)
  PROVE  NoticesOK'
<1>1. PICK N : N = notices[p] \cup {n}
  OBVIOUS
<1>2. N \subseteq Notice /\ \A x \in N \ notices[p] : x = n
  BY <1>1 DEF TimerInv, NoticesOK
<1>3. notices' = [notices EXCEPT ![p] = N]
  BY <1>1 DEF Notify
<1>4. QED
  BY <1>2, <1>3, NoticesGrow

\* A move and the bots' moves after it.
LEMMA MoveThroughKeeps ==
  ASSUME TimerInv, NEW p \in Processes, NEW m \in Matches, NEW s \in GameState,
         NEW answers \in BOOLEAN,
         s.turn >= matches[m].state.turn, MoveThrough(p, m, s, answers)
  PROVE  Grows /\ NoticesOK' /\ events' \subseteq Events
<1>1. PICK k \in 0 .. maxBotTurnSteps :
        /\ BotsCanMove(advanceGameStateVersion(matches[m].state, s), k)
        /\ matches' = [matches EXCEPT ![m] = Moved(m, s, k)]
        /\ \/ /\ Notify(p, IF Moved(m, s, k).status = "finished"
                           THEN [do |-> "lifecycle", match |-> m, state |-> Moved(m, s, k).state,
                                 over |-> Moved(m, s, k).status = "finished"]
                           ELSE Load)
              /\ UNCHANGED events
           \/ /\ happens("failure")
              /\ IF answers
                 THEN Notify(p, [do |-> "lifecycle", match |-> m, state |-> Moved(m, s, k).state,
                                 over |-> Moved(m, s, k).status = "finished"])
                 ELSE UNCHANGED notices
  BY Zenon DEF MoveThrough
<1>2. matches[m] \in Row /\ matches[m].state \in GameState /\ matches[m].state.turn >= 1
  BY DEF TimerInv, RowsOK, Row
<1>3. PICK b \in GameState : b = advanceGameStateVersion(matches[m].state, s) /\ b.turn = s.turn
  <2>1. advanceGameStateVersion(matches[m].state, s) \in GameState
    BY <1>2, AdvanceVersion
  <2>2. advanceGameStateVersion(matches[m].state, s).turn = s.turn
    BY <1>2 DEF advanceGameStateVersion, GameState
  <2>3. QED
    BY <2>1, <2>2
<1>4. PICK t \in GameState : t = BotMoves(b, k) /\ t.turn >= b.turn
  <2>1. k \in Nat
    BY <1>1 DEF maxBotTurnSteps
  <2>2. QED
    BY <1>1, <1>3, <2>1, BotsAdvance
<1>5. PICK row \in Row : /\ row = Moved(m, s, k)
                         /\ row.state = t
                         /\ row.status = IF t.phase = "finished" THEN "finished" ELSE "active"
  <2>1. Moved(m, s, k) = [status |-> IF t.phase = "finished" THEN "finished" ELSE "active",
                          state |-> t]
    BY <1>3, <1>4 DEF Moved
  <2>2. QED
    BY <2>1 DEF Row
<1>6. t.turn >= matches[m].state.turn /\ t.turn \in 1 .. t.turn
  BY <1>2, <1>3, <1>4 DEF GameState
<1>7. Grows
  <2>1. row.status = "active" => row.state.phase # "finished"
    BY <1>5
  <2>2. matches' = [matches EXCEPT ![m] = row]
    BY <1>1, <1>5
  <2>3. QED
    BY <1>5, <1>6, <2>1, <2>2, RowGrows
<1>8. NoticesOK'
  <2>1. PICK over \in BOOLEAN : over = (row.status = "finished")
    OBVIOUS
  <2>2. PICK n \in Notice :
          n = [do |-> "lifecycle", match |-> m, state |-> t, over |-> over]
    BY DEF Notice
  <2>3. n = [do |-> "lifecycle", match |-> m, state |-> Moved(m, s, k).state,
             over |-> Moved(m, s, k).status = "finished"]
    BY <1>5, <2>1, <2>2, Zenon
  <2>4. Notify(p, n) \/ Notify(p, Load) \/ UNCHANGED notices
    BY <1>1, <2>3, Zenon
  <2>5. Reached(n)'
    <3>1. matches'[m] = row
      BY <1>1, <1>5 DEF TimerInv, RowsOK
    <3>2. n.match = m /\ n.state = t
      BY <2>2
    <3>3. QED
      BY <1>5, <1>6, <3>1, <3>2 DEF Reached
  <2>6. QED
    BY <1>7, <2>4, <2>5, AnswersAreNotices, NotifyKeeps, NoticesStay
<1>9. events' \subseteq Events
  <2>1. "failure" \in Events
    BY DEF Events
  <2>2. QED
    BY <1>1, <2>1, HappensInEvents DEF TimerInv
<1>10. QED
  BY <1>7, <1>8, <1>9

LEMMA StartRoomStep ==
  ASSUME TimerInv, NEW p \in Processes, NEW m \in Matches, StartRoom(p, m)
  PROVE  TimerInv'
<1>1. matches[m].state.phase # "finished"
  BY InitialStateType DEF StartRoom, absent
<1>2. Grows
  BY <1>1, EndedGrows DEF StartRoom
<1>3. NoticesOK'
  BY <1>2, AnswersAreNotices, NotifyKeeps DEF StartRoom
<1>4. OverdueOK' /\ TimersOK' /\ FiredOK'
  BY <1>2, OverdueStays, TimersStay, FiredStays DEF StartRoom
<1>5. QED
  BY <1>2, <1>3, <1>4 DEF TimerInv, Grows, StartRoom

LEMMA MatchActionStep ==
  ASSUME TimerInv, NEW p \in Processes, NEW m \in Matches, MatchAction(p, m)
  PROVE  TimerInv'
<1>1. PICK move \in Moves : /\ Verdict(matches[m].state, matches[m].state.player, move) = "ok"
                            /\ MoveThrough(p, m, ApplyAction(matches[m].state, move), TRUE)
  BY DEF MatchAction
<1>2. PICK s \in GameState : s = matches[m].state
  BY DEF TimerInv, RowsOK, Row
<1>3. s.phase # "finished"
  BY <1>1, <1>2 DEF Verdict
<1>4. ApplyAction(s, move) \in GameState /\ ApplyAction(s, move).turn >= s.turn
  BY <1>3, EngineTypes, TurnsAdvance
<1>5. Grows /\ NoticesOK' /\ events' \subseteq Events
  BY <1>1, <1>2, <1>4, MoveThroughKeeps
<1>6. OverdueOK' /\ TimersOK' /\ FiredOK'
  BY <1>5, OverdueStays, TimersStay, FiredStays DEF MatchAction
<1>7. QED
  BY <1>5, <1>6 DEF TimerInv, Grows, MatchAction

LEMMA LookStep ==
  ASSUME TimerInv, NEW p \in Processes, NEW m \in Matches, Look(p, m)
  PROVE  TimerInv'
<1>1. Grows
  BY MatchesStay DEF Look
<1>2. PICK n \in Notice : n = Response(m) /\ Reached(n)
  BY ResponsesAreReached
<1>3. Reached(n)'
  BY <1>1, <1>2, ReachedStays DEF TimerInv
<1>4. NoticesOK'
  BY <1>1, <1>2, <1>3, NotifyKeeps DEF Look
<1>5. OverdueOK' /\ TimersOK' /\ FiredOK'
  BY <1>1, OverdueStays, TimersStay, FiredStays DEF Look
<1>6. events' \subseteq Events
  BY HappensInEvents DEF Look, Events
<1>7. QED
  BY <1>1, <1>4, <1>5, <1>6 DEF TimerInv, Grows, Look

LEMMA LeaveMatchStep ==
  ASSUME TimerInv, NEW p \in Processes, NEW m \in Matches, LeaveMatch(p, m)
  PROVE  TimerInv'
<1>1. Grows
  BY EndedGrows DEF LeaveMatch
<1>2. NoticesOK'
  BY <1>1, AnswersAreNotices, NotifyKeeps DEF LeaveMatch
<1>3. OverdueOK' /\ TimersOK' /\ FiredOK'
  BY <1>1, OverdueStays, TimersStay, FiredStays DEF LeaveMatch
<1>4. events' \subseteq Events
  BY HappensInEvents DEF LeaveMatch, Events
<1>5. QED
  BY <1>1, <1>2, <1>3, <1>4 DEF TimerInv, Grows, LeaveMatch

LEMMA CleanupStep ==
  ASSUME TimerInv, NEW m \in Matches, CleanupStaleRooms(m)
  PROVE  TimerInv'
<1>1. Grows
  BY EndedGrows DEF CleanupStaleRooms
<1>2. OverdueOK' /\ TimersOK' /\ FiredOK' /\ NoticesOK'
  BY <1>1, OverdueStays, TimersStay, FiredStays, NoticesStay DEF CleanupStaleRooms
<1>3. events' \subseteq Events
  BY HappensInEvents DEF CleanupStaleRooms, Events
<1>4. QED
  BY <1>1, <1>2, <1>3 DEF TimerInv, Grows, CleanupStaleRooms

\* A timer that is removed, or set for a state the match has reached.
LEMMA TimersChange ==
  ASSUME TimerInv, Grows, NEW p \in Processes, NEW e,
         e # NoTimer => e \in Timer /\ Reached(e)',
         timers' = [timers EXCEPT ![p] = e]
  PROVE  TimersOK'
<1>1. timers' \in [Processes -> Timer \cup {NoTimer}]
  BY DEF TimerInv, TimersOK
<1>2. ASSUME NEW q \in Processes, timers'[q] # NoTimer PROVE Reached(timers[q])'
  <2>1. CASE q = p
    <3>1. timers'[q] = e
      BY <2>1 DEF TimerInv, TimersOK
    <3>2. QED
      BY <1>2, <3>1 DEF Reached
  <2>2. CASE q # p
    <3>1. PICK h : h = timers[q]
      OBVIOUS
    <3>2. timers'[q] = h
      BY <2>2, <3>1 DEF TimerInv, TimersOK
    <3>3. Reached(h)'
      BY <1>2, <3>1, <3>2, ReachedStays DEF TimerInv, TimersOK
    <3>4. QED
      BY <3>2, <3>3 DEF Reached
  <2>3. QED
    BY <2>1, <2>2
<1>3. QED
  BY <1>1, <1>2 DEF TimersOK

LEMMA HandleStep ==
  ASSUME TimerInv, NEW p \in Processes, NEW n \in notices[p], Handle(p, n)
  PROVE  TimerInv'
<1>1. UNCHANGED <<matches, overdue, fired, rejoin, events, early>>
  BY DEF Handle
<1>2. Grows
  BY <1>1, MatchesStay
<1>3. n \in Notice
  BY DEF TimerInv, NoticesOK
<1>4. ASSUME notices' = handled(p, n) PROVE NoticesOK'
  <2>1. PICK N : N = notices[p] \ {n}
    OBVIOUS
  <2>2. notices' = [notices EXCEPT ![p] = N]
    BY <1>4, <2>1 DEF handled
  <2>3. N \subseteq Notice /\ N \ notices[p] = {}
    BY <2>1 DEF TimerInv, NoticesOK
  <2>4. QED
    BY <1>2, <2>2, <2>3, NoticesGrow
<1>5. CASE n.do = "stop"
  <2>1. timers' = [timers EXCEPT ![p] = NoTimer] /\ notices' = handled(p, n)
    BY <1>5 DEF Handle
  <2>2. TimersOK'
    BY <1>2, <2>1, TimersChange
  <2>3. QED
    BY <1>1, <1>2, <1>4, <2>1, <2>2, OverdueStays, FiredStays DEF TimerInv, Grows
<1>6. CASE n.do = "lifecycle"
  <2>1. /\ IF n.over THEN stopMatch(p, n.match) ELSE Schedule(p, n.match, n.state)
        /\ notices' = handled(p, n)
    BY <1>6 DEF Handle
  <2>2. n.match \in Matches /\ n.state \in GameState /\ Reached(n)'
    <3>1. Reached(n)
      BY <1>6 DEF TimerInv, NoticesOK
    <3>2. QED
      BY <1>2, <3>1, ReachedStays DEF Reached, TimerInv
  <2>3. TimersOK'
    <3>1. CASE UNCHANGED timers
      BY <1>2, <3>1, TimersStay
    <3>2. CASE n.over /\ ~UNCHANGED timers
      <4>1. timers' = [timers EXCEPT ![p] = NoTimer]
        <5>1. timers' = [timers EXCEPT ![p] = IF timers[p] # NoTimer /\ timers[p].match = n.match
                                              THEN NoTimer ELSE timers[p]]
          BY <2>1, <3>2 DEF stopMatch
        <5>2. [timers EXCEPT ![p] = timers[p]] = timers
          BY DEF TimerInv, TimersOK
        <5>3. QED
          BY <3>2, <5>1, <5>2
      <4>2. QED
        BY <1>2, <4>1, TimersChange
    <3>3. CASE ~n.over /\ ~UNCHANGED timers
      <4>1. PICK e : e = [match |-> n.match, state |-> n.state, running |-> TRUE]
        OBVIOUS
      <4>2. timers' = [timers EXCEPT ![p] = e]
        BY <2>1, <3>3, <4>1, Zenon DEF Schedule
      <4>3. e \in Timer /\ e.match = n.match /\ e.state = n.state
        BY <2>2, <4>1 DEF Timer
      <4>4. Reached(e)'
        BY <2>2, <4>3 DEF Reached
      <4>5. QED
        BY <1>2, <4>2, <4>3, <4>4, TimersChange
    <3>4. QED
      BY <3>1, <3>2, <3>3
  <2>4. QED
    BY <1>1, <1>2, <1>4, <2>1, <2>3, OverdueStays, FiredStays DEF TimerInv, Grows
<1>7. CASE n.do = "load"
  <2>1. PICK R : R = {Response(m) : m \in {m \in Matches : Active(m)}}
    OBVIOUS
  <2>2. notices' = [handled(p, n) EXCEPT ![p] = @ \cup R] /\ UNCHANGED timers
    BY <1>7, <2>1 DEF Handle
  <2>3. PICK N : N = (notices[p] \ {n}) \cup R
    OBVIOUS
  <2>4. notices' = [notices EXCEPT ![p] = N]
    <3>1. PICK f : f = handled(p, n)
      OBVIOUS
    <3>2. f = [notices EXCEPT ![p] = notices[p] \ {n}]
      BY <3>1 DEF handled
    <3>3. f[p] = notices[p] \ {n}
      BY <3>2 DEF TimerInv, NoticesOK
    <3>4. notices' = [f EXCEPT ![p] = f[p] \cup R]
      BY <2>2, <3>1
    <3>5. notices' = [f EXCEPT ![p] = N]
      BY <2>3, <3>3, <3>4
    <3>6. QED
      BY <3>2, <3>5 DEF TimerInv, NoticesOK
  <2>5. ASSUME NEW x \in R PROVE x \in Notice /\ Reached(x)'
    <3>1. PICK m \in Matches : x = Response(m)
      BY <2>1
    <3>2. x \in Notice /\ Reached(x)
      BY <3>1, ResponsesAreReached
    <3>3. QED
      BY <1>2, <3>2, ReachedStays DEF TimerInv
  <2>6. N \subseteq Notice /\ \A x \in N \ notices[p] : Reached(x)'
    BY <2>3, <2>5 DEF TimerInv, NoticesOK
  <2>7. NoticesOK'
    BY <1>2, <2>4, <2>6, NoticesGrow
  <2>8. QED
    BY <1>1, <1>2, <2>2, <2>7, OverdueStays, FiredStays, TimersStay DEF TimerInv, Grows
<1>8. QED
  BY <1>3, <1>5, <1>6, <1>7 DEF Notice

\* The deadline that fires is one of a turn the match has reached, and now passed.
LEMMA FireStep ==
  ASSUME TimerInv, NEW p \in Processes, Fire(p)
  PROVE  TimerInv'
<1>1. Grows
  BY MatchesStay DEF Fire
<1>2. PICK e : e = timers[p]
  OBVIOUS
<1>3. e \in Timer /\ Reached(e)
  BY <1>2 DEF Fire, TimerInv, TimersOK
<1>4. e.match \in Matches /\ e.state \in GameState /\ e.state.turn \in Nat
  BY <1>3 DEF Timer, GameState
<1>5. PICK t \in Nat : t = (IF e.state.turn > overdue[e.match] THEN e.state.turn
                            ELSE overdue[e.match])
  BY <1>4 DEF TimerInv, OverdueOK
<1>6. overdue' = [overdue EXCEPT ![e.match] = t]
  BY <1>2, <1>5 DEF Fire
<1>7. \A m \in Matches : overdue'[m] \in Nat /\ overdue[m] \in Nat /\ overdue'[m] >= overdue[m]
  BY <1>4, <1>5, <1>6 DEF TimerInv, OverdueOK
<1>8. overdue'[e.match] >= e.state.turn
  BY <1>4, <1>5, <1>6 DEF TimerInv, OverdueOK
<1>9. OverdueOK'
  <2>1. \A m \in Matches : matches'[m] = matches[m]
    BY DEF Fire
  <2>2. ASSUME NEW m \in Matches PROVE overdue'[m] <= matches[m].state.turn
    <3>1. CASE m = e.match
      <4>1. overdue'[m] = t
        BY <1>6, <3>1 DEF TimerInv, OverdueOK
      <4>2. e.state.turn <= matches[m].state.turn
        BY <1>3, <1>4, <3>1 DEF Reached
      <4>3. overdue[m] <= matches[m].state.turn
        BY DEF TimerInv, OverdueOK
      <4>4. QED
        BY <1>5, <3>1, <4>1, <4>2, <4>3
    <3>2. CASE m # e.match
      BY <1>6, <3>2 DEF TimerInv, OverdueOK
    <3>3. QED
      BY <3>1, <3>2
  <2>3. overdue' \in [Matches -> Nat]
    BY <1>6 DEF TimerInv, OverdueOK
  <2>4. QED
    BY <2>1, <2>2, <2>3 DEF OverdueOK
<1>10. TimersOK'
  <2>1. PICK d : d = [e EXCEPT !.running = FALSE]
    OBVIOUS
  <2>2. d \in Timer /\ d.match = e.match /\ d.state = e.state
    BY <1>3, <2>1 DEF Timer
  <2>3. timers' = [timers EXCEPT ![p] = d]
    BY <1>2, <2>1 DEF Fire
  <2>4. Reached(e)'
    BY <1>1, <1>3, ReachedStays DEF TimerInv
  <2>5. Reached(d)'
    BY <2>2, <2>4 DEF Reached
  <2>6. QED
    BY <1>1, <2>2, <2>3, <2>5, TimersChange
<1>11. FiredOK'
  <2>1. PICK r : r = [match |-> e.match, state |-> e.state]
    OBVIOUS
  <2>2. fired' = [fired EXCEPT ![p] = fired[p] \cup {r}]
    BY <1>2, <2>1 DEF Fire
  <2>3. r \in Request /\ r.match = e.match /\ r.state = e.state
    BY <1>4, <2>1 DEF Request
  <2>4. fired' \in [Processes -> SUBSET Request]
    BY <2>2, <2>3 DEF TimerInv, FiredOK
  <2>5. Reached(r)'
    <3>1. Reached(e)'
      BY <1>1, <1>3, ReachedStays DEF TimerInv
    <3>2. QED
      BY <2>3, <3>1 DEF Reached
  <2>6. ASSUME NEW q \in Processes, NEW req \in fired'[q]
        PROVE  Reached(req)' /\ req.state.turn <= overdue'[req.match]
    <3>1. CASE req = r
      BY <1>4, <1>7, <1>8, <2>3, <2>5, <3>1
    <3>2. CASE req # r
      <4>1. req \in fired[q]
        BY <2>2, <3>2 DEF TimerInv, FiredOK
      <4>2. Reached(req) /\ req.state.turn <= overdue[req.match]
        BY <4>1 DEF TimerInv, FiredOK
      <4>3. req.match \in Matches /\ req.state.turn \in Nat
        BY <4>2 DEF Reached, GameState
      <4>4. req.state.turn <= overdue'[req.match]
        BY <1>7, <4>2, <4>3
      <4>5. QED
        BY <1>1, <4>2, <4>4, ReachedStays DEF TimerInv
    <3>3. QED
      BY <3>1, <3>2
  <2>7. QED
    BY <2>4, <2>6 DEF FiredOK
<1>12. NoticesOK'
  BY <1>1, NoticesStay DEF Fire
<1>13. QED
  BY <1>1, <1>9, <1>10, <1>11, <1>12 DEF TimerInv, Grows, Fire

\* The timeout that ends a turn was set for that very turn, so that its deadline
\* has passed.
LEMMA ApplyTimeoutStep ==
  ASSUME TimerInv, NEW p \in Processes, NEW req \in fired[p], ApplyTimeout(p, req)
  PROVE  TimerInv'
<1>1. fired' = [fired EXCEPT ![p] = fired[p] \ {req}] /\ UNCHANGED <<overdue, timers, rejoin>>
  BY DEF ApplyTimeout
<1>2. Reached(req) /\ req.state.turn <= overdue[req.match]
  BY DEF TimerInv, FiredOK
<1>3. SUFFICES Grows /\ NoticesOK' /\ events' \subseteq Events /\ early' = {}
  <2>1. fired[p] \ {req} \subseteq fired[p]
    OBVIOUS
  <2>2. FiredOK'
    BY <1>1, <1>3, <2>1, FiredShrinks
  <2>3. OverdueOK' /\ TimersOK'
    BY <1>1, <1>3, OverdueStays, TimersStay
  <2>4. QED
    BY <1>1, <1>3, <2>2, <2>3 DEF TimerInv, Grows
<1>4. ASSUME NEW m \in Matches, Active(m), matchesExpectedTimeoutState(m, req),
             MoveThrough(p, m, ApplyTurnTimeout(matches[m].state), FALSE),
             early' = early \cup {[match |-> m, turn |-> t] :
                                    t \in {matches[m].state.turn} \ (1 .. overdue[m])}
      PROVE  Grows /\ NoticesOK' /\ events' \subseteq Events /\ early' = {}
  <2>1. PICK s \in GameState : s = matches[m].state /\ s.phase # "finished" /\ s.turn >= 1
    BY <1>4 DEF TimerInv, RowsOK, Row
  <2>2. "place_tile" \in Moves
    BY DEF Moves
  <2>3. ApplyTurnTimeout(s) \in GameState /\ ApplyTurnTimeout(s).turn >= s.turn
    BY <2>1, <2>2, EngineTypes, TurnsAdvance
  <2>4. Grows /\ NoticesOK' /\ events' \subseteq Events
    BY <1>4, <2>1, <2>3, MoveThroughKeeps
  <2>5. m = req.match /\ s.turn = req.state.turn
    BY <1>4, <2>1 DEF matchesExpectedTimeoutState
  <2>6. s.turn \in 1 .. overdue[m]
    <3>1. s.turn \in Nat /\ overdue[m] \in Nat
      BY DEF GameState, TimerInv, OverdueOK
    <3>2. QED
      BY <1>2, <2>1, <2>5, <3>1
  <2>7. {matches[m].state.turn} \ (1 .. overdue[m]) = {}
    BY <2>1, <2>6
  <2>8. early' = {}
    BY <1>4, <2>7 DEF TimerInv
  <2>9. QED
    BY <2>4, <2>8
<1>5. ASSUME Notify(p, Load), UNCHANGED <<matches, events, early>>
      PROVE  Grows /\ NoticesOK' /\ events' \subseteq Events /\ early' = {}
  <2>1. Grows
    BY <1>5, MatchesStay
  <2>2. QED
    BY <1>5, <2>1, AnswersAreNotices, NotifyKeeps DEF TimerInv
<1>6. ASSUME UNCHANGED <<matches, notices, events, early>>
      PROVE  Grows /\ NoticesOK' /\ events' \subseteq Events /\ early' = {}
  BY <1>6, MatchesStay, NoticesStay DEF TimerInv
<1>7. QED
  BY <1>4, <1>5, <1>6 DEF ApplyTimeout

LEMMA TimeoutFailsStep ==
  ASSUME TimerInv, NEW p \in Processes, NEW req \in fired[p], TimeoutFails(p, req)
  PROVE  TimerInv'
<1>1. Grows
  BY MatchesStay DEF TimeoutFails
<1>2. fired[p] \ {req} \subseteq fired[p]
  OBVIOUS
<1>3. FiredOK'
  BY <1>1, <1>2, FiredShrinks DEF TimeoutFails
<1>4. OverdueOK' /\ TimersOK' /\ NoticesOK'
  BY <1>1, OverdueStays, TimersStay, NoticesStay DEF TimeoutFails
<1>5. events' \subseteq Events
  BY HappensInEvents DEF TimeoutFails, Events
<1>6. QED
  BY <1>1, <1>3, <1>4, <1>5 DEF TimerInv, Grows, TimeoutFails

LEMMA LoadFailsStep ==
  ASSUME TimerInv, NEW p \in Processes, LoadFails(p)
  PROVE  TimerInv'
<1>1. Grows
  BY MatchesStay DEF LoadFails
<1>2. PICK N : N = notices[p] \ {Load}
  OBVIOUS
<1>3. notices' = [notices EXCEPT ![p] = N]
  BY <1>2 DEF LoadFails, handled
<1>4. N \subseteq Notice /\ N \ notices[p] = {}
  BY <1>2 DEF TimerInv, NoticesOK
<1>5. NoticesOK'
  BY <1>1, <1>3, <1>4, NoticesGrow
<1>6. OverdueOK' /\ TimersOK' /\ FiredOK'
  BY <1>1, OverdueStays, TimersStay, FiredStays DEF LoadFails
<1>7. events' \subseteq Events
  BY HappensInEvents DEF LoadFails, Events
<1>8. QED
  BY <1>1, <1>5, <1>6, <1>7 DEF TimerInv, Grows, LoadFails

LEMMA CrashStep ==
  ASSUME TimerInv, NEW p \in Processes, Crash(p)
  PROVE  TimerInv'
<1>1. Grows
  BY MatchesStay DEF Crash
<1>2. TimersOK'
  BY <1>1, TimersChange DEF Crash
<1>3. FiredOK'
  <2>1. PICK R : R = {}
    OBVIOUS
  <2>2. fired' = [fired EXCEPT ![p] = R] /\ UNCHANGED overdue
    BY <2>1 DEF Crash
  <2>3. R \subseteq fired[p]
    BY <2>1
  <2>4. QED
    BY <1>1, <2>2, <2>3, FiredShrinks
<1>4. NoticesOK'
  BY <1>1, NoticesGrow DEF Crash
<1>5. OverdueOK'
  BY <1>1, OverdueStays DEF Crash
<1>6. events' \subseteq Events
  BY HappensInEvents DEF Crash, Events
<1>7. QED
  BY <1>1, <1>2, <1>3, <1>4, <1>5, <1>6 DEF TimerInv, Grows, Crash

LEMMA RejoinStep ==
  ASSUME TimerInv, NEW p \in Processes, Rejoin(p)
  PROVE  TimerInv'
<1>1. Grows
  BY MatchesStay DEF Rejoin
<1>2. NoticesOK'
  BY <1>1, AnswersAreNotices, NotifyKeeps DEF Rejoin
<1>3. OverdueOK' /\ TimersOK' /\ FiredOK'
  BY <1>1, OverdueStays, TimersStay, FiredStays DEF Rejoin
<1>4. QED
  BY <1>1, <1>2, <1>3 DEF TimerInv, Grows, Rejoin

LEMMA StutterStep ==
  ASSUME TimerInv, UNCHANGED vars
  PROVE  TimerInv'
<1>1. Grows
  BY MatchesStay DEF vars
<1>2. OverdueOK' /\ TimersOK' /\ FiredOK' /\ NoticesOK'
  BY <1>1, OverdueStays, TimersStay, FiredStays, NoticesStay DEF vars
<1>3. QED
  BY <1>1, <1>2 DEF TimerInv, Grows, vars

LEMMA InvariantHolds == Spec => []TimerInv
<1>1. TimerInv /\ [Next]_vars => TimerInv'
  <2> SUFFICES ASSUME TimerInv, [Next]_vars PROVE TimerInv'
    OBVIOUS
  <2>1. CASE \E p \in Processes, m \in Matches :
               StartRoom(p, m) \/ MatchAction(p, m) \/ Look(p, m) \/ LeaveMatch(p, m)
    BY <2>1, StartRoomStep, MatchActionStep, LookStep, LeaveMatchStep
  <2>2. CASE \E m \in Matches : CleanupStaleRooms(m)
    BY <2>2, CleanupStep
  <2>3. CASE \E p \in Processes : \E n \in notices[p] : Handle(p, n)
    BY <2>3, HandleStep
  <2>4. CASE \E p \in Processes : \E req \in fired[p] : ApplyTimeout(p, req) \/ TimeoutFails(p, req)
    BY <2>4, ApplyTimeoutStep, TimeoutFailsStep
  <2>5. CASE \E p \in Processes : Fire(p) \/ LoadFails(p) \/ Crash(p) \/ Rejoin(p)
    BY <2>5, FireStep, LoadFailsStep, CrashStep, RejoinStep
  <2>6. CASE UNCHANGED vars
    BY <2>6, StutterStep
  <2>7. QED
    BY <2>1, <2>2, <2>3, <2>4, <2>5, <2>6 DEF Next
<1>2. QED
  BY InitInv, <1>1, PTL DEF Spec

\* The rows, the timers of every process, the timeouts under way and what the
\* handlers hold are well-formed, and no turn is marked overdue that the match
\* has not reached. (turn_timer.go, Schedule and applyTimeout.)
THEOREM TimersAreTyped == Spec => []TypeOK
  BY InvariantHolds, InvImpliesTypes, PTL

\* A timeout ends no turn before its deadline, whatever old timers are still set
\* or have fired on any number of processes, for this match or an earlier one.
\* (Schedule, applyTimeout, matchesExpectedTimeoutState.)
THEOREM NoTurnEndsEarly == Spec => []NoTurnIsCutShort
  BY InvariantHolds, InvImpliesTypes, PTL
=============================================================================
