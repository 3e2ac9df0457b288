-------------------------- MODULE TurnMachineProofs --------------------------
(* Lemmas about the turn automaton. *)
EXTENDS TurnMachine, TLAPS

\* A match starts in a well-formed state with a player to move.
LEMMA InitialStateType ==
  InitialState \in GameState /\ InitialState.phase # "finished"
  BY SeatAssumption, DeckAssumption DEF InitialState, GameState, Phases

\* Whatever is played in a running match - an action, a timeout or a bot's
\* choice - leads to a well-formed state.
LEMMA EngineTypes ==
  ASSUME NEW s \in GameState, s.phase # "finished", NEW move \in Moves
  PROVE  /\ placeTile(s) \in GameState
         /\ resolveTurn(s) \in GameState
         /\ ApplyAction(s, move) \in GameState
         /\ ApplyTurnTimeout(s) \in GameState
         /\ BuildBotAction(s) \in Moves
<1>1. s.player \in Players
  BY DEF GameState
<1>2. ASSUME NEW t \in GameState, t.player \in Players
      PROVE resolveTurn(t) \in GameState
  <2>1. CASE t.deck = 0
    BY <2>1, <1>2 DEF resolveTurn, GameState, Phases
  <2>2. CASE t.deck # 0
    <3>1. NextPlayer[t.player] \in Players /\ t.deck - 1 \in Nat /\ t.turn + 1 \in Nat
      BY <1>2, <2>2, SeatAssumption DEF GameState
    <3>2. QED
      BY <1>2, <2>2, <3>1, SeatAssumption DEF resolveTurn, GameState, Phases
  <2>3. QED
    BY <2>1, <2>2
<1>3. placeTile(s) \in GameState /\ placeTile(s).player \in Players
  BY <1>1, SeatAssumption DEF placeTile, GameState, Phases
<1>4. resolveTurn(s) \in GameState
  BY <1>1, <1>2
<1>5. resolveTurn(placeTile(s)) \in GameState
  BY <1>2, <1>3
<1>6. QED
  BY <1>3, <1>4, <1>5 DEF ApplyAction, ApplyTurnTimeout, BuildBotAction, Moves

\* The persisted version is the current one plus one, whatever the engine returned.
LEMMA AdvanceVersion ==
  ASSUME NEW s \in GameState, NEW n \in GameState
  PROVE  /\ advanceGameStateVersion(s, n) \in GameState
         /\ advanceGameStateVersion(s, n).version = s.version + 1
         /\ advanceGameStateVersion(s, n).phase = n.phase
  BY DEF advanceGameStateVersion, GameState
=============================================================================
