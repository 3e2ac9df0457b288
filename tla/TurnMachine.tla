----------------------------- MODULE TurnMachine -----------------------------
(***************************************************************************)
(* The turn automaton of the Carcassonne engine: which phase a match is    *)
(* in, whose turn it is, and what a legal action, a turn timeout or a bot  *)
(* does to them.  Board, tiles, meeples and scores are abstracted away;    *)
(* `deck` counts the tiles that can still be drawn and placed.             *)
(***************************************************************************)
EXTENDS Integers

CONSTANTS
  Players,      \* actors seated in a match, people and bots
  Bots,         \* the seats played by the server
  NextPlayer,   \* seat order: the player whose turn follows a player's turn
  FirstPlayer,  \* seat 0
  NoPlayer,     \* the empty currentPlayerId of a finished match
  Deck          \* placeable tiles left once the first tile has been drawn

ASSUME SeatAssumption ==
  /\ Bots \subseteq Players
  /\ NextPlayer \in [Players -> Players]
  /\ FirstPlayer \in Players
  /\ NoPlayer \notin Players

\* BuildInitialMatch always finds a first tile and the catalogue's deck is
\* never empty after it.
ASSUME DeckAssumption == Deck \in Nat \ {0}

Humans == Players \ Bots
Phases == {"place_tile", "place_meeple", "finished"}

\* "skip_meeple" stands for both moves that end a turn: place_meeple and
\* skip_meeple run the same resolveTurn and differ only in abstracted data.
Moves == {"place_tile", "skip_meeple"}

\* A match has a current player until it is finished; versions count from 1.
GameState ==
  {s \in [version : Nat \ {0}, phase : Phases, turn : Nat,
          player : Players \cup {NoPlayer}, deck : Nat] :
     s.phase = "finished" <=> s.player = NoPlayer}

InitialState == [version |-> 1, phase |-> "place_tile", turn |-> 1,
                 player |-> FirstPlayer, deck |-> Deck]

placeTile(s) == [s EXCEPT !.phase = "place_meeple"]

\* (mutant) the draw after the last tile is missed
resolveTurnLate(s) ==
  IF s.deck < 0
  THEN [s EXCEPT !.phase = "finished", !.player = NoPlayer]
  ELSE [s EXCEPT !.phase = "place_tile", !.turn = @ + 1, !.deck = @ - 1,
                 !.player = NextPlayer[@]]

\* resolveTurn: score, then draw; a turn with nothing left to draw ends the match.
resolveTurn(s) ==
  IF s.deck = 0
  THEN [s EXCEPT !.phase = "finished", !.player = NoPlayer]
  ELSE [s EXCEPT !.phase = "place_tile", !.turn = @ + 1, !.deck = @ - 1,
                 !.player = IF s.player \in Players THEN NextPlayer[s.player]
                                                    ELSE FirstPlayer]

\* The engine's answer to an action, in the order of its checks.
Verdict(s, actor, move) ==
  IF s.phase = "finished" THEN "invalid"
  ELSE IF s.player # actor THEN "not_your_turn"
  ELSE IF (move = "place_tile") # (s.phase = "place_tile") THEN "invalid"
  ELSE "ok"

ApplyAction(s, move) == IF move = "place_tile" THEN placeTile(s) ELSE resolveTurn(s)

\* A turn that times out is finished by the server: while a tile is pending it
\* is placed at random and the turn resolved at once, in a single version.
ApplyTurnTimeout(s) ==
  IF s.phase = "place_tile" THEN resolveTurn(placeTile(s)) ELSE resolveTurn(s)

BuildBotAction(s) == IF s.phase = "place_tile" THEN "place_tile" ELSE "skip_meeple"

\* advanceGameStateVersion: the version the engine returns is ignored.
advanceGameStateVersion(current, next) == [next EXCEPT !.version = current.version + 1]

\* currentTurnBotPlayer: it is a bot's turn in s.
BotToMove(s) == s.phase # "finished" /\ s.player \in Bots
=============================================================================
