----------------------------- MODULE MCTurnTimer -----------------------------
(* Instances of TurnTimer for TLC. *)
EXTENDS TurnTimer

CONSTANTS ann, bob

\* Two players in turn, whoever of them is a bot.
Turns == [x \in Players |-> IF x = ann THEN bob ELSE ann]
=============================================================================
