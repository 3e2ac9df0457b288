--------------------------- MODULE MCMatchActions ---------------------------
(* Small instances of MatchActions. *)
EXTENDS MatchActions, TLC

CONSTANTS ann, bob, bot

\* A person and a bot take turns.
AnnAndBot == {ann, bot}
OneBot == {bot}
AnnBotOrder == (ann :> bot) @@ (bot :> ann)

\* Two people.
AnnAndBob == {ann, bob}
NoBots == {}
AnnBobOrder == (ann :> bob) @@ (bob :> ann)

Symmetry == Permutations(Calls) \cup Permutations(Matches)
=============================================================================
