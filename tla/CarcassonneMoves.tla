-------------------------- MODULE CarcassonneMoves --------------------------
(***************************************************************************)
(* The moves of the Carcassonne engine: what placing a tile or a meeple    *)
(* does to the state, which placements a player is offered, and which one  *)
(* a bot chooses.                                                          *)
(*                                                                         *)
(* The bots rate placements with floating-point weights.  Here ratings of  *)
(* meeples are multiples of 1/20 and ratings of tiles multiples of 1/400,  *)
(* which makes all weights integers; among equal ratings the code sorts by *)
(* coordinates or zone ids, and here any of them may be taken (rounding    *)
(* can make equal ratings differ).                                         *)
(***************************************************************************)
EXTENDS CarcassonneScoring

\* A meeple's place on the last tile: its zone and the kind of meeple.
NoPlace == [zone |-> "none", type |-> "none"]

putTile(s, cell, rotation) ==
  [s EXCEPT !.board = placed(s.board, cell, s.current, rotation),
            !.last = cell, !.current = NoTile, !.phase = "place_meeple"]

putMeeple(s, actor, place) ==
  [s EXCEPT !.meeples = s.meeples \cup {[cell |-> s.last, zone |-> place.zone,
                                         actor |-> actor, type |-> place.type]},
            !.left = [s.left EXCEPT ![actor][place.type] = @ - 1]]

-----------------------------------------------------------------------------
(* What a player is offered *)

availableMeepleTypes(s, actor) == {type \in MeepleTypes : s.left[actor][type] > 0}
preferred(types) == IF "regular" \in types THEN "regular" ELSE "big"

\* (mutant) only regular meeples are offered
validMeeplePlacementsRegular(s, actor) ==
  IF s.last = NoCell \/ s.left[actor]["regular"] = 0 THEN {}
  ELSE {[zone |-> z, types |-> availableMeepleTypes(s, actor)] :
          z \in {y \in DOMAIN zonesAt(s.board, s.last) : canPlaceMeeple(s, actor, y, "regular")}}
\* The zone is tried with the first kind of meeple the player has and offered with all.
validMeeplePlacements(s, actor) ==
  LET types == availableMeepleTypes(s, actor) IN
  IF s.last = NoCell \/ types = {} THEN {}
  ELSE {[zone |-> z, types |-> types] :
          z \in {y \in DOMAIN zonesAt(s.board, s.last) :
                   canPlaceMeeple(s, actor, y, preferred(types))}}

-----------------------------------------------------------------------------
(* Bots *)

largest(S) == CHOOSE n \in S : \A m \in S : m <= n
\* (mutant) sorted the wrong way: whatever is offered, the bot skips
bestAscending(rated) == {r[1] : r \in {q \in rated : \A other \in rated : q[2] <= other[2]}}
\* The options with the highest rating, from pairs of the two.
best(rated) ==
  LET top == largest({r[2] : r \in rated})
  IN {r[1] : r \in {q \in rated : q[2] = top}}

\* (mutant) the kind of meeple is not looked up
botMeepleTypeRegular(offer) == "regular"
botMeepleType(offer) == preferred(offer.types)
botPlace(offer) == [zone |-> offer.zone, type |-> botMeepleType(offer)]

\* scoreLongTermMeeplePlacement, in twentieths of a point.
featureScore(board, feature) ==
  CASE feature.type = "city" -> 34 * Cardinality(tilesOf(feature))
                                 + 30 * Cardinality(pennants(board, feature)) - 9 * feature.openEdges
    [] feature.type = "road" -> 20 * Cardinality(tilesOf(feature)) - 9 * feature.openEdges
longTermScore(s, ref) ==
  CASE typeOf(s.board, ref) \in {"city", "road"} -> featureScore(s.board, buildFeature(s.board, ref))
    [] typeOf(s.board, ref) = "monastery" -> 16 * (1 + adjacentTileCount(s.board, s.last))
    [] typeOf(s.board, ref) = "field" ->
         60 * Cardinality(fieldCompletedCities(s.board, regionOf(s.board, ref))) - 5

\* The points a player gets at once when the turn is scored.
gain(s, after, p) == after.score[p] - s.score[p]

\* (mutant) points at hand are rated like the points of a feature that is begun
ratingPatient(s, skill, ref, immediate) ==
  CASE skill = "medium" -> IF typeOf(s.board, ref) = "field" THEN -20 ELSE 10
    [] skill = "hard" -> longTermScore(s, ref) - 200
\* Points at hand come before everything else; a medium bot takes any other feature
\* but a field.
rating(s, skill, ref, immediate) ==
  CASE immediate > 0 -> 20 * (immediate + 100)
    [] immediate = 0 /\ skill = "medium" -> IF typeOf(s.board, ref) = "field" THEN -20 ELSE 10
    [] immediate = 0 /\ skill = "hard" -> longTermScore(s, ref)
scoreBotMeeplePlacement(s, actor, skill, offer) ==
  rating(s, skill, <<s.last, offer.zone>>,
         gain(s, scoreTurn(putMeeple(s, actor, botPlace(offer))), actor))

bestBotMeeplePreviewScore(s, actor, skill) ==
  largest({0} \cup {scoreBotMeeplePlacement(s, actor, skill, offer) :
                      offer \in validMeeplePlacements(s, actor)})

\* scoreBotTilePlacement, in four-hundredths: the features the tile completes are
\* scored, with their meeples back in hand, before a meeple is tried.
tileRating(s, actor, skill, cell, after) ==
  400 * gain(s, after, actor)
  + (IF skill = "hard"
     THEN 80 * Cardinality(adjacentTiles(s.board, cell))
          - 600 * largest({0} \cup {gain(s, after, p) : p \in Players \ {actor}})
     ELSE 0)
  + 7 * bestBotMeeplePreviewScore(after, actor, skill)
scoreBotTilePlacement(s, actor, skill, placement) ==
  tileRating(s, actor, skill, placement[1], scoreTurn(putTile(s, placement[1], placement[2])))

chooseBotTilePlacement(s, actor, skill) ==
  LET options == validTilePlacements(s.board, s.current) IN
  IF skill = "easy" THEN options
  ELSE best({<<o, scoreBotTilePlacement(s, actor, skill, o)>> : o \in options})

\* NoPlace: the bot skips, because nothing is offered or worth it.
unlessNone(chosen) ==
  IF chosen = {} \/ NoPlace \in chosen THEN {NoPlace} ELSE {botPlace(o) : o \in chosen}
chooseBotMeeplePlacement(s, actor, skill) ==
  LET offers == validMeeplePlacements(s, actor) IN
  unlessNone(
    IF skill = "easy" THEN offers
    ELSE best({<<NoPlace, 0>>}
              \cup {<<o, scoreBotMeeplePlacement(s, actor, skill, o)>> : o \in offers}))
=============================================================================
