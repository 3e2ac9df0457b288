------------------------- MODULE CarcassonneScoring -------------------------
(***************************************************************************)
(* What the end of a turn does to the state of a Carcassonne match: the    *)
(* scoring of completed features, the draw of the next tile, and the final *)
(* scoring when no tile is left that fits.                                 *)
(*                                                                         *)
(* A state is a record of                                                  *)
(*   board, meeples    what is on the table                                *)
(*   score, left       the players' points and the meeples they hold       *)
(*   deck, current     the tiles to come and the one to be placed          *)
(*   last              the cell of the tile placed in this turn            *)
(*   phase, player, turn                                                   *)
(*   result            the winners, once the match is finished             *)
(*   ok                no step of the handler has returned an error: what  *)
(*                     a handler that failed has computed is thrown away   *)
(* A scored feature is a record of its winners, points, the sum of the     *)
(* contributions its event lists, and the meeples that return.             *)
(***************************************************************************)
EXTENDS CarcassonneBoard, Sequences

CONSTANTS
  Seats,      \* the players in seat order
  NoPlayer, NoTile, NoCell

Players == {Seats[i] : i \in 1..Len(Seats)}
MeepleTypes == {"regular", "big"}

ASSUME SeatsAssumption ==
  /\ Seats \in Seq(Players) /\ Seats # <<>>
  /\ \A i, j \in 1..Len(Seats) : Seats[i] = Seats[j] => i = j
  /\ NoPlayer \notin Players /\ NoTile \notin DOMAIN Catalog /\ NoCell \notin Int \X Int

-----------------------------------------------------------------------------
(* Meeples *)

meeplesOn(s, zones) == {m \in s.meeples : <<m.cell, m.zone>> \in zones}
meepleZone(s, m) == zoneOf(s.board, <<m.cell, m.zone>>)

\* (mutant) a big meeple counts like any other
meepleWeightFlat(m) == 1
meepleWeight(m) == IF m.type = "big" THEN 2 ELSE 1

weightOf(meeples, p) == MapThenSumSet(meepleWeight, {m \in meeples : m.actor = p})
winningActors(meeples) ==
  {m.actor : m \in {n \in meeples : \A o \in meeples :
                      weightOf(meeples, o.actor) <= weightOf(meeples, n.actor)}}

heldBy(meeples, p, type) == {m \in meeples : m.actor = p /\ m.type = type}
\* (mutant) a meeple comes back as a regular one
incrementMeeplesRegular(left, meeples) ==
  [p \in Players |-> [type \in MeepleTypes |->
     left[p][type] + (IF type = "big" THEN 0
                      ELSE Cardinality({m \in meeples : m.actor = p}))]]
incrementMeeples(left, meeples) ==
  [p \in Players |-> [type \in MeepleTypes |->
     left[p][type] + Cardinality(heldBy(meeples, p, type))]]

\* The zones a meeple shares.
regionOf(board, ref) ==
  CASE typeOf(board, ref) = "monastery" -> {ref}
    [] typeOf(board, ref) = "field" -> findRoot(buildFieldGraph(board), ref)
    [] typeOf(board, ref) \in {"road", "city"} -> connectedZones(board, ref)
\* (mutant) for a field only the last tile is looked at
canPlaceMeepleHere(s, actor, zone, type) ==
  LET ref == <<s.last, zone>> IN
  /\ s.last # NoCell
  /\ type \in MeepleTypes /\ s.left[actor][type] > 0
  /\ zone \in DOMAIN zonesAt(s.board, s.last)
  /\ IF typeOf(s.board, ref) \in {"road", "city"}
     THEN meeplesOn(s, connectedZones(s.board, ref)) = {}
     ELSE typeOf(s.board, ref) # "cathedral" /\ meeplesOn(s, {ref}) = {}
canPlaceMeeple(s, actor, zone, type) ==
  LET ref == <<s.last, zone>> IN
  /\ s.last # NoCell
  /\ type \in MeepleTypes /\ s.left[actor][type] > 0
  /\ zone \in DOMAIN zonesAt(s.board, s.last)
  /\ typeOf(s.board, ref) # "cathedral" /\ meeplesOn(s, regionOf(s.board, ref)) = {}

-----------------------------------------------------------------------------
(* Points *)

\* featureScoreContributions: the points each tile of a feature contributes, and
\* their sum.
contributions(board, feature, pointsPerTile) ==
  [cell \in tilesOf(feature) |->
     pointsPerTile * (1 + Cardinality({ref \in pennants(board, feature) : ref[1] = cell}))]
scoreContributionTotal(board, feature, pointsPerTile) ==
  LET points == contributions(board, feature, pointsPerTile)
  IN MapThenSumSet(LAMBDA cell : points[cell], tilesOf(feature))

completedPointsPerTile(board, feature) ==
  IF feature.type = "road"
  THEN IF featureHasInn(board, feature) THEN 2 ELSE 1
  ELSE IF featureHasCathedral(board, feature) THEN 3 ELSE 2

\* finalFeatureScore: an inn or a cathedral makes an unfinished feature worthless.
finalPointsPerTile(board, feature) ==
  CASE feature.type = "road" -> IF featureHasInn(board, feature) THEN 0 ELSE 1
    [] feature.type = "city" -> IF featureHasCathedral(board, feature) THEN 0 ELSE 1

scored(meeples, points, total) ==
  [winners |-> winningActors(meeples), meeples |-> meeples, points |-> points, total |-> total]

scoredFeature(s, feature, pointsPerTile) ==
  scored(meeplesOn(s, feature.zones),
         pointsPerTile * (Cardinality(tilesOf(feature)) + Cardinality(pennants(s.board, feature))),
         scoreContributionTotal(s.board, feature, pointsPerTile))

scoredMonastery(m, points) == scored({m}, points, points)

scoredField(s, root) ==
  LET points == 3 * Cardinality(fieldCompletedCities(s.board, root))
  IN scored(meeplesOn(s, root), points, points)

\* applyScore for each feature: their meeples differ, so that none is lost in the set.
applyScores(s, features) ==
  [s EXCEPT
     !.score = [p \in Players |-> s.score[p]
                  + MapThenSumSet(LAMBDA f : f.points, {f \in features : p \in f.winners})],
     !.ok = s.ok /\ \A f \in features : f.total = f.points]

\* The points are paid and the meeples come back.
settle(s, features) ==
  LET returned == s.meeples \cap UNION {f.meeples : f \in features} IN
  [applyScores(s, features) EXCEPT
     !.left = incrementMeeples(s.left, returned),
     !.meeples = s.meeples \ returned]

lastPlacedZoneRefsByType(s, types) ==
  {ref \in {s.last} \X DOMAIN zonesAt(s.board, s.last) : typeOf(s.board, ref) \in types}

\* scoreCompletedRoads and scoreCompletedCities: only features of the tile just placed
\* are looked at; one that nobody occupies stays as it is.
completedFeatures(s) ==
  {feature \in {buildFeature(s.board, ref) :
                  ref \in lastPlacedZoneRefsByType(s, {"road", "city"})} :
     feature.openEdges = 0 /\ meeplesOn(s, feature.zones) # {}}
scoreCompletedFeatures(s) ==
  {scoredFeature(s, feature, completedPointsPerTile(s.board, feature)) :
     feature \in completedFeatures(s)}

\* (mutant) only the monastery that was just placed can be completed
surroundedLast(s) ==
  {m \in s.meeples : /\ meepleZone(s, m).type = "monastery" /\ m.cell = s.last
                     /\ adjacentTileCount(s.board, m.cell) = 8}
\* The occupied monasteries whose eight neighbours are there, wherever they are.
surrounded(s) ==
  {m \in s.meeples : /\ meepleZone(s, m).type = "monastery"
                     /\ adjacentTileCount(s.board, m.cell) = 8}
scoreCompletedMonasteries(s) == {scoredMonastery(m, 9) : m \in surrounded(s)}

\* The code settles roads, then cities, then monasteries.  The features of a turn share
\* no meeple, so that the order makes no difference.
scoreTurn(s) == settle(s, scoreCompletedFeatures(s) \cup scoreCompletedMonasteries(s))

-----------------------------------------------------------------------------
(* The end of the match *)

\* A road or city with several meeples is one feature.
finalOccupiedFeatures(s) ==
  {buildFeature(s.board, <<m.cell, m.zone>>) :
     m \in {n \in s.meeples : meepleZone(s, n).type \in {"road", "city"}}}

finalOccupiedFields(s) ==
  {root \in buildFieldGraph(s.board) : meeplesOn(s, root) # {}}

finalEvents(s) ==
  {scoredFeature(s, feature, finalPointsPerTile(s.board, feature)) :
       feature \in finalOccupiedFeatures(s)}
  \cup {scoredMonastery(m, 1 + adjacentTileCount(s.board, m.cell)) :
          m \in {n \in s.meeples : meepleZone(s, n).type = "monastery"}}
  \cup {scoredField(s, root) : root \in finalOccupiedFields(s)}

\* returnAllMeeples takes back those no feature was scored for, too.
scoreFinalFeatures(s) ==
  [applyScores(s, finalEvents(s)) EXCEPT
     !.left = incrementMeeples(s.left, s.meeples), !.meeples = {}]

matchResult(s) == {p \in Players : \A q \in Players : s.score[q] <= s.score[p]}

\* (mutant) the last tile of the match is not forgotten
finishKeepsLast(s) ==
  [s EXCEPT !.result = matchResult(s), !.phase = "finished", !.player = NoPlayer,
            !.current = NoTile]
\* With the final scoring done.
finish(s) ==
  [s EXCEPT !.result = matchResult(s), !.phase = "finished", !.player = NoPlayer,
            !.current = NoTile, !.last = NoCell]

-----------------------------------------------------------------------------
(* The next turn *)

\* drawNextPlaceableTile: the first tile that fits; those before it go to the bottom.
drawable(deck, board) == {i \in 1..Len(deck) : hasAnyTilePlacement(board, deck[i])}
\* (mutant) tiles that do not fit are thrown away
withoutSkipped(deck, i) == SubSeq(deck, i + 1, Len(deck))
withoutDrawn(deck, i) == SubSeq(deck, i + 1, Len(deck)) \o SubSeq(deck, 1, i - 1)

seatOf(p) == CHOOSE i \in 1..Len(Seats) : Seats[i] = p
nextPlayer(p) == IF p \in Players THEN Seats[(seatOf(p) % Len(Seats)) + 1] ELSE Seats[1]

\* (mutant) the player who has just moved goes on
nextTurnAgain(s, i) ==
  [s EXCEPT !.current = s.deck[i], !.deck = withoutDrawn(s.deck, i), !.last = NoCell,
            !.turn = s.turn + 1, !.phase = "place_tile"]
nextTurn(s, i) ==
  [s EXCEPT !.current = s.deck[i], !.deck = withoutDrawn(s.deck, i), !.last = NoCell,
            !.player = nextPlayer(s.player), !.turn = s.turn + 1, !.phase = "place_tile"]

completeTurnAndDrawNextTile(s) ==
  LET fits == drawable(s.deck, s.board) IN
  IF fits = {} THEN finish(scoreFinalFeatures(s))
  ELSE nextTurn(s, CHOOSE i \in fits : \A j \in fits : i <= j)

resolveTurn(s) == completeTurnAndDrawNextTile(scoreTurn(s))
=============================================================================
