-------------------------- MODULE CarcassonneRules --------------------------
(***************************************************************************)
(* The rules of the game, as a reference for the engine's scoring: stated  *)
(* for the whole table, without the engine's searches from the last tile,  *)
(* its field graph or its events.  Regions are the classes of zones whose  *)
(* segments face each other, whatever their type.                          *)
(***************************************************************************)
EXTENDS CarcassonneBoard

\* The zones on the other side of the border that a zone continues.
Facing(board, ref) ==
  LET across(g) == borderNeighborCell(ref[1], sideOf(g)) IN
  UNION {{other \in {across(g)} \X DOMAIN zonesAt(board, across(g)) :
            borderNeighborSegment(g) \in segmentsOf(board, other)} :
           g \in {h \in segmentsOf(board, ref) \ {Center} : across(h) \in DOMAIN board}}

\* The least sets of zones that are closed under that.
Regions(board) ==
  LET reach[R \in SUBSET placedZones(board)] ==
        LET more == R \cup UNION {Facing(board, ref) : ref \in R}
        IN IF more = R THEN R ELSE reach[more]
  IN {reach[{ref}] : ref \in placedZones(board)}

OfType(board, regions, type) == {R \in regions : \A ref \in R : typeOf(board, ref) = type}
Tiles(R) == {ref[1] : ref \in R}
Marked(board, R, mark) == {ref \in R : zoneOf(board, ref).mark = mark}
Around(cell) == {<<cell[1] + dx, cell[2] + dy>> : dx \in -1..1, dy \in -1..1} \ {cell}

\* A region is complete when no border segment of it looks at an empty cell.
Complete(board, R) ==
  \A ref \in R : \A g \in segmentsOf(board, ref) \ {Center} :
    borderNeighborCell(ref[1], sideOf(g)) \in DOMAIN board

MeeplesIn(M, R) == {m \in M : <<m.cell, m.zone>> \in R}
Strength(M, p) ==
  Cardinality({m \in M : m.actor = p}) + Cardinality({m \in M : m.actor = p /\ m.type = "big"})
Holds(M, p) == Strength(M, p) > 0 /\ \A m \in M : Strength(M, m.actor) <= Strength(M, p)

HasCathedral(board, R) ==
  \E cell \in Tiles(R) : \E z \in DOMAIN zonesAt(board, cell) :
    zonesAt(board, cell)[z].type = "cathedral"

\* A point for each tile of a road; two for each tile and pennant of a city; an inn or
\* a cathedral is worth one more, and makes an unfinished feature worth nothing.
RoadPoints(board, R, finished) ==
  LET inn == Marked(board, R, "inn") # {} IN
  Cardinality(Tiles(R)) * (IF inn THEN IF finished THEN 2 ELSE 0 ELSE 1)
CityPoints(board, R, finished) ==
  (Cardinality(Tiles(R)) + Cardinality(Marked(board, R, "pennant")))
  * (CASE finished /\ HasCathedral(board, R) -> 3
       [] finished /\ ~HasCathedral(board, R) -> 2
       [] ~finished /\ HasCathedral(board, R) -> 0
       [] ~finished /\ ~HasCathedral(board, R) -> 1)
MonasteryPoints(board, R) ==
  1 + Cardinality(Around(CHOOSE cell \in Tiles(R) : TRUE) \cap DOMAIN board)

\* On one tile, a field lies along a city when segments of theirs are next to each
\* other on the border, or the field's middle reaches the middle of the city's side.
Along(board, field, city) ==
  /\ field[1] = city[1]
  /\ \E f \in segmentsOf(board, field), c \in segmentsOf(board, city) :
       \/ f # Center /\ c # Center /\ (f - c) % 12 \in {1, 11}
       \/ f = Center /\ c % 3 = 1
FieldPoints(board, regions, R) ==
  3 * Cardinality({C \in OfType(board, regions, "city") :
                     Complete(board, C) /\ \E f \in R, c \in C : Along(board, f, c)})

Occupied(regions, M) == {R \in regions : MeeplesIn(M, R) # {}}

\* The regions that are scored at the end of a turn, and what they are worth.
Closed(board, regions, M) ==
  {R \in Occupied(regions, M) :
     LET type == typeOf(board, CHOOSE ref \in R : TRUE) IN
     \/ type \in {"road", "city"} /\ Complete(board, R)
     \/ type = "monastery" /\ MonasteryPoints(board, R) = 9}
ClosedPoints(board, R) ==
  LET type == typeOf(board, CHOOSE ref \in R : TRUE) IN
  CASE type = "road" -> RoadPoints(board, R, TRUE)
    [] type = "city" -> CityPoints(board, R, TRUE)
    [] type = "monastery" -> 9

\* What a region is worth when the match is over.
FinalPoints(board, regions, R) ==
  LET type == typeOf(board, CHOOSE ref \in R : TRUE) IN
  CASE type = "road" -> RoadPoints(board, R, FALSE)
    [] type = "city" -> CityPoints(board, R, FALSE)
    [] type = "monastery" -> MonasteryPoints(board, R)
    [] type = "field" -> FieldPoints(board, regions, R)

\* The points of player p for a turn that ends with meeples M on the board, and the
\* meeples that stay.
Staying(board, regions, M) ==
  M \ UNION {MeeplesIn(M, R) : R \in Closed(board, regions, M)}
TurnPoints(board, regions, M, p) ==
  MapThenSumSet(LAMBDA R : ClosedPoints(board, R),
                {R \in Closed(board, regions, M) : Holds(MeeplesIn(M, R), p)})
EndPoints(board, regions, M, p) ==
  MapThenSumSet(LAMBDA R : FinalPoints(board, regions, R),
                {R \in Occupied(regions, M) : Holds(MeeplesIn(M, R), p)})
=============================================================================
