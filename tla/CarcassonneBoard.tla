-------------------------- MODULE CarcassonneBoard --------------------------
(***************************************************************************)
(* The board of the Carcassonne engine: how tiles lie next to each other   *)
(* and which roads, cities and fields their zones form.                    *)
(*                                                                         *)
(* A tile has twelve border segments, numbered clockwise from top_left     *)
(* (top_left = 0, top_center = 1, ..., left_top = 11), and a centre.  Its  *)
(* sides are numbered clockwise from the top; a rotation is a number of    *)
(* quarter turns.  y grows downwards.  A board is a function from the      *)
(* cells that are occupied to the tile there and its rotation; no two      *)
(* tiles share a cell, so the cell stands for the instance id of its tile. *)
(***************************************************************************)
EXTENDS Integers, FiniteSets, FiniteSetsExt

CONSTANT
  Catalog   \* the tile definitions: [edges, zones] by tile id

Sides == 0..3
Rotations == 0..3
Center == 12
Segments == 0..12
EdgeTypes == {"city", "road", "field"}
ZoneTypes == EdgeTypes \cup {"monastery", "cathedral"}

sideOf(g) == g \div 3
onSide(side) == {3 * side, 3 * side + 1, 3 * side + 2}

\* validateEdgeSegments: a road leaves through the middle of its edge, any other
\* edge is of one type from corner to corner.
validEdges(def) ==
  \A side \in Sides, z \in DOMAIN def.zones :
    IF def.edges[side] = "road"
    THEN 3 * side + 1 \in def.zones[z].segments => def.zones[z].type = "road"
    ELSE onSide(side) \cap def.zones[z].segments # {} => def.zones[z].type = def.edges[side]

\* validateTileDefinitions.
validDefinition(def) ==
  /\ \A z \in DOMAIN def.zones :
       LET zone == def.zones[z] IN
       /\ zone.segments # {}
       /\ zone.mark = "pennant" => zone.type = "city"
       /\ zone.mark = "inn" => zone.type = "road"
       /\ zone.type = "field" /\ zone.segments = {Center} => "field" \notin {def.edges[i] : i \in Sides}
       /\ \A y \in DOMAIN def.zones \ {z} : zone.segments \cap def.zones[y].segments = {}
  /\ Segments \ {Center} \subseteq UNION {def.zones[z].segments : z \in DOMAIN def.zones}
  /\ validEdges(def)

Zone == [type : ZoneTypes, segments : SUBSET Segments, mark : {"none", "pennant", "inn"}]

ASSUME CatalogAssumption ==
  \A t \in DOMAIN Catalog :
    /\ Catalog[t].edges \in [Sides -> EdgeTypes]
    /\ \A z \in DOMAIN Catalog[t].zones : Catalog[t].zones[z] \in Zone
    /\ validDefinition(Catalog[t])

\* On both sides of a road that leaves the tile the catalogues have fields:
\* validateEdgeSegments does not look at the corners of such an edge.
RoadsRunThroughFields ==
  \A t \in DOMAIN Catalog : \A side \in Sides : Catalog[t].edges[side] = "road" =>
    \A z \in DOMAIN Catalog[t].zones : \A g \in {3 * side, 3 * side + 2} :
      g \in Catalog[t].zones[z].segments => Catalog[t].zones[z].type = "field"

-----------------------------------------------------------------------------
(* Cells and edges *)

borderNeighborCell(cell, side) ==
  CASE side = 0 -> <<cell[1], cell[2] - 1>>
    [] side = 1 -> <<cell[1] + 1, cell[2]>>
    [] side = 2 -> <<cell[1], cell[2] + 1>>
    [] side = 3 -> <<cell[1] - 1, cell[2]>>

\* (mutant) the segment is turned the other way round the tile
rotateSegmentBack(g, rotation) == IF g = Center THEN g ELSE (g - 3 * rotation) % 12
rotateSegment(g, rotation) == IF g = Center THEN g ELSE (g + 3 * rotation) % 12

\* The segment of the neighbouring tile that faces a border segment.
borderNeighborSegment(g) == IF sideOf(g) \in {0, 2} THEN 8 - g ELSE 14 - g

rotateEdges(edges, rotation) == [side \in Sides |-> edges[(side - rotation) % 4]]
edgesAt(board, cell) == rotateEdges(Catalog[board[cell].tile].edges, board[cell].rotation)

adjacentTiles(board, cell) ==
  {side \in Sides : borderNeighborCell(cell, side) \in DOMAIN board}

canPlaceTile(board, tile, cell, rotation) ==
  LET edges == rotateEdges(Catalog[tile].edges, rotation)
      sides == adjacentTiles(board, cell)
  IN /\ cell \notin DOMAIN board
     /\ sides # {}
     /\ \A side \in sides :
          edges[side] = edgesAt(board, borderNeighborCell(cell, side))[(side + 2) % 4]

\* The free cells beside the board, with the rotations in which the tile fits.
validTilePlacements(board, tile) ==
  LET candidates == {borderNeighborCell(c, side) : c \in DOMAIN board, side \in Sides}
  IN {p \in candidates \X Rotations : canPlaceTile(board, tile, p[1], p[2])}

hasAnyTilePlacement(board, tile) == validTilePlacements(board, tile) # {}

placed(board, cell, tile, rotation) ==
  [c \in DOMAIN board \cup {cell} |->
     IF c = cell THEN [tile |-> tile, rotation |-> rotation] ELSE board[c]]

adjacentTileCount(board, cell) ==
  Cardinality({c \in DOMAIN board : /\ c[1] - cell[1] \in -1..1
                                    /\ c[2] - cell[2] \in -1..1} \ {cell})

-----------------------------------------------------------------------------
(* Zones and the features they form *)

zonesAt(board, cell) == Catalog[board[cell].tile].zones

\* A placed zone is named by its tile's cell and its zone id.
placedZones(board) == UNION {{cell} \X DOMAIN zonesAt(board, cell) : cell \in DOMAIN board}
zoneOf(board, ref) == zonesAt(board, ref[1])[ref[2]]
typeOf(board, ref) == zoneOf(board, ref).type
segmentsOf(board, ref) ==
  {rotateSegment(g, board[ref[1]].rotation) : g \in zoneOf(board, ref).segments}

\* The zone of a given type the neighbour has on the other side of a border segment.
findNeighborZoneBySegment(board, cell, type, g) ==
  LET other == borderNeighborCell(cell, sideOf(g)) IN
  IF other \notin DOMAIN board THEN {}
  ELSE {ref \in {other} \X DOMAIN zonesAt(board, other) :
          /\ typeOf(board, ref) = type
          /\ borderNeighborSegment(g) \in segmentsOf(board, ref)}

neighbors(board, ref) ==
  UNION {findNeighborZoneBySegment(board, ref[1], typeOf(board, ref), g) :
           g \in segmentsOf(board, ref) \ {Center}}

openSegments(board, ref) ==
  {g \in segmentsOf(board, ref) \ {Center} :
     findNeighborZoneBySegment(board, ref[1], typeOf(board, ref), g) = {}}

\* buildFeature, the search: the zones of one feature, breadth first.
connectedZones(board, start) ==
  LET search[visited \in SUBSET placedZones(board)] ==
        LET found == visited \cup UNION {neighbors(board, ref) : ref \in visited}
        IN IF found = visited THEN visited ELSE search[found]
  IN search[{start}]

featureOf(board, type, zones) ==
  [type |-> type, zones |-> zones,
   openEdges |-> MapThenSumSet(LAMBDA ref : Cardinality(openSegments(board, ref)), zones)]
buildFeature(board, start) == featureOf(board, typeOf(board, start), connectedZones(board, start))

tilesOf(feature) == {ref[1] : ref \in feature.zones}
pennants(board, feature) ==
  {ref \in feature.zones : zoneOf(board, ref).type = "city" /\ zoneOf(board, ref).mark = "pennant"}
featureHasInn(board, feature) ==
  \E ref \in feature.zones : zoneOf(board, ref).type = "road" /\ zoneOf(board, ref).mark = "inn"
featureHasCathedral(board, feature) ==
  \E cell \in tilesOf(feature) :
    \E z \in DOMAIN zonesAt(board, cell) : zonesAt(board, cell)[z].type = "cathedral"

-----------------------------------------------------------------------------
(* Fields: a disjoint-set forest over the field segments of the board.  The  *)
(* segments of a zone are united first, so that a root stands for the set of *)
(* zones of its field, and the forest for the partition of the field zones.  *)

fieldZones(board) == {ref \in placedZones(board) : typeOf(board, ref) = "field"}

findRoot(roots, ref) == CHOOSE root \in roots : ref \in root

\* A zone is united with every zone it faces.
join(roots, joined) == (roots \ joined) \cup {UNION joined}
unite(board, ref, roots) ==
  LET met == {ref} \cup neighbors(board, ref)
  IN join(roots, {root \in roots : root \cap met # {}})

buildFieldGraph(board) ==
  FoldSet(LAMBDA ref, roots : unite(board, ref, roots),
          {{ref} : ref \in fieldZones(board)}, fieldZones(board))

\* adjacentSegments: the next segments along the border; the centre touches the four
\* middles, but is not among what they touch.
adjacentSegments(g) ==
  IF g = Center THEN {1, 4, 7, 10} ELSE {(g + 1) % 12, (g - 1) % 12}

adjacentCityZoneRefs(board, ref) ==
  {city \in {ref[1]} \X DOMAIN zonesAt(board, ref[1]) :
     /\ typeOf(board, city) = "city"
     /\ segmentsOf(board, city)
          \cap UNION {adjacentSegments(g) : g \in segmentsOf(board, ref)} # {}}

\* A city feature counts once for a field, however often the field touches it.
fieldCompletedCities(board, root) ==
  {feature \in {buildFeature(board, city) :
                  city \in UNION {adjacentCityZoneRefs(board, ref) : ref \in root}} :
     feature.openEdges = 0}
=============================================================================
