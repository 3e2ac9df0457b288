---------------------------- MODULE MCCarcassonne ----------------------------
(***************************************************************************)
(* Tiles of the two catalogues (assets/*.json), and matches to play with   *)
(* them, for TLC.                                                          *)
(***************************************************************************)
EXTENDS Carcassonne, TLC

CONSTANTS ann, bob

edge(letter) == CASE letter = "c" -> "city" [] letter = "r" -> "road" [] OTHER -> "field"
edges(top, right, bottom, left) ==
  [side \in Sides |-> edge(<<top, right, bottom, left>>[side + 1])]
zone(type, segments) == [type |-> type, segments |-> segments, mark |-> "none"]
marked(type, segments, mark) == [type |-> type, segments |-> segments, mark |-> mark]

Definitions ==
  [start_tile |-> [edges |-> edges("c", "r", "f", "r"),
     zones |-> [city_1 |-> zone("city", 0..2), road_1 |-> zone("road", {4, 10, 12}),
                field_1 |-> zone("field", 5..9), field_2 |-> zone("field", {3, 11})]],
   monastery |-> [edges |-> edges("f", "f", "f", "f"),
     zones |-> [monastery_1 |-> zone("monastery", {12}), field_1 |-> zone("field", 0..11)]],
   city_cap |-> [edges |-> edges("c", "f", "f", "f"),
     zones |-> [city_1 |-> zone("city", 0..2), field_1 |-> zone("field", 3..12)]],
   city_full_shield |-> [edges |-> edges("c", "c", "c", "c"),
     zones |-> [city_1 |-> marked("city", 0..12, "pennant")]],
   double_city_curve |-> [edges |-> edges("f", "c", "c", "f"),
     zones |-> [city_1 |-> zone("city", 3..5), city_2 |-> zone("city", 6..8),
                field_1 |-> zone("field", 0..2 \cup 9..12)]],
   city_straight_shield |-> [edges |-> edges("f", "c", "f", "c"),
     zones |-> [city_1 |-> marked("city", 3..5 \cup 9..12, "pennant"),
                field_1 |-> zone("field", 0..2), field_2 |-> zone("field", 6..8)]],
   city_gate_with_road |-> [edges |-> edges("c", "c", "r", "c"),
     zones |-> [city_1 |-> zone("city", 0..5 \cup 9..11), road_1 |-> zone("road", {7, 12}),
                field_1 |-> zone("field", {8}), field_2 |-> zone("field", {6})]],
   road_curve |-> [edges |-> edges("f", "f", "r", "r"),
     zones |-> [road_1 |-> zone("road", {7, 10, 12}),
                field_1 |-> zone("field", 0..6 \cup {11}), field_2 |-> zone("field", 8..9)]],
   road_t |-> [edges |-> edges("f", "r", "r", "r"),
     zones |-> [road_right |-> zone("road", {4}), road_bottom |-> zone("road", {7}),
                road_left |-> zone("road", {10}), field_1 |-> zone("field", 0..3 \cup {11}),
                field_2 |-> zone("field", 8..9), field_3 |-> zone("field", 5..6)]],
   castle_with_extra_tower |-> [edges |-> edges("f", "f", "f", "c"),
     zones |-> [city_1 |-> zone("city", 9..12), field_1 |-> zone("field", 0..2),
                field_2 |-> zone("field", 3..8)]],
   castle_town_with_extra_tower |-> [edges |-> edges("c", "c", "c", "c"),
     zones |-> [city_1 |-> zone("city", 9..11), city_2 |-> zone("city", 0..2),
                city_3 |-> zone("city", 3..5), city_4 |-> zone("city", 6..8),
                field_1 |-> zone("field", {12})]],
   cathedral_with_crypt |-> [edges |-> edges("c", "c", "c", "c"),
     zones |-> [city_1 |-> zone("city", 0..11), cathedral_1 |-> zone("cathedral", {12})]],
   cottage_replaced_with_tavern_and_lake |-> [edges |-> edges("r", "f", "r", "f"),
     zones |-> [road_1 |-> marked("road", {1, 7, 12}, "inn"),
                field_1 |-> zone("field", {0} \cup 8..11), field_2 |-> zone("field", 2..6)]],
   monastery_with_two_roads |-> [edges |-> edges("r", "f", "r", "f"),
     zones |-> [monastery_1 |-> zone("monastery", {12}), road_1 |-> zone("road", {7}),
                road_2 |-> zone("road", {1}), field_1 |-> zone("field", {0} \cup 8..11),
                field_2 |-> zone("field", 2..6)]]]

ASSUME FieldsBesideRoads == RoadsRunThroughFields

TwoSeats == <<ann, bob>>
people == [p \in {ann, bob} |-> "human"]
bots(skillOfAnn, skillOfBob) == [p \in {ann, bob} |-> IF p = ann THEN skillOfAnn ELSE skillOfBob]
match(deck, regular, big, skill, script) ==
  [deck |-> deck, meeples |-> [regular |-> regular, big |-> big], skill |-> skill, script |-> script]

\* One turn of a script.
at(x, y, rotation, z, type) ==
  [cell |-> <<x, y>>, rotation |-> rotation, place |-> [zone |-> z, type |-> type]]
bare(x, y, rotation) == at(x, y, rotation, "none", "none")

\* The first two turns, by people and by bots of every kind.
Openings ==
  {match(<<"city_cap", "road_curve">>, 1, 1, people, <<>>),
   match(<<"monastery_with_two_roads", "city_straight_shield">>, 0, 1, bots("medium", "hard"), <<>>),
   match(<<"road_t", "city_full_shield">>, 1, 0, bots("hard", "easy"), <<>>),
   match(<<"double_city_curve", "castle_with_extra_tower">>, 1, 1, bots("medium", "easy"), <<>>),
   match(<<"castle_town_with_extra_tower", "city_gate_with_road">>, 1, 0, bots("easy", "medium"), <<>>)}

\* A city that a big and a regular meeple share is closed, or not, under a gate or a
\* cathedral.
SharedCity(last) ==
  match(<<"road_curve", "road_curve", "city_cap", "city_cap", last>>, 1, 1, people,
        <<bare(-1, 0, 3), bare(1, 0, 0), at(-1, -1, 1, "city_1", "big"),
          at(1, -1, 3, "city_1", "regular")>>)
Cathedral ==
  match(<<"road_curve", "city_cap", "cathedral_with_crypt", "city_cap", "city_cap">>, 1, 0, people,
        <<bare(1, 0, 0), at(1, -1, 3, "city_1", "regular"), bare(0, -1, 0), bare(0, -2, 2)>>)

\* Farmers of both players, a big one among them, meet in a field along two cities.
SharedField ==
  match(<<"road_curve", "city_cap", "city_cap", "city_cap">>, 1, 1, people,
        <<at(1, 0, 0, "field_1", "regular"), at(0, -1, 2, "field_1", "big"), bare(1, -1, 0)>>)

\* A monastery is surrounded by a tile of the other player.
Monastery ==
  match(<<"monastery", "road_curve", "road_curve", "city_cap", "city_cap", "city_cap",
          "city_cap", "city_cap", "city_full_shield">>, 1, 0, bots("easy", "medium"),
        <<at(0, 1, 0, "monastery_1", "regular"), at(1, 0, 1, "field_1", "regular"),
          bare(-1, 0, 2), bare(1, 1, 1), bare(-1, 1, 3), bare(1, 2, 2), bare(-1, 2, 2),
          bare(0, 2, 2)>>)

\* A road through both ends of a crossing, and a road along an inn.
Loop ==
  match(<<"road_curve", "road_curve", "road_curve", "road_curve", "road_t">>, 1, 0, people,
        <<at(1, 0, 0, "road_1", "regular"), bare(1, 1, 1), bare(-1, 0, 3), bare(-1, 1, 2)>>)
Inn ==
  match(<<"cottage_replaced_with_tavern_and_lake", "road_t", "road_t">>, 1, 0, people,
        <<at(1, 0, 1, "road_1", "regular"), bare(2, 0, 0)>>)

\* A bot can finish a road or begin a monastery.
SureRoad ==
  match(<<"road_t", "monastery_with_two_roads", "monastery">>, 1, 0, bots("human", "medium"), <<bare(-1, 0, 0)>>)

\* Tiles that fit nowhere are passed over, for a turn or for good.
PassedOver ==
  match(<<"city_cap", "city_full_shield", "road_curve", "city_cap">>, 1, 1, bots("hard", "medium"),
        <<at(0, -1, 2, "city_1", "regular"), bare(1, 0, 0)>>)

Matches ==
  Openings \cup {SharedCity("city_gate_with_road"), SharedCity("cathedral_with_crypt"), Cathedral,
                 SharedField, Monastery, Loop, Inn, SureRoad, PassedOver}
=============================================================================
