----------------------------- MODULE Carcassonne -----------------------------
(***************************************************************************)
(* A match of Carcassonne as the engine plays it: one action per call of   *)
(* the match service.  A call that the engine refuses changes nothing and  *)
(* is no step.                                                             *)
(***************************************************************************)
EXTENDS CarcassonneMoves, CarcassonneRules

CONSTANTS
  StartTile,   \* the tile every match starts with
  Setups,      \* the matches to play: [deck, meeples, skill, script]
  NoMeeple

Place == [zone : UNION {DOMAIN Catalog[t].zones : t \in DOMAIN Catalog}, type : MeepleTypes]
Skills == {"human", "easy", "medium", "hard"}

\* deck: the shuffled tiles.  meeples: how many of each kind a player gets.  skill: who
\* plays a seat, a person or a bot of some difficulty.  script: a bound, the first turns
\* are played as it says, whoever has the turn.
ASSUME SetupAssumption ==
  /\ StartTile \in DOMAIN Catalog
  /\ \A g \in Setups :
       /\ g.deck \in Seq(DOMAIN Catalog)
       /\ g.meeples \in [MeepleTypes -> Nat]
       /\ g.skill \in [Players -> Skills]
       /\ g.script \in Seq([cell : Int \X Int, rotation : Rotations, place : Place \cup {NoPlace}])

VARIABLES
  setup,   \* what the match was built from
  state,   \* the match's game_state
  put      \* history: the meeple put down by the last step, if any

vars == <<setup, state, put>>

-----------------------------------------------------------------------------
BuildInitialMatch(g) ==
  LET fresh == [board |-> [c \in {<<0, 0>>} |-> [tile |-> StartTile, rotation |-> 0]],
                meeples |-> {}, deck |-> g.deck, current |-> NoTile, last |-> NoCell,
                score |-> [p \in Players |-> 0], left |-> [p \in Players |-> g.meeples],
                phase |-> "place_tile", player |-> Seats[1], turn |-> 1,
                result |-> {}, ok |-> TRUE]
      fits == drawable(g.deck, fresh.board)
  IN IF fits = {}
     THEN [fresh EXCEPT !.phase = "finished", !.player = NoPlayer, !.result = Players]
     ELSE LET i == CHOOSE i \in fits : \A j \in fits : i <= j
          IN [fresh EXCEPT !.current = g.deck[i], !.deck = withoutDrawn(g.deck, i)]

Init ==
  /\ setup \in Setups
  /\ state = BuildInitialMatch(setup)
  /\ put = NoMeeple

scripted == state.turn <= Len(setup.script)

\* What a handler stores: nothing, if one of its steps returned an error.
Store(next, meeple) ==
  /\ next.ok
  /\ state' = next
  /\ put' = meeple
  /\ UNCHANGED setup

meepleAt(place) ==
  [cell |-> state.last, zone |-> place.zone, actor |-> state.player, type |-> place.type]

\* ApplyAction, place_tile.
PlaceTile(cell, rotation) ==
  /\ state.phase = "place_tile"
  /\ canPlaceTile(state.board, state.current, cell, rotation)
  /\ Store(putTile(state, cell, rotation), NoMeeple)

\* ApplyAction, place_meeple: the turn ends with it.
PlaceMeeple(place) ==
  /\ state.phase = "place_meeple"
  /\ canPlaceMeeple(state, state.player, place.zone, place.type)
  /\ Store(resolveTurn(putMeeple(state, state.player, place)), meepleAt(place))

\* ApplyAction, skip_meeple.
SkipMeeple ==
  /\ state.phase = "place_meeple"
  /\ Store(resolveTurn(state), NoMeeple)

Cells == UNION {Around(c) : c \in DOMAIN state.board}

\* What the script says, what a person whose turn it is may send, and what a bot chooses
\* (BuildBotAction).
tileChoices(skill) ==
  CASE scripted -> {<<setup.script[state.turn].cell, setup.script[state.turn].rotation>>}
    [] ~scripted /\ skill = "human" -> Cells \X Rotations
    [] ~scripted /\ skill # "human" -> chooseBotTilePlacement(state, state.player, skill)
meepleChoices(skill) ==
  CASE scripted -> {setup.script[state.turn].place}
    [] ~scripted /\ skill = "human" -> Place \cup {NoPlace}
    [] ~scripted /\ skill # "human" -> chooseBotMeeplePlacement(state, state.player, skill)

\* What a timeout has to choose: a placement of the tile, or nothing.
\* (mutant) only a turn with a tile in hand can time out
timeoutChoicesTileOnly(s) ==
  IF s.phase = "place_tile" THEN validTilePlacements(s.board, s.current) ELSE {}
timeoutChoices(s) ==
  CASE s.phase = "place_tile" -> validTilePlacements(s.board, s.current)
    [] s.phase = "place_meeple" -> {<<NoCell, 0>>}
    [] s.phase = "finished" -> {}

\* The tile is put at random and the turn resolved without a meeple.
timedOut(s, p) ==
  resolveTurn(IF s.phase = "place_tile" THEN putTile(s, p[1], p[2]) ELSE s)

ApplyTurnTimeout ==
  ~scripted /\ \E p \in timeoutChoices(state) : Store(timedOut(state, p), NoMeeple)

Next ==
  \/ /\ state.phase = "place_tile"
     /\ \E p \in tileChoices(setup.skill[state.player]) : PlaceTile(p[1], p[2])
  \/ /\ state.phase = "place_meeple"
     /\ \E place \in meepleChoices(setup.skill[state.player]) :
          PlaceMeeple(place) \/ (place = NoPlace /\ SkipMeeple)
  \/ ApplyTurnTimeout

Spec == Init /\ [][Next]_vars

\* The turn timer of the room fires until the match is over; nobody has to move.  This
\* is weaker than WF_vars(ApplyTurnTimeout), whose steps end turns: as long as a timeout
\* is possible, turns come to an end.  (ENABLED is written out: TLC takes too long for it.)
TimeoutPossible == ~scripted /\ \E p \in timeoutChoices(state) : timedOut(state, p).ok
TurnEnds == state'.phase # "place_meeple"
FairSpec == Spec /\ ([]<>~TimeoutPossible \/ []<><<TurnEnds>>_vars)

-----------------------------------------------------------------------------
TypeOK ==
  /\ setup \in Setups
  /\ \A c \in DOMAIN state.board : /\ state.board[c].tile \in DOMAIN Catalog
                                   /\ state.board[c].rotation \in Rotations
  /\ \A m \in state.meeples : /\ m.cell \in DOMAIN state.board
                              /\ m.zone \in DOMAIN zonesAt(state.board, m.cell)
  /\ state.score \in [Players -> Nat]
  /\ state.left \in [Players -> [MeepleTypes -> Nat]]
  /\ state.phase \in {"place_tile", "place_meeple", "finished"}
  /\ state.phase = "place_tile" <=> state.current # NoTile
  /\ state.phase = "place_meeple" <=> state.last # NoCell
  /\ state.phase = "finished" <=> state.player = NoPlayer
  /\ state.phase = "finished" <=> state.result # {}

\* canPlaceTile compares the edges of definitions, the features follow the rotated
\* segments of zones: two tiles that lie side by side continue each other in every
\* segment of the border they share, or a road or a city would end at a seam and
\* never be completed.
BordersMatch ==
  \A c \in DOMAIN state.board : \A side \in adjacentTiles(state.board, c) :
    \A z \in DOMAIN zonesAt(state.board, c) : \A g \in onSide(side) :
      g \in segmentsOf(state.board, <<c, z>>)
        => findNeighborZoneBySegment(state.board, c, typeOf(state.board, <<c, z>>), g) # {}

\* What returnMeeple, returnMeeplesForFeature and returnAllMeeples give back is what
\* decrementMeeple took: of each kind, a player's meeples are in hand or on the board.
MeeplesConserved ==
  \A p \in Players, type \in MeepleTypes :
    state.left[p][type] + Cardinality(heldBy(state.meeples, p, type)) = setup.meeples[type]

\* drawNextPlaceableTile passes tiles over and puts them back: every tile of the deck is
\* on the board, in hand or still to come, once.
TilesConserved ==
  \A t \in DOMAIN Catalog :
    Cardinality({c \in DOMAIN state.board \ {<<0, 0>>} : state.board[c].tile = t})
      + Cardinality({i \in 1..Len(state.deck) : state.deck[i] = t})
      + (IF state.current = t THEN 1 ELSE 0)
    = Cardinality({i \in 1..Len(setup.deck) : setup.deck[i] = t})

\* The turn of every state can be ended by the server: the tile in hand fits somewhere,
\* the scoring runs into no contradiction, and what a bot chooses is accepted.  A
\* match in which this failed would stand still, its timer failing for ever.
TurnCanEnd ==
  /\ state.phase # "finished" => timeoutChoices(state) # {}
  /\ \A p \in timeoutChoices(state) : timedOut(state, p).ok
  /\ state.phase = "place_meeple" /\ setup.skill[state.player] # "human" =>
       \A place \in chooseBotMeeplePlacement(state, state.player, setup.skill[state.player]) \ {NoPlace} :
         canPlaceMeeple(state, state.player, place.zone, place.type)

\* The private state offers the player whose turn it is the meeple placements the
\* engine accepts, no more (the client would be refused) and no fewer (the client
\* lets the player choose among the offered ones only).
OffersAreExact ==
  state.phase = "place_meeple" =>
    {place \in Place : canPlaceMeeple(state, state.player, place.zone, place.type)}
    = UNION {[zone : {o.zone}, type : o.types] :
               o \in validMeeplePlacements(state, state.player)}

\* canPlaceMeeple looks for other meeples from the zones of the last tile: the region
\* a meeple is put on, of whichever type, holds no other meeple, however the last tile
\* has joined regions.
MeepleOnFreeRegion ==
  [][put' # NoMeeple =>
       \A R \in Regions(state'.board) :
         <<put'.cell, put'.zone>> \in R => MeeplesIn(state.meeples, R) = {}]_vars

\* The whole of resolveTurn against the rules: every player's score grows by what the
\* rules award for the board and the meeples at the end of the turn, each feature is
\* paid once, the meeples of completed features come back and the others stay; the last
\* turn adds the final scoring.
ScoredByTheRules ==
  [][state'.phase # "place_meeple" =>
       \A M \in {state.meeples \cup ({put'} \ {NoMeeple})} :
       \A regions \in {Regions(state'.board)} :
       \A staying \in {Staying(state'.board, regions, M)} :
          /\ state'.meeples = IF state'.phase = "finished" THEN {} ELSE staying
          /\ \A p \in Players :
               state'.score[p] - state.score[p] =
                 TurnPoints(state'.board, regions, M, p)
                 + (IF state'.phase = "finished"
                    THEN EndPoints(state'.board, regions, staying, p) ELSE 0)]_vars

\* What the turn pays its player at once if it ends with a meeple on this place, or none.
pointsAtOnce(place) ==
  gain(state,
       scoreTurn(IF place = NoPlace THEN state ELSE putMeeple(state, state.player, place)),
       state.player)

\* A bot that is not the easy one leaves no sure points: nothing the engine accepts
\* of it, skipping included, pays more at once than what it chooses, a skip included,
\* whatever its long-term ratings say.  (A timeout's skip is not the bot's choice.)
BotsTakeSurePoints ==
  state.phase = "place_meeple" /\ setup.skill[state.player] \in {"medium", "hard"} =>
    \A chosen \in chooseBotMeeplePlacement(state, state.player, setup.skill[state.player]) :
      \A place \in Place \cup {NoPlace} :
        place = NoPlace \/ canPlaceMeeple(state, state.player, place.zone, place.type)
          => pointsAtOnce(chosen) >= pointsAtOnce(place)

\* The turn automaton that the match service is checked and proved with.
TM == INSTANCE TurnMachine WITH
        Bots <- {}, NextPlayer <- [p \in Players |-> nextPlayer(p)],
        FirstPlayer <- Seats[1], Deck <- 1

turnState(s, deck) ==
  [version |-> 1, phase |-> s.phase, turn |-> s.turn, player |-> s.player, deck |-> deck]

\* A step of TurnMachine, an accepted action of the current player or a timeout, for a
\* deck that is empty (nothing left fits) or not.
TurnStep ==
  \E deck \in 0..1 :
    \/ \E move \in TM!Moves :
         /\ TM!Verdict(turnState(state, deck), state.player, move) = "ok"
         /\ turnState(state', 0) = TM!ApplyAction(turnState(state, deck), move)
    \/ /\ state.phase # "finished"
       /\ turnState(state', 0) = TM!ApplyTurnTimeout(turnState(state, deck))

\* The engine takes turns as the automaton does that the match service is checked with:
\* whatever resolveTurn scores and draws, each of its steps is one of TurnMachine's.
TurnOrder == [][TurnStep]_vars

\* A match whose players do nothing is played to its end by the timer: each turn
\* takes a tile, whatever the engine does with those that do not fit.
MatchEnds == ~scripted ~> state.phase = "finished"
=============================================================================
