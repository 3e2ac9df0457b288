CONSTANTS
  ann = ann
  bob = bob
  Catalog <- Definitions
  Seats <- TwoSeats
  Setups <- Matches
  StartTile = "start_tile"
  NoPlayer = NoPlayer
  NoTile = NoTile
  NoCell = NoCell
  NoMeeple = NoMeeple
SPECIFICATION FairSpec
INVARIANTS
  TypeOK
  BordersMatch
  MeeplesConserved
  TilesConserved
  TurnCanEnd
  OffersAreExact
  BotsTakeSurePoints
PROPERTIES
  MeepleOnFreeRegion
  ScoredByTheRules
  TurnOrder
  MatchEnds
CHECK_DEADLOCK FALSE
