\* Two replicas, two matches, one event.
CONSTANTS
  ann = ann  bob = bob
  Players = {ann, bob}
  Bots = {bob}
  NextPlayer <- Turns
  FirstPlayer = ann
  NoPlayer = NoPlayer
  Deck = 1
  Processes = {p1, p2}
  NoTimer = NoTimer
  MaxMatches = 2
  MaxEvents = 1
  MaxBusy = 2
SPECIFICATION LiveSpec
INVARIANTS
  TypeOK
  NoTurnIsCutShort
PROPERTIES
  EveryTurnEnds
CHECK_DEADLOCK FALSE
