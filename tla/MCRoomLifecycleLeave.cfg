\* A leave or a kick that races the start of the match.
CONSTANTS
  ann = ann  bob = bob  gus = gus
  annTab = annTab  bobTab = bobTab  gusTab = gusTab
  ActorOf <- AccountOf
  NoRoom = NoRoom
  NoActor = NoActor
  Rooms = {r1}
  Actors = {ann, gus}
  Guests = {}
  Clients = {annTab, gusTab}
  Sweepers = {}
  Limits = {2}
  BotCounts = {0}
  MaxMatches = 1
  MaxBusy = 2
SPECIFICATION Spec
INVARIANTS
  PlayersKeepTheirSeats
CHECK_DEADLOCK FALSE
