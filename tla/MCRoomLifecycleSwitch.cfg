\* Two rooms, two people who move between them.
CONSTANTS
  ann = ann  bob = bob  gus = gus
  annTab = annTab  bobTab = bobTab  gusTab = gusTab
  ActorOf <- AccountOf
  NoRoom = NoRoom
  NoActor = NoActor
  Rooms = {r1, r2}
  Actors = {ann, gus}
  Guests = {}
  Clients = {annTab, gusTab}
  Sweepers = {}
  Limits = {2}
  BotCounts = {0}
  MaxMatches = 0
  MaxBusy = 2
SPECIFICATION Spec
INVARIANTS
  SeatsFollowConnections
SYMMETRY RoomSymmetry
CHECK_DEADLOCK FALSE
