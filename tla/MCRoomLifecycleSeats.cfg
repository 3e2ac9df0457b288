\* One room, three people who race for its places while it is resized and started.
CONSTANTS
  ann = ann  bob = bob  gus = gus
  annTab = annTab  bobTab = bobTab  gusTab = gusTab
  ActorOf <- AccountOf
  NoRoom = NoRoom
  NoActor = NoActor
  Rooms = {r1}
  Actors = {ann, bob, gus}
  Guests = {}
  Clients = {annTab, bobTab, gusTab}
  Sweepers = {}
  Limits = {2, 3}
  BotCounts = {0, 1}
  MaxMatches = 1
  MaxBusy = 2
SPECIFICATION Spec
INVARIANTS
  SeatsWithinLimit
SYMMETRY PeopleSymmetry
CHECK_DEADLOCK FALSE
