\* One room, an account and a guest, one cleanup loop.
CONSTANTS
  ann = ann  bob = bob  gus = gus
  annTab = annTab  bobTab = bobTab  gusTab = gusTab
  ActorOf <- AccountOf
  NoRoom = NoRoom
  NoActor = NoActor
  Rooms = {r1}
  Actors = {ann, gus}
  Guests = {gus}
  Clients = {annTab, gusTab}
  Sweepers = {j1}
  Limits = {2}
  BotCounts = {0, 1}
  MaxMatches = 1
  MaxBusy = 2
SPECIFICATION Spec
INVARIANTS
  TypeOK
  EmptyRoomIsMarked
PROPERTIES
  ImplementsContract
CHECK_DEADLOCK FALSE
