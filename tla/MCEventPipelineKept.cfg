SPECIFICATION FairSpec
CONSTANTS
  m1 = m1
  m2 = m2
  ann = ann
  guest = guest
  w1 = w1
  w2 = w2
  Matches = {m1, m2}
  Actors = {ann, guest}
  Users = {ann}
  Workers = {w1}
  NoWorker = NoWorker
  MaxAttempts = 2
  MaxFaults = 0
PROPERTIES EveryKeptResultArrives
CHECK_DEADLOCK FALSE
