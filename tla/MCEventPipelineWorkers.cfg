SPECIFICATION FairSpec
CONSTANTS
  m1 = m1
  m2 = m2
  ann = ann
  guest = guest
  w1 = w1
  w2 = w2
  Matches = {m1}
  Actors = {ann, guest}
  Users = {ann}
  Workers = {w1, w2}
  NoWorker = NoWorker
  MaxAttempts = 2
  MaxFaults = 2
INVARIANTS PublishedWasSent OffsetIsProcessed StatsFollowResults
PROPERTIES EveryResultArrives
CHECK_DEADLOCK FALSE
