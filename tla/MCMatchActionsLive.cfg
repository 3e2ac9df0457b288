\* Every command is answered: retries against failures, crashes and lost locks.
SPECIFICATION FairSpec
CONSTANTS
  ann = ann
  bob = bob
  bot = bot
  Players <- AnnAndBot
  Bots <- OneBot
  NextPlayer <- AnnBotOrder
  FirstPlayer = ann
  NoPlayer = nobody
  Deck = 1
  Calls = {c1, c2}
  Matches = {m1}
  Ids = {i1}
  NoId = NoId
  NoMatch = NoMatch
  NoCall = NoCall
  NoReceipt = NoReceipt
  NoRequest = NoRequest
  LockMayBeLost = TRUE
  MaxRequests = 2
  MaxFaults = 2
INVARIANTS AppliedAtMostOnce OneCommitPerVersion AckIsDurable
PROPERTY EveryCommandAnswered
CHECK_DEADLOCK FALSE
