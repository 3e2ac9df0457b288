\* A person and a bot, two matches, two overlapping calls, two commands that may
\* share an action id; the lock is held as long as its owner runs.
SPECIFICATION Spec
CONSTANTS
  ann = ann
  bob = bob
  bot = bot
  Players <- AnnAndBot
  Bots <- OneBot
  NextPlayer <- AnnBotOrder
  FirstPlayer = ann
  NoPlayer = nobody
  Deck = 1
  Calls = {c1, c2}
  Matches = {m1, m2}
  Ids = {i1}
  NoId = NoId
  NoMatch = NoMatch
  NoCall = NoCall
  NoReceipt = NoReceipt
  NoRequest = NoRequest
  LockMayBeLost = FALSE
  MaxRequests = 2
  MaxFaults = 1
SYMMETRY Symmetry
INVARIANTS TypeOK ReceiptIffCommit CommittedAsExpected RejectedIsNeverApplied PlayingIffActive
PROPERTIES HistoryIsFrozen ImplementsLog
CHECK_DEADLOCK FALSE
