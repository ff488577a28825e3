\* Sending, receiving and transactions (see MCSms).
CONSTANTS
  RefMod = 3
  Capacity = 2
  \* SmsOut
  Dsts = {"a", "b"}
  MaxParts = 2
  MaxMessages = 2
  MaxRefs = 4
  MrMod = 2
  FirstRefs <- NewOrUsed
  Reports = {"ok", "failed", "trying"}
  LinesGarble = TRUE
  \* SmsIn
  Peers = {"a"}
  Parts = 2
  MaxFromPeer = 2
  PeerRef = 0
  Slots = {1, 2}
  Direct = FALSE
  Acks = FALSE
  Autodelete = TRUE
  MaxDups = 1
  RowsAge = TRUE
  LinkFails = TRUE
  PartsGarble = TRUE
  Refusals = TRUE
  \* SmsTx
  Threads = {"t1", "t2", "t3"}
  MaxOps = 2
  Statements = 2
SPECIFICATION SmsSpec
INVARIANTS ToldOnce OutgoingIsTrue WholeMessages ReadingIsAsked NothingLost OwnTransaction
PROPERTIES EveryMessageEnds TransactionsEnd
CHECK_DEADLOCK FALSE
