CONSTANTS
  Txs = {t1, t2, t3, t4}
  Ticks = {k1, k2}
  Callers = {}
  MaxTxPerBlock = 2
  MaxBlocksInMemory = 3
  Persistent = FALSE
  MaxFaults = 1
SPECIFICATION FairSpec
CHECK_DEADLOCK FALSE
INVARIANTS
  TypeOK
  AcceptedOnce
  BlocksAccountedFor
  BlocksFollow
PROPERTIES
  ImplementsTxLog
  QueuedIsMined
