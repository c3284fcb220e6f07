CONSTANTS
  Txs = {t1, t2, t3}
  Ticks = {k1}
  Callers = {c1}
  MaxTxPerBlock = 1
  MaxBlocksInMemory = 2
  Persistent = TRUE
  MaxFaults = 0
SPECIFICATION Spec
CHECK_DEADLOCK FALSE
SYMMETRY Symmetry
INVARIANTS
  HeightsUnique
  RootsCoverBlock
