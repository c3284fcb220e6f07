CONSTANTS
  Txs = {t1, t2, t3}
  Ticks = {k1}
  Callers = {}
  MaxTxPerBlock = 1
  MaxBlocksInMemory = 2
  Persistent = FALSE
  MaxFaults = 0
SPECIFICATION Spec
SYMMETRY Symmetry
CHECK_DEADLOCK FALSE
INVARIANTS
  HeaderChainLinked
