SPECIFICATION LcSpec
CONSTANTS
  LcKeys = {1}
  LcValues = {v1}
  LcEmptyValue = empty
  LcMaxTxs = 2
  LcMaxBlocks = 1
CHECK_DEADLOCK FALSE
INVARIANTS
  TxProofAccepted
