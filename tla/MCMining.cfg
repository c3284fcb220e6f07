CONSTANTS
  Txs = {t1, t2, t3, t4}
  Ticks = {}
  Callers = {c1}
  MaxTxPerBlock = 1
  MaxBlocksInMemory = 2
  Persistent = FALSE
  MaxFaults = 1
  Flushers = {f1}
  MaxBlocksPerBundle = 1
  MaxBundles = 5
  MaxHeight = 3
  Forks = {a, b}
  Absent = Absent
  MaxCached = 2
  Writers = {w1}
  Readers = {reader1}
  Importing = FALSE
  Clearing = FALSE
  MaxAdds = 4
  MaxFailures = 2
  MaxCrashes = 1
SPECIFICATION MiningSpec
CHECK_DEADLOCK FALSE
SYMMETRY MiningSymmetry
INVARIANTS
  SeqTypeOK
  BundlesDeliverChain
  BsTypeOK
  MetaMatchesBlocks
  ReadsAreCurrent
  NextHeightIsNew
PROPERTIES
  LruEviction
