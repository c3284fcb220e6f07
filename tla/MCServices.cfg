SPECIFICATION ServicesSpec
CONSTANTS
  IdbConns = {c1, c2}
  IdbNumbers <- Numbers
  IdbValues = {v1}
  IdbWidth = 3
  IdbMaxLog = 2
  IdbMaxOps = 2
  SsCallers = {a, b}
  SsIds = {i, j}
  SsWasms = {w, x}
  HsContracts = {k1}
  HsTxs = {t1, t2}
  HsDids = {d1}
  HsKeys = {s1}
  HsAdapters = {l1, l2}
  HsFirst = l1
  HsReady = {l2}
  HsGasLimit = 1
  HsPage = 2
  HsMaxPages = 2
  HsMaxEvents = 1
  HsMaxTokens = 1
  DidCallers = {a, b}
  did1 = did1
  key1 = key1
  Dids = {did1, did2}
  DidKeys = {key1, key2}
  InitialDids <- GenesisDids
  SnState <- States
  SnKnown = {1}
  SnRetries = 2
  SnMaxSaves = 2
  LcKeys = {1, 2, 3}
  LcValues = {v1}
  LcEmptyValue = empty
  LcMaxTxs = 5
  LcMaxBlocks = 1
  HdMaxHash = 6
  HdMaxInMemory = 3
  AsKeys = {s1, s2}
  AsMaxWrites = 2
  AsMaxSnaps = 2
  AsMaxSaves = 2
  FmCallers = {a, b}
  FmTexts = {p}
  FmEndpoints = {e1, e2}
  FmFirst = e1
  FmMaxId = 2
  LmCallers = {a, b}
  LmIds = {i, j}
  LmMaxSteps = {2}
  LmBuffers = {2}
  LmLengths = {1, 2}
  LmMaxAnswers = 2
  RlClients = {listed, other}
  RlAllowlist = {listed}
  RlApiKey = TRUE
  RlWindow = 2
  RlMax = 2
  RlMaxTime = 6
INVARIANTS
  ServicesTypeOK
  LogIsMemory
  AddsAreKept
  ReceiptsAreOwn
  AdapterReachesContracts
  BringsTheState
  ProofsVerify
  SyncIsChain
  SnapshotIsCut
  ForumKeeps
  AnswersUsedOnce
  RateIsBounded
PROPERTIES
  ChangesAreSigned
SYMMETRY Interchangeable
CHECK_DEADLOCK FALSE
