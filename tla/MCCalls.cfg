CONSTANTS
  alice = alice
  treasury = treasury
  account1 = account1
  account2 = account2
  k1 = k1
  k2 = k2
  Dids <- MCDids
  Callers = {alice, treasury}
  Treasury = treasury
  Contracts = {k1, k2}
  Deployed = {k1}
  AccountOf <- MCAccountOf
  Opening <- MCOpening
  Requests = {r1, r2, r3}
  None = None
  Values = {0, 2}
  Sizes = {1, 2}
  BaseFee = 0
  PerByteFee = 1
  GasPerByte = 1
  GasLimit = 1
  Word = 16
  Modes = {TRUE, FALSE}
  MaxRestarts = 1
  MaxHeight = 2
  Forks = {a}
  Absent = Absent
  MaxCached = 1
  Writers = {w1, w2}
  Readers = {reader1}
  Importing = TRUE
  Clearing = TRUE
  MaxAdds = 3
  MaxFailures = 2
  MaxCrashes = 1
SPECIFICATION CallsSpec
CHECK_DEADLOCK FALSE
SYMMETRY CallsSymmetry
INVARIANTS
  TypeOK
  Conservation
  NoncesUnique
  CachedInOrder
  AckedStored
  ReadsFindStored
  NothingAboveLatest
  HashMapSuffices
PROPERTIES
  OnlyCallerPays
