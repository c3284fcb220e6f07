CONSTANTS
  alice = alice
  treasury = treasury
  account1 = account1
  account2 = account2
  k1 = k1
  k2 = k2
  Dids <- MCDids
  Callers = {alice, treasury}
  Treasury = treasury
  Contracts = {k1, k2}
  Deployed = {k1}
  AccountOf <- MCAccountOf
  Opening <- MCOpening
  Requests = {r1, r2}
  None = None
  Values = {0, 2}
  Sizes = {1, 2}
  BaseFee = 0
  PerByteFee = 1
  GasPerByte = 1
  GasLimit = 1
  Word = 16
  Modes = {FALSE}
  MaxRestarts = 0
SPECIFICATION Spec
CHECK_DEADLOCK FALSE
SYMMETRY Symmetry
INVARIANTS
  SignedOnce
