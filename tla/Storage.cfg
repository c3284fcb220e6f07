CONSTANTS
  Replicas = {r1, r2}
  Keys = {k1}
  None = None
  Lag = 2
  MaxWrites = 2
  MaxSaves = 1
  MaxFaults = 2
SPECIFICATION FairSpec
CHECK_DEADLOCK FALSE
INVARIANTS
  TypeOK
PROPERTIES
  NoStepBack
  Converges
