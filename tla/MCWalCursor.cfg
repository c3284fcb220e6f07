SPECIFICATION IdbSpec
CONSTANTS
  IdbConns = {c1}
  IdbNumbers = {1, 2}
  IdbValues = {v1}
  IdbWidth = 3
  IdbMaxLog = 3
  IdbMaxOps = 2
INVARIANTS
  CursorShowsKeys
