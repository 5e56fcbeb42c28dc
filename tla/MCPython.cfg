CONSTANTS
  Callers = {c1}
  Mics = {m1, m2}
  MaxQueue = 2
  MaxPhantom = 1
  MaxBlocks = 3
  MaxCalls = 5
SPECIFICATION MCSpec
INVARIANTS
  NeverBroken
  StopsLeaveOne
  LenNeverOverstates
  InitExcludesReads
PROPERTIES
  EveryCallReturns
CHECK_DEADLOCK FALSE
