CONSTANTS
  NumChannels = 2
  BlockBytes = 100
  Wrap = 256
  MaxBlocks = 5
  OpenMayFail = TRUE
  MayBeKilled = TRUE
SPECIFICATION Spec
INVARIANTS
  KillCostsTwoBlocks
  ClosedFilesAreExact
  BlocksInOrder
PROPERTY ReturnAppends
CHECK_DEADLOCK FALSE
