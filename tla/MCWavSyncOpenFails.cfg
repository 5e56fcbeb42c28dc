CONSTANTS
  NumChannels = 2
  BlockBytes = 100
  Wrap = 256
  MaxBlocks = 3
  OpenMayFail = TRUE
  MayBeKilled = FALSE
SPECIFICATION Spec
INVARIANT AppendKeepsOld
CHECK_DEADLOCK FALSE
