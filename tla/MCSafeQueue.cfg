CONSTANTS
  Threads = {t1, t2, t3}
  Blocks = {b1, b2}
  NoBlock = NoBlock
  MaxPush = 2
SPECIFICATION FairQueueSpec
INVARIANTS
  EveryBlockHasAWaker
  NoSleeperAfterStop
PROPERTIES
  ImplementsChannel
  NoBlockStranded
