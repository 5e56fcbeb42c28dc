CONSTANTS
  Main = main
  Capture = capture
  Process = process
  Threads = {main, capture, process}
  Files = {}
  Topics = {ch1, ch2}
  OnOpenFailure = "ignored"
  Drain = TRUE
  MaxFrame = 2
  BusMayFail = TRUE
  SpuriousIrq = TRUE
  Blocks <- Frames
  NoBlock = NoBlock
  MaxPush = 0
SPECIFICATION FairSpec
PROPERTY ProcessLeavesLoop
