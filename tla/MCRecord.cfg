CONSTANTS
  Main = main
  Capture = capture
  Process = process
  Threads = {main, capture, process}
  Files = {ch1, ch2}
  Topics = {}
  OnOpenFailure = "returns"
  Drain = TRUE
  MaxFrame = 4
  BusMayFail = FALSE
  SpuriousIrq = FALSE
  Blocks <- Frames
  NoBlock = NoBlock
  MaxPush = 0
SPECIFICATION FairSpec
INVARIANTS
  RecordingComplete
  CapturedInOrder
PROPERTY ProcessLeavesLoop
