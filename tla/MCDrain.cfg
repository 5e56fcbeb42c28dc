CONSTANTS
  Main = main
  Capture = capture
  Process = process
  Threads = {main, capture, process}
  Files = {ch1}
  Topics = {}
  OnOpenFailure = "returns"
  Drain = TRUE
  MaxFrame = 3
  BusMayFail = FALSE
  SpuriousIrq = FALSE
  Blocks <- Frames
  NoBlock = NoBlock
  MaxPush = 0
SPECIFICATION Spec
INVARIANT DrainedAtEnd
