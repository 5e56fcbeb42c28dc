CONSTANTS
  Main = main
  Capture = capture
  Process = process
  Threads = {main, capture, process}
  Files = {wav}
  Topics = {beam}
  OnOpenFailure = "stops"
  Drain = TRUE
  MaxFrame = 3
  BusMayFail = TRUE
  SpuriousIrq = TRUE
  Blocks <- Frames
  NoBlock = NoBlock
  MaxPush = 0
SPECIFICATION FairIrqSpec
PROPERTIES
  ImplementsRecording
  MainReturns
