CONSTANTS
  NumChannels = 3
  Formats = {"raw", "wav", "old"}
  Header = Header
  MaxBlocks = 4
  SamplingRate = 5
  NumberOfSamples = 2
  Seconds = 2
  NumLeds = 2
  MaxPiped = 3
SPECIFICATION MCSpec
INVARIANTS
  FilesThenQueue
  InsideTheArray
  RecordsTheStream
PROPERTIES
  ImplementsRecording
  RecordersReturn
CHECK_DEADLOCK FALSE
