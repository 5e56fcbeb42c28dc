CONSTANTS
  Samples = {s1, s2}
  MaxDelay = 4
  MaxInput = 9
  NumChannels = 4
  Points <- ThePoints
  Source = "side"
  Travel <- CreatorTravel
  Periods = {2, 4}
  FirstPoint = "above"
  FirstPeriod = 4
  BlockSize = 2
  Uninitialised = Uninitialised
  MaxClock = 40
  MicFrequencies <- TheFrequencies
  AskedFrequencies = {8000, 44100, 11025}
  AskedGains = {0, 9}
  FirstFrequency = 16000
  FirstGain = 3
  BootConstant = 186
  Length = 512
  MaxTof = 6
  Delays <- CreatorDelays
  NumLeds = 35
  LedOffset <- CreatorLeds
SPECIFICATION MCSpec
INVARIANTS
  NoiseEnds
  ConfiguredAsAsked
  FacesSource
PROPERTIES
  ImplementsDelayLine
  SamplesInOrder
CHECK_DEADLOCK FALSE
