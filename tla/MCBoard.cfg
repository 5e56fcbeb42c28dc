CONSTANTS
  PinRegisters = {"value_"}
  NumBanks = 2
  PinsPerBank = 2
  PrescalerBits = 3
  GPIOPrescaler = 5
  HalfWord = 65536
  Settings = {0, 1, 2}
  PinLists <- TheLists
  Pulses <- ThePulses
  ServoPeriod = 46875
  ServoMiddle = 3515
  MinPulses = {1875}
  Angles = {7, 180}
  MaxCalls = 3
  BusThreads = {t1, t2}
  MaxInits = 3
  FIFOSize = 8
  MaxWriteLength = 2
  Frequencies = {1, 2}
  DefaultFrequency = 2
SPECIFICATION MCSpec
INVARIANTS
  PinsAsAsked
  PulsesAsAsked
  OwnTransfer
  OneDeviceOpen
  DriverIsAlive
  NothingOverwritten
CHECK_DEADLOCK FALSE
