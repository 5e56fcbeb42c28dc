CONSTANTS
  Retries = 3
  MaxPending = 4
  WaitForUnsent = TRUE
  Topics = 3
  MaxBlocksSent = 3
  BUFFER_SIZE = 3
  CHUNK_SIZE = 2
  MessageSizes = {1, 2}
  MaxSamples = 6
SPECIFICATION MCSpec
INVARIANTS
  GivesUpOnlyOnSilence
  ChannelsInStep
  PlayedInOrder
PROPERTIES
  ImplementsPlayback
  MqttProgramsEnd
CHECK_DEADLOCK FALSE
