SPECIFICATION FairSpec
CONSTANTS
  FieldBytes = 8
  PortionBytes = 2
  LastPortion = 2
  MAX_MCU_RETRIES = 2
  WriteRetries = 6
  RetryRange = 4
  PacketWords = 3
  None = None
  Temperatures <- MCTemperatures
  Sessions <- MCSessions
INVARIANTS TypeOK OscillatorDriven ProgramWholeInMcu ProgrammedOrError
PROPERTIES ReadsAreTrue CommandsAnswered
