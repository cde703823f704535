SPECIFICATION FairOrderSpec
CONSTANTS
  NBuff = 2
  MaxPayload = 5
  Streams <- MCStreams
  MaxNr = 24
  Lag = 2
  FifoLimit = 0
  FifoMargin = 4
INVARIANTS TypeOK BufferHoldsOnePacket SampleFifoFits SamplesInOrder
PROPERTIES StartsOnTime DropsOnlyLate EveryPacketLeaves
