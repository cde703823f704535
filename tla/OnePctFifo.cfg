SPECIFICATION FairSpec
CONSTANTS
  RdRatio = 16
  MaxPctWords = 5
  SizeFields = {0, 32, 48}
  AllOnes = 15
  Lag = 3
  InfifoDepth = 4
  MaxPkts = 3
INVARIANTS TypeOK OnePacketOnly
PROPERTIES FeedsPackets EveryPacketArrives
