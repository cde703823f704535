SPECIFICATION FairSpec
CONSTANTS
  DataWords = 7
  ControlWords = 4
  HostSizes <- MCHostSizes
  Capacity <- MCCapacity
  Portion <- MCPortion
INVARIANTS TypeOK HostWordsArriveInOrder TransfersFit
PROPERTY EverySocketServed
