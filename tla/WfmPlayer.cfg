SPECIFICATION FairSpec
CONSTANTS
  Files <- MCFiles
  HeaderWords = 2
  Lag = 2
  WcmdLimit = 2
  RcmdSize = 3
  AddrSpace = 8
  KeepsUp = TRUE
  KeepsReady = TRUE
INVARIANT TypeOK
  
