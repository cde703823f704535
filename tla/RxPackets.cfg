SPECIFICATION FairSpec
CONSTANTS
  Widths = {"16", "14", "12"}
  PctSize <- MCPctSize
  SmplRdSize <- MCSmplRdSize
  SmplFifoWords = 26
  PctBuffWords = 18
  Lag = 2
  MaxSmpl = 34
INVARIANTS TypeOK HeaderNumbersFirstSample WholePackets NothingOverflows
PROPERTY SamplesLeave
