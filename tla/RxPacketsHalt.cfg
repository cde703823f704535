SPECIFICATION HaltSpec
CONSTANTS
  Widths = {"16"}
  PctSize <- MCPctSize
  SmplRdSize <- MCSmplRdSize
  SmplFifoWords = 20
  PctBuffWords = 40
  Lag = 2
  MaxSmpl = 42
INVARIANT DropsOnlyWhenFull
