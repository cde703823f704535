SPECIFICATION Spec
CONSTANTS
  Ratio = 2
  PctClocks = 12
  GapClocks = 4
  Settle = 6
INVARIANT ClearCommandClears
