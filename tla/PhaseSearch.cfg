SPECIFICATION LiveSpec
CONSTANTS
  MaxPhase = 7
  SettleCnt = 0
  Timeout = 2
  CounterMax = 7
  CmpLength = 2
  StepSizes = {1, 3}
  ManualPhases = {0, 2}
  Windows <- MCWindows
  PllKinds = {"live", "high", "low"}
  PllSteps = 2
  LockClocks = 0
INVARIANTS TypeOK VerdictIsOfThisPhase ShiftResult
PROPERTY EveryShiftEnds
