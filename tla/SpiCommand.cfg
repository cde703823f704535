SPECIFICATION SpecCommand
CONSTANT Calls <- FirmwareCalls
INVARIANTS TypeOK NothingLost
PROPERTIES TransfersAreWhole EveryCallReturns
