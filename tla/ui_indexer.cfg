SPECIFICATION Spec
CONSTANTS
  StartBlock = 1
  MaxBlock = 5
  CatchupThreshold = 2
  SafetyMargin = 2
  Calls = {c1, c2, c3}
  Worlds <- FailingOrForcing
INVARIANTS IInv HolesAreRescanned CacheIsRecoverable
PROPERTIES ForcedBlockIsShown
CHECK_DEADLOCK FALSE
