SPECIFICATION Spec
CONSTANTS
  StartBlock = 1
  MaxBlock = 3
  CatchupThreshold = 2
  SafetyMargin = 1
  Calls = {c1, c2}
  Worlds <- OnlyForcing
INVARIANTS AwaitedIsInSnapshot
CHECK_DEADLOCK FALSE
