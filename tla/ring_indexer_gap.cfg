SPECIFICATION Spec
CONSTANTS
  StartBlock = 2
  MaxBlock = 5
  Calls = {c1, c2, c3, c4}
  FetchMayFail = TRUE
INVARIANTS ScannedThroughIsScanned
CHECK_DEADLOCK FALSE
