SPECIFICATION Spec
CONSTANTS
  Tabs = {t1, t2}
  finney = finney
  test = test
  archive = archive
  lite = lite
  testnode = testnode
  Endpoints = {archive, lite, testnode}
  Genesis = {finney, test}
  Serves <- Behind
  Builds <- Deployments
  NoOverride = NoOverride
  MaxBlock = 2
  SafetyMargin = 1
SYMMETRY Interchangeable
INVARIANT RefusesForeignData
CHECK_DEADLOCK FALSE
