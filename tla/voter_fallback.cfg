SPECIFICATION Spec
CONSTANTS
  Devices = {"browser", "keystore"}
  Program <- BrowserAndCli
  Keys = {1, 2}
  GasWallets = {1, 2, 3}
  OthersBlock = 1
  MaxBlock = 3
  MaxRemarks <- Remarks
  MaxMishaps = 1
INVARIANTS FallbackIsOffered
CHECK_DEADLOCK FALSE
