SPECIFICATION FairSpec
CONSTANTS
  TargetBaud = 4000000
  USE_CONTROLLER_BDADDR = TRUE
  PatchFiles <- AllFiles
  FD = {3, 4}
  MaxStarts = 2
  RestartInCallback = TRUE
  AbandonMidway = TRUE
  ReadMayFail = TRUE
INVARIANTS
  StdinStaysOpen
PROPERTIES
  ServiceSpec
  RequestAnswered
