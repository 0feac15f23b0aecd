SPECIFICATION Spec
CONSTANTS
  TargetBaud <- BuiltTarget
  USE_CONTROLLER_BDADDR = FALSE
  PatchFiles <- AllFiles
  FD = {3, 4}
  MaxStarts = 3
  RestartInCallback = FALSE
  AbandonMidway = FALSE
  ReadMayFail = TRUE
INVARIANTS
  TypeOK
  LinkAgreement
  MinidriverOnlyToRom
  SuccessMeansServing
  NoDescriptorLeak
  BuffersAccounted
PROPERTIES
  ServiceSpec
CHECK_DEADLOCK FALSE
