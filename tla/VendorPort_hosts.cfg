SPECIFICATION FairSpec
CHECK_DEADLOCK FALSE
CONSTANTS
  Settings <- AllSettings
  MaxId = 2
  MaxFds = 2
  MaxEpilogs = 2
INVARIANTS
  TypeOK
  StartsInStep
  SwitchesBluetoothOnly
  WakeHeard
  WakeAgreement
  ClosedReleases
  NoFdLost
  EpilogAnsweredOnce
PROPERTIES
  EpilogTakenAnswered
