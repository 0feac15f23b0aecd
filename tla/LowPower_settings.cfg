SPECIFICATION FairSpec
CONSTANTS
  Settings <- AllSettings
  HoldTicks = 2
  KernelTicks = 4
  MaxInFlight = 2
INVARIANTS
  TypeOK
  NoLostAssert
  AssertLasts
  ArmsExistingTimer
  TimerOwned
  LpmAnsweredOnce
  LpmAgreement
PROPERTIES
  NeverLeftAsserted
