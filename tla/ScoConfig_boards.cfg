SPECIFICATION FairSpec
CONSTANTS
  Boards <- SafeBoards
  MaxInFlight = 3
INVARIANTS
  TypeOK
  AnsweredOnce
  CodecApplied
  NbsRateAsConfigured
  NoNullCall
PROPERTIES
  ServiceSpec
  RequestAnswered
CHECK_DEADLOCK FALSE
