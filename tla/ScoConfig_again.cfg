SPECIFICATION Spec
CONSTANTS
  Boards <- TwoClockBoards
  MaxInFlight = 1
INVARIANTS
  NbsRateAsConfigured
