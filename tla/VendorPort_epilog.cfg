SPECIFICATION FairSpec
CHECK_DEADLOCK FALSE
CONSTANTS
  Settings <- EpilogSettings
  MaxId = 2
  MaxFds = 2
  MaxEpilogs = 2
PROPERTIES
  EpilogAnswered
