SPECIFICATION FairSpec
CONSTANTS
  Word <- Words
  Sites <- AllSites
  Grain = 50
INVARIANTS
  TypeOK
  ShortLinesRead
  SearchIsBestFit
  SettledInTime
  EarlyAnswerSafe
PROPERTIES
  Finishes
