SPECIFICATION Spec
CONSTANTS
  Word <- Words
  Sites <- LongLineSites
  Grain = 50
INVARIANTS
  ReadLineByLine
