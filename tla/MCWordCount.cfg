\* Up to three files: one of up to four characters, two of up to three together,
\* or three of up to two.
CONSTANTS
  MAX_FILES = 3
  MAX_SIZE = 5
  Garbage <- MCGarbage
SPECIFICATION FairSpec
INVARIANTS
  TypeOK
  CountsWords
  CountsConserved
  ReportsLast
PROPERTY EveryProcessEnds
\* The program ends.
CHECK_DEADLOCK FALSE
