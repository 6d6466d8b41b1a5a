SPECIFICATION Spec
CONSTANTS
  MAX_PID = 1
  MAX_PAGE = 5
  MAX_FRAME = 3
  TLB_ENTRY = 4
  Policies = {"FIFO", "LRU", "CLOCK"}
  Values = {blank}
  Blank = blank
VIEW WithoutStoredFrames
INVARIANTS
  TypeOK
  TLBResident
  TLBSetsWellUsed
  LruListComplete
PROPERTIES
  EvictsOldest
