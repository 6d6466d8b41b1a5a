SPECIFICATION Spec
CONSTANTS
  MAX_PID = 2
  MAX_PAGE = 2
  MAX_FRAME = 2
  TLB_ENTRY = 2
  Policies = {"RANDOM", "FIFO", "LRU", "CLOCK"}
  Values = {blank, other}
  Blank = blank
VIEW WithoutStoredFrames
INVARIANTS
  TLBResident
  FramesAgree
PROPERTIES
  ImplementsVirtualMemory
