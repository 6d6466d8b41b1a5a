SPECIFICATION Spec
CONSTANTS
  MAX_INODE = 3
  MAX_BLOCK = 5
  SystemBlocks = 1
  DIRECT_BLOCK = 1
  MAX_DIR_ENTRY = 4
  Names = {a, b}
  Sizes = {1, 2}
  MaxStray = 5
SYMMETRY NameSymmetry
INVARIANTS
  TypeOK
  CountsMatch
  DirectBlocksOwned
