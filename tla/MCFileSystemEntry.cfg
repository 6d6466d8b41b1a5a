SPECIFICATION Spec
CONSTANTS
  MAX_INODE = 4
  MAX_BLOCK = 6
  SystemBlocks = 1
  DIRECT_BLOCK = 1
  MAX_DIR_ENTRY = 5
  Names = {a, b}
  Sizes = {1, 2}
  MaxStray = 0
PROPERTY RemovesItsEntry
