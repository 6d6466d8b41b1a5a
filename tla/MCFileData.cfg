SPECIFICATION Spec
CONSTANTS
  MAX_INODE = 3
  MAX_BLOCK = 7
  SystemBlocks = 1
  DIRECT_BLOCK = 2
  MAX_DIR_ENTRY = 5
  Names = {a, b}
  MaxStray = 0
  BLOCK_SIZE = 2
  Byte = {0, 1, 2}
  FileSizes = {2, 4, 5}
  WriteSizes = {1, 2}
SYMMETRY NameSymmetry
VIEW View
INVARIANTS TypeOK ContentKept ReadBack
