---------------------------- MODULE MCFileSystem ----------------------------
(***************************************************************************)
(* Instances of FileSystem for TLC.                                        *)
(***************************************************************************)
EXTENDS FileSystem

\* The names the user chooses are interchangeable.
NameSymmetry == Permutations(Names)

\* While tidy, an inode or a block that is free, and the block of the current
\* directory, are written before they are read again.
InUse ==
  IF Running
  THEN <<inodeMap, blockMap, freeInodeCount, freeBlockCount, curDir, curDirBlock, stray,
         [n \in inodeMap |-> inode[n]],
         [b \in blockMap \ {inode[curDir[1].inode].direct[1]} |-> disk[b]]>>
  ELSE vars
==============================================================================
