------------------------------ MODULE MCFileData ------------------------------
(* TLC instances of FileData.                                              *)
EXTENDS FileData, TLC

NameSymmetry == Permutations(Names)

\* Left out of the view is what is written before the followed commands read
\* it: the blocks that are free, the block of the current directory, the
\* fields of an inode not in use but for its slots and its indirect block.  A
\* run that went wild, or that typed what is not coped with, has ended.
View ==
  IF ~FS!Running \/ ~FS!Tidy THEN <<FALSE>>
  ELSE <<inodeMap, blockMap, freeInodeCount, freeBlockCount, curDir, curDirBlock, slot, late,
         [n \in inodeMap |-> <<inode[n], content[n]>>],
         [n \in FS!Inodes |-> inode[n].indirect],
         [b \in FS!Blocks \cap blockMap |->
            IF disk[b] = FS!Data THEN bytes[b]
            ELSE IF b = inode[curDir[1].inode].direct[1] THEN <<>> ELSE disk[b]]>>
==============================================================================
