------------------------------ MODULE FileSystem ------------------------------
(***************************************************************************)
(* The allocation and directory layer of the file system simulator of      *)
(* Project-4: the two bitmaps and their counters, the inodes, the current  *)
(* directory kept in memory, the directories and indirect maps on disk,    *)
(* and the commands create, rm, mkdir, rmdir, cd and the unmount and mount *)
(* of the disk.  The program runs one command at a time; each is a step.   *)
(*                                                                         *)
(* Abstractions.  A size is a number of blocks.  A block of file data is   *)
(* Data.  A directory is the sequence of its entries: slots from numEntry  *)
(* on are not read before they are written again, but when the last entry  *)
(* of all is dropped, and that the model does not follow (wild).  Slot i   *)
(* of the code is entry i + 1 here.                                        *)
(***************************************************************************)
EXTENDS Integers, Sequences, FiniteSets, SequencesExt

CONSTANTS MAX_INODE, MAX_BLOCK,
          SystemBlocks,    \* superblock, maps and inode blocks
          DIRECT_BLOCK,
          MAX_DIR_ENTRY,
          Names,           \* names the user may type, besides "." and ".."
          Sizes,           \* sizes the user may ask for, in blocks
          MaxStray         \* bound: commands followed once stray is not 0

ASSUME FSAssumption ==
  /\ MAX_INODE \in Nat \ {0} /\ MAX_BLOCK \in Nat /\ SystemBlocks \in Nat \ {0}
  /\ SystemBlocks < MAX_BLOCK
  /\ DIRECT_BLOCK \in Nat \ {0} /\ MAX_DIR_ENTRY \in Nat \ {0}
  /\ Sizes \subseteq Nat /\ MaxStray \in Nat

Inodes == 0 .. MAX_INODE - 1
Blocks == 0 .. MAX_BLOCK - 1
AllNames == Names \cup {".", ".."}
Entries == [name : AllNames, inode : Inodes]
Data == [kind |-> "data"]
DirBlock(e) == [kind |-> "dir", entries |-> e]
\* Mutant of MapBlock: the loop that fills the map stops one block early.
MapBlockShort(bs) == [kind |-> "map", blocks |-> Tail(bs)]
MapBlock(bs) == [kind |-> "map", blocks |-> bs]

VARIABLES
  inodeMap, blockMap,                \* the inodes and blocks marked in use
  freeInodeCount, freeBlockCount,    \* the superblock
  inode,         \* [type, direct, indirect (a block), numIndirect] of each inode
  curDir,        \* entries of the current directory, in memory
  curDirBlock,   \* block of the root directory, set by fs_mount only
  disk,          \* contents of the blocks
  wild,          \* the program used a block or a slot that is not what it took
                 \* it for; what follows depends on the bytes found there
  stray          \* 0 while every command kept to the usage that rm, rmdir and
                 \* the unmount cope with (see DropsItsEntry, EmptyChild, AtRoot),
                 \* then the number of commands since the first that did not

vars == <<inodeMap, blockMap, freeInodeCount, freeBlockCount, inode, curDir,
          curDirBlock, disk, wild, stray>>

TypeOK ==
  /\ inodeMap \subseteq Inodes /\ blockMap \subseteq Blocks
  /\ freeInodeCount \in Int /\ freeBlockCount \in Int
  /\ inode \in [Inodes -> [type : {"file", "directory"}, direct : Seq(Blocks),
                           indirect : Blocks, numIndirect : Nat]]
  /\ curDir \in Seq(Entries)
  /\ curDirBlock \in Blocks
  /\ \A b \in Blocks : \/ disk[b] = Data
                       \/ /\ disk[b].kind = "dir"
                          /\ disk[b].entries \in Seq(Entries)
                       \/ /\ disk[b].kind = "map"
                          /\ disk[b].blocks \in Seq(Blocks)
  /\ wild \in BOOLEAN
  /\ stray \in Nat

\* fs_mount of a disk that does not exist yet: the root directory takes the
\* first inode and the first block after the system's.
Init ==
  /\ inodeMap = {0}
  /\ blockMap = 0 .. SystemBlocks
  /\ freeInodeCount = MAX_INODE - 1
  /\ freeBlockCount = MAX_BLOCK - SystemBlocks - 1
  /\ curDir = <<[name |-> ".", inode |-> 0]>>
  /\ curDirBlock = SystemBlocks
  /\ inode = [n \in Inodes |->
                IF n = 0 THEN [type |-> "directory", direct |-> <<SystemBlocks>>,
                               indirect |-> 0, numIndirect |-> 0]
                ELSE [type |-> "file", direct |-> <<>>, indirect |-> 0, numIndirect |-> 0]]
  /\ disk = [b \in Blocks |-> IF b = SystemBlocks
                              THEN DirBlock(<<[name |-> ".", inode |-> 0]>>) ELSE Data]
  /\ wild = FALSE
  /\ stray = 0

-----------------------------------------------------------------------------
(* fs_util.c: bits and counters.                                           *)

FreeInodes == Inodes \ inodeMap
FreeBlocks == Blocks \ blockMap

\* get_free_inode takes the first clear bit.
FirstFreeInode == CHOOSE n \in FreeInodes : \A m \in FreeInodes : n <= m

\* k calls of get_free_block take the first k clear bits, in order.
FirstFreeBlocks(k) ==
  [i \in 1 .. k |-> CHOOSE b \in FreeBlocks :
                      Cardinality({a \in FreeBlocks : a < b}) = i - 1]

\* Mutant of Freed: the loop stops one block early.
FreedShort(bs) == {i \in 1 .. Len(bs) - 1 : bs[i] \in blockMap}

\* free_block on each block of bs in turn; a block that is free already stops
\* the loop.
Freed(bs) == {i \in 1 .. Len(bs) :
                \A j \in 1 .. i : /\ bs[j] \in blockMap
                                  /\ \A k \in 1 .. j - 1 : bs[k] # bs[j]}

-----------------------------------------------------------------------------
(* The current directory.                                                  *)

\* The entries search_cur_dir can answer with: the first of that name.
Slot(name) == CHOOSE i \in 1 .. Len(curDir) :
                /\ curDir[i].name = name
                /\ \A j \in 1 .. i - 1 : curDir[j].name # name
Exists(name) == \E i \in 1 .. Len(curDir) : curDir[i].name = name
Found(name) == curDir[Slot(name)].inode

DirectoryFull == Len(curDir) + 1 >= MAX_DIR_ENTRY

\* Mutant of Added: the entry gets the number after the inode's.
AddedNext(name, n) == Append(curDir, [name |-> name, inode |-> n + 1])
Added(name, n) == Append(curDir, [name |-> name, inode |-> n])

\* file_remove 616-625, dir_remove 745-756: the last entry goes, and if it is
\* not the removed inode's it is copied to the slot numbered as the inode.
Dropped(n) ==
  LET last == curDir[Len(curDir)]
      rest == SubSeq(curDir, 1, Len(curDir) - 1)
  IN  IF n # last.inode /\ n < Len(rest) THEN [rest EXCEPT ![n + 1] = last] ELSE rest

\* The copy falls outside the array of entries, or no entry is left.
DropsTooFar(n) == \/ n # curDir[Len(curDir)].inode /\ n >= MAX_DIR_ENTRY
                  \/ Len(curDir) = 1

\* The entry to remove is the last one, or its slot has the inode's number.
DropsItsEntry(name) == Slot(name) = Len(curDir) \/ Slot(name) = Found(name) + 1

AtRoot == curDir[1].inode = 0

\* Slots before the first child: "." and, but in the root, "..".
Dots(n) == IF n = 0 THEN 1 ELSE 2

-----------------------------------------------------------------------------
(* The commands.                                                           *)

Tidy == stray = 0

\* The program takes a next command that the model follows.
Running == ~wild /\ stray <= MaxStray

StrayAfter(keepsTidy) == IF Tidy /\ keepsTidy THEN 0 ELSE stray + 1

\* file_create: the direct blocks, then for a large file the indirect ones
\* and the block of their map.  When those do not fit the file keeps its
\* direct blocks and is reported created.
Create(name, size) ==
  LET small  == IF size <= DIRECT_BLOCK THEN size ELSE DIRECT_BLOCK
      extra  == size - small
      large  == extra > 0 /\ extra + 1 <= freeBlockCount - small
      n      == FirstFreeInode
      blocks == FirstFreeBlocks(IF large THEN size + 1 ELSE small)
      direct == SubSeq(blocks, 1, small)
      map    == blocks[small + 1]
      more   == SubSeq(blocks, small + 2, Len(blocks))
  IN
  /\ Running
  /\ ~Exists(name)
  /\ ~DirectoryFull
  /\ small <= freeBlockCount
  /\ freeInodeCount >= 1
  /\ FreeInodes # {}
  /\ inodeMap' = inodeMap \cup {n}
  /\ freeInodeCount' = freeInodeCount - 1
  /\ blockMap' = blockMap \cup ToSet(blocks)
  /\ freeBlockCount' = freeBlockCount - Len(blocks)
  /\ inode' = [inode EXCEPT ![n] =
                 [type |-> "file", direct |-> direct,
                  indirect |-> IF large THEN map ELSE @.indirect,
                  numIndirect |-> IF large THEN extra ELSE 0]]
  /\ curDir' = Added(name, n)
  /\ disk' = [b \in Blocks |-> IF large /\ b = map THEN MapBlock(more)
                               ELSE IF b \in ToSet(blocks) THEN Data ELSE disk[b]]
  /\ stray' = StrayAfter(TRUE)
  /\ UNCHANGED <<curDirBlock, wild>>

\* The indirect map of a file is still where it was written.
MapIntact(n) == inode[n].numIndirect > 0 =>
                  /\ disk[inode[n].indirect].kind = "map"
                  /\ Len(disk[inode[n].indirect].blocks) >= inode[n].numIndirect

\* The blocks file_remove frees, in its order; the map's own is not freed.
BlocksOf(n) ==
  IF inode[n].numIndirect > 0
  THEN SubSeq(disk[inode[n].indirect].blocks, 1, inode[n].numIndirect) \o inode[n].direct
  ELSE inode[n].direct

\* file_remove: the inode, its blocks, and the entry unless a block was free.
RemoveFile(name) ==
  LET n  == Found(name)
      bs == BlocksOf(n)
      ok == Freed(bs) = 1 .. Len(bs)
  IN
  /\ Running
  /\ Exists(name)
  /\ inode[n].type = "file"
  /\ n \in inodeMap
  /\ inodeMap' = inodeMap \ {n}
  /\ freeInodeCount' = freeInodeCount + 1
  /\ IF MapIntact(n)
     THEN /\ blockMap' = blockMap \ {bs[i] : i \in Freed(bs)}
          /\ freeBlockCount' = freeBlockCount + Cardinality(Freed(bs))
          /\ curDir' = IF ok THEN Dropped(n) ELSE curDir
          /\ wild' = (ok /\ DropsTooFar(n))
     ELSE /\ wild' = TRUE
          /\ UNCHANGED <<blockMap, freeBlockCount, curDir>>
  /\ stray' = StrayAfter(DropsItsEntry(name))
  /\ UNCHANGED <<inode, curDirBlock, disk>>

\* dir_make
MakeDir(name) ==
  LET n == FirstFreeInode
      b == FirstFreeBlocks(1)[1]
  IN
  /\ Running
  /\ ~Exists(name)
  /\ ~DirectoryFull
  /\ freeInodeCount >= 1 /\ FreeInodes # {}
  /\ freeBlockCount >= 1 /\ FreeBlocks # {}
  /\ inodeMap' = inodeMap \cup {n}
  /\ freeInodeCount' = freeInodeCount - 1
  /\ blockMap' = blockMap \cup {b}
  /\ freeBlockCount' = freeBlockCount - 1
  /\ inode' = [inode EXCEPT ![n].type = "directory", ![n].direct = <<b>>,
                            ![n].numIndirect = 0]
  /\ curDir' = Added(name, n)
  /\ disk' = [disk EXCEPT ![b] = DirBlock(<<[name |-> ".", inode |-> n],
                                            [name |-> "..", inode |-> curDir[1].inode]>>)]
  /\ stray' = StrayAfter(TRUE)
  /\ UNCHANGED <<curDirBlock, wild>>

\* A child of the current directory that is an empty directory.
EmptyChild(name) ==
  /\ Slot(name) > Dots(curDir[1].inode)
  /\ disk[inode[Found(name)].direct[1]].kind = "dir"
  /\ Len(disk[inode[Found(name)].direct[1]].entries) = 2

\* Mutants of RemoveDir: the superblock is not updated for the block; the block
\* freed is the current directory's.
RemoveDirUncounted(name) ==
  LET n  == Found(name)
      b  == inode[n].direct[1]
      ok == b \in blockMap
  IN
  /\ Running
  /\ Exists(name)
  /\ inode[n].type = "directory"
  /\ n \in inodeMap
  /\ inodeMap' = inodeMap \ {n}
  /\ freeInodeCount' = freeInodeCount + 1
  /\ blockMap' = blockMap \ {b}
  /\ curDir' = IF ok THEN Dropped(n) ELSE curDir
  /\ wild' = (ok /\ DropsTooFar(n))
  /\ stray' = StrayAfter(EmptyChild(name) /\ DropsItsEntry(name))
  /\ UNCHANGED <<freeBlockCount, inode, curDirBlock, disk>>

RemoveDirOwnBlock(name) ==
  LET n  == Found(name)
      b  == inode[curDir[1].inode].direct[1]
      ok == b \in blockMap
  IN
  /\ Running
  /\ Exists(name)
  /\ inode[n].type = "directory"
  /\ n \in inodeMap
  /\ inodeMap' = inodeMap \ {n}
  /\ freeInodeCount' = freeInodeCount + 1
  /\ blockMap' = blockMap \ {b}
  /\ freeBlockCount' = IF ok THEN freeBlockCount + 1 ELSE freeBlockCount
  /\ curDir' = IF ok THEN Dropped(n) ELSE curDir
  /\ wild' = (ok /\ DropsTooFar(n))
  /\ stray' = StrayAfter(EmptyChild(name) /\ DropsItsEntry(name))
  /\ UNCHANGED <<inode, curDirBlock, disk>>

\* dir_remove: any directory the current one names, "." and ".." included.
RemoveDir(name) ==
  LET n  == Found(name)
      b  == inode[n].direct[1]
      ok == b \in blockMap
  IN
  /\ Running
  /\ Exists(name)
  /\ inode[n].type = "directory"
  /\ n \in inodeMap
  /\ inodeMap' = inodeMap \ {n}
  /\ freeInodeCount' = freeInodeCount + 1
  /\ blockMap' = blockMap \ {b}
  /\ freeBlockCount' = IF ok THEN freeBlockCount + 1 ELSE freeBlockCount
  /\ curDir' = IF ok THEN Dropped(n) ELSE curDir
  /\ wild' = (ok /\ DropsTooFar(n))
  /\ stray' = StrayAfter(EmptyChild(name) /\ DropsItsEntry(name))
  /\ UNCHANGED <<inode, curDirBlock, disk>>

\* The disk once the current directory is saved; mutant: it is not saved.
UnsavedDisk == disk
SavedDisk == [disk EXCEPT ![inode[curDir[1].inode].direct[1]] = DirBlock(curDir)]

\* dir_change saves the current directory first, whatever happens next.
ChangeDir(name) ==
  LET here  == curDir[1].inode
      n     == Found(name)
      there == SavedDisk[inode[n].direct[1]]
  IN
  /\ Running
  /\ disk' = IF inode[here].direct = <<>> THEN disk ELSE SavedDisk
  /\ IF inode[here].direct = <<>>
     THEN /\ wild' = TRUE
          /\ UNCHANGED curDir
     ELSE IF ~Exists(name) \/ inode[n].type = "file"
     THEN UNCHANGED <<curDir, wild>>
     ELSE IF there.kind # "dir" \/ there.entries = <<>>
     THEN /\ wild' = TRUE
          /\ UNCHANGED curDir
     ELSE /\ curDir' = there.entries
          /\ UNCHANGED wild
  /\ UNCHANGED <<inodeMap, blockMap, freeInodeCount, freeBlockCount, inode,
                 curDirBlock>>
  /\ stray' = StrayAfter(TRUE)

\* fs_umount, and fs_mount of the same disk by a later run: the superblock,
\* the maps and the inodes come back as they were; the current directory is
\* written to the block of the root and read back from it.
Remount ==
  LET saved == [disk EXCEPT ![curDirBlock] = DirBlock(curDir)]
      ok    == /\ inode[0].direct # <<>>
               /\ saved[inode[0].direct[1]].kind = "dir"
               /\ saved[inode[0].direct[1]].entries # <<>>
  IN
  /\ Running
  /\ disk' = saved
  /\ IF ok THEN /\ curDirBlock' = inode[0].direct[1]
                /\ curDir' = saved[inode[0].direct[1]].entries
                /\ UNCHANGED wild
     ELSE /\ wild' = TRUE
          /\ UNCHANGED <<curDirBlock, curDir>>
  /\ stray' = StrayAfter(AtRoot)
  /\ UNCHANGED <<inodeMap, blockMap, freeInodeCount, freeBlockCount, inode>>

\* What happens next is not determined by the program text, or not followed.
Lost == ~Running /\ UNCHANGED vars

Next == \/ \E name \in AllNames :
             \/ \E size \in Sizes : Create(name, size)
             \/ RemoveFile(name) \/ MakeDir(name) \/ RemoveDir(name) \/ ChangeDir(name)
        \/ Remount
        \/ Lost

Spec == Init /\ [][Next]_vars

-----------------------------------------------------------------------------
(* Properties.                                                             *)

\* The superblock's counters are the numbers of clear bits of the maps, so
\* that "not enough space" is said when and only when it is true.
CountsMatch == /\ freeInodeCount = Cardinality(FreeInodes)
               /\ freeBlockCount = Cardinality(FreeBlocks)

\* No two inodes in use, and no two places of one inode, share a direct
\* block, and none has a block that is free or the system's own: whatever
\* the user removes and in whatever order.
DirectBlocksOwned ==
  ~wild =>
    /\ \A n \in inodeMap : \A i \in 1 .. Len(inode[n].direct) :
         inode[n].direct[i] \in blockMap \ (0 .. SystemBlocks - 1)
    /\ \A n, m \in inodeMap : \A i \in 1 .. Len(inode[n].direct),
                                 j \in 1 .. Len(inode[m].direct) :
         <<n, i>> # <<m, j>> => inode[n].direct[i] # inode[m].direct[j]

LiveDirs == {n \in inodeMap : inode[n].type = "directory"}

\* The directory as the next command sees it: the current one is in memory.
Listing(d) == IF d = curDir[1].inode THEN curDir ELSE disk[inode[d].direct[1]].entries

\* <<d, i>>: entry i of directory d names something in it, not "." or "..".
Children == UNION {{<<d, i>> : i \in Dots(d) + 1 .. Len(Listing(d))} : d \in LiveDirs}

IsDirectory(d) ==
  /\ d # curDir[1].inode => disk[inode[d].direct[1]].kind = "dir"
  /\ Len(Listing(d)) >= Dots(d)
  /\ Listing(d)[1] = [name |-> ".", inode |-> d]
  /\ \A i, j \in 1 .. Len(Listing(d)) :
       Listing(d)[i].name = Listing(d)[j].name => i = j

\* As long as the user keeps to what rm, rmdir and the unmount cope with, the
\* directories form one tree: every directory lists itself first, names are
\* unique, ".." is the directory that lists it, every inode in use but the
\* root is listed exactly once and nothing else is listed.
TreeSound ==
  Tidy =>
    /\ ~wild
    /\ 0 \in LiveDirs
    /\ curDir[1].inode \in LiveDirs
    /\ \A d \in LiveDirs : IsDirectory(d)
    /\ \A c \in Children : Listing(c[1])[c[2]].inode \in inodeMap \ {0}
    /\ \A n \in inodeMap \ {0} :
         \E c \in Children :
           /\ Listing(c[1])[c[2]].inode = n
           /\ \A e \in Children : Listing(e[1])[e[2]].inode = n => e = c
           /\ inode[n].type = "directory" =>
                Listing(n)[2] = [name |-> "..", inode |-> c[1]]

\* ... and a file's indirect map is found where its inode says, lists as many
\* blocks as the inode counts, and these are its own: marked in use, and no
\* direct block, map or indirect block of a file in use besides.
IndirectBlocksOwned ==
  Tidy =>
    LET Big == {n \in inodeMap : inode[n].numIndirect > 0}
        Own(n) == <<inode[n].indirect>> \o
                    SubSeq(disk[inode[n].indirect].blocks, 1, inode[n].numIndirect)
    IN  \A n \in Big :
          /\ MapIntact(n)
          /\ ToSet(Own(n)) \subseteq blockMap
          /\ IsInjective(Own(n))
          /\ \A m \in Big \ {n} : ToSet(Own(n)) \cap ToSet(Own(m)) = {}
          /\ \A m \in inodeMap : ToSet(Own(n)) \cap ToSet(inode[m].direct) = {}

\* fs.c:619: what leaves the directory is the entry of the removed inode, and
\* the other entries stay.
RemovesItsEntry ==
  [][\A name \in AllNames :
       RemoveFile(name) /\ ~wild' /\ Len(curDir') < Len(curDir) =>
         ToSet(curDir') = ToSet(curDir) \ {curDir[Slot(name)]}]_vars

\* What rm and rmdir leave marked in use is never a block of data or of a
\* directory: a marked block is the system's, or a file or directory in use
\* has it, or it is the indirect map of a file that was removed.
OnlyMapsLeak ==
  Tidy =>
    \A b \in blockMap :
      \/ b < SystemBlocks
      \/ \E n \in inodeMap : b \in ToSet(BlocksOf(n)) \cup {inode[n].indirect}
      \/ disk[b].kind = "map"
==============================================================================
