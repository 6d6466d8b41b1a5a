------------------------------- MODULE FileData -------------------------------
(***************************************************************************)
(* The data of the files of Project-4/fs.c: what create, write, read and   *)
(* cat do with the blocks that FileSystem allocates.  A command here is    *)
(* the command of FileSystem together with the bytes it moves, so that     *)
(* both follow the same run; size and offset are in bytes.                 *)
(*                                                                         *)
(* The array directBlock of an inode is slot: its elements from blockCount *)
(* on keep the block numbers of the inode's earlier files, and write and   *)
(* read use them.  content is what the user put into each file by the      *)
(* program's reports of success, the reference of the properties.          *)
(***************************************************************************)
EXTENDS Integers, Sequences, FiniteSets, SequencesExt

CONSTANTS MAX_INODE, MAX_BLOCK, SystemBlocks, DIRECT_BLOCK, MAX_DIR_ENTRY,
          Names, MaxStray,
          BLOCK_SIZE,
          Byte,          \* values of a byte, 0 .. some number
          FileSizes,     \* sizes given to create
          WriteSizes     \* sizes given to write

Sizes == {}              \* sizes in blocks follow from those in bytes

SMALL_FILE == DIRECT_BLOCK * BLOCK_SIZE

ASSUME FileDataAssumption ==
  /\ MAX_INODE \in Nat \ {0} /\ MAX_BLOCK \in Nat /\ SystemBlocks \in Nat \ {0}
  /\ SystemBlocks < MAX_BLOCK
  /\ DIRECT_BLOCK \in Nat \ {0} /\ MAX_DIR_ENTRY \in Nat \ {0} /\ MaxStray \in Nat
  /\ BLOCK_SIZE \in Nat \ {0, 1} /\ \E k \in Byte : Byte = 0 .. k
  /\ FileSizes \subseteq Nat /\ WriteSizes \subseteq Nat \ {0}

VARIABLES
  inodeMap, blockMap, freeInodeCount, freeBlockCount, inode, curDir,
  curDirBlock, disk, wild, stray,     \* of FileSystem
  slot,        \* directBlock of each inode, indexed from 0
  bytes,       \* the bytes of each block
  content,     \* what each file should hold
  late         \* files written through file_write_helper

fsVars == <<inodeMap, blockMap, freeInodeCount, freeBlockCount, inode, curDir,
            curDirBlock, disk, wild, stray>>
vars == <<fsVars, slot, bytes, content, late>>

FS == INSTANCE FileSystem

\* What follows the generated string in its buffer; no property looks at it.
Pad == 0

Block == [1 .. BLOCK_SIZE -> Byte]
Slots == 0 .. DIRECT_BLOCK - 1

Init ==
  /\ FS!Init
  /\ slot = [n \in FS!Inodes |-> [k \in Slots |-> IF n = 0 /\ k = 0 THEN SystemBlocks ELSE 0]]
  /\ bytes \in [FS!Blocks -> [1 .. BLOCK_SIZE -> {Pad}]]
  /\ content \in [FS!Inodes -> {<<>>}]
  /\ late = {}

-----------------------------------------------------------------------------
(* Where the bytes of a file are.                                          *)

\* Blocks of data of a file, in order: the direct ones, then the indirect ones
\* if it has any, which are found through the map on disk.
DataBlocks(n) ==
  inode[n].direct \o (IF inode[n].numIndirect > 0 /\ FS!MapIntact(n)
                      THEN SubSeq(disk[inode[n].indirect].blocks, 1, inode[n].numIndirect)
                      ELSE <<>>)

\* The block that read and write take for block j: from the array, even past
\* blockCount, or from the map, whose elements past the file's are older ones
\* of the program's map in memory: 0 stands for any of them.
BlockAt(n, j) ==
  IF j < DIRECT_BLOCK THEN slot[n][j]
  ELSE LET map == disk[inode[n].indirect].blocks
       IN  IF j - DIRECT_BLOCK < Len(map) THEN map[j - DIRECT_BLOCK + 1] ELSE 0

startBlockNo(offset) == offset \div BLOCK_SIZE
\* The last block with a byte of the range, or the next one when the range ends
\* with its block.
endBlockNo(offset, size) == (offset + size) \div BLOCK_SIZE

\* file_read and file_write leave to their helpers what may go past the direct
\* blocks.  The helpers go through the map, and begin with it at DIRECT_BLOCK:
\* a range that begins later is copied to before the buffer.
ByHelper(offset, size) == endBlockNo(offset, size) > DIRECT_BLOCK - 1
HelperFollows(n, offset) == /\ startBlockNo(offset) <= DIRECT_BLOCK
                            /\ disk[inode[n].indirect].kind = "map"

\* Mutant of Gathered: the blocks from the first on, wherever the range starts.
GatheredFromZero(n, offset, size) ==
  FlattenSeq([k \in 1 .. endBlockNo(offset, size) - startBlockNo(offset) + 1 |->
                bytes[BlockAt(n, k - 1)]])

\* The blocks of the range, in the buffer nstr.
Gathered(n, offset, size) ==
  FlattenSeq([k \in 1 .. endBlockNo(offset, size) - startBlockNo(offset) + 1 |->
                bytes[BlockAt(n, startBlockNo(offset) + k - 1)]])

\* What file_read prints, and file_cat, the latter with all of the last block.
FileRead(n, offset, size) ==
  SubSeq(Gathered(n, offset, size), (offset % BLOCK_SIZE) + 1, (offset % BLOCK_SIZE) + size)
FileCat(n) == FlattenSeq([k \in 1 .. Len(DataBlocks(n)) |-> bytes[DataBlocks(n)[k]]])

-----------------------------------------------------------------------------
(* The commands.                                                           *)

\* Blocks that file_create asks for.  The direct blocks of a large file take
\* SMALL_FILE - 1 of its bytes by the program's count, and the indirect ones
\* are counted for the rest.
CeilDiv(a, b) == (a + b - 1) \div b
NumBlocks(size) ==
  IF size >= SMALL_FILE THEN DIRECT_BLOCK + CeilDiv(size - (SMALL_FILE - 1), BLOCK_SIZE)
  ELSE CeilDiv(size, BLOCK_SIZE)

\* Mutant of Piece: the data of an indirect block begins a byte early.
PieceEarly(str, k) ==
  [p \in 1 .. BLOCK_SIZE |->
     LET q == (k - 1) * BLOCK_SIZE + p - (IF k > DIRECT_BLOCK THEN 1 ELSE 0)
     IN  IF q <= Len(str) THEN str[q] ELSE Pad]

\* Mutant of Piece: only what is left of the string is written.
PieceShort(str, k) ==
  SubSeq(str, (k - 1) * BLOCK_SIZE + 1,
         IF k * BLOCK_SIZE < Len(str) THEN k * BLOCK_SIZE ELSE Len(str))

\* The part of a string that is written to the file's k-th block.
Piece(str, k) ==
  [p \in 1 .. BLOCK_SIZE |-> IF (k - 1) * BLOCK_SIZE + p <= Len(str)
                             THEN str[(k - 1) * BLOCK_SIZE + p] ELSE Pad]

\* slot after a command of FileSystem.
FillSlots ==
  slot' = [n \in FS!Inodes |->
             [k \in Slots |-> IF k < Len(inode'[n].direct) THEN inode'[n].direct[k + 1]
                              ELSE slot[n][k]]]

\* file_create, with a random string.  A large file that does not fit keeps
\* the size of its direct part.
Create(name, str) ==
  \E n \in FS!FreeInodes :
    /\ n = FS!FirstFreeInode
    /\ FS!Create(name, NumBlocks(Len(str)))
    /\ FillSlots
    /\ LET bs == DataBlocks(n)' IN
       /\ bytes' = [b \in FS!Blocks |-> IF b \in ToSet(bs)
                                        THEN Piece(str, CHOOSE k \in 1 .. Len(bs) : bs[k] = b)
                                        ELSE bytes[b]]
       /\ content' = [content EXCEPT ![n] = IF Len(bs) = NumBlocks(Len(str)) THEN str
                                            ELSE SubSeq(str, 1, SMALL_FILE - 1)]
    /\ late' = late \ {n}

RemoveFile(name) ==
  /\ FS!RemoveFile(name)
  /\ content' = [content EXCEPT ![FS!Found(name)] = <<>>]
  /\ late' = late \ {FS!Found(name)}
  /\ UNCHANGED <<slot, bytes>>

\* The other commands move no data of files.
Other ==
  /\ \/ \E name \in FS!AllNames :
          FS!MakeDir(name) \/ FS!RemoveDir(name) \/ FS!ChangeDir(name)
     \/ FS!Remount
  /\ FillSlots
  /\ UNCHANGED <<bytes, content, late>>

\* The bytes of the file after a write, as far as the file goes.
Replaced(n, offset, str) ==
  [k \in 1 .. Len(content[n]) |-> IF k \in offset + 1 .. offset + Len(str)
                                  THEN str[k - offset] ELSE content[n][k]]

\* The block numbered j, read and with its part of the new bytes.
Patched(n, j, offset, str) ==
  [p \in 1 .. BLOCK_SIZE |-> IF j * BLOCK_SIZE + p \in offset + 1 .. offset + Len(str)
                             THEN str[j * BLOCK_SIZE + p - offset]
                             ELSE bytes[slot[n][j]][p]]

\* A write that the file system copes with: it stays inside the file's blocks,
\* and those it goes through, with the one after them that it only writes
\* back, are different ones.
Copes(n, offset, size) ==
  /\ inode[n].type = "file"
  /\ offset + size <= Len(inode[n].direct) * BLOCK_SIZE
  /\ \A j, k \in startBlockNo(offset) .. endBlockNo(offset, size) :
       slot[n][j] = slot[n][k] => j = k

\* Mutant of WriteDirect: the blocks are written back from the file's first
\* one on, not from the first one of the range.
WriteDirectFromZero(name, offset, str) ==
  LET n == FS!Found(name)
      range == startBlockNo(offset) .. endBlockNo(offset, Len(str))
      at(b) == {j \in range : slot[n][j - startBlockNo(offset)] = b}
      reached == {slot[n][q \div BLOCK_SIZE] : q \in offset .. offset + Len(str) - 1}
  IN
  /\ FS!Running /\ FS!Exists(name)
  /\ ~ByHelper(offset, Len(str))
  /\ bytes' = [b \in FS!Blocks |-> IF at(b) = {} THEN bytes[b]
                                   ELSE Patched(n, Max(at(b)), offset, str)]
  /\ content' = [content EXCEPT ![n] = Replaced(n, offset, str)]
  /\ stray' = FS!StrayAfter(Copes(n, offset, Len(str)))
  /\ wild' = \E b \in reached : disk[b] # FS!Data
  /\ UNCHANGED <<inodeMap, blockMap, freeInodeCount, freeBlockCount, inode, curDir,
                 curDirBlock, disk, slot, late>>

\* file_write within the direct blocks: the blocks of the range are read,
\* changed and written back in order.  Nothing looks at the size of the file
\* or at its type.  When new bytes reach a block that is not one of data, what
\* the program later finds there is not followed.
WriteDirect(name, offset, str) ==
  LET n == FS!Found(name)
      range == startBlockNo(offset) .. endBlockNo(offset, Len(str))
      at(b) == {j \in range : slot[n][j] = b}
      reached == {slot[n][q \div BLOCK_SIZE] : q \in offset .. offset + Len(str) - 1}
  IN
  /\ FS!Running /\ FS!Exists(name)
  /\ ~ByHelper(offset, Len(str))
  /\ bytes' = [b \in FS!Blocks |-> IF at(b) = {} THEN bytes[b]
                                   ELSE Patched(n, Max(at(b)), offset, str)]
  /\ content' = [content EXCEPT ![n] = Replaced(n, offset, str)]
  /\ stray' = FS!StrayAfter(Copes(n, offset, Len(str)))
  /\ wild' = \E b \in reached : disk[b] # FS!Data
  /\ UNCHANGED <<inodeMap, blockMap, freeInodeCount, freeBlockCount, inode, curDir,
                 curDirBlock, disk, slot, late>>

\* file_write_helper reads the blocks, writes them back, and only then puts
\* the new bytes into its buffer and reports success.
WriteHelper(name, offset, str) ==
  LET n == FS!Found(name) IN
  /\ FS!Running /\ FS!Exists(name)
  /\ ByHelper(offset, Len(str))
  /\ content' = [content EXCEPT ![n] = Replaced(n, offset, str)]
  /\ late' = late \cup {n}
  /\ wild' = ~HelperFollows(n, offset)
  /\ stray' = FS!StrayAfter(TRUE)
  /\ UNCHANGED <<inodeMap, blockMap, freeInodeCount, freeBlockCount, inode, curDir,
                 curDirBlock, disk, slot, bytes>>

Lost == ~FS!Running /\ UNCHANGED vars

\* What rand_string or the user may give, one for each size: a byte is never
\* equal to its neighbours, so that none of them shows in another's place.
Strings(sizes) == {[k \in 1 .. size |-> k % Cardinality(Byte)] : size \in sizes}
Offsets == 0 .. (DIRECT_BLOCK + 1) * BLOCK_SIZE

Next ==
  \/ \E name \in FS!AllNames :
       \/ \E str \in Strings(FileSizes) : Create(name, str)
       \/ RemoveFile(name)
       \/ \E str \in Strings(WriteSizes), offset \in Offsets :
            WriteDirect(name, offset, str) \/ WriteHelper(name, offset, str)
  \/ Other
  \/ Lost

Spec == Init /\ [][Next]_vars

-----------------------------------------------------------------------------
(* Properties.                                                             *)

\* Types of what this module adds to FileSystem: the slots of every inode hold
\* numbers of blocks, also those left over from earlier files.
TypeOK ==
  /\ slot \in [FS!Inodes -> [Slots -> FS!Blocks]]
  /\ bytes \in [FS!Blocks -> Block]
  /\ content \in [FS!Inodes -> Seq(Byte)]
  /\ late \subseteq FS!Inodes

Files == {n \in inodeMap : inode[n].type = "file"}
\* What the user typed so far is what the file system copes with.
Followed == FS!Tidy /\ ~wild

Shows(n) == SubSeq(FileCat(n), 1, Len(content[n])) = content[n]

\* Every file shows, by cat, what create and the writes inside it put there:
\* no create, rm, mkdir, rmdir, unmount or write of another file, and no
\* block number left in its inode, loses or moves a byte of it.  Files that
\* file_write_helper wrote are excepted, see WriteReplaces.
ContentKept == Followed => \A n \in Files \ late : Shows(n)

\* read gives the same bytes as cat, at every offset and size inside the file,
\* across blocks and from the direct blocks to the indirect ones.  It finds
\* the blocks its own way, by the array and by the map; that way fails for a
\* range that begins past the first indirect block (HelperFollows).
ReadBack ==
  Followed =>
    \A n \in Files \ late : \A offset \in 0 .. Len(content[n]) - 1 :
      \A size \in 1 .. Len(content[n]) - offset :
        (ByHelper(offset, size) => HelperFollows(n, offset))
          => FileRead(n, offset, size) = SubSeq(content[n], offset + 1, offset + size)

\* README.pdf of Project-4 on write: the contents given by the user replace the
\* original contents, in large files as in small ones.
WriteReplaces == Followed => \A n \in Files : Shows(n)
==============================================================================
