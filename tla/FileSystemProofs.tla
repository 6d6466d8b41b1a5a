--------------------------- MODULE FileSystemProofs ---------------------------
(***************************************************************************)
(* Theorems about FileSystem, for every disk, directory size, set of names *)
(* and of sizes, and any commands in any order.                            *)
(***************************************************************************)
EXTENDS FileSystem, SequenceTheorems, FiniteSetTheorems, TLAPS

-----------------------------------------------------------------------------
(* The first clear bits of a map (fs_util.c).                              *)

\* The least-number principle: a nonempty set of naturals has a least member.
LEMMA LeastNumber ==
  ASSUME NEW T \in SUBSET Nat, T # {}
  PROVE  \E m \in T : \A x \in T : m <= x
<1>1. PICK n \in T : TRUE
  OBVIOUS
<1> DEFINE S == 0 .. n
           W == {0 .. k : k \in T \cap S}
           R == StrictSubsetOrdering(S)
<1>2. IsWellFoundedOn(R, SUBSET S)
  <2>1. IsFiniteSet(S)
    BY <1>1, FS_Interval
  <2> HIDE DEF S
  <2>2. FiniteSubsetsOf(S) = SUBSET S
    BY <2>1, FS_FiniteSubsetsOfFinite
  <2> QED
    BY <2>2, FS_StrictSubsetOrderingWellFounded
<1>3. W \subseteq SUBSET S /\ W # {}
  BY <1>1
<1>4. \E w \in W : \A v \in W : ~(<<v, w>> \in R)
  <2> HIDE DEF R, W
  <2> QED BY <1>2, <1>3, WFMin
<1>5. PICK m \in T \cap S : \A k \in T \cap S : ~(<<0 .. k, 0 .. m>> \in R)
  BY <1>4
<1>6. ASSUME NEW k \in T, k < m PROVE FALSE
  <2>1. k \in T \cap S /\ m \in Nat /\ k \in Nat
    BY <1>6, <1>1
  <2>2. 0 .. k \subseteq 0 .. m /\ 0 .. k # 0 .. m
    BY <1>6, <2>1
  <2>3. 0 .. k \in SUBSET S /\ 0 .. m \in SUBSET S
    BY <2>1, <1>1
  <2> QED
    BY <1>5, <2>1, <2>2, <2>3 DEF StrictSubsetOrdering
<1> QED
  BY <1>1, <1>5, <1>6

\* Every map is finite, and so are its clear bits.
LEMMA FiniteMaps ==
  ASSUME NEW n \in Nat, NEW S \in SUBSET (0 .. n - 1)
  PROVE  IsFiniteSet(S) /\ Cardinality(S) \in Nat
<1>1. IsFiniteSet(0 .. n - 1)
  BY FS_Interval
<1> QED
  BY <1>1, FS_Subset, FS_CardinalityType

\* A clear bit follows each smaller number of clear bits.
LEMMA BitAfter ==
  ASSUME NEW n \in Nat, NEW S \in SUBSET (0 .. n - 1), NEW i \in 1 .. Cardinality(S)
  PROVE  \E b \in S : Cardinality({a \in S : a < b}) = i - 1
<1> DEFINE Below(x) == {a \in S : a < x}
           T == {x \in Nat : Cardinality(Below(x)) >= i}
<1>0. \A a \in S : a \in Nat /\ a < n
  OBVIOUS
<1>1. \A x \in Nat : /\ IsFiniteSet(Below(x)) /\ Cardinality(Below(x)) \in Nat
  BY FiniteMaps
<1>2. n \in T
  <2>1. Below(n) = S
    BY <1>0, Zenon
  <2> QED BY <2>1, FiniteMaps
<1>3. PICK m \in T : \A x \in T : m <= x
  BY <1>2, LeastNumber
<1>4. m # 0
  <2>1. Below(0) = {}
    <3>1. \A a \in S : ~(a < 0)
      BY <1>0
    <3> QED BY <3>1, Zenon
  <2>2. Cardinality(Below(0)) = 0
    BY <2>1, FS_EmptySet
  <2> QED BY <2>2
<1>5. m \in Nat /\ m - 1 \in Nat /\ m - 1 \notin T /\ Cardinality(Below(m)) >= i
  <2>1. m \in Nat /\ Cardinality(Below(m)) >= i
    BY <1>3
  <2> HIDE DEF T
  <2>2. m - 1 \in Nat
    BY <2>1, <1>4
  <2>3. m - 1 \notin T
    BY <1>3, <2>1
  <2> QED BY <2>1, <2>2, <2>3
<1>6. Cardinality(Below(m - 1)) < i
  <2>1. ~(Cardinality(Below(m - 1)) >= i)
    BY <1>5
  <2> HIDE DEF Below, T
  <2> QED BY <2>1, <1>1, <1>5
<1> HIDE DEF T
<1>7. CASE m - 1 \in S
  <2>1. Below(m) = Below(m - 1) \cup {m - 1} /\ m - 1 \notin Below(m - 1)
    <3>1. \A a \in S : a < m <=> a < m - 1 \/ a = m - 1
      BY <1>0, <1>5
    <3>2. ~(m - 1 < m - 1)
      BY <1>5
    <3> QED BY <3>1, <3>2, <1>7, Zenon
  <2> HIDE DEF Below
  <2>2. Cardinality(Below(m)) = Cardinality(Below(m - 1)) + 1
    BY <2>1, <1>1, <1>5, FS_AddElement
  <2>3. Cardinality(Below(m - 1)) = i - 1
    BY <2>2, <1>6, <1>1, <1>5
  <2> QED
    BY <2>3, <1>7 DEF Below
<1>8. CASE m - 1 \notin S
  <2>1. Below(m) = Below(m - 1)
    <3>1. \A a \in S : a < m <=> a < m - 1
      BY <1>0, <1>5, <1>8
    <3> QED BY <3>1, Zenon
  <2> HIDE DEF Below
  <2> QED
    BY <2>1, <1>6, <1>1, <1>5
<1> QED
  BY <1>7, <1>8

\* get_free_inode answers with an inode that is free, if one is.
LEMMA FirstFreeInodeFree ==
  ASSUME FreeInodes # {} PROVE FirstFreeInode \in FreeInodes
<1>1. FreeInodes \in SUBSET Nat
  BY FSAssumption DEF FreeInodes, Inodes
<1>2. \E n \in FreeInodes : \A m \in FreeInodes : n <= m
  BY <1>1, LeastNumber
<1> QED
  BY <1>2 DEF FirstFreeInode

\* As many calls of get_free_block as there are free blocks give that many
\* different free blocks.
LEMMA FirstFreeBlocksFree ==
  ASSUME NEW k \in 0 .. Cardinality(FreeBlocks)
  PROVE  LET bs == FirstFreeBlocks(k) IN
         /\ bs \in Seq(FreeBlocks) /\ Len(bs) = k
         /\ \A i, j \in 1 .. k : i # j => bs[i] # bs[j]
<1> DEFINE bs == FirstFreeBlocks(k)
           Before(b) == Cardinality({a \in FreeBlocks : a < b})
<1>1. Cardinality(FreeBlocks) \in Nat
  BY FiniteMaps, FSAssumption DEF FreeBlocks, Blocks
<1>2. \A i \in 1 .. k : bs[i] \in FreeBlocks /\ Before(bs[i]) = i - 1
  <2> SUFFICES ASSUME NEW i \in 1 .. k
               PROVE  bs[i] \in FreeBlocks /\ Before(bs[i]) = i - 1
    OBVIOUS
  <2>1. \E b \in FreeBlocks : Before(b) = i - 1
    <3>1. i \in 1 .. Cardinality(FreeBlocks)
      BY <1>1
    <3>2. MAX_BLOCK \in Nat /\ FreeBlocks \in SUBSET (0 .. MAX_BLOCK - 1)
      BY FSAssumption DEF FreeBlocks, Blocks
    <3> QED BY <3>1, <3>2, BitAfter
  <2>2. bs[i] = CHOOSE b \in FreeBlocks : Before(b) = i - 1
    BY DEF FirstFreeBlocks
  <2> QED
    BY <2>1, <2>2
<1>3. bs \in [1 .. k -> FreeBlocks]
  <2>1. bs = [i \in 1 .. k |-> CHOOSE b \in FreeBlocks : Before(b) = i - 1]
    BY DEF FirstFreeBlocks
  <2> HIDE DEF Before, bs
  <2> QED
    BY <1>2, <2>1
<1> HIDE DEF bs
<1>4. k \in Nat
  BY <1>1
<1>5. \A i, j \in 1 .. k : i # j => bs[i] # bs[j]
  <2> SUFFICES ASSUME NEW i \in 1 .. k, NEW j \in 1 .. k, bs[i] = bs[j] PROVE i = j
    OBVIOUS
  <2>1. i - 1 = j - 1
    BY <1>2
  <2> QED BY <2>1, <1>4
<1>6. bs \in Seq(FreeBlocks) /\ Len(bs) = k
  BY <1>3, <1>4
<1> QED
  BY <1>5, <1>6 DEF bs

-----------------------------------------------------------------------------
(* The inductive invariant.                                                *)

\* The blocks that file_remove or dir_remove gives back for inode n, and the
\* block of its map, which nothing gives back.
Direct(n) == {inode[n].direct[i] : i \in 1 .. Len(inode[n].direct)}
MapOf(n) == IF inode[n].numIndirect > 0 THEN {inode[n].indirect} ELSE {}
HasMap(n) == inode[n].numIndirect > 0 /\ MapIntact(n)
Mapped(n) == IF HasMap(n)
             THEN {disk[inode[n].indirect].blocks[i] : i \in 1 .. inode[n].numIndirect}
             ELSE {}
Owned(n) == Direct(n) \cup MapOf(n) \cup Mapped(n)

\* No block has two places in what inode n owns.
Apart(n) ==
  /\ \A i, j \in 1 .. Len(inode[n].direct) :
       i # j => inode[n].direct[i] # inode[n].direct[j]
  /\ HasMap(n) =>
       \A i, j \in 1 .. inode[n].numIndirect :
         i # j => disk[inode[n].indirect].blocks[i] # disk[inode[n].indirect].blocks[j]
  /\ Direct(n) \cap MapOf(n) = {}
  /\ Direct(n) \cap Mapped(n) = {}
  /\ MapOf(n) \cap Mapped(n) = {}

\* What an inode in use owns is marked in use, is not the system's, and is no
\* other's.  A map that was written over owns nothing any more: without that,
\* and without the maps, a remove could free a block of another file.
Ownership ==
  /\ 0 .. SystemBlocks - 1 \subseteq blockMap
  /\ \A n \in inodeMap : Owned(n) \subseteq blockMap \ (0 .. SystemBlocks - 1)
  /\ \A n, m \in inodeMap : n # m => Owned(n) \cap Owned(m) = {}
  /\ \A n \in inodeMap : Apart(n)

\* A directory's inode, in use or not, has its one block: cd and rmdir take
\* the first without looking.
DirsHaveBlock ==
  \A n \in Inodes : inode[n].type = "directory" => Len(inode[n].direct) = 1

Typed == TypeOK /\ DOMAIN disk = Blocks

\* The current directory has a first entry: every command reads its inode.
Listed == ~wild => curDir # <<>>

FSInv == Typed /\ Listed /\ DirsHaveBlock /\ CountsMatch /\ Ownership

-----------------------------------------------------------------------------
(* What the commands do to the blocks that inodes own.                     *)

\* An inode that a step leaves alone owns what it did, or less if the block of
\* its map is written over.
LEMMA SameInode ==
  ASSUME NEW m, inode'[m] = inode[m],
         \A b \in MapOf(m) : disk'[b] = disk[b] \/ disk'[b].kind # "map"
  PROVE  Owned(m)' \subseteq Owned(m) /\ (Apart(m) => Apart(m)')
<1>1. Direct(m)' = Direct(m) /\ MapOf(m)' = MapOf(m)
  BY DEF Direct, MapOf
<1>2. ASSUME HasMap(m)'
      PROVE  HasMap(m) /\ disk'[inode[m].indirect] = disk[inode[m].indirect]
  <2>1. inode[m].numIndirect > 0 /\ disk'[inode[m].indirect].kind = "map"
    BY <1>2 DEF HasMap, MapIntact
  <2>2. disk'[inode[m].indirect] = disk[inode[m].indirect]
    BY <2>1 DEF MapOf
  <2> QED
    BY <1>2, <2>2 DEF HasMap, MapIntact
<1>3. CASE HasMap(m)'
  <2>1. Mapped(m)' = Mapped(m)
    BY <1>2, <1>3 DEF Mapped
  <2> QED
    BY <1>1, <1>2, <1>3, <2>1 DEF Owned, Apart
<1>4. CASE ~HasMap(m)'
  <2>1. Mapped(m)' = {}
    BY <1>4 DEF Mapped
  <2> QED
    BY <1>1, <1>4, <2>1 DEF Owned, Apart
<1> QED
  BY <1>3, <1>4

\* A new inode owns free blocks only.
LEMMA TakeKeepsOwnership ==
  ASSUME Ownership, NEW n, n \notin inodeMap, inodeMap' = inodeMap \cup {n},
         NEW B, B \cap blockMap = {}, blockMap' = blockMap \cup B,
         \A m \in inodeMap : inode'[m] = inode[m],
         \A b \in blockMap : disk'[b] = disk[b] \/ disk'[b].kind # "map",
         Owned(n)' \subseteq B, Apart(n)'
  PROVE  Ownership'
<1>1. ASSUME NEW m \in inodeMap
      PROVE  Owned(m)' \subseteq Owned(m) /\ Apart(m)' /\ Owned(m) \subseteq blockMap
  <2>1. Owned(m) \subseteq blockMap /\ Apart(m)
    BY DEF Ownership
  <2>2. MapOf(m) \subseteq blockMap
    BY <2>1 DEF Owned
  <2> QED
    BY <2>1, <2>2, SameInode
<1>2. 0 .. SystemBlocks - 1 \subseteq blockMap'
  BY DEF Ownership
<1>3. \A m \in inodeMap' : Owned(m)' \subseteq blockMap' \ (0 .. SystemBlocks - 1)
  <2>1. Owned(n)' \subseteq blockMap' \ (0 .. SystemBlocks - 1)
    BY DEF Ownership
  <2>2. \A m \in inodeMap : Owned(m)' \subseteq blockMap' \ (0 .. SystemBlocks - 1)
    BY <1>1 DEF Ownership
  <2> QED BY <2>1, <2>2
<1>4. \A m, l \in inodeMap' : m # l => Owned(m)' \cap Owned(l)' = {}
  <2>1. \A m \in inodeMap : Owned(n)' \cap Owned(m)' = {}
    BY <1>1
  <2>2. \A m, l \in inodeMap : m # l => Owned(m)' \cap Owned(l)' = {}
    BY <1>1 DEF Ownership
  <2> QED BY <2>1, <2>2
<1>5. \A m \in inodeMap' : Apart(m)'
  BY <1>1
<1> QED
  BY <1>2, <1>3, <1>4, <1>5 DEF Ownership

\* An inode that goes takes blocks of its own with it only.
LEMMA ReleaseKeepsOwnership ==
  ASSUME Ownership, NEW n \in inodeMap, inodeMap' = inodeMap \ {n},
         NEW B, B \subseteq Owned(n), blockMap' = blockMap \ B,
         UNCHANGED <<inode, disk>>
  PROVE  Ownership'
<1>1. \A m : Owned(m)' = Owned(m) /\ (Apart(m) => Apart(m)')
  <2> TAKE m
  <2>1. Direct(m)' = Direct(m) /\ MapOf(m)' = MapOf(m)
    BY DEF Direct, MapOf
  <2>2. HasMap(m)' = HasMap(m) /\ Mapped(m)' = Mapped(m)
    BY DEF HasMap, MapIntact, Mapped
  <2> QED
    BY <2>1, <2>2 DEF Owned, Apart
<1>2. 0 .. SystemBlocks - 1 \subseteq blockMap'
  BY DEF Ownership
<1>3. \A m \in inodeMap' : Owned(m)' \subseteq blockMap' \ (0 .. SystemBlocks - 1)
  BY <1>1 DEF Ownership
<1>4. \A m, l \in inodeMap' : m # l => Owned(m)' \cap Owned(l)' = {}
  BY <1>1 DEF Ownership
<1>5. \A m \in inodeMap' : Apart(m)'
  BY <1>1 DEF Ownership
<1> QED
  BY <1>2, <1>3, <1>4, <1>5 DEF Ownership

\* A directory that is written somewhere changes no owner.
LEMMA OverwriteKeepsOwnership ==
  ASSUME Ownership, UNCHANGED <<inodeMap, blockMap, inode>>,
         \A b \in blockMap : disk'[b] = disk[b] \/ disk'[b].kind # "map"
  PROVE  Ownership'
<1>1. ASSUME NEW m \in inodeMap
      PROVE  Owned(m)' \subseteq Owned(m) /\ Apart(m)'
  <2>1. Owned(m) \subseteq blockMap /\ Apart(m)
    BY DEF Ownership
  <2>2. MapOf(m) \subseteq blockMap
    BY <2>1 DEF Owned
  <2> QED
    BY <2>1, <2>2, SameInode
<1>3. \A m \in inodeMap' : Owned(m)' \subseteq blockMap' \ (0 .. SystemBlocks - 1)
  BY <1>1 DEF Ownership
<1>4. \A m, l \in inodeMap' : m # l => Owned(m)' \cap Owned(l)' = {}
  BY <1>1 DEF Ownership
<1> QED
  BY <1>1, <1>3, <1>4 DEF Ownership

-----------------------------------------------------------------------------
(* The current directory.                                                  *)

\* search_cur_dir answers with the first entry of the name.
LEMMA SlotFound ==
  ASSUME curDir \in Seq(Entries), NEW name, Exists(name)
  PROVE  /\ Slot(name) \in 1 .. Len(curDir)
         /\ curDir[Slot(name)].name = name
         /\ \A j \in 1 .. Slot(name) - 1 : curDir[j].name # name
         /\ Found(name) \in Inodes
<1> DEFINE T == {i \in 1 .. Len(curDir) : curDir[i].name = name}
<1>1. T \subseteq Nat /\ T # {}
  BY DEF Exists
<1>2. PICK i \in T : \A j \in T : i <= j
  <2> HIDE DEF T
  <2> QED BY <1>1, LeastNumber
<1>3. \E k \in 1 .. Len(curDir) : /\ curDir[k].name = name
                                  /\ \A j \in 1 .. k - 1 : curDir[j].name # name
  BY <1>2
<1>4. /\ Slot(name) \in 1 .. Len(curDir)
      /\ curDir[Slot(name)].name = name
      /\ \A j \in 1 .. Slot(name) - 1 : curDir[j].name # name
  BY <1>3 DEF Slot
<1>5. curDir[Slot(name)] \in Entries
  BY <1>4, ElementOfSeq
<1> QED
  BY <1>4, <1>5 DEF Found, Entries

\* Adding an entry, and dropping one, leaves entries.
LEMMA AddedType ==
  ASSUME curDir \in Seq(Entries), NEW name \in AllNames, NEW n \in Inodes
  PROVE  Added(name, n) \in Seq(Entries)
  BY DEF Added, Entries

\* A directory without one of its entries is still a list of entries.
LEMMA DroppedType ==
  ASSUME curDir \in Seq(Entries), Len(curDir) > 0, NEW n \in Inodes
  PROVE  Dropped(n) \in Seq(Entries)
<1> DEFINE last == curDir[Len(curDir)]
           rest == SubSeq(curDir, 1, Len(curDir) - 1)
<1>1. last \in Entries /\ rest \in Seq(Entries) /\ Len(rest) = Len(curDir) - 1
  <2>1. Len(curDir) \in Nat /\ \A i \in 1 .. Len(curDir) : curDir[i] \in Entries
    BY ElementOfSeq
  <2>2. last \in Entries
    BY <2>1
  <2>3. rest \in Seq(Entries) /\ Len(rest) = Len(curDir) - 1
    <3>1. \A i \in 1 .. Len(curDir) - 1 : curDir[i] \in Entries
      BY <2>1
    <3>2. 1 \in Int /\ Len(curDir) - 1 \in Int
      BY <2>1
    <3>3. rest \in Seq(Entries)
      BY <3>1, <3>2, SubSeqProperties
    <3>4. Len(rest) = IF 1 <= Len(curDir) - 1 THEN Len(curDir) - 1 - 1 + 1 ELSE 0
      BY <3>1, <3>2, SubSeqProperties
    <3>5. Len(rest) = Len(curDir) - 1
      <4> HIDE DEF rest
      <4>1. PICK k \in Nat : Len(curDir) = k + 1
        BY <2>1
      <4>2. Len(rest) = IF 1 <= k THEN k ELSE 0
        BY <3>4, <4>1
      <4> QED BY <4>1, <4>2
    <3> QED BY <3>3, <3>5
  <2> QED BY <2>2, <2>3
<1>2. n \in Nat
  BY FSAssumption DEF Inodes
<1> HIDE DEF last, rest
<1>3. n < Len(rest) => [rest EXCEPT ![n + 1] = last] \in Seq(Entries)
  BY <1>1, <1>2, ExceptSeq
<1> QED
  BY <1>1, <1>3 DEF Dropped, last, rest

\* Dropping one of several entries leaves one.
LEMMA DroppedSome ==
  ASSUME curDir \in Seq(Entries), curDir # <<>>, Len(curDir) # 1, NEW n \in Inodes
  PROVE  Dropped(n) # <<>>
<1> DEFINE last == curDir[Len(curDir)]
           rest == SubSeq(curDir, 1, Len(curDir) - 1)
<1>1. PICK k \in Nat : Len(curDir) = k + 2
  <2>1. PICK l \in Nat : Len(curDir) = l
    OBVIOUS
  <2>2. l # 0 /\ l # 1
    BY <2>1, EmptySeq
  <2>3. l - 2 \in Nat /\ l = (l - 2) + 2
    BY <2>2
  <2> QED BY <2>1, <2>3
<1>2. rest \in Seq(Entries) /\ Len(rest) = k + 1
  <2>1. \A i \in 1 .. k + 1 : curDir[i] \in Entries
    BY <1>1, ElementOfSeq
  <2>2. rest = SubSeq(curDir, 1, k + 1)
    BY <1>1
  <2> QED BY <2>1, <2>2, SubSeqProperties
<1>3. last \in Entries
  BY <1>1, ElementOfSeq
<1>4. n \in Nat
  BY FSAssumption DEF Inodes
<1> HIDE DEF last, rest
<1>5. n < Len(rest) => Len([rest EXCEPT ![n + 1] = last]) = k + 1
  BY <1>2, <1>3, <1>4, ExceptSeq
<1>6. Len(Dropped(n)) = k + 1
  BY <1>2, <1>5 DEF Dropped, last, rest
<1>7. k + 1 # 0 /\ Len(<<>>) = 0
  OBVIOUS
<1> QED
  BY <1>6, <1>7

-----------------------------------------------------------------------------
(* The counters of the superblock.                                         *)

\* Marking clear bits, and clearing marked ones, changes the number of clear
\* bits by as many.
LEMMA MarkedCount ==
  ASSUME NEW n \in Nat, NEW M, NEW B \in SUBSET ((0 .. n - 1) \ M)
  PROVE  /\ Cardinality((0 .. n - 1) \ (M \cup B)) =
              Cardinality((0 .. n - 1) \ M) - Cardinality(B)
         /\ Cardinality((0 .. n - 1) \ M) \in Nat /\ Cardinality(B) \in Nat
<1> DEFINE S == (0 .. n - 1) \ M
<1>1. S \in SUBSET (0 .. n - 1) /\ B \in SUBSET (0 .. n - 1)
  OBVIOUS
<1>2. IsFiniteSet(S) /\ Cardinality(S) \in Nat /\ Cardinality(B) \in Nat
  BY <1>1, FiniteMaps
<1>3. S \cap B = B /\ (0 .. n - 1) \ (M \cup B) = S \ B
  OBVIOUS
<1> HIDE DEF S
<1>4. Cardinality(S \ B) = Cardinality(S) - Cardinality(S \cap B)
  BY <1>2, FS_Difference
<1> QED
  BY <1>2, <1>3, <1>4 DEF S

\* Clearing marked bits frees as many as were marked.
LEMMA ClearedCount ==
  ASSUME NEW n \in Nat, NEW M \in SUBSET (0 .. n - 1), NEW B \in SUBSET M
  PROVE  Cardinality((0 .. n - 1) \ (M \ B)) =
           Cardinality((0 .. n - 1) \ M) + Cardinality(B)
<1> DEFINE S == (0 .. n - 1) \ M
<1>1. S \in SUBSET (0 .. n - 1) /\ B \in SUBSET (0 .. n - 1)
  OBVIOUS
<1>2. /\ IsFiniteSet(S) /\ IsFiniteSet(B)
      /\ Cardinality(S) \in Nat /\ Cardinality(B) \in Nat
  BY <1>1, FiniteMaps
<1>3. S \cap B = {} /\ (0 .. n - 1) \ (M \ B) = S \cup B
  BY <1>1
<1> HIDE DEF S
<1>4. Cardinality(S \cup B) = Cardinality(S) + Cardinality(B) - Cardinality(S \cap B)
  BY <1>2, FS_Union
<1>5. Cardinality({}) = 0
  BY FS_EmptySet
<1>6. Cardinality(S \cup B) = Cardinality(S) + Cardinality(B)
  <2>1. Cardinality(S \cap B) = 0
    BY <1>3, <1>5
  <2> QED BY <1>2, <1>4, <2>1
<1> QED
  BY <1>3, <1>6 DEF S

\* A list of different blocks has as many blocks as its length.
LEMMA DifferentCount ==
  ASSUME NEW S, NEW s \in Seq(S), \A i, j \in 1 .. Len(s) : i # j => s[i] # s[j]
  PROVE  Cardinality({s[i] : i \in 1 .. Len(s)}) = Len(s)
<1> DEFINE I == {s[i] : i \in 1 .. Len(s)}
<1>1. Len(s) \in Nat /\ s \in [1 .. Len(s) -> I]
  BY LenProperties
<1>2. s \in Bijection(1 .. Len(s), I)
  <2>1. s \in Injection(1 .. Len(s), I)
    BY <1>1 DEF Injection, IsInjective
  <2>2. s \in Surjection(1 .. Len(s), I)
    BY <1>1 DEF Surjection
  <2> QED BY <2>1, <2>2 DEF Bijection
<1>3. ExistsBijection(1 .. Len(s), I)
  BY <1>2 DEF ExistsBijection
<1> QED
  BY <1>1, <1>3, FS_CountingElements

-----------------------------------------------------------------------------
(* What file_remove frees.                                                 *)

\* The blocks of a file whose map is intact are its own and all different, so
\* that none is free when its turn comes.
LEMMA BlocksOfOwned ==
  ASSUME Typed, Ownership, NEW n \in inodeMap, MapIntact(n)
  PROVE  LET bs == BlocksOf(n) IN
         /\ bs \in Seq(Blocks)
         /\ {bs[i] : i \in 1 .. Len(bs)} \subseteq Owned(n) \ MapOf(n)
         /\ \A i, j \in 1 .. Len(bs) : i # j => bs[i] # bs[j]
         /\ Freed(bs) = 1 .. Len(bs)
<1> DEFINE bs == BlocksOf(n)
           direct == inode[n].direct
           k == inode[n].numIndirect
           list == disk[inode[n].indirect].blocks
<1>0. n \in Inodes
  BY DEF Typed, TypeOK
<1>1. direct \in Seq(Blocks) /\ k \in Nat /\ inode[n].indirect \in Blocks
  BY <1>0 DEF Typed, TypeOK
<1>2. Apart(n) /\ Owned(n) \subseteq blockMap
  BY DEF Ownership
<1>3. ASSUME bs \in Seq(Blocks),
             {bs[i] : i \in 1 .. Len(bs)} \subseteq blockMap,
             \A i, j \in 1 .. Len(bs) : i # j => bs[i] # bs[j]
      PROVE  Freed(bs) = 1 .. Len(bs)
  <2> HIDE DEF bs
  <2>1. Len(bs) \in Nat
    BY <1>3
  <2>2. \A i \in 1 .. Len(bs) : \A j \in 1 .. i :
          bs[j] \in blockMap /\ \A l \in 1 .. j - 1 : bs[l] # bs[j]
    BY <1>3, <2>1
  <2> QED
    BY <2>2 DEF Freed
<1>4. CASE k = 0
  <2>1. bs = direct
    BY <1>4 DEF BlocksOf
  <2>2. {bs[i] : i \in 1 .. Len(bs)} \subseteq Owned(n) \ MapOf(n)
    BY <2>1, <1>4 DEF Owned, Direct, MapOf
  <2>3. \A i, j \in 1 .. Len(bs) : i # j => bs[i] # bs[j]
    BY <2>1, <1>2 DEF Apart
  <2> QED
    BY <2>1, <2>2, <2>3, <1>1, <1>2, <1>3
<1>5. CASE k > 0
  <2>1. HasMap(n)
    BY <1>5 DEF HasMap
  <2>2. list \in Seq(Blocks) /\ k <= Len(list)
    BY <1>1, <1>5, <2>1 DEF Typed, TypeOK, HasMap, MapIntact, Data
  <2> DEFINE sub == SubSeq(list, 1, k)
  <2>3. sub \in Seq(Blocks) /\ Len(sub) = k /\ \A i \in 1 .. k : sub[i] = list[i]
    <3>1. \A i \in 1 .. k : list[i] \in Blocks
      BY <2>2, <1>1, ElementOfSeq
    <3> HIDE DEF k, list
    <3> QED BY <3>1, <1>1, <1>5, SubSeqProperties
  <2>4. bs = sub \o direct
    BY <1>5 DEF BlocksOf
  <2> HIDE DEF bs, sub, k, list, direct
  <2>5. /\ bs \in Seq(Blocks) /\ Len(bs) = k + Len(direct)
        /\ \A i \in 1 .. k : bs[i] = list[i]
        /\ \A i \in k + 1 .. Len(bs) : bs[i] = direct[i - k]
    BY <2>3, <2>4, <1>1, ConcatProperties DEF k, direct
  <2>6. Len(direct) \in Nat
    BY <1>1
  <2>7. \A i \in 1 .. k : bs[i] \in Mapped(n)
    BY <2>5, <2>1 DEF Mapped, k, list
  <2>8. \A i \in k + 1 .. Len(bs) : i - k \in 1 .. Len(direct) /\ bs[i] \in Direct(n)
    <3>1. \A i \in k + 1 .. Len(bs) : i - k \in 1 .. Len(direct)
      BY <2>5, <2>6, <1>1 DEF k
    <3> QED BY <3>1, <2>5 DEF Direct, direct
  <2>9. \A i \in 1 .. Len(bs) : i \in 1 .. k \/ i \in k + 1 .. Len(bs)
    BY <2>5, <2>6, <1>1
  <2>10. {bs[i] : i \in 1 .. Len(bs)} \subseteq Owned(n) \ MapOf(n)
    BY <2>7, <2>8, <2>9, <1>2 DEF Owned, Apart
  <2>11. ASSUME NEW i \in 1 .. Len(bs), NEW j \in 1 .. Len(bs), i # j
         PROVE  bs[i] # bs[j]
    <3>1. CASE i \in 1 .. k /\ j \in 1 .. k
      <4>1. list[i] # list[j]
        BY <3>1, <2>11, <2>1, <1>2 DEF Apart, list, k
      <4> QED BY <4>1, <3>1, <2>5
    <3>2. CASE i \in k + 1 .. Len(bs) /\ j \in k + 1 .. Len(bs)
      <4>1. i - k # j - k
        BY <2>11, <1>1, <3>2
      <4>2. direct[i - k] # direct[j - k]
        BY <3>2, <4>1, <2>8, <1>2 DEF Apart, direct
      <4> QED BY <4>2, <3>2, <2>5
    <3>3. CASE i \in 1 .. k /\ j \in k + 1 .. Len(bs)
      BY <3>3, <2>7, <2>8, <1>2 DEF Apart
    <3>4. CASE i \in k + 1 .. Len(bs) /\ j \in 1 .. k
      BY <3>4, <2>7, <2>8, <1>2 DEF Apart
    <3> QED
      BY <3>1, <3>2, <3>3, <3>4, <2>9
  <2> QED
    BY <2>5, <2>10, <2>11, <1>2, <1>3 DEF bs
<1> QED
  BY <1>1, <1>4, <1>5

-----------------------------------------------------------------------------
(* Types.                                                                  *)

\* What a block may hold.
IsContents(x) == \/ x = Data
                 \/ x.kind = "dir" /\ x.entries \in Seq(Entries)
                 \/ x.kind = "map" /\ x.blocks \in Seq(Blocks)

\* A directory that is saved is contents of a block.
LEMMA DirContents ==
  ASSUME NEW e \in Seq(Entries)
  PROVE  IsContents(DirBlock(e)) /\ DirBlock(e).kind # "map"
  BY DEF IsContents, DirBlock

\* So is the map of the indirect blocks.
LEMMA MapContents ==
  ASSUME NEW bs \in Seq(Blocks) PROVE IsContents(MapBlock(bs))
  BY DEF IsContents, MapBlock

\* The block that dir_make writes.
LEMMA NewDirType ==
  ASSUME NEW n \in Inodes, NEW m \in Inodes
  PROVE  <<[name |-> ".", inode |-> n], [name |-> "..", inode |-> m]>> \in Seq(Entries)
<1>1. /\ [name |-> ".", inode |-> n] \in Entries
      /\ [name |-> "..", inode |-> m] \in Entries
  BY DEF Entries, AllNames
<1> QED
  BY <1>1

\* A file or directory takes the first free inode; so the counter still counts.
LEMMA InodeTaken ==
  ASSUME Typed, CountsMatch, FreeInodes # {},
         inodeMap' = inodeMap \cup {FirstFreeInode},
         freeInodeCount' = freeInodeCount - 1
  PROVE  /\ FirstFreeInode \in Inodes \ inodeMap
         /\ inodeMap' \subseteq Inodes /\ freeInodeCount' = Cardinality(FreeInodes)'
         /\ freeInodeCount' \in Int
<1>1. FirstFreeInode \in Inodes \ inodeMap /\ inodeMap \subseteq Inodes
  BY FirstFreeInodeFree DEF FreeInodes, Typed, TypeOK
<1> DEFINE B == {FirstFreeInode}
<1>2. MAX_INODE \in Nat /\ B \in SUBSET ((0 .. MAX_INODE - 1) \ inodeMap)
  BY <1>1, FSAssumption DEF Inodes
<1>3. Cardinality(B) = 1
  BY FS_Singleton
<1>4. inodeMap' = inodeMap \cup B
  OBVIOUS
<1> HIDE DEF B
<1>5. /\ Cardinality((0 .. MAX_INODE - 1) \ (inodeMap \cup B)) =
           Cardinality((0 .. MAX_INODE - 1) \ inodeMap) - Cardinality(B)
      /\ Cardinality((0 .. MAX_INODE - 1) \ inodeMap) \in Nat
  BY <1>2, MarkedCount
<1>6. Cardinality(FreeInodes)' = Cardinality(FreeInodes) - 1 /\ Cardinality(FreeInodes) \in Nat
  BY <1>3, <1>4, <1>5 DEF FreeInodes, Inodes
<1> QED
  BY <1>1, <1>6 DEF CountsMatch

\* Freeing an inode keeps the counter exact.
LEMMA InodeFreed ==
  ASSUME Typed, CountsMatch, NEW n \in inodeMap,
         inodeMap' = inodeMap \ {n}, freeInodeCount' = freeInodeCount + 1
  PROVE  /\ inodeMap' \subseteq Inodes /\ freeInodeCount' = Cardinality(FreeInodes)'
         /\ freeInodeCount' \in Int
<1>1. MAX_INODE \in Nat /\ inodeMap \in SUBSET (0 .. MAX_INODE - 1)
  BY FSAssumption DEF Typed, TypeOK, Inodes
<1>2. {n} \in SUBSET inodeMap /\ Cardinality({n}) = 1
  BY FS_Singleton
<1>3. Cardinality((0 .. MAX_INODE - 1) \ (inodeMap \ {n})) =
        Cardinality((0 .. MAX_INODE - 1) \ inodeMap) + Cardinality({n})
  BY <1>1, <1>2, ClearedCount
<1>4. Cardinality((0 .. MAX_INODE - 1) \ inodeMap) \in Nat
  BY <1>1, FiniteMaps
<1>5. Cardinality(FreeInodes)' = Cardinality(FreeInodes) + 1 /\ Cardinality(FreeInodes) \in Nat
  BY <1>2, <1>3, <1>4 DEF FreeInodes, Inodes
<1> QED
  BY <1>1, <1>5 DEF CountsMatch, Inodes

\* The same of the blocks.
LEMMA BlocksTaken ==
  ASSUME Typed, CountsMatch, NEW B \in SUBSET FreeBlocks,
         blockMap' = blockMap \cup B, freeBlockCount' = freeBlockCount - Cardinality(B)
  PROVE  /\ blockMap' \subseteq Blocks /\ freeBlockCount' = Cardinality(FreeBlocks)'
         /\ freeBlockCount' \in Int
<1>1. MAX_BLOCK \in Nat /\ B \in SUBSET ((0 .. MAX_BLOCK - 1) \ blockMap)
  BY FSAssumption DEF FreeBlocks, Blocks
<1>2. /\ Cardinality((0 .. MAX_BLOCK - 1) \ (blockMap \cup B)) =
           Cardinality((0 .. MAX_BLOCK - 1) \ blockMap) - Cardinality(B)
      /\ Cardinality((0 .. MAX_BLOCK - 1) \ blockMap) \in Nat /\ Cardinality(B) \in Nat
  BY <1>1, MarkedCount
<1>3. /\ Cardinality(FreeBlocks)' = Cardinality(FreeBlocks) - Cardinality(B)
      /\ Cardinality(FreeBlocks) \in Nat
  BY <1>2 DEF FreeBlocks, Blocks
<1> QED
  BY <1>1, <1>2, <1>3 DEF CountsMatch, Typed, TypeOK, Blocks

\* Freeing blocks keeps the counter exact.
LEMMA BlocksFreed ==
  ASSUME Typed, CountsMatch, NEW B \in SUBSET blockMap,
         blockMap' = blockMap \ B, freeBlockCount' = freeBlockCount + Cardinality(B)
  PROVE  /\ blockMap' \subseteq Blocks /\ freeBlockCount' = Cardinality(FreeBlocks)'
         /\ freeBlockCount' \in Int
<1>1. MAX_BLOCK \in Nat /\ blockMap \in SUBSET (0 .. MAX_BLOCK - 1)
  BY FSAssumption DEF Typed, TypeOK, Blocks
<1>2. Cardinality((0 .. MAX_BLOCK - 1) \ (blockMap \ B)) =
        Cardinality((0 .. MAX_BLOCK - 1) \ blockMap) + Cardinality(B)
  BY <1>1, ClearedCount
<1>3. Cardinality((0 .. MAX_BLOCK - 1) \ blockMap) \in Nat /\ Cardinality(B) \in Nat
  BY <1>1, FiniteMaps
<1>4. /\ Cardinality(FreeBlocks)' = Cardinality(FreeBlocks) + Cardinality(B)
      /\ Cardinality(FreeBlocks) \in Nat
  BY <1>2, <1>3 DEF FreeBlocks, Blocks
<1> QED
  BY <1>1, <1>3, <1>4 DEF CountsMatch, Blocks

-----------------------------------------------------------------------------
(* The commands preserve the invariant.                                    *)

\* What a new entry of the current directory stands for: inode n was free, so
\* were the blocks it owns now, and all else is as it was.
Made(n, name) ==
  /\ n \in Inodes \ inodeMap /\ inodeMap' = inodeMap \cup {n}
  /\ \A m \in Inodes : m # n => inode'[m] = inode[m]
  /\ curDir' = Added(name, n)
  /\ blockMap \subseteq blockMap' /\ blockMap' \ blockMap \subseteq Owned(n)'
  /\ \A b \in blockMap : disk'[b] = disk[b]
  /\ MapIntact(n)'

\* The blocks of data that file_create gives to a file of that size: all, or
\* the direct ones only.
GotBlocks(n, size) ==
  /\ Len(inode[n].direct) = IF size <= DIRECT_BLOCK THEN size ELSE DIRECT_BLOCK
  /\ inode[n].numIndirect \in {0, size - Len(inode[n].direct)}

\* file_create: done in full, or without the indirect blocks.
LEMMA CreateKeepsInv ==
  ASSUME FSInv, NEW name \in AllNames, NEW size \in Sizes, Create(name, size)
  PROVE  /\ FSInv'
         /\ \E n \in Inodes :
              Made(n, name) /\ inode'[n].type = "file" /\ GotBlocks(n, size)'
<1>0. PICK n : n = FirstFreeInode
  OBVIOUS
<1> DEFINE small  == IF size <= DIRECT_BLOCK THEN size ELSE DIRECT_BLOCK
           extra  == size - small
           large  == extra > 0 /\ extra + 1 <= freeBlockCount - small
           k      == IF large THEN size + 1 ELSE small
           blocks == FirstFreeBlocks(k)
           direct == SubSeq(blocks, 1, small)
           map    == blocks[small + 1]
           more   == SubSeq(blocks, small + 2, Len(blocks))
           B      == ToSet(blocks)
           new    == [type |-> "file", direct |-> direct,
                      indirect |-> IF large THEN map ELSE inode[n].indirect,
                      numIndirect |-> IF large THEN extra ELSE 0]
<1>1. /\ small <= freeBlockCount /\ FreeInodes # {}
      /\ inodeMap' = inodeMap \cup {n} /\ freeInodeCount' = freeInodeCount - 1
      /\ blockMap' = blockMap \cup B /\ freeBlockCount' = freeBlockCount - Len(blocks)
      /\ inode' = [inode EXCEPT ![n] = new]
      /\ curDir' = Added(name, n)
      /\ disk' = [b \in Blocks |-> IF large /\ b = map THEN MapBlock(more)
                                   ELSE IF b \in B THEN Data ELSE disk[b]]
      /\ stray' = StrayAfter(TRUE)
      /\ UNCHANGED <<curDirBlock, wild>>
  BY <1>0 DEF Create
<1>2. /\ n \in Inodes \ inodeMap /\ inodeMap' \subseteq Inodes
      /\ freeInodeCount' = Cardinality(FreeInodes)' /\ freeInodeCount' \in Int
  BY <1>0, <1>1, InodeTaken DEF FSInv
<1>3. Cardinality(FreeBlocks) \in Nat /\ freeBlockCount = Cardinality(FreeBlocks)
  BY FiniteMaps, FSAssumption DEF FreeBlocks, Blocks, FSInv, CountsMatch
<1>4. /\ small \in Nat /\ extra \in Nat /\ k \in 0 .. Cardinality(FreeBlocks)
      /\ small <= k
      /\ large => extra > 0 /\ k = small + 1 + extra
  <2>1. size \in Nat /\ DIRECT_BLOCK \in Nat
    BY FSAssumption
  <2>2. small \in Nat /\ extra \in Nat /\ size = small + extra
    BY <2>1
  <2> HIDE DEF small
  <2> QED BY <2>2, <1>1, <1>3
<1> HIDE DEF small, extra, large, k
<1>5. /\ blocks \in Seq(FreeBlocks) /\ Len(blocks) = k
      /\ \A i, j \in 1 .. k : i # j => blocks[i] # blocks[j]
  BY <1>4, FirstFreeBlocksFree
<1>6. FreeBlocks \subseteq Blocks /\ FreeBlocks \cap blockMap = {}
  BY DEF FreeBlocks
<1> HIDE DEF blocks
<1>7. /\ B = {blocks[i] : i \in 1 .. Len(blocks)} /\ B \subseteq FreeBlocks
      /\ \A i \in 1 .. k : blocks[i] \in B
  <2>1. DOMAIN blocks = 1 .. Len(blocks)
    BY <1>5, LenProperties
  <2>2. \A i \in 1 .. Len(blocks) : blocks[i] \in FreeBlocks
    BY <1>5, ElementOfSeq
  <2> QED BY <2>1, <2>2, <1>5 DEF ToSet
<1>8. Cardinality(B) = Len(blocks)
  BY <1>5, <1>7, DifferentCount
<1> HIDE DEF B
<1>9. /\ blockMap' \subseteq Blocks /\ freeBlockCount' = Cardinality(FreeBlocks)'
      /\ freeBlockCount' \in Int
  BY <1>1, <1>7, <1>8, BlocksTaken DEF FSInv
<1>10. /\ direct \in Seq(Blocks) /\ Len(direct) = small
       /\ \A i \in 1 .. small : direct[i] = blocks[i]
  <2>1. \A i \in 1 .. small : blocks[i] \in Blocks
    BY <1>4, <1>6, <1>7
  <2> QED BY <2>1, <1>4, SubSeqProperties
<1>11. ASSUME large
       PROVE  /\ map \in B
              /\ more \in Seq(Blocks) /\ Len(more) = extra
              /\ \A i \in 1 .. extra : more[i] = blocks[small + 1 + i]
  <2>1. k = small + 1 + extra /\ small + 1 \in 1 .. k
    BY <1>4, <1>11
  <2>2. \A i \in small + 2 .. k : blocks[i] \in Blocks
    BY <1>4, <1>6, <1>7
  <2>3. small + 2 \in Int /\ k \in Int
    BY <1>4
  <2>4. /\ more \in Seq(Blocks)
        /\ Len(more) = IF small + 2 <= k THEN k - (small + 2) + 1 ELSE 0
        /\ \A i \in 1 .. k - (small + 2) + 1 : more[i] = blocks[small + 2 + i - 1]
    BY <2>2, <2>3, <1>5, SubSeqProperties
  <2> HIDE DEF more
  <2>5. Len(more) = extra
    BY <2>4, <2>1, <1>4, <1>11
  <2>6. \A i \in 1 .. extra : i \in 1 .. k - (small + 2) + 1 /\ small + 2 + i - 1 = small + 1 + i
    BY <2>1, <1>4
  <2> QED
    BY <2>1, <2>4, <2>5, <2>6, <1>7
<1> HIDE DEF direct, map, more
<1>12. /\ new \in [type : {"file", "directory"}, direct : Seq(Blocks),
                   indirect : Blocks, numIndirect : Nat]
       /\ inode' \in [Inodes -> [type : {"file", "directory"}, direct : Seq(Blocks),
                                 indirect : Blocks, numIndirect : Nat]]
       /\ inode'[n] = new /\ \A m \in Inodes : m # n => inode'[m] = inode[m]
  <2>1. inode[n].indirect \in Blocks
    BY <1>2 DEF FSInv, Typed, TypeOK
  <2>2. large => map \in Blocks
    BY <1>6, <1>7, <1>11
  <2>3. /\ (IF large THEN map ELSE inode[n].indirect) \in Blocks
        /\ (IF large THEN extra ELSE 0) \in Nat
    BY <2>1, <2>2, <1>4
  <2>4. new \in [type : {"file", "directory"}, direct : Seq(Blocks),
                 indirect : Blocks, numIndirect : Nat]
    BY <2>3, <1>10
  <2> HIDE DEF new
  <2> QED
    BY <2>4, <1>1, <1>2 DEF FSInv, Typed, TypeOK
<1>13. /\ DOMAIN disk' = Blocks /\ \A b \in Blocks : IsContents(disk'[b])
       /\ \A b \in blockMap : disk'[b] = disk[b]
       /\ large => disk'[map] = MapBlock(more)
  <2>1. \A b \in Blocks : IsContents(disk[b])
    BY DEF FSInv, Typed, TypeOK, IsContents
  <2>2. large => IsContents(MapBlock(more)) /\ map \in Blocks /\ map \notin blockMap
    BY <1>6, <1>7, <1>11, MapContents
  <2>3. IsContents(Data)
    BY DEF IsContents
  <2>4. blockMap \subseteq Blocks /\ B \cap blockMap = {}
    BY <1>6, <1>7 DEF FSInv, Typed, TypeOK
  <2> QED
    BY <1>1, <2>1, <2>2, <2>3, <2>4
<1>14. Typed'
  <2>1. curDir' \in Seq(Entries)
    BY <1>1, <1>2, AddedType DEF FSInv, Typed, TypeOK
  <2>2. curDirBlock' \in Blocks /\ wild' \in BOOLEAN /\ stray' \in Nat
    BY <1>1 DEF FSInv, Typed, TypeOK, StrayAfter
  <2> QED
    BY <1>2, <1>9, <1>12, <1>13, <2>1, <2>2 DEF Typed, TypeOK, IsContents
<1>15. DirsHaveBlock'
  BY <1>12 DEF DirsHaveBlock, FSInv
<1>16. CountsMatch'
  BY <1>2, <1>9 DEF CountsMatch
<1>17. Owned(n)' \subseteq B /\ Apart(n)'
  <2>1. /\ Direct(n)' = {blocks[i] : i \in 1 .. small}
        /\ \A i, j \in 1 .. Len(inode[n].direct)' :
             i # j => inode'[n].direct[i] # inode'[n].direct[j]
    <3>1. inode'[n].direct = direct
      BY <1>12
    <3>2. \A i, j \in 1 .. small : i # j => direct[i] # direct[j]
      BY <1>4, <1>5, <1>10
    <3> QED BY <3>1, <3>2, <1>10 DEF Direct
  <2>2. Direct(n)' \subseteq B
    BY <2>1, <1>4, <1>7
  <2>3. CASE ~large
    <3>1. inode'[n].numIndirect = 0
      BY <2>3, <1>12
    <3>2. MapOf(n)' = {} /\ ~HasMap(n)' /\ Mapped(n)' = {}
      BY <3>1 DEF MapOf, HasMap, Mapped
    <3> QED
      BY <2>1, <2>2, <3>2 DEF Owned, Apart
  <2>4. CASE large
    <3>1. inode'[n].numIndirect = extra /\ inode'[n].indirect = map /\ extra > 0
      BY <2>4, <1>12, <1>4
    <3>2. disk'[map].kind = "map" /\ disk'[map].blocks = more
      BY <2>4, <1>13 DEF MapBlock
    <3>3. MapOf(n)' = {map} /\ Mapped(n)' = {more[i] : i \in 1 .. extra}
      <4>1. HasMap(n)'
        BY <3>1, <3>2, <2>4, <1>11, <1>4 DEF HasMap, MapIntact
      <4> QED
        BY <4>1, <3>1, <3>2, <1>4 DEF MapOf, Mapped
    <3>4. \A i \in 1 .. extra : small + 1 + i \in 1 .. k /\ more[i] = blocks[small + 1 + i]
      BY <2>4, <1>4, <1>11
    <3>5. map \in B /\ \A i \in 1 .. extra : more[i] \in B
      BY <3>4, <2>4, <1>7, <1>11
    <3>6. \A i, j \in 1 .. extra : i # j => more[i] # more[j]
      <4> TAKE i, j \in 1 .. extra
      <4>1. i # j => small + 1 + i # small + 1 + j
        BY <1>4
      <4> QED BY <4>1, <3>4, <1>5
    <3>7. small + 1 \in 1 .. k /\ map = blocks[small + 1]
      BY <2>4, <1>4 DEF map
    <3>8. \A i \in 1 .. extra : more[i] # map
      <4> TAKE i \in 1 .. extra
      <4>1. small + 1 + i # small + 1
        BY <1>4
      <4> QED BY <4>1, <3>4, <3>7, <1>5
    <3>9. \A i \in 1 .. small : blocks[i] # map
      <4> TAKE i \in 1 .. small
      <4>1. i \in 1 .. k /\ i # small + 1
        BY <1>4
      <4> QED BY <4>1, <3>7, <1>5
    <3>10. \A i \in 1 .. small, j \in 1 .. extra : blocks[i] # more[j]
      <4> TAKE i \in 1 .. small, j \in 1 .. extra
      <4>1. i \in 1 .. k /\ i # small + 1 + j
        BY <1>4
      <4> QED BY <4>1, <3>4, <1>5
    <3> QED
      BY <2>1, <2>2, <3>1, <3>2, <3>3, <3>5, <3>6, <3>8, <3>9, <3>10 DEF Owned, Apart
  <2> QED
    BY <2>3, <2>4
<1>18. Ownership'
  <2>1. B \cap blockMap = {} /\ \A m \in inodeMap : inode'[m] = inode[m]
    BY <1>2, <1>6, <1>7, <1>12 DEF FSInv, Typed, TypeOK
  <2> QED
    BY <1>1, <1>2, <1>13, <1>17, <2>1, TakeKeepsOwnership DEF FSInv
<1>19. Listed'
  <2>1. curDir \in Seq(Entries)
    BY DEF FSInv, Typed, TypeOK
  <2>2. [name |-> name, inode |-> n] \in Entries
    BY <1>2 DEF Entries
  <2> QED BY <2>1, <2>2, <1>1, AppendProperties DEF Listed, Added
<1>20. B \subseteq Owned(n)' /\ MapIntact(n)'
  <2>1. inode'[n].direct = direct
    BY <1>12
  <2>2. \A i \in 1 .. small : blocks[i] \in Direct(n)'
    BY <2>1, <1>10 DEF Direct
  <2>3. CASE ~large
    <3>1. inode'[n].numIndirect = 0 /\ k = small
      BY <2>3, <1>12 DEF k
    <3> QED BY <3>1, <2>2, <1>5, <1>7 DEF MapIntact, Owned
  <2>4. CASE large
    <3>1. inode'[n].numIndirect = extra /\ inode'[n].indirect = map /\ extra > 0
      BY <2>4, <1>12, <1>4
    <3>2. disk'[map].kind = "map" /\ disk'[map].blocks = more
      BY <2>4, <1>13 DEF MapBlock
    <3>3. HasMap(n)' /\ MapIntact(n)'
      BY <3>1, <3>2, <2>4, <1>11, <1>4 DEF HasMap, MapIntact
    <3>4. MapOf(n)' = {map} /\ Mapped(n)' = {more[i] : i \in 1 .. extra}
      BY <3>1, <3>2, <3>3, <1>4 DEF MapOf, Mapped
    <3>5. map = blocks[small + 1]
      BY DEF map
    <3>6. \A i \in 1 .. k : i \in 1 .. small \/ i = small + 1
                            \/ \E j \in 1 .. extra : i = small + 1 + j
      <4> SUFFICES ASSUME NEW i \in 1 .. k, i \notin 1 .. small, i # small + 1
                   PROVE  \E j \in 1 .. extra : i = small + 1 + j
        OBVIOUS
      <4>1. i - small - 1 \in 1 .. extra /\ i = small + 1 + (i - small - 1)
        BY <2>4, <1>4
      <4> QED BY <4>1
    <3>7. \A i \in 1 .. k : blocks[i] \in Owned(n)'
      BY <3>4, <3>5, <3>6, <2>2, <2>4, <1>11 DEF Owned
    <3> QED BY <3>3, <3>7, <1>5, <1>7
  <2> QED BY <2>3, <2>4
<1>21. Made(n, name) /\ inode'[n].type = "file"
  BY <1>1, <1>2, <1>12, <1>13, <1>20 DEF Made
<1>22. GotBlocks(n, size)'
  <2>1. inode'[n].direct = direct /\ inode'[n].numIndirect \in {0, extra}
    BY <1>12
  <2>2. Len(direct) = small /\ extra = size - small
    BY <1>10 DEF extra
  <2> QED BY <2>1, <2>2 DEF GotBlocks, small
<1> QED
  BY <1>2, <1>14, <1>15, <1>16, <1>18, <1>19, <1>21, <1>22 DEF FSInv

\* file_remove: frees what the inode names, direct and indirect.
LEMMA RemoveFileKeepsInv ==
  ASSUME FSInv, NEW name \in AllNames, RemoveFile(name)
  PROVE  FSInv'
<1>0. PICK n : n = Found(name)
  OBVIOUS
<1> DEFINE bs == BlocksOf(n)
           ok == Freed(bs) = 1 .. Len(bs)
           B  == IF MapIntact(n) THEN {bs[i] : i \in Freed(bs)} ELSE {}
<1>1. /\ Exists(name) /\ n \in inodeMap
      /\ inodeMap' = inodeMap \ {n} /\ freeInodeCount' = freeInodeCount + 1
      /\ IF MapIntact(n)
         THEN /\ blockMap' = blockMap \ {bs[i] : i \in Freed(bs)}
              /\ freeBlockCount' = freeBlockCount + Cardinality(Freed(bs))
              /\ curDir' = IF ok THEN Dropped(n) ELSE curDir
              /\ wild' = (ok /\ DropsTooFar(n))
         ELSE /\ wild' = TRUE
              /\ UNCHANGED <<blockMap, freeBlockCount, curDir>>
      /\ stray' = StrayAfter(DropsItsEntry(name))
      /\ UNCHANGED <<inode, curDirBlock, disk>>
  BY <1>0 DEF RemoveFile
<1>2. /\ inodeMap' \subseteq Inodes /\ freeInodeCount' = Cardinality(FreeInodes)'
      /\ freeInodeCount' \in Int
  BY <1>1, InodeFreed DEF FSInv
<1>3. ASSUME MapIntact(n)
      PROVE  /\ B \subseteq Owned(n) /\ blockMap' = blockMap \ B
             /\ freeBlockCount' = freeBlockCount + Cardinality(B)
  <2>1. /\ bs \in Seq(Blocks)
        /\ {bs[i] : i \in 1 .. Len(bs)} \subseteq Owned(n) \ MapOf(n)
        /\ \A i, j \in 1 .. Len(bs) : i # j => bs[i] # bs[j]
        /\ Freed(bs) = 1 .. Len(bs)
    BY <1>1, <1>3, BlocksOfOwned DEF FSInv
  <2> HIDE DEF bs
  <2>2. Len(bs) \in Nat /\ Cardinality(1 .. Len(bs)) = Len(bs)
    <3>1. Len(bs) \in Nat
      BY <2>1
    <3>2. Cardinality(1 .. Len(bs)) = IF 1 > Len(bs) THEN 0 ELSE Len(bs) - 1 + 1
      BY <3>1, FS_Interval
    <3> QED BY <3>1, <3>2
  <2>3. Cardinality({bs[i] : i \in 1 .. Len(bs)}) = Len(bs)
    BY <2>1, DifferentCount
  <2>4. B = {bs[i] : i \in 1 .. Len(bs)}
    BY <2>1, <1>3
  <2> QED
    BY <1>1, <1>3, <2>1, <2>2, <2>3, <2>4
<1>4. B \subseteq Owned(n) /\ blockMap' = blockMap \ B
  BY <1>1, <1>3
<1>5. freeBlockCount' = freeBlockCount + Cardinality(B)
  <2>1. CASE MapIntact(n)
    BY <2>1, <1>3
  <2>2. CASE ~MapIntact(n)
    <3>1. Cardinality(B) = 0
      BY <2>2, FS_EmptySet
    <3> QED
      BY <2>2, <3>1, <1>1 DEF FSInv, Typed, TypeOK
  <2> QED BY <2>1, <2>2
<1> HIDE DEF B
<1>6. /\ blockMap' \subseteq Blocks /\ freeBlockCount' = Cardinality(FreeBlocks)'
      /\ freeBlockCount' \in Int
  <2>1. B \subseteq blockMap
    BY <1>1, <1>4 DEF FSInv, Ownership
  <2> QED BY <2>1, <1>4, <1>5, BlocksFreed DEF FSInv
<1>7. Typed'
  <2>1. curDir \in Seq(Entries) /\ n \in Inodes
    BY <1>1 DEF FSInv, Typed, TypeOK
  <2>2. Len(curDir) > 0
    BY <1>1, <2>1, SlotFound
  <2>3. curDir' \in Seq(Entries)
    BY <1>1, <2>1, <2>2, DroppedType
  <2>4. curDirBlock' \in Blocks /\ stray' \in Nat
    BY <1>1 DEF FSInv, Typed, TypeOK, StrayAfter
  <2>5. UNCHANGED <<inode, disk>> /\ wild' \in BOOLEAN
    BY <1>1
  <2> QED
    BY <1>2, <1>6, <2>3, <2>4, <2>5 DEF FSInv, Typed, TypeOK
<1>8. DirsHaveBlock'
  BY <1>1 DEF FSInv, DirsHaveBlock
<1>9. CountsMatch'
  BY <1>2, <1>6 DEF CountsMatch
<1>10. Ownership'
  BY <1>1, <1>4, ReleaseKeepsOwnership DEF FSInv
<1>11. Listed'
  <2>1. CASE wild' \/ curDir' = curDir
    BY <2>1, <1>1 DEF RemoveFile, Running, FSInv, Listed
  <2>2. CASE ~wild' /\ curDir' # curDir
    <3>1. curDir' = Dropped(n) /\ ~DropsTooFar(n)
      BY <2>2, <1>1
    <3>2. Len(curDir) # 1
      BY <3>1 DEF DropsTooFar
    <3>3. curDir # <<>>
      BY DEF RemoveFile, Running, FSInv, Listed
    <3>4. curDir \in Seq(Entries) /\ n \in Inodes
      BY <1>1 DEF FSInv, Typed, TypeOK
    <3>5. Dropped(n) # <<>>
      BY <3>2, <3>3, <3>4, DroppedSome
    <3> QED BY <3>1, <3>5 DEF Listed
  <2> QED BY <2>1, <2>2
<1> QED
  BY <1>7, <1>8, <1>9, <1>10, <1>11 DEF FSInv

\* dir_make: one inode, one block.
LEMMA MakeDirKeepsInv ==
  ASSUME FSInv, NEW name \in AllNames, MakeDir(name)
  PROVE  /\ FSInv'
         /\ \E n \in Inodes :
              /\ Made(n, name) /\ inode'[n].type = "directory" /\ inode'[n].numIndirect = 0
              /\ disk'[inode'[n].direct[1]]
                   = DirBlock(<<[name |-> ".", inode |-> n], [name |-> "..", inode |-> curDir[1].inode]>>)
<1>0. PICK n, b : n = FirstFreeInode /\ b = FirstFreeBlocks(1)[1]
  OBVIOUS
<1> DEFINE e == <<[name |-> ".", inode |-> n], [name |-> "..", inode |-> curDir[1].inode]>>
<1>1. /\ FreeInodes # {} /\ freeBlockCount >= 1 /\ FreeBlocks # {}
      /\ inodeMap' = inodeMap \cup {n} /\ freeInodeCount' = freeInodeCount - 1
      /\ blockMap' = blockMap \cup {b} /\ freeBlockCount' = freeBlockCount - 1
      /\ inode' = [inode EXCEPT ![n].type = "directory", ![n].direct = <<b>>,
                                ![n].numIndirect = 0]
      /\ curDir' = Added(name, n)
      /\ disk' = [disk EXCEPT ![b] = DirBlock(e)]
      /\ stray' = StrayAfter(TRUE)
      /\ UNCHANGED <<curDirBlock, wild>>
  BY <1>0 DEF MakeDir
<1>2. /\ n \in Inodes \ inodeMap /\ inodeMap' \subseteq Inodes
      /\ freeInodeCount' = Cardinality(FreeInodes)' /\ freeInodeCount' \in Int
  BY <1>0, <1>1, InodeTaken DEF FSInv
<1>3. b \in FreeBlocks
  <2>1. Cardinality(FreeBlocks) \in Nat /\ freeBlockCount = Cardinality(FreeBlocks)
    BY FiniteMaps, FSAssumption DEF FreeBlocks, Blocks, FSInv, CountsMatch
  <2>2. 1 \in 0 .. Cardinality(FreeBlocks)
    BY <1>1, <2>1
  <2>3. FirstFreeBlocks(1) \in Seq(FreeBlocks) /\ Len(FirstFreeBlocks(1)) = 1
    BY <2>2, FirstFreeBlocksFree
  <2> QED BY <1>0, <2>3, ElementOfSeq
<1>4. b \in Blocks /\ b \notin blockMap
  BY <1>3 DEF FreeBlocks
<1>5. /\ blockMap' \subseteq Blocks /\ freeBlockCount' = Cardinality(FreeBlocks)'
      /\ freeBlockCount' \in Int
  <2>1. Cardinality({b}) = 1
    BY FS_Singleton
  <2>2. {b} \in SUBSET FreeBlocks
    BY <1>3
  <2> QED BY <1>1, <2>1, <2>2, BlocksTaken DEF FSInv
<1>6. /\ inode'[n].type = "directory" /\ inode'[n].direct = <<b>>
      /\ inode'[n].numIndirect = 0
      /\ inode' \in [Inodes -> [type : {"file", "directory"}, direct : Seq(Blocks),
                                indirect : Blocks, numIndirect : Nat]]
      /\ \A m \in Inodes : m # n => inode'[m] = inode[m]
  <2>1. <<b>> \in Seq(Blocks)
    BY <1>4
  <2> QED
    BY <2>1, <1>1, <1>2 DEF FSInv, Typed, TypeOK
<1>7. e \in Seq(Entries)
  <2>1. curDir \in Seq(Entries)
    BY DEF FSInv, Typed, TypeOK
  <2>2. curDir # <<>>
    BY DEF FSInv, Listed, MakeDir, Running
  <2>3. curDir[1] \in Entries
    BY <2>1, <2>2, ElementOfSeq
  <2> QED
    BY <1>2, <2>3, NewDirType DEF Entries
<1> HIDE DEF e
<1>8. IsContents(DirBlock(e)) /\ DirBlock(e).kind # "map"
  BY <1>7, DirContents
<1>9. /\ DOMAIN disk' = Blocks /\ \A a \in Blocks : IsContents(disk'[a])
      /\ \A a \in blockMap : disk'[a] = disk[a]
  <2>1. \A a \in Blocks : IsContents(disk[a])
    BY DEF FSInv, Typed, TypeOK, IsContents
  <2>2. DOMAIN disk = Blocks /\ blockMap \subseteq Blocks
    BY DEF FSInv, Typed, TypeOK
  <2> QED
    BY <1>1, <1>4, <1>8, <2>1, <2>2
<1>10. Typed'
  <2>1. curDir' \in Seq(Entries)
    BY <1>1, <1>2, AddedType DEF FSInv, Typed, TypeOK
  <2>2. curDirBlock' \in Blocks /\ wild' \in BOOLEAN /\ stray' \in Nat
    BY <1>1 DEF FSInv, Typed, TypeOK, StrayAfter
  <2> QED
    BY <1>2, <1>5, <1>6, <1>9, <2>1, <2>2 DEF Typed, TypeOK, IsContents
<1>11. Listed'
  <2>1. curDir \in Seq(Entries)
    BY DEF FSInv, Typed, TypeOK
  <2>2. [name |-> name, inode |-> n] \in Entries
    BY <1>2 DEF Entries
  <2> QED BY <2>1, <2>2, <1>1, AppendProperties DEF Listed, Added
<1>12. DirsHaveBlock'
  <2>1. Len(<<b>>) = 1
    OBVIOUS
  <2> QED BY <2>1, <1>6 DEF DirsHaveBlock, FSInv
<1>13. CountsMatch'
  BY <1>2, <1>5 DEF CountsMatch
<1>14. Owned(n)' \subseteq {b} /\ Apart(n)'
  <2>1. Direct(n)' = {b} /\ Len(inode'[n].direct) = 1
    BY <1>6 DEF Direct
  <2>2. MapOf(n)' = {} /\ ~HasMap(n)' /\ Mapped(n)' = {}
    BY <1>6 DEF MapOf, HasMap, Mapped
  <2> QED
    BY <2>1, <2>2 DEF Owned, Apart
<1>15. Ownership'
  <2>1. {b} \cap blockMap = {} /\ \A m \in inodeMap : inode'[m] = inode[m]
    BY <1>2, <1>4, <1>6 DEF FSInv, Typed, TypeOK
  <2> QED
    BY <1>1, <1>2, <1>9, <1>14, <2>1, TakeKeepsOwnership DEF FSInv
<1>16. Made(n, name)
  <2>1. b \in Owned(n)'
    <3>1. Len(<<b>>) = 1 /\ <<b>>[1] = b
      OBVIOUS
    <3> QED BY <3>1, <1>6 DEF Owned, Direct
  <2>2. MapIntact(n)'
    BY <1>6 DEF MapIntact
  <2> QED BY <2>1, <2>2, <1>1, <1>2, <1>6, <1>9 DEF Made
<1>17. disk'[inode'[n].direct[1]] = DirBlock(e)
  BY <1>1, <1>4, <1>6 DEF FSInv, Typed
<1> QED
  BY <1>2, <1>6, <1>10, <1>11, <1>12, <1>13, <1>15, <1>16, <1>17 DEF FSInv, e

\* dir_remove: reads the directory's block before it frees it.
LEMMA RemoveDirKeepsInv ==
  ASSUME FSInv, NEW name \in AllNames, RemoveDir(name)
  PROVE  FSInv'
<1>0. PICK n, b : n = Found(name) /\ b = inode[n].direct[1]
  OBVIOUS
<1> DEFINE ok == b \in blockMap
<1>1. /\ ~wild /\ Exists(name) /\ n \in inodeMap /\ inode[n].type = "directory"
      /\ inodeMap' = inodeMap \ {n} /\ freeInodeCount' = freeInodeCount + 1
      /\ blockMap' = blockMap \ {b}
      /\ freeBlockCount' = IF ok THEN freeBlockCount + 1 ELSE freeBlockCount
      /\ curDir' = IF ok THEN Dropped(n) ELSE curDir
      /\ wild' = (ok /\ DropsTooFar(n))
      /\ UNCHANGED <<inode, curDirBlock, disk>>
  BY <1>0 DEF RemoveDir, Running
<1>2. stray' \in Nat
  BY DEF RemoveDir, StrayAfter, FSInv, Typed, TypeOK
<1>3. /\ inodeMap' \subseteq Inodes /\ freeInodeCount' = Cardinality(FreeInodes)'
      /\ freeInodeCount' \in Int
  BY <1>1, InodeFreed DEF FSInv
<1>4. n \in Inodes /\ curDir \in Seq(Entries) /\ curDir # <<>>
  BY <1>1 DEF FSInv, Typed, TypeOK, Listed
<1>5. {b} \subseteq Owned(n) /\ b \in blockMap
  <2>1. Len(inode[n].direct) = 1
    BY <1>1, <1>4 DEF FSInv, DirsHaveBlock
  <2>2. b \in Direct(n)
    BY <1>0, <2>1 DEF Direct
  <2> QED
    BY <1>1, <2>2 DEF Owned, FSInv, Ownership
<1>6. /\ blockMap' \subseteq Blocks /\ freeBlockCount' = Cardinality(FreeBlocks)'
      /\ freeBlockCount' \in Int
  <2>1. Cardinality({b}) = 1
    BY FS_Singleton
  <2> QED BY <1>1, <1>5, <2>1, BlocksFreed DEF FSInv
<1>7. curDir' = Dropped(n) /\ (~wild' => ~DropsTooFar(n))
  BY <1>1, <1>5
<1>8. Typed'
  <2>1. Len(curDir) > 0
    BY <1>4, EmptySeq
  <2>2. curDir' \in Seq(Entries)
    BY <1>4, <1>7, <2>1, DroppedType
  <2>3. wild' \in BOOLEAN
    BY <1>1
  <2>4. UNCHANGED <<inode, curDirBlock, disk>>
    BY <1>1
  <2> QED
    BY <1>2, <1>3, <1>6, <2>2, <2>3, <2>4 DEF FSInv, Typed, TypeOK
<1>9. Listed'
  <2>1. ~wild' => Len(curDir) # 1
    BY <1>7 DEF DropsTooFar
  <2> QED BY <2>1, <1>4, <1>7, DroppedSome DEF Listed
<1>10. DirsHaveBlock'
  BY <1>1 DEF FSInv, DirsHaveBlock
<1>11. CountsMatch'
  BY <1>3, <1>6 DEF CountsMatch
<1>12. Ownership'
  BY <1>1, <1>5, ReleaseKeepsOwnership DEF FSInv
<1> QED
  BY <1>8, <1>9, <1>10, <1>11, <1>12 DEF FSInv

\* Saving a directory in some block leaves the disk well-formed and puts no map
\* on it.
LEMMA SavedContents ==
  ASSUME Typed, NEW b \in Blocks
  PROVE  LET saved == [disk EXCEPT ![b] = DirBlock(curDir)] IN
         /\ DOMAIN saved = Blocks /\ \A a \in Blocks : IsContents(saved[a])
         /\ \A a \in Blocks : saved[a] = disk[a] \/ saved[a].kind # "map"
<1>1. IsContents(DirBlock(curDir)) /\ DirBlock(curDir).kind # "map"
  BY DirContents DEF Typed, TypeOK
<1>2. DOMAIN disk = Blocks /\ \A a \in Blocks : IsContents(disk[a])
  BY DEF Typed, TypeOK, IsContents
<1> QED
  BY <1>1, <1>2

\* A block whose kind is "dir" holds entries.
LEMMA DirEntries ==
  ASSUME NEW x, IsContents(x), x.kind = "dir"
  PROVE  x.entries \in Seq(Entries)
  BY DEF IsContents, Data

\* dir_change: saves one directory and loads another.
LEMMA ChangeDirKeepsInv ==
  ASSUME FSInv, NEW name \in AllNames, ChangeDir(name)
  PROVE  FSInv'
<1> DEFINE here  == curDir[1].inode
           n     == Found(name)
           there == SavedDisk[inode[n].direct[1]]
<1>1. /\ ~wild
      /\ disk' = IF inode[here].direct = <<>> THEN disk ELSE SavedDisk
      /\ IF inode[here].direct = <<>>
         THEN wild' = TRUE /\ UNCHANGED curDir
         ELSE IF ~Exists(name) \/ inode[n].type = "file"
         THEN UNCHANGED <<curDir, wild>>
         ELSE IF there.kind # "dir" \/ there.entries = <<>>
         THEN wild' = TRUE /\ UNCHANGED curDir
         ELSE curDir' = there.entries /\ UNCHANGED wild
      /\ UNCHANGED <<inodeMap, blockMap, freeInodeCount, freeBlockCount, inode, curDirBlock>>
      /\ stray' = StrayAfter(TRUE)
  BY DEF ChangeDir, Running
<1>2. curDir \in Seq(Entries) /\ curDir # <<>> /\ here \in Inodes
  <2>1. curDir \in Seq(Entries) /\ curDir # <<>>
    BY <1>1 DEF FSInv, Typed, TypeOK, Listed
  <2>2. curDir[1] \in Entries
    BY <2>1, ElementOfSeq
  <2> QED BY <2>1, <2>2 DEF Entries
<1>3. ASSUME inode[here].direct # <<>>
      PROVE  /\ DOMAIN SavedDisk = Blocks /\ \A a \in Blocks : IsContents(SavedDisk[a])
             /\ \A a \in Blocks : SavedDisk[a] = disk[a] \/ SavedDisk[a].kind # "map"
  <2>1. inode[here].direct \in Seq(Blocks)
    BY <1>2 DEF FSInv, Typed, TypeOK
  <2>2. inode[here].direct[1] \in Blocks
    BY <2>1, <1>3, ElementOfSeq
  <2> QED
    BY <2>2, SavedContents DEF FSInv, SavedDisk
<1>4. /\ DOMAIN disk' = Blocks /\ \A a \in Blocks : IsContents(disk'[a])
      /\ \A a \in Blocks : disk'[a] = disk[a] \/ disk'[a].kind # "map"
  <2>1. DOMAIN disk = Blocks /\ \A a \in Blocks : IsContents(disk[a])
    BY DEF FSInv, Typed, TypeOK, IsContents
  <2> QED BY <2>1, <1>1, <1>3
<1> HIDE DEF here
<1>5. curDir' \in Seq(Entries) /\ wild' \in BOOLEAN /\ Listed'
  <2>1. CASE UNCHANGED curDir
    <3>1. wild' \in BOOLEAN
      BY <1>1 DEF FSInv, Typed, TypeOK
    <3> QED BY <2>1, <3>1, <1>2 DEF Listed
  <2>2. CASE ~UNCHANGED curDir
    <3>1. /\ inode[here].direct # <<>> /\ Exists(name) /\ inode[n].type # "file"
          /\ there.kind = "dir" /\ there.entries # <<>>
          /\ curDir' = there.entries /\ UNCHANGED wild
      BY <1>1, <2>2
    <3>2. n \in Inodes
      BY <3>1, <1>2, SlotFound
    <3>3. inode[n].type = "directory" /\ inode[n].direct \in Seq(Blocks)
      BY <3>1, <3>2 DEF FSInv, Typed, TypeOK
    <3>4. Len(inode[n].direct) = 1
      BY <3>2, <3>3 DEF FSInv, DirsHaveBlock
    <3>5. inode[n].direct[1] \in Blocks
      BY <3>3, <3>4, ElementOfSeq
    <3>6. IsContents(there)
      BY <3>1, <3>5, <1>3
    <3>7. there.entries \in Seq(Entries)
      BY <3>1, <3>6, DirEntries
    <3>8. wild \in BOOLEAN
      BY DEF FSInv, Typed, TypeOK
    <3> QED BY <3>1, <3>7, <3>8 DEF Listed
  <2> QED BY <2>1, <2>2
<1>6. Typed'
  <2>1. stray' \in Nat
    BY <1>1 DEF StrayAfter, FSInv, Typed, TypeOK
  <2>2. UNCHANGED <<inodeMap, blockMap, freeInodeCount, freeBlockCount, inode, curDirBlock>>
    BY <1>1
  <2> QED BY <2>1, <2>2, <1>4, <1>5 DEF FSInv, Typed, TypeOK, IsContents
<1>7. DirsHaveBlock' /\ CountsMatch'
  BY <1>1 DEF FSInv, DirsHaveBlock, CountsMatch, FreeInodes, FreeBlocks
<1>8. Ownership'
  <2>1. blockMap \subseteq Blocks
    BY DEF FSInv, Typed, TypeOK
  <2> QED BY <2>1, <1>1, <1>4, OverwriteKeepsOwnership DEF FSInv
<1> QED
  BY <1>5, <1>6, <1>7, <1>8 DEF FSInv

\* unmount and mount: the counters are read back from the disk.
LEMMA RemountKeepsInv ==
  ASSUME FSInv, Remount
  PROVE  FSInv'
<1> DEFINE saved == [disk EXCEPT ![curDirBlock] = DirBlock(curDir)]
           ok    == /\ inode[0].direct # <<>>
                    /\ saved[inode[0].direct[1]].kind = "dir"
                    /\ saved[inode[0].direct[1]].entries # <<>>
<1>1. /\ ~wild /\ disk' = saved
      /\ IF ok THEN /\ curDirBlock' = inode[0].direct[1]
                    /\ curDir' = saved[inode[0].direct[1]].entries
                    /\ UNCHANGED wild
         ELSE /\ wild' = TRUE
              /\ UNCHANGED <<curDirBlock, curDir>>
      /\ stray' = StrayAfter(AtRoot)
      /\ UNCHANGED <<inodeMap, blockMap, freeInodeCount, freeBlockCount, inode>>
  BY DEF Remount, Running
<1>2. /\ DOMAIN saved = Blocks /\ \A a \in Blocks : IsContents(saved[a])
      /\ \A a \in Blocks : saved[a] = disk[a] \/ saved[a].kind # "map"
  <2>1. curDirBlock \in Blocks
    BY DEF FSInv, Typed, TypeOK
  <2> QED BY <2>1, SavedContents DEF FSInv
<1> HIDE DEF saved
<1>3. /\ curDir' \in Seq(Entries) /\ curDirBlock' \in Blocks
      /\ wild' \in BOOLEAN /\ Listed'
  <2>1. CASE ok
    <3>1. 0 \in Inodes
      BY FSAssumption DEF Inodes
    <3>2. inode[0].direct \in Seq(Blocks)
      BY <3>1 DEF FSInv, Typed, TypeOK
    <3>3. inode[0].direct[1] \in Blocks
      BY <3>2, <2>1, ElementOfSeq
    <3>4. saved[inode[0].direct[1]].entries \in Seq(Entries)
      BY <2>1, <3>3, <1>2, DirEntries
    <3>5. wild \in BOOLEAN
      BY DEF FSInv, Typed, TypeOK
    <3> QED BY <2>1, <3>3, <3>4, <3>5, <1>1 DEF Listed
  <2>2. CASE ~ok
    BY <2>2, <1>1 DEF FSInv, Typed, TypeOK, Listed
  <2> QED BY <2>1, <2>2
<1>4. Typed'
  <2>1. stray' \in Nat
    BY <1>1 DEF StrayAfter, FSInv, Typed, TypeOK
  <2>2. UNCHANGED <<inodeMap, blockMap, freeInodeCount, freeBlockCount, inode>> /\ disk' = saved
    BY <1>1
  <2> QED BY <2>1, <2>2, <1>2, <1>3 DEF FSInv, Typed, TypeOK, IsContents
<1>5. DirsHaveBlock' /\ CountsMatch'
  BY <1>1 DEF FSInv, DirsHaveBlock, CountsMatch, FreeInodes, FreeBlocks
<1>6. Ownership'
  <2>1. blockMap \subseteq Blocks
    BY DEF FSInv, Typed, TypeOK
  <2> QED BY <2>1, <1>1, <1>2, OverwriteKeepsOwnership DEF FSInv
<1> QED
  BY <1>3, <1>4, <1>5, <1>6 DEF FSInv

-----------------------------------------------------------------------------
(* A new disk.                                                             *)

\* A formatted disk.
LEMMA InitInv == ASSUME Init PROVE FSInv
<1>1. /\ MAX_INODE \in Nat \ {0} /\ MAX_BLOCK \in Nat /\ SystemBlocks \in Nat \ {0}
      /\ SystemBlocks < MAX_BLOCK
  BY FSAssumption
<1>2. 0 \in Inodes /\ SystemBlocks \in Blocks /\ 0 \in Blocks
  BY <1>1 DEF Inodes, Blocks
<1> DEFINE e == <<[name |-> ".", inode |-> 0]>>
<1>3. e \in Seq(Entries) /\ e # <<>>
  <2>1. [name |-> ".", inode |-> 0] \in Entries
    BY <1>2 DEF Entries, AllNames
  <2> QED BY <2>1
<1>4. IsContents(DirBlock(e)) /\ IsContents(Data)
  BY <1>3, DirContents DEF IsContents
<1> HIDE DEF e
<1>5. inode \in [Inodes -> [type : {"file", "directory"}, direct : Seq(Blocks),
                            indirect : Blocks, numIndirect : Nat]]
  <2>1. <<SystemBlocks>> \in Seq(Blocks) /\ <<>> \in Seq(Blocks)
    BY <1>2
  <2> QED BY <2>1, <1>2 DEF Init
<1>6. /\ inode[0].type = "directory" /\ inode[0].direct = <<SystemBlocks>>
      /\ inode[0].numIndirect = 0
      /\ \A n \in Inodes : n # 0 => inode[n].type = "file"
  BY <1>2 DEF Init
<1>7. CountsMatch /\ freeInodeCount \in Int /\ freeBlockCount \in Int
  <2>1. FreeInodes = 1 .. MAX_INODE - 1 /\ freeInodeCount = MAX_INODE - 1
    BY <1>1 DEF Init, FreeInodes, Inodes
  <2>2. Cardinality(1 .. MAX_INODE - 1) = IF 1 > MAX_INODE - 1 THEN 0 ELSE MAX_INODE - 1 - 1 + 1
    BY <1>1, FS_Interval
  <2>3. /\ FreeBlocks = SystemBlocks + 1 .. MAX_BLOCK - 1
        /\ freeBlockCount = MAX_BLOCK - SystemBlocks - 1
    BY <1>1 DEF Init, FreeBlocks, Blocks
  <2>4. Cardinality(SystemBlocks + 1 .. MAX_BLOCK - 1) =
          IF SystemBlocks + 1 > MAX_BLOCK - 1 THEN 0
          ELSE MAX_BLOCK - 1 - (SystemBlocks + 1) + 1
    <3>1. SystemBlocks + 1 \in Int /\ MAX_BLOCK - 1 \in Int
      BY <1>1
    <3> QED BY <3>1, FS_Interval
  <2>5. freeInodeCount = Cardinality(FreeInodes)
    BY <2>1, <2>2, <1>1
  <2>6. freeBlockCount = Cardinality(FreeBlocks)
    BY <2>3, <2>4, <1>1
  <2> QED BY <2>1, <2>3, <2>5, <2>6, <1>1 DEF CountsMatch
<1>8. Typed
  <2>1. /\ disk = [b \in Blocks |-> IF b = SystemBlocks THEN DirBlock(e) ELSE Data]
        /\ curDir = e /\ curDirBlock = SystemBlocks
    BY DEF Init, e
  <2>2. DOMAIN disk = Blocks /\ \A b \in Blocks : IsContents(disk[b])
    BY <2>1, <1>4
  <2>3. inodeMap \subseteq Inodes /\ blockMap \subseteq Blocks
    BY <1>1, <1>2 DEF Init, Blocks
  <2>4. wild \in BOOLEAN /\ stray \in Nat
    BY DEF Init
  <2> QED
    BY <1>2, <1>3, <1>5, <1>7, <2>1, <2>2, <2>3, <2>4 DEF Typed, TypeOK, IsContents
<1>9. Listed
  BY <1>3 DEF Listed, Init, e
<1>10. DirsHaveBlock
  <2>1. Len(<<SystemBlocks>>) = 1
    OBVIOUS
  <2>2. \A n \in Inodes : inode[n].type = "directory" => n = 0
    BY <1>6
  <2> QED BY <2>1, <2>2, <1>6 DEF DirsHaveBlock
<1>11. Ownership
  <2>1. Owned(0) = {SystemBlocks} /\ Apart(0)
    BY <1>6 DEF Owned, Direct, MapOf, Mapped, HasMap, Apart
  <2>2. inodeMap = {0} /\ blockMap = 0 .. SystemBlocks
    BY DEF Init
  <2>3. SystemBlocks \in blockMap \ (0 .. SystemBlocks - 1) /\ 0 .. SystemBlocks - 1 \subseteq blockMap
    BY <2>2, <1>1
  <2> QED
    BY <2>1, <2>2, <2>3 DEF Ownership
<1> QED
  BY <1>7, <1>8, <1>9, <1>10, <1>11 DEF FSInv

-----------------------------------------------------------------------------
(* The theorems.                                                           *)

\* No command, well used or not, and no unmount breaks the invariant.
LEMMA NextKeepsInv == ASSUME FSInv, [Next]_vars PROVE FSInv'
<1>1. ASSUME NEW name \in AllNames, NEW size \in Sizes, Create(name, size) PROVE FSInv'
  BY <1>1, CreateKeepsInv
<1>2. ASSUME NEW name \in AllNames,
             RemoveFile(name) \/ MakeDir(name) \/ RemoveDir(name) \/ ChangeDir(name)
      PROVE  FSInv'
  BY <1>2, RemoveFileKeepsInv, MakeDirKeepsInv, RemoveDirKeepsInv, ChangeDirKeepsInv
<1>3. CASE Remount
  BY <1>3, RemountKeepsInv
<1>4. CASE UNCHANGED vars
  <2>1. Ownership'
    BY <1>4, OverwriteKeepsOwnership DEF vars, FSInv
  <2>2. Typed' /\ Listed'
    BY <1>4 DEF vars, FSInv, Typed, TypeOK, Listed
  <2>3. DirsHaveBlock' /\ CountsMatch'
    BY <1>4 DEF vars, FSInv, DirsHaveBlock, CountsMatch, FreeInodes, FreeBlocks
  <2> QED BY <2>1, <2>2, <2>3 DEF FSInv
<1> QED
  BY <1>1, <1>2, <1>3, <1>4 DEF Next, Lost

\* In every state the invariant holds: types, the counters, the owners of blocks.
THEOREM FSInvAlways == Spec => []FSInv
<1>1. Init => FSInv
  BY InitInv
<1>2. FSInv /\ [Next]_vars => FSInv'
  BY NextKeepsInv
<1> QED
  BY <1>1, <1>2, PTL DEF Spec

\* The variables keep their types, whatever is typed.
THEOREM TypesKept == Spec => []TypeOK
<1>1. FSInv => TypeOK
  BY DEF FSInv, Typed
<1> QED
  BY <1>1, FSInvAlways, PTL

\* The superblock's counters always are the numbers of clear bits, so that
\* "not enough space" is said when and only when it is true (fs.c, fs_util.c).
THEOREM CountersAlwaysMatch == Spec => []CountsMatch
<1>1. FSInv => CountsMatch
  BY DEF FSInv
<1> QED
  BY <1>1, FSInvAlways, PTL

\* No two places of the inodes in use share a direct block, and none has a free
\* or a system block, whatever is created and removed in whatever order.
THEOREM DirectBlocksAlwaysOwned == Spec => []DirectBlocksOwned
<1>1. ASSUME Ownership PROVE DirectBlocksOwned
  <2>1. ASSUME NEW n \in inodeMap, NEW i \in 1 .. Len(inode[n].direct)
        PROVE  /\ inode[n].direct[i] \in Owned(n)
               /\ inode[n].direct[i] \in blockMap \ (0 .. SystemBlocks - 1)
    <3>1. inode[n].direct[i] \in Owned(n)
      BY DEF Owned, Direct
    <3> QED BY <3>1, <1>1 DEF Ownership
  <2>2. ASSUME NEW n \in inodeMap, NEW m \in inodeMap,
               NEW i \in 1 .. Len(inode[n].direct), NEW j \in 1 .. Len(inode[m].direct),
               <<n, i>> # <<m, j>>
        PROVE  inode[n].direct[i] # inode[m].direct[j]
    <3>1. CASE n = m
      BY <3>1, <2>2, <1>1 DEF Ownership, Apart
    <3>2. CASE n # m
      <4>1. Owned(n) \cap Owned(m) = {}
        BY <3>2, <1>1 DEF Ownership
      <4> QED BY <4>1, <2>1
    <3> QED BY <3>1, <3>2
  <2> QED BY <2>1, <2>2 DEF DirectBlocksOwned
<1>2. FSInv => DirectBlocksOwned
  BY <1>1 DEF FSInv
<1> QED
  BY <1>2, FSInvAlways, PTL

-----------------------------------------------------------------------------
(* The tree of directories.                                                *)

\* The places of the entries of directory d that are neither "." nor "..".
Kids(L, d) == Dots(d) + 1 .. Len(L[d])

\* L[d] is the directory of inode d.
Lays(L, d) ==
  /\ L[d] \in Seq(Entries) /\ Len(L[d]) >= Dots(d) /\ Len(L[d]) <= MAX_DIR_ENTRY
  /\ L[d][1] = [name |-> ".", inode |-> d]
  /\ \A i, j \in 1 .. Len(L[d]) : L[d][i].name = L[d][j].name => i = j

\* Entry i of directory d is the only one for inode n.
Lists(D, L, n, d, i) ==
  /\ L[d][i].inode = n
  /\ \A e \in D : \A j \in Kids(L, e) : L[e][j].inode = n => e = d /\ j = i
  /\ n \in D => L[n][2] = [name |-> "..", inode |-> d]

\* The inodes I, of which D are directories, with their entries L form a tree.
\* That no directory is its own child keeps rmdir from removing the current one.
TreeOf(D, I, L) ==
  /\ 0 \in D /\ D \subseteq I /\ I \subseteq Inodes
  /\ \A d \in D : Lays(L, d)
  /\ \A d \in D : \A i \in Kids(L, d) : L[d][i].inode \in I \ {0} /\ L[d][i].inode # d
  /\ \A n \in I \ {0} : \E d \in D : \E i \in Kids(L, d) : Lists(D, L, n, d, i)

\* A new entry for an inode not yet in the tree: a file's or an empty directory's.
LEMMA TreeGrows ==
  ASSUME NEW D, NEW I, NEW L, NEW c \in D, NEW n \in Inodes \ I, NEW name \in AllNames,
         NEW J, NEW K, NEW M, TreeOf(D, I, L), J = I \cup {n},
         \A i \in 1 .. Len(L[c]) : L[c][i].name # name,
         Len(L[c]) + 1 < MAX_DIR_ENTRY,
         M[c] = Append(L[c], [name |-> name, inode |-> n]),
         \A d \in D : d # c => M[d] = L[d],
         K # D => /\ K = D \cup {n}
                  /\ M[n] = <<[name |-> ".", inode |-> n], [name |-> "..", inode |-> c]>>
  PROVE  TreeOf(K, J, M)
<1> DEFINE e == [name |-> name, inode |-> n]
<1>1. /\ 0 \in D /\ D \subseteq I /\ I \subseteq Inodes /\ n \notin D /\ n # 0 /\ c # n
      /\ \A d \in D : Lays(L, d)
      /\ \A d \in D : \A i \in Kids(L, d) : L[d][i].inode \in I \ {0} /\ L[d][i].inode # d
  BY DEF TreeOf
<1>2. PICK k \in Nat : k = Len(L[c]) /\ k >= Dots(c) /\ L[c] \in Seq(Entries)
  <2>1. L[c] \in Seq(Entries) /\ Len(L[c]) >= Dots(c)
    BY <1>1 DEF Lays
  <2>2. Len(L[c]) \in Nat
    BY <2>1
  <2> QED BY <2>1, <2>2
<1>3. e \in Entries
  BY DEF Entries
<1>4. /\ M[c] \in Seq(Entries) /\ Len(M[c]) = k + 1 /\ M[c][k + 1] = e
      /\ \A i \in 1 .. k : M[c][i] = L[c][i]
  <2>1. M[c] = Append(L[c], e)
    OBVIOUS
  <2> HIDE DEF e
  <2> QED BY <2>1, <1>2, <1>3, AppendProperties
<1>5. \A d : Dots(d) \in 1 .. 2 /\ (d # 0 => Dots(d) = 2)
  BY DEF Dots
<1>6. \A i : i \in Kids(M, c) <=> i \in Kids(L, c) \/ i = k + 1
  <2>1. Dots(c) \in Nat
    BY <1>5
  <2> QED BY <2>1, <1>2, <1>4 DEF Kids
<1>7. Kids(L, c) \subseteq 1 .. k
  BY <1>2, <1>5 DEF Kids
<1>8. \A d \in D : d # c => Kids(M, d) = Kids(L, d) /\ M[d] = L[d]
  BY DEF Kids
<1>9. K # D => Kids(M, n) = {} /\ Lays(M, n) /\ M[n][2] = [name |-> "..", inode |-> c]
  <2> SUFFICES ASSUME K # D
               PROVE  Kids(M, n) = {} /\ Lays(M, n) /\ M[n][2] = [name |-> "..", inode |-> c]
    OBVIOUS
  <2>1. PICK u, v : u = [name |-> ".", inode |-> n] /\ v = [name |-> "..", inode |-> c]
    OBVIOUS
  <2>2. u \in Entries /\ v \in Entries
    BY <2>1, <1>1 DEF Entries, AllNames
  <2>3. M[n] = <<u, v>>
    BY <2>1
  <2>4. M[n] \in Seq(Entries) /\ Len(M[n]) = 2 /\ M[n][1] = u /\ M[n][2] = v
    BY <2>2, <2>3
  <2>5. Dots(n) = 2
    BY <1>1, <1>5
  <2>6. Kids(M, n) = {}
    BY <2>4, <2>5 DEF Kids
  <2>7. u.name # v.name
    BY <2>1
  <2>8. \A i, j \in 1 .. 2 : M[n][i].name = M[n][j].name => i = j
    <3>1. \A i \in 1 .. 2 : i = 1 \/ i = 2
      OBVIOUS
    <3> QED BY <3>1, <2>4, <2>7
  <2>9. 2 <= MAX_DIR_ENTRY
    BY <1>2, <1>5, FSAssumption
  <2> QED BY <2>1, <2>4, <2>5, <2>6, <2>8, <2>9 DEF Lays
<1>10. \A d \in K : d \in D \/ (d = n /\ K # D)
  <2> SUFFICES ASSUME NEW d \in K, d \notin D PROVE d = n /\ K # D
    OBVIOUS
  <2>1. K # D
    OBVIOUS
  <2> QED BY <2>1
<1>11. \A d \in K : \A i \in Kids(M, d) :
         \/ d \in D /\ i \in Kids(L, d) /\ M[d][i] = L[d][i]
         \/ d = c /\ i = k + 1 /\ M[d][i] = e
  BY <1>4, <1>6, <1>7, <1>8, <1>9, <1>10
<1>12. \A d \in D : \A i \in Kids(L, d) : i \in Kids(M, d) /\ M[d][i] = L[d][i]
  BY <1>4, <1>6, <1>7, <1>8
<1>13. \A d \in D : d # 0 => M[d][2] = L[d][2]
  <2> SUFFICES ASSUME c # 0 PROVE M[c][2] = L[c][2]
    BY <1>8
  <2>1. 2 \in 1 .. k
    BY <1>2, <1>5
  <2> QED BY <2>1, <1>4
<1>14. \A d \in K : Lays(M, d)
  <2>1. ASSUME NEW d \in D, d # c PROVE Lays(M, d)
    BY <2>1, <1>1, <1>8 DEF Lays
  <2>2. Lays(M, c)
    <3>1. Lays(L, c)
      BY <1>1
    <3>2. Len(M[c]) >= Dots(c) /\ Len(M[c]) <= MAX_DIR_ENTRY
      BY <1>2, <1>4, <1>5, FSAssumption
    <3>3. 1 \in 1 .. k /\ M[c][1] = L[c][1]
      BY <1>2, <1>4, <1>5
    <3>4. \A i \in 1 .. k : M[c][i] = L[c][i] /\ L[c][i].name # name
      BY <1>2, <1>4
    <3>5. M[c][k + 1].name = name
      BY <1>4
    <3>6. \A i \in 1 .. k + 1 : i \in 1 .. k \/ i = k + 1
      BY <1>2
    <3>7. \A i, j \in 1 .. k + 1 : M[c][i].name = M[c][j].name => i = j
      <4>1. \A i, j \in 1 .. k : L[c][i].name = L[c][j].name => i = j
        BY <3>1, <1>2 DEF Lays
      <4> QED BY <4>1, <3>4, <3>5, <3>6
    <3> QED BY <3>1, <3>2, <3>3, <3>7, <1>4 DEF Lays
  <2> QED BY <2>1, <2>2, <1>9, <1>10
<1>15. \A d \in K : \A i \in Kids(M, d) : M[d][i].inode \in (I \cup {n}) \ {0} /\ M[d][i].inode # d
  <2>1. e.inode = n
    OBVIOUS
  <2> QED BY <2>1, <1>1, <1>11
<1>16. ASSUME NEW m \in (I \cup {n}) \ {0}
       PROVE  \E d \in K : \E i \in Kids(M, d) : Lists(K, M, m, d, i)
  <2>1. CASE m = n
    <3>1. k + 1 \in Kids(M, c) /\ M[c][k + 1].inode = n
      BY <1>4, <1>6
    <3>2. \A d \in K : \A j \in Kids(M, d) : M[d][j].inode = n => d = c /\ j = k + 1
      BY <1>1, <1>11
    <3>3. n \in K => M[n][2] = [name |-> "..", inode |-> c]
      BY <1>1, <1>9
    <3>4. Lists(K, M, n, c, k + 1)
      BY <3>1, <3>2, <3>3 DEF Lists
    <3> QED BY <3>1, <3>4, <2>1
  <2>2. CASE m # n
    <3>1. PICK d \in D : \E i \in Kids(L, d) : Lists(D, L, m, d, i)
      BY <2>2 DEF TreeOf
    <3>2. PICK i \in Kids(L, d) : Lists(D, L, m, d, i)
      BY <3>1
    <3>3. d \in K /\ i \in Kids(M, d) /\ M[d][i].inode = m
      BY <3>2, <1>12 DEF Lists
    <3>4. e.inode = n
      OBVIOUS
    <3>5. \A a \in K : \A j \in Kids(M, a) : M[a][j].inode = m => a = d /\ j = i
      BY <3>2, <3>4, <2>2, <1>11 DEF Lists
    <3>6. m \in K => M[m][2] = [name |-> "..", inode |-> d]
      BY <3>2, <2>2, <1>10, <1>13 DEF Lists
    <3>7. Lists(K, M, m, d, i)
      BY <3>3, <3>5, <3>6 DEF Lists
    <3> QED BY <3>3, <3>7
  <2> QED BY <2>1, <2>2
<1>17. 0 \in K /\ K \subseteq I \cup {n} /\ I \cup {n} \subseteq Inodes
  BY <1>1
<1> QED
  BY <1>14, <1>15, <1>16, <1>17 DEF TreeOf

\* The entry at s goes, the last one takes its place, and with it what it stood
\* for: a file or an empty directory.
LEMMA TreeShrinks ==
  ASSUME NEW D, NEW I, NEW L, TreeOf(D, I, L),
         NEW c \in D, NEW s \in Kids(L, c), NEW n, n = L[c][s].inode,
         n \in D => Len(L[n]) = 2,
         NEW M, M[c] \in Seq(Entries), Len(M[c]) = Len(L[c]) - 1,
         \A i \in 1 .. Len(M[c]) : M[c][i] = L[c][IF i = s THEN Len(L[c]) ELSE i],
         \A d \in D \ {c, n} : M[d] = L[d]
  PROVE  TreeOf(D \ {n}, I \ {n}, M)
<1> DEFINE K == D \ {n}
<1>1. /\ 0 \in D /\ D \subseteq I /\ I \subseteq Inodes
      /\ \A d \in D : Lays(L, d)
      /\ \A d \in D : \A i \in Kids(L, d) : L[d][i].inode \in I \ {0} /\ L[d][i].inode # d
      /\ n \in I \ {0} /\ n # c
  BY DEF TreeOf
<1>2. PICK k \in Nat : Len(L[c]) = k + 1 /\ Len(M[c]) = k /\ k >= Dots(c)
  <2>1. L[c] \in Seq(Entries) /\ Dots(c) \in Nat
    BY <1>1 DEF Lays, Dots
  <2>2. Len(L[c]) \in Nat
    BY <2>1
  <2>3. Len(L[c]) >= Dots(c) + 1
    BY <2>1, <2>2 DEF Kids
  <2>4. PICK l \in Nat : l = Len(L[c])
    BY <2>2
  <2>5. l - 1 \in Nat /\ l = (l - 1) + 1 /\ l - 1 >= Dots(c)
    BY <2>1, <2>3, <2>4
  <2> QED BY <2>4, <2>5
<1> DEFINE from(i) == IF i = s THEN k + 1 ELSE i
<1>3. \A d : Dots(d) \in 1 .. 2 /\ (d # 0 => Dots(d) = 2)
  BY DEF Dots
<1>4. \A i \in 1 .. k : M[c][i] = L[c][from(i)]
  BY <1>2
<1>5. /\ \A i \in 1 .. k : /\ from(i) \in 1 .. k + 1 /\ from(i) # s
                           /\ \A j \in 1 .. k : from(i) = from(j) => i = j
      /\ \A i \in Kids(M, c) : i \in 1 .. k /\ from(i) \in Kids(L, c)
      /\ \A j \in Kids(L, c) : j # s => \E i \in Kids(M, c) : from(i) = j
      /\ \A i \in 1 .. Dots(c) : i \in 1 .. k /\ from(i) = i
  <2>1. PICK z \in 1 .. 2 : z = Dots(c)
    BY <1>3
  <2>2. \A i : /\ i \in Kids(M, c) <=> i \in z + 1 .. k
               /\ i \in Kids(L, c) <=> i \in z + 1 .. k + 1
    BY <2>1, <1>2 DEF Kids
  <2>3. s \in z + 1 .. k + 1 /\ k >= z
    BY <2>1, <2>2, <1>2
  <2>4. \A i \in 1 .. k : /\ from(i) \in 1 .. k + 1 /\ from(i) # s
                          /\ \A j \in 1 .. k : from(i) = from(j) => i = j
    BY <2>3
  <2>5. \A i \in z + 1 .. k : i \in 1 .. k /\ from(i) \in z + 1 .. k + 1
    BY <2>3
  <2>6. ASSUME NEW j \in z + 1 .. k + 1, j # s PROVE \E i \in z + 1 .. k : from(i) = j
    <3>1. CASE j = k + 1
      <4>1. s \in z + 1 .. k /\ from(s) = j
        BY <2>3, <2>6, <3>1
      <4> QED BY <4>1
    <3>2. CASE j # k + 1
      <4>1. j \in z + 1 .. k /\ from(j) = j
        BY <2>6, <3>2
      <4> QED BY <4>1
    <3> QED BY <3>1, <3>2
  <2>7. \A i \in 1 .. z : i \in 1 .. k /\ from(i) = i
    BY <2>3
  <2> HIDE DEF from
  <2> QED BY <2>1, <2>2, <2>4, <2>5, <2>6, <2>7
<1> HIDE DEF from
<1>6. \A d \in K : d # c => M[d] = L[d] /\ Kids(M, d) = Kids(L, d)
  BY DEF Kids
<1>7. n \in D => Kids(L, n) = {}
  <2> SUFFICES ASSUME n \in D PROVE Kids(L, n) = {}
    OBVIOUS
  <2>1. Dots(n) = 2 /\ Len(L[n]) = 2
    BY <1>1, <1>3
  <2>2. 2 + 1 .. 2 = {}
    OBVIOUS
  <2> QED BY <2>1, <2>2 DEF Kids
<1>8. \A d \in K : \A i \in Kids(M, d) : \E j \in Kids(L, d) :
        /\ M[d][i] = L[d][j] /\ (d = c => j = from(i) /\ j # s) /\ (d # c => j = i)
  <2> SUFFICES ASSUME NEW d \in K, NEW i \in Kids(M, d)
               PROVE  \E j \in Kids(L, d) : /\ M[d][i] = L[d][j]
                                            /\ d = c => j = from(i) /\ j # s
                                            /\ d # c => j = i
    OBVIOUS
  <2>1. CASE d # c
    BY <2>1, <1>6
  <2>2. CASE d = c
    <3>1. PICK j \in Kids(L, c) : j = from(i) /\ j # s
      BY <2>2, <1>5
    <3>2. M[c][i] = L[c][j]
      BY <2>2, <3>1, <1>4, <1>5
    <3> QED BY <2>2, <3>1, <3>2
  <2> QED BY <2>1, <2>2
<1>9. \A d \in K : Lays(M, d)
  <2>1. ASSUME NEW d \in K, d # c PROVE Lays(M, d)
    BY <2>1, <1>1, <1>6 DEF Lays
  <2>2. Lays(M, c)
    <3>1. Lays(L, c)
      BY <1>1
    <3>2. k >= Dots(c) /\ k <= MAX_DIR_ENTRY
      BY <3>1, <1>2, FSAssumption DEF Lays
    <3>3. M[c][1] = L[c][1]
      <4>1. 1 \in 1 .. Dots(c)
        BY <1>3
      <4> QED BY <4>1, <1>4, <1>5
    <3>4. ASSUME NEW i \in 1 .. k, NEW j \in 1 .. k, M[c][i].name = M[c][j].name PROVE i = j
      <4>1. L[c][from(i)].name = L[c][from(j)].name /\ from(i) \in 1 .. k + 1 /\ from(j) \in 1 .. k + 1
        BY <3>4, <1>4, <1>5
      <4>2. from(i) = from(j)
        BY <4>1, <3>1, <1>2 DEF Lays
      <4> QED BY <4>2, <1>5
    <3> QED BY <3>1, <3>2, <3>3, <3>4, <1>2 DEF Lays
  <2> QED BY <2>1, <2>2
<1>10. ASSUME NEW d \in K, NEW i \in Kids(M, d)
       PROVE  M[d][i].inode \in (I \ {n}) \ {0} /\ M[d][i].inode # d
  <2>1. PICK j \in Kids(L, d) : M[d][i] = L[d][j] /\ (d = c => j # s)
    BY <1>8
  <2>2. L[d][j].inode \in I \ {0} /\ L[d][j].inode # d
    BY <1>1
  <2>3. L[d][j].inode # n
    <3>1. PICK a \in D : \E t \in Kids(L, a) : Lists(D, L, n, a, t)
      BY <1>1 DEF TreeOf
    <3>2. PICK t \in Kids(L, a) : Lists(D, L, n, a, t)
      BY <3>1
    <3>3. a = c /\ t = s
      BY <3>2 DEF Lists
    <3> QED BY <3>2, <3>3, <2>1 DEF Lists
  <2> QED BY <2>1, <2>2, <2>3
<1>11. \A d \in K : d # 0 => M[d][2] = L[d][2]
  <2> SUFFICES ASSUME c # 0 PROVE M[c][2] = L[c][2]
    BY <1>6
  <2>1. 2 \in 1 .. Dots(c)
    BY <1>3
  <2> QED BY <2>1, <1>4, <1>5
<1>12. ASSUME NEW m \in (I \ {n}) \ {0}
       PROVE  \E d \in K : \E i \in Kids(M, d) : Lists(K, M, m, d, i)
  <2>1. PICK d \in D : \E j \in Kids(L, d) : Lists(D, L, m, d, j)
    BY DEF TreeOf
  <2>2. PICK j \in Kids(L, d) : Lists(D, L, m, d, j)
    BY <2>1
  <2>3. d \in K /\ (d = c => j # s)
    BY <2>2, <1>7 DEF Lists
  <2>4. PICK i \in Kids(M, d) : M[d][i] = L[d][j] /\ (d = c => from(i) = j) /\ (d # c => i = j)
    <3>1. CASE d = c
      <4>1. PICK i \in Kids(M, c) : from(i) = j
        BY <3>1, <2>3, <1>5
      <4> QED BY <4>1, <3>1, <1>4, <1>5
    <3>2. CASE d # c
      BY <3>2, <2>3, <1>6
    <3> QED BY <3>1, <3>2
  <2>5. \A a \in K : \A t \in Kids(M, a) : M[a][t].inode = m => a = d /\ t = i
    <3> SUFFICES ASSUME NEW a \in K, NEW t \in Kids(M, a), M[a][t].inode = m
                 PROVE  a = d /\ t = i
      OBVIOUS
    <3>1. PICK u \in Kids(L, a) : M[a][t] = L[a][u] /\ (a = c => u = from(t)) /\ (a # c => u = t)
      BY <1>8
    <3>2. a = d /\ u = j
      BY <3>1, <2>2 DEF Lists
    <3> QED BY <3>1, <3>2, <2>4, <1>5
  <2>6. m \in K => M[m][2] = [name |-> "..", inode |-> d]
    BY <2>2, <1>11 DEF Lists
  <2>7. Lists(K, M, m, d, i)
    BY <2>2, <2>4, <2>5, <2>6 DEF Lists
  <2> QED BY <2>3, <2>7
<1>13. 0 \in K /\ K \subseteq I \ {n} /\ I \ {n} \subseteq Inodes
  BY <1>1
<1> QED
  BY <1>9, <1>10, <1>12, <1>13 DEF TreeOf

-----------------------------------------------------------------------------
(* While the user keeps to the usage of Tidy.                              *)

Here == curDir[1].inode

\* The directories in use form a tree, and the unmount finds the root's block.
TidyTree ==
  Tidy =>
    /\ ~wild /\ Here \in LiveDirs /\ curDirBlock = inode[0].direct[1]
    /\ \A d \in LiveDirs : d # Here => disk[inode[d].direct[1]].kind = "dir"
    /\ \E D, I, L : /\ D = LiveDirs /\ I = inodeMap /\ \A d \in D : L[d] = Listing(d)
                    /\ TreeOf(D, I, L)

\* A map is where it was written, a directory has none, and what is marked is
\* owned, or the map of a file that was removed.
TidyMaps ==
  Tidy =>
    /\ \A n \in inodeMap : MapIntact(n)
    /\ \A d \in LiveDirs : inode[d].numIndirect = 0
    /\ \A b \in blockMap : \/ b < SystemBlocks
                           \/ \E n \in inodeMap : b \in Owned(n)
                           \/ disk[b].kind = "map"

\* What the next state has to show for TidyTree.
LEMMA TreeLater ==
  ASSUME NEW K, NEW J, NEW M, K = LiveDirs', J = inodeMap', TreeOf(K, J, M),
         ~wild', curDirBlock' = inode'[0].direct[1], NEW h \in K, h = curDir'[1].inode,
         \A d \in K : d # h => disk'[inode'[d].direct[1]].kind = "dir",
         \A d \in K : M[d] = IF d = h THEN curDir' ELSE disk'[inode'[d].direct[1]].entries
  PROVE  TidyTree'
<1>1. \A d \in K : M[d] = Listing(d)'
  BY DEF Listing
<1>2. \E D, I, L : /\ D = LiveDirs' /\ I = inodeMap' /\ \A d \in D : L[d] = Listing(d)'
                   /\ TreeOf(D, I, L)
  BY <1>1
<1> QED
  BY <1>2 DEF TidyTree, Here

\* Tidy at the end of a command says that it was so before.
LEMMA TidyBefore ==
  ASSUME Typed, NEW k \in BOOLEAN, stray' = StrayAfter(k), Tidy'
  PROVE  Tidy /\ k
<1>1. stray \in Nat
  BY DEF Typed, TypeOK
<1> QED
  BY <1>1 DEF StrayAfter, Tidy

\* A directory in use has one block of its own.
LEMMA DirBlockOwned ==
  ASSUME FSInv, NEW d \in LiveDirs
  PROVE  /\ d \in inodeMap /\ d \in Inodes /\ Len(inode[d].direct) = 1 /\ inode[d].direct # <<>>
         /\ inode[d].direct[1] \in Direct(d) /\ inode[d].direct[1] \in Owned(d)
         /\ inode[d].direct[1] \in blockMap /\ inode[d].direct[1] \in Blocks
<1>1. d \in inodeMap /\ d \in Inodes /\ inode[d].type = "directory"
  BY DEF LiveDirs, FSInv, Typed, TypeOK
<1>2. Len(inode[d].direct) = 1
  BY <1>1 DEF FSInv, DirsHaveBlock
<1>3. inode[d].direct # <<>>
  BY <1>2
<1>4. inode[d].direct[1] \in Direct(d) /\ inode[d].direct[1] \in Owned(d)
  BY <1>2 DEF Direct, Owned
<1>5. inode[d].direct[1] \in blockMap /\ inode[d].direct[1] \in Blocks
  BY <1>1, <1>4 DEF FSInv, Ownership, Typed, TypeOK
<1> QED
  BY <1>1, <1>2, <1>3, <1>4, <1>5

\* Two directories in use have two blocks, and none has the block of a map.
LEMMA DirBlocksApart ==
  ASSUME FSInv, NEW d \in LiveDirs, NEW m \in inodeMap
  PROVE  /\ inode[d].direct[1] \notin MapOf(m)
         /\ m \in LiveDirs /\ m # d => inode[m].direct[1] # inode[d].direct[1]
<1>1. inode[d].direct[1] \in Direct(d) /\ inode[d].direct[1] \in Owned(d) /\ d \in inodeMap
  BY DirBlockOwned
<1>2. MapOf(m) \subseteq Owned(m)
  BY DEF Owned
<1>3. m # d => Owned(m) \cap Owned(d) = {}
  BY <1>1 DEF FSInv, Ownership
<1>4. Direct(d) \cap MapOf(d) = {}
  BY <1>1 DEF FSInv, Ownership, Apart
<1>5. m \in LiveDirs => inode[m].direct[1] \in Owned(m)
  BY DirBlockOwned
<1> QED
  BY <1>1, <1>2, <1>3, <1>4, <1>5

\* A map that no step touches keeps what it owns.
LEMMA SameOwned ==
  ASSUME NEW m, inode'[m] = inode[m], \A b \in MapOf(m) : disk'[b] = disk[b]
  PROVE  Owned(m)' = Owned(m) /\ (MapIntact(m) => MapIntact(m)')
<1>1. Direct(m)' = Direct(m) /\ MapOf(m)' = MapOf(m)
  BY DEF Direct, MapOf
<1>2. inode[m].numIndirect > 0 => disk'[inode[m].indirect] = disk[inode[m].indirect]
  BY DEF MapOf
<1>3. MapIntact(m)' <=> MapIntact(m)
  BY <1>2 DEF MapIntact
<1>4. HasMap(m)' <=> HasMap(m)
  BY <1>3 DEF HasMap
<1>5. Mapped(m)' = Mapped(m)
  <2>1. CASE ~HasMap(m)
    BY <2>1, <1>4 DEF Mapped
  <2>2. CASE HasMap(m)
    <3>1. inode[m].numIndirect > 0
      BY <2>2 DEF HasMap
    <3> QED BY <2>2, <3>1, <1>2, <1>4 DEF Mapped
  <2> QED BY <2>1, <2>2
<1> QED
  BY <1>1, <1>3, <1>5 DEF Owned

\* The parent of a directory in use is one.
LEMMA ParentLive ==
  ASSUME NEW D, NEW I, NEW L, TreeOf(D, I, L), NEW h \in D, h # 0
  PROVE  L[h][2].inode \in D
<1>1. PICK d \in D : \E i \in Kids(L, d) : Lists(D, L, h, d, i)
  BY DEF TreeOf
<1>2. L[h][2] = [name |-> "..", inode |-> d]
  BY <1>1 DEF Lists
<1> QED
  BY <1>2

\* What an entry of a directory stands for.
LEMMA EntryLive ==
  ASSUME NEW D, NEW I, NEW L, TreeOf(D, I, L), NEW h \in D, NEW s \in 1 .. Len(L[h])
  PROVE  /\ s \in Kids(L, h) => L[h][s].inode \in I
         /\ s \notin Kids(L, h) => L[h][s].inode \in D
<1>1. L[h][1].inode = h /\ L[h] \in Seq(Entries)
  <2>1. Lays(L, h)
    BY DEF TreeOf
  <2> QED BY <2>1 DEF Lays
<1>2. CASE s \in Kids(L, h)
  BY <1>2 DEF TreeOf
<1>3. CASE s \notin Kids(L, h)
  <2>1. Len(L[h]) \in Nat
    BY <1>1
  <2>2. s = 1 \/ (h # 0 /\ s = 2)
    BY <1>3, <2>1 DEF Kids, Dots
  <2> QED BY <1>1, <1>3, <2>2, ParentLive
<1> QED BY <1>2, <1>3

-----------------------------------------------------------------------------
(* The maps, in such a session.                                            *)

\* A new file or directory.
LEMMA MadeKeepsMaps ==
  ASSUME FSInv, FSInv', TidyMaps, Tidy, NEW n, NEW name, Made(n, name),
         inode'[n].type = "directory" => inode'[n].numIndirect = 0
  PROVE  TidyMaps'
<1>1. /\ n \in Inodes \ inodeMap /\ inodeMap' = inodeMap \cup {n}
      /\ \A m \in Inodes : m # n => inode'[m] = inode[m]
      /\ blockMap' \ blockMap \subseteq Owned(n)'
      /\ \A b \in blockMap : disk'[b] = disk[b]
      /\ MapIntact(n)'
  BY DEF Made
<1>2. /\ \A m \in inodeMap : MapIntact(m)
      /\ \A d \in LiveDirs : inode[d].numIndirect = 0
      /\ \A b \in blockMap : \/ b < SystemBlocks
                             \/ \E m \in inodeMap : b \in Owned(m)
                             \/ disk[b].kind = "map"
  BY DEF TidyMaps
<1>3. ASSUME NEW m \in inodeMap
      PROVE  inode'[m] = inode[m] /\ Owned(m)' = Owned(m) /\ MapIntact(m)'
  <2>1. inode'[m] = inode[m]
    BY <1>1 DEF FSInv, Typed, TypeOK
  <2>2. MapOf(m) \subseteq blockMap
    BY DEF FSInv, Ownership, Owned
  <2> QED BY <2>1, <2>2, <1>1, <1>2, SameOwned
<1>4. \A m \in inodeMap' : MapIntact(m)'
  BY <1>1, <1>3
<1>5. ASSUME NEW d \in LiveDirs' PROVE inode'[d].numIndirect = 0
  <2>1. d \in inodeMap \cup {n} /\ inode'[d].type = "directory"
    BY <1>1 DEF LiveDirs
  <2>2. CASE d = n
    BY <2>1, <2>2
  <2>3. CASE d \in inodeMap
    <3>1. d \in LiveDirs
      BY <2>1, <2>3, <1>3 DEF LiveDirs
    <3> QED BY <3>1, <2>3, <1>2, <1>3
  <2> QED BY <2>1, <2>2, <2>3
<1>6. ASSUME NEW b \in blockMap'
      PROVE  \/ b < SystemBlocks
             \/ \E m \in inodeMap' : b \in Owned(m)'
             \/ disk'[b].kind = "map"
  <2>1. CASE b \in blockMap
    BY <2>1, <1>1, <1>2, <1>3
  <2>2. CASE b \notin blockMap
    <3>1. b \in Owned(n)'
      BY <2>2, <1>1
    <3> QED BY <3>1, <1>1
  <2> QED BY <2>1, <2>2
<1> QED
  BY <1>4, <1>5, <1>6 DEF TidyMaps

\* A removal that gives back all but the map of inode n.
LEMMA RemoveKeepsMaps ==
  ASSUME TidyMaps, Tidy, NEW n \in inodeMap, inodeMap' = inodeMap \ {n},
         NEW B, blockMap' = blockMap \ B, UNCHANGED <<inode, disk>>,
         \A b \in Owned(n) : b \in B \/ disk[b].kind = "map"
  PROVE  TidyMaps'
<1>1. /\ \A m \in inodeMap : MapIntact(m)
      /\ \A d \in LiveDirs : inode[d].numIndirect = 0
      /\ \A b \in blockMap : \/ b < SystemBlocks
                             \/ \E m \in inodeMap : b \in Owned(m)
                             \/ disk[b].kind = "map"
  BY DEF TidyMaps
<1>2. \A m \in inodeMap : Owned(m)' = Owned(m) /\ MapIntact(m)'
  BY <1>1, SameOwned
<1>3. \A d \in LiveDirs' : inode'[d].numIndirect = 0
  BY <1>1 DEF LiveDirs
<1>4. \A b \in blockMap' : \/ b < SystemBlocks
                           \/ \E m \in inodeMap' : b \in Owned(m)'
                           \/ disk'[b].kind = "map"
  BY <1>1, <1>2
<1> QED
  BY <1>2, <1>3, <1>4 DEF TidyMaps

\* The current directory is saved in its block.
LEMMA SaveKeepsMaps ==
  ASSUME FSInv, TidyMaps, Tidy, NEW h \in LiveDirs, UNCHANGED <<inodeMap, blockMap, inode>>,
         \A b \in Blocks : b # inode[h].direct[1] => disk'[b] = disk[b]
  PROVE  TidyMaps'
<1>1. /\ \A m \in inodeMap : MapIntact(m)
      /\ \A d \in LiveDirs : inode[d].numIndirect = 0
      /\ \A b \in blockMap : \/ b < SystemBlocks
                             \/ \E m \in inodeMap : b \in Owned(m)
                             \/ disk[b].kind = "map"
  BY DEF TidyMaps
<1>2. ASSUME NEW m \in inodeMap PROVE Owned(m)' = Owned(m) /\ MapIntact(m)'
  <2>1. MapOf(m) \subseteq Blocks
    BY DEF FSInv, Ownership, Owned, Typed, TypeOK
  <2>2. inode[h].direct[1] \notin MapOf(m)
    BY DirBlocksApart
  <2>3. \A b \in MapOf(m) : disk'[b] = disk[b]
    BY <2>1, <2>2
  <2> QED BY <2>3, <1>1, SameOwned
<1>3. \A d \in LiveDirs' : inode'[d].numIndirect = 0
  BY <1>1 DEF LiveDirs
<1>4. ASSUME NEW b \in blockMap'
      PROVE  \/ b < SystemBlocks
             \/ \E m \in inodeMap' : b \in Owned(m)'
             \/ disk'[b].kind = "map"
  <2>1. h \in inodeMap /\ inode[h].direct[1] \in Owned(h)
    BY DirBlockOwned
  <2>2. b \in Blocks
    BY DEF FSInv, Typed, TypeOK
  <2> QED BY <2>1, <2>2, <1>1, <1>2
<1> QED
  BY <1>2, <1>3, <1>4 DEF TidyMaps

\* rm's list names every block of a file but the map's own.
LEMMA BlocksOfAll ==
  ASSUME Typed, NEW n \in inodeMap, MapIntact(n)
  PROVE  LET bs == BlocksOf(n) IN Owned(n) \ MapOf(n) \subseteq {bs[i] : i \in 1 .. Len(bs)}
<1> DEFINE bs == BlocksOf(n)
           k  == inode[n].numIndirect
<1>1. n \in Inodes /\ inode[n].direct \in Seq(Blocks) /\ k \in Nat
      /\ inode[n].indirect \in Blocks
  BY DEF Typed, TypeOK
<1>2. CASE k = 0
  <2>1. bs = inode[n].direct /\ ~HasMap(n) /\ MapOf(n) = {}
    BY <1>2 DEF BlocksOf, HasMap, MapOf
  <2> QED BY <2>1 DEF Owned, Mapped, Direct
<1>3. CASE k > 0
  <2>1. HasMap(n)
    BY <1>3 DEF HasMap
  <2>2. PICK x : x = disk[inode[n].indirect].blocks
    OBVIOUS
  <2>3. disk[inode[n].indirect].kind = "map" /\ Len(x) >= k
    BY <1>3, <2>2 DEF MapIntact
  <2>4. x \in Seq(Blocks)
    <3>1. disk[inode[n].indirect].kind # "dir" /\ Data.kind # "map"
      BY <2>3 DEF Data
    <3> QED BY <3>1, <2>2, <2>3, <1>1 DEF Typed, TypeOK
  <2>5. PICK y : y = SubSeq(x, 1, k)
    OBVIOUS
  <2>6. y \in Seq(Blocks) /\ Len(y) = k /\ \A i \in 1 .. k : y[i] = x[i]
    BY <1>1, <1>3, <2>3, <2>4, <2>5
  <2>7. bs = y \o inode[n].direct
    BY <1>3, <2>2, <2>5 DEF BlocksOf
  <2>8. PICK d : d = inode[n].direct
    OBVIOUS
  <2>9. d \in Seq(Blocks) /\ bs = y \o d
    BY <2>7, <2>8, <1>1
  <2>10. PICK z : z = y \o d
    OBVIOUS
  <2>11. /\ Len(z) = k + Len(d) /\ Len(d) \in Nat
         /\ \A i \in 1 .. k : i \in 1 .. Len(z) /\ z[i] = x[i]
         /\ \A i \in 1 .. Len(d) : k + i \in 1 .. Len(z) /\ z[k + i] = d[i]
    <3>1. PICK l \in Nat : l = k
      BY <1>1
    <3>2. Len(y) = l /\ y \in Seq(Blocks) /\ d \in Seq(Blocks) /\ Len(d) \in Nat
      BY <2>6, <2>9, <3>1
    <3> HIDE DEF k
    <3>3. Len(z) = l + Len(d) /\ \A i \in 1 .. l + Len(d) : z[i] = IF i <= l THEN y[i] ELSE d[i - l]
      BY <3>2, <2>10
    <3>4. \A i \in 1 .. l : i \in 1 .. Len(z) /\ z[i] = y[i]
      BY <3>2, <3>3
    <3>5. \A i \in 1 .. Len(d) : l + i \in 1 .. Len(z) /\ z[l + i] = d[i]
      <4> SUFFICES ASSUME NEW i \in 1 .. Len(d) PROVE l + i \in 1 .. Len(z) /\ z[l + i] = d[i]
        OBVIOUS
      <4>1. PICK j \in 1 .. l + Len(d) : j = l + i /\ j - l = i /\ ~(j <= l)
        BY <3>2
      <4> QED BY <4>1, <3>3
    <3> QED BY <3>1, <3>2, <3>3, <3>4, <3>5, <2>6
  <2>12. Mapped(n) = {x[i] : i \in 1 .. k} /\ Direct(n) = {d[i] : i \in 1 .. Len(d)}
    BY <2>1, <2>2, <2>8 DEF Mapped, Direct
  <2>13. bs = z
    BY <2>9, <2>10
  <2> HIDE DEF bs, k
  <2>14. \A b \in Mapped(n) : b \in {z[i] : i \in 1 .. Len(z)}
    BY <2>11, <2>12
  <2>15. \A b \in Direct(n) : b \in {z[i] : i \in 1 .. Len(z)}
    BY <2>11, <2>12
  <2> QED BY <2>13, <2>14, <2>15 DEF Owned, bs
<1> QED BY <1>1, <1>2, <1>3

-----------------------------------------------------------------------------
(* The tree, in such a session.                                            *)

\* The current directory, as every command finds it.
LEMMA HereListed ==
  ASSUME FSInv, TidyTree, Tidy
  PROVE  /\ Here \in LiveDirs /\ Here \in Inodes /\ ~wild
         /\ curDir \in Seq(Entries) /\ Len(curDir) \in Nat
         /\ Len(curDir) >= Dots(Here) /\ Len(curDir) <= MAX_DIR_ENTRY
         /\ \E D, I, L : /\ D = LiveDirs /\ I = inodeMap /\ \A d \in D : L[d] = Listing(d)
                         /\ TreeOf(D, I, L) /\ L[Here] = curDir
<1>1. Here \in LiveDirs /\ ~wild
  BY DEF TidyTree
<1>2. PICK D, I, L : /\ D = LiveDirs /\ I = inodeMap /\ \A d \in D : L[d] = Listing(d)
                     /\ TreeOf(D, I, L)
  BY DEF TidyTree
<1>3. L[Here] = curDir
  BY <1>1, <1>2 DEF Listing, Here
<1>4. curDir \in Seq(Entries) /\ Here \in Inodes
  BY <1>1, DirBlockOwned DEF FSInv, Typed, TypeOK
<1>5. Lays(L, Here)
  BY <1>1, <1>2 DEF TreeOf
<1> QED
  BY <1>1, <1>2, <1>3, <1>4, <1>5 DEF Lays

\* A new file, or a new directory whose block lists itself and the current one.
LEMMA MadeKeepsTree ==
  ASSUME FSInv, TidyTree, Tidy, NEW name \in AllNames, NEW n, Made(n, name),
         ~Exists(name), ~DirectoryFull, UNCHANGED <<curDirBlock, wild>>,
         inode'[n].type = "directory" =>
           disk'[inode'[n].direct[1]]
             = DirBlock(<<[name |-> ".", inode |-> n], [name |-> "..", inode |-> curDir[1].inode]>>)
  PROVE  TidyTree'
<1>1. PICK h : h = Here
  OBVIOUS
<1>2. /\ h \in LiveDirs /\ h \in Inodes /\ ~wild
      /\ curDir \in Seq(Entries) /\ Len(curDir) \in Nat /\ Len(curDir) >= Dots(h)
      /\ \E D, I, L : /\ D = LiveDirs /\ I = inodeMap /\ \A d \in D : L[d] = Listing(d)
                      /\ TreeOf(D, I, L) /\ L[h] = curDir
  BY <1>1, HereListed
<1>3. PICK D, I, L : /\ D = LiveDirs /\ I = inodeMap /\ \A d \in D : L[d] = Listing(d)
                     /\ TreeOf(D, I, L) /\ L[h] = curDir
  BY <1>2
<1>4. PICK K, J : K = LiveDirs' /\ J = inodeMap'
  OBVIOUS
<1>5. PICK M : M = [d \in K |-> IF d = h THEN curDir' ELSE disk'[inode'[d].direct[1]].entries]
  OBVIOUS
<1>6. /\ n \in Inodes \ I /\ J = I \cup {n} /\ n # h
      /\ \A m \in I : m # n /\ inode'[m] = inode[m]
      /\ curDir' = Append(curDir, [name |-> name, inode |-> n])
      /\ \A b \in blockMap : disk'[b] = disk[b]
  BY <1>2, <1>3, <1>4 DEF Made, Added, LiveDirs, FSInv, Typed, TypeOK
<1>7. D \subseteq I /\ 0 \in D
  BY <1>3 DEF TreeOf
<1>8. \A d : d \in K <=> d \in D \/ (d = n /\ inode'[n].type = "directory")
  BY <1>3, <1>4, <1>6 DEF LiveDirs
<1>9. ASSUME NEW d \in D
      PROVE  disk'[inode'[d].direct[1]] = disk[inode[d].direct[1]]
  BY <1>3, <1>6, <1>7, DirBlockOwned
<1>10. M[h] = Append(L[h], [name |-> name, inode |-> n])
  BY <1>2, <1>3, <1>5, <1>6, <1>8
<1>11. ASSUME NEW d \in D, d # h PROVE M[d] = L[d]
  <2>1. L[d] = disk[inode[d].direct[1]].entries
    BY <1>1, <1>3, <1>11 DEF Listing, Here
  <2>2. d \in K
    BY <1>8
  <2> QED BY <2>1, <2>2, <1>5, <1>9, <1>11
<1>12. K # D => /\ K = D \cup {n} /\ n \in K
                /\ disk'[inode'[n].direct[1]] =
                     DirBlock(<<[name |-> ".", inode |-> n], [name |-> "..", inode |-> h]>>)
  BY <1>1, <1>8 DEF Here
<1>13. K # D => M[n] = <<[name |-> ".", inode |-> n], [name |-> "..", inode |-> h]>>
  BY <1>5, <1>6, <1>12 DEF DirBlock
<1>14. \A i \in 1 .. Len(L[h]) : L[h][i].name # name
  BY <1>3 DEF Exists
<1>15. Len(L[h]) + 1 < MAX_DIR_ENTRY
  BY <1>2, <1>3, FSAssumption DEF DirectoryFull
<1>16. TreeOf(K, J, M)
  <2>1. /\ TreeOf(D, I, L) /\ h \in D /\ n \in Inodes \ I /\ J = I \cup {n}
        /\ \A i \in 1 .. Len(L[h]) : L[h][i].name # name
        /\ Len(L[h]) + 1 < MAX_DIR_ENTRY
    BY <1>2, <1>3, <1>6, <1>14, <1>15
  <2>2. /\ M[h] = Append(L[h], [name |-> name, inode |-> n])
        /\ \A d \in D : d # h => M[d] = L[d]
    BY <1>10, <1>11
  <2>3. K # D => /\ K = D \cup {n}
                 /\ M[n] = <<[name |-> ".", inode |-> n], [name |-> "..", inode |-> h]>>
    BY <1>12, <1>13
  <2> QED BY <2>1, <2>2, <2>3, TreeGrows
<1>17. h \in K /\ h = curDir'[1].inode
  <2>1. Dots(h) \in 1 .. 2
    BY DEF Dots
  <2>2. Len(curDir) >= 1
    BY <2>1, <1>2
  <2>3. PICK e : e = [name |-> name, inode |-> n]
    OBVIOUS
  <2>4. e \in Entries
    BY <2>3, <1>6 DEF Entries
  <2>5. curDir'[1] = curDir[1]
    BY <2>2, <2>3, <2>4, <1>2, <1>6
  <2> QED BY <2>5, <1>1, <1>2, <1>3, <1>8 DEF Here
<1>18. ASSUME NEW d \in K, d # h PROVE disk'[inode'[d].direct[1]].kind = "dir"
  <2>1. CASE d \in D
    BY <2>1, <1>1, <1>3, <1>9, <1>18 DEF TidyTree
  <2>2. CASE d \notin D
    BY <2>2, <1>8, <1>12 DEF DirBlock
  <2> QED BY <2>1, <2>2
<1>19. ~wild' /\ curDirBlock' = inode'[0].direct[1]
  BY <1>2, <1>6, <1>7 DEF TidyTree
<1>20. \A d \in K : M[d] = IF d = h THEN curDir' ELSE disk'[inode'[d].direct[1]].entries
  BY <1>5
<1> QED
  BY <1>4, <1>16, <1>17, <1>18, <1>19, <1>20, TreeLater

\* The entry of a child that is a file or an empty directory goes, for the
\* entry to remove is the last, or the last is copied to its slot.
LEMMA DropKeepsTree ==
  ASSUME FSInv, TidyTree, Tidy, NEW name, Exists(name), NEW n \in inodeMap, n = Found(name),
         Slot(name) > Dots(Here), DropsItsEntry(name),
         n \in LiveDirs => Len(disk[inode[n].direct[1]].entries) = 2,
         inodeMap' = inodeMap \ {n}, curDir' = Dropped(n), wild' = DropsTooFar(n),
         UNCHANGED <<inode, curDirBlock, disk>>
  PROVE  TidyTree'
<1>1. PICK h, s : h = Here /\ s = Slot(name)
  OBVIOUS
<1>2. PICK k \in Nat : k = Len(curDir)
  BY HereListed
<1>3. /\ h \in LiveDirs /\ h \in Inodes /\ ~wild
      /\ curDir \in Seq(Entries) /\ k >= Dots(h) /\ k <= MAX_DIR_ENTRY
      /\ \E D, I, L : /\ D = LiveDirs /\ I = inodeMap /\ \A d \in D : L[d] = Listing(d)
                      /\ TreeOf(D, I, L) /\ L[h] = curDir
  BY <1>1, <1>2, HereListed
<1>4. PICK D, I, L : /\ D = LiveDirs /\ I = inodeMap /\ \A d \in D : L[d] = Listing(d)
                     /\ TreeOf(D, I, L) /\ L[h] = curDir
  BY <1>3
<1>5. PICK K, J : K = LiveDirs' /\ J = inodeMap'
  OBVIOUS
<1>6. PICK M : M = [d \in K |-> IF d = h THEN curDir' ELSE disk'[inode'[d].direct[1]].entries]
  OBVIOUS
<1>7. D \subseteq I /\ 0 \in D /\ I \subseteq Inodes /\ Dots(h) \in 1 .. 2
  BY <1>4 DEF TreeOf, Dots
<1>8. J = I \ {n} /\ K = D \ {n}
  BY <1>4, <1>5 DEF LiveDirs
<1>9. s \in 1 .. k /\ n = curDir[s].inode
  BY <1>1, <1>2, <1>3, SlotFound DEF Found
<1>10. s \in Kids(L, h) /\ s > Dots(h) /\ k >= 2
  BY <1>1, <1>2, <1>4, <1>7, <1>9 DEF Kids
<1>11. n # h /\ n # 0
  BY <1>3, <1>4, <1>9, <1>10 DEF TreeOf
<1>12. ASSUME s # k PROVE curDir[k].inode # n
  <2>1. PICK d \in D : \E i \in Kids(L, d) : Lists(D, L, n, d, i)
    BY <1>4, <1>11 DEF TreeOf
  <2>2. PICK i \in Kids(L, d) : Lists(D, L, n, d, i)
    BY <2>1
  <2>3. k \in Kids(L, h)
    BY <1>2, <1>4, <1>7, <1>9, <1>10 DEF Kids
  <2> QED BY <2>2, <2>3, <1>3, <1>4, <1>9, <1>10, <1>12 DEF Lists
<1>13. s # k => s = n + 1
  BY <1>1, <1>2 DEF DropsItsEntry
<1>14. ~DropsTooFar(n)
  <2>1. n # curDir[k].inode => n < MAX_DIR_ENTRY
    <3> SUFFICES ASSUME n # curDir[k].inode PROVE n < MAX_DIR_ENTRY
      OBVIOUS
    <3>1. s = n + 1 /\ n \in Nat
      BY <1>4, <1>7, <1>9, <1>13 DEF Inodes
    <3> QED BY <3>1, <1>3, <1>9, FSAssumption
  <2>2. n \in Nat
    BY <1>4, <1>7 DEF Inodes
  <2>3. k # 1
    BY <1>10
  <2> QED BY <2>1, <2>2, <2>3, <1>2, FSAssumption DEF DropsTooFar
<1>15. PICK l \in Nat : l = k - 1
  BY <1>10
<1>16. PICK rest : rest = SubSeq(curDir, 1, l)
  OBVIOUS
<1>17. rest \in Seq(Entries) /\ Len(rest) = l /\ \A i \in 1 .. l : rest[i] = curDir[i]
  BY <1>2, <1>3, <1>15, <1>16
<1>18. curDir' = IF n # curDir[k].inode /\ n < l THEN [rest EXCEPT ![n + 1] = curDir[k]] ELSE rest
  <2>1. rest = SubSeq(curDir, 1, Len(curDir) - 1)
    BY <1>2, <1>15, <1>16
  <2> QED BY <2>1, <1>2, <1>17 DEF Dropped
<1>19. curDir' \in Seq(Entries) /\ Len(curDir') = l
       /\ \A i \in 1 .. l : curDir'[i] = curDir[IF i = s THEN k ELSE i]
  <2>1. CASE s = k
    <3>1. curDir' = rest
      BY <2>1, <1>9, <1>18
    <3> QED BY <2>1, <3>1, <1>15, <1>17
  <2>2. CASE s # k
    <3>1. s = n + 1 /\ n \in Nat /\ n < l /\ s \in 1 .. l
      BY <2>2, <1>4, <1>7, <1>9, <1>13, <1>15 DEF Inodes
    <3>2. PICK e : e = curDir[k] /\ e \in Entries
      BY <1>2, <1>3, <1>10
    <3>3. curDir' = [rest EXCEPT ![s] = e]
      BY <2>2, <3>1, <3>2, <1>12, <1>18
    <3>4. curDir' \in Seq(Entries) /\ Len(curDir') = l
      BY <3>1, <3>2, <3>3, <1>17
    <3>5. \A i \in 1 .. l : curDir'[i] = IF i = s THEN e ELSE rest[i]
      BY <3>1, <3>3, <1>17
    <3> QED BY <3>2, <3>4, <3>5, <1>17
  <2> QED BY <2>1, <2>2
<1>20. h \in K /\ h = curDir'[1].inode
  <2>1. 1 \in 1 .. l /\ s # 1
    BY <1>7, <1>9, <1>10, <1>15
  <2> QED BY <2>1, <1>1, <1>3, <1>4, <1>8, <1>11, <1>19 DEF Here
<1>21. M[h] = curDir'
  BY <1>6, <1>20
<1>22. ASSUME NEW d \in D \ {h, n} PROVE M[d] = L[d]
  <2>1. L[d] = disk[inode[d].direct[1]].entries
    BY <1>1, <1>4 DEF Listing, Here
  <2> QED BY <2>1, <1>6, <1>8
<1>23. n \in D => Len(L[n]) = 2
  BY <1>1, <1>4, <1>11 DEF Listing, Here
<1>24. TreeOf(K, J, M)
  <2>1. M[h] \in Seq(Entries) /\ Len(M[h]) = Len(L[h]) - 1
    BY <1>2, <1>4, <1>15, <1>19, <1>21
  <2>2. \A i \in 1 .. Len(M[h]) : M[h][i] = L[h][IF i = s THEN Len(L[h]) ELSE i]
    BY <1>2, <1>4, <1>19, <1>21
  <2>3. TreeOf(D \ {n}, I \ {n}, M)
    <3>1. TreeOf(D, I, L) /\ h \in D /\ s \in Kids(L, h) /\ n = L[h][s].inode
      BY <1>3, <1>4, <1>9, <1>10
    <3>2. (n \in D => Len(L[n]) = 2) /\ \A d \in D \ {h, n} : M[d] = L[d]
      BY <1>22, <1>23
    <3> QED BY <2>1, <2>2, <3>1, <3>2, TreeShrinks
  <2> QED BY <2>3, <1>8
<1>25. \A d \in K : d # h => disk'[inode'[d].direct[1]].kind = "dir"
  BY <1>1, <1>4, <1>8 DEF TidyTree
<1>26. ~wild' /\ curDirBlock' = inode'[0].direct[1]
  BY <1>14 DEF TidyTree
<1>27. \A d \in K : M[d] = IF d = h THEN curDir' ELSE disk'[inode'[d].direct[1]].entries
  BY <1>6
<1> QED
  BY <1>5, <1>20, <1>24, <1>25, <1>26, <1>27, TreeLater

\* Once the current directory is saved every directory is on disk.
LEMMA SavedListings ==
  ASSUME FSInv, TidyTree, Tidy
  PROVE  /\ \A d \in LiveDirs : /\ SavedDisk[inode[d].direct[1]].kind = "dir"
                                /\ SavedDisk[inode[d].direct[1]].entries = Listing(d)
         /\ \A b \in Blocks : b # inode[Here].direct[1] => SavedDisk[b] = disk[b]
<1>0. PICK h, w : h = Here /\ w = SavedDisk
  OBVIOUS
<1>1. h \in LiveDirs /\ DOMAIN disk = Blocks
  BY <1>0, HereListed DEF FSInv, Typed
<1>2. \A b \in Blocks : w[b] = IF b = inode[h].direct[1] THEN DirBlock(curDir) ELSE disk[b]
  BY <1>0, <1>1 DEF SavedDisk, Here
<1>3. ASSUME NEW d \in LiveDirs
      PROVE  w[inode[d].direct[1]].kind = "dir" /\ w[inode[d].direct[1]].entries = Listing(d)
  <2>1. d \in inodeMap /\ inode[d].direct[1] \in Blocks
    BY DirBlockOwned
  <2>2. CASE d = h
    BY <2>1, <2>2, <1>0, <1>2 DEF DirBlock, Listing, Here
  <2>3. CASE d # h
    <3>1. inode[d].direct[1] # inode[h].direct[1]
      BY <1>1, <2>1, <2>3, DirBlocksApart
    <3>2. w[inode[d].direct[1]] = disk[inode[d].direct[1]]
      BY <2>1, <3>1, <1>2
    <3> QED BY <3>2, <2>3, <1>0 DEF Listing, TidyTree, Here
  <2> QED BY <2>2, <2>3
<1> QED
  BY <1>0, <1>2, <1>3

\* With the current directory saved, any directory in use may become it.
LEMMA MoveKeepsTree ==
  ASSUME FSInv, TidyTree, Tidy, NEW h, h = Here, NEW n \in LiveDirs,
         disk' = [disk EXCEPT ![inode[h].direct[1]] = DirBlock(curDir)],
         curDir' = disk'[inode[n].direct[1]].entries \/ (n = h /\ curDir' = curDir),
         UNCHANGED <<inodeMap, inode, curDirBlock, wild>>
  PROVE  TidyTree'
<1>1. disk' = SavedDisk
  BY DEF SavedDisk, Here
<1>2. \A d \in LiveDirs : /\ disk'[inode[d].direct[1]].kind = "dir"
                          /\ disk'[inode[d].direct[1]].entries = Listing(d)
  BY <1>1, SavedListings
<1>3. PICK D, I, L : /\ D = LiveDirs /\ I = inodeMap /\ \A d \in D : L[d] = Listing(d)
                     /\ TreeOf(D, I, L)
  BY DEF TidyTree
<1>4. D = LiveDirs' /\ I = inodeMap'
  BY <1>3 DEF LiveDirs
<1>5. curDir' = L[n]
  <2>1. L[n] = Listing(n)
    BY <1>3
  <2> QED BY <2>1, <1>2 DEF Listing, Here
<1>6. n \in D /\ n = curDir'[1].inode
  <2>1. Lays(L, n)
    BY <1>3 DEF TreeOf
  <2> QED BY <2>1, <1>3, <1>5 DEF Lays
<1>7. \A d \in D : L[d] = IF d = n THEN curDir' ELSE disk'[inode'[d].direct[1]].entries
  BY <1>2, <1>3, <1>5
<1>8. \A d \in D : d # n => disk'[inode'[d].direct[1]].kind = "dir"
  BY <1>2, <1>3
<1>9. ~wild' /\ curDirBlock' = inode'[0].direct[1]
  BY DEF TidyTree
<1> QED
  BY <1>3, <1>4, <1>6, <1>7, <1>8, <1>9, TreeLater

-----------------------------------------------------------------------------
(* Every command keeps both.                                               *)

\* What a session that keeps to Tidy can rely on, besides what all can.
TidyInv == FSInv /\ TidyTree /\ TidyMaps

\* file_create.
LEMMA CreateKeepsTidy ==
  ASSUME TidyInv, NEW name \in AllNames, NEW size \in Sizes, Create(name, size)
  PROVE  TidyInv'
<1>1. FSInv' /\ \E n \in Inodes : Made(n, name) /\ inode'[n].type = "file"
  BY CreateKeepsInv DEF TidyInv
<1>2. PICK n \in Inodes : Made(n, name) /\ inode'[n].type = "file"
  BY <1>1
<1>3. /\ ~Exists(name) /\ ~DirectoryFull /\ UNCHANGED <<curDirBlock, wild>>
      /\ stray' = StrayAfter(TRUE)
  BY DEF Create
<1>4. Tidy' => TidyTree' /\ TidyMaps'
  <2> SUFFICES ASSUME Tidy' PROVE TidyTree' /\ TidyMaps'
    OBVIOUS
  <2>1. Tidy
    BY <1>3, TidyBefore DEF TidyInv, FSInv
  <2>2. TidyTree'
    BY <2>1, <1>2, <1>3, MadeKeepsTree DEF TidyInv
  <2>3. TidyMaps'
    BY <2>1, <1>1, <1>2, MadeKeepsMaps DEF TidyInv
  <2> QED BY <2>2, <2>3
<1>5. ~Tidy' => TidyTree' /\ TidyMaps'
  BY DEF TidyTree, TidyMaps
<1> QED
  BY <1>1, <1>4, <1>5 DEF TidyInv

\* dir_make.
LEMMA MakeDirKeepsTidy ==
  ASSUME TidyInv, NEW name \in AllNames, MakeDir(name)
  PROVE  TidyInv'
<1>1. /\ FSInv'
      /\ \E n \in Inodes :
           /\ Made(n, name) /\ inode'[n].type = "directory" /\ inode'[n].numIndirect = 0
           /\ disk'[inode'[n].direct[1]]
                = DirBlock(<<[name |-> ".", inode |-> n], [name |-> "..", inode |-> curDir[1].inode]>>)
  BY MakeDirKeepsInv DEF TidyInv
<1>2. PICK n \in Inodes :
           /\ Made(n, name) /\ inode'[n].type = "directory" /\ inode'[n].numIndirect = 0
           /\ disk'[inode'[n].direct[1]]
                = DirBlock(<<[name |-> ".", inode |-> n], [name |-> "..", inode |-> curDir[1].inode]>>)
  BY <1>1
<1>3. /\ ~Exists(name) /\ ~DirectoryFull /\ UNCHANGED <<curDirBlock, wild>>
      /\ stray' = StrayAfter(TRUE)
  BY DEF MakeDir
<1>4. Tidy' => TidyTree' /\ TidyMaps'
  <2> SUFFICES ASSUME Tidy' PROVE TidyTree' /\ TidyMaps'
    OBVIOUS
  <2>1. Tidy
    BY <1>3, TidyBefore DEF TidyInv, FSInv
  <2>2. TidyTree'
    BY <2>1, <1>2, <1>3, MadeKeepsTree DEF TidyInv
  <2>3. TidyMaps'
    BY <2>1, <1>1, <1>2, MadeKeepsMaps DEF TidyInv
  <2> QED BY <2>2, <2>3
<1>5. ~Tidy' => TidyTree' /\ TidyMaps'
  BY DEF TidyTree, TidyMaps
<1> QED
  BY <1>1, <1>4, <1>5 DEF TidyInv

\* A name found in the current directory before its children is a directory.
LEMMA DotsLive ==
  ASSUME FSInv, TidyTree, Tidy, NEW name, Exists(name)
  PROVE  /\ Slot(name) \in 1 .. Len(curDir) /\ Found(name) = curDir[Slot(name)].inode
         /\ Found(name) \in inodeMap
         /\ inode[Found(name)].type = "file" => Slot(name) > Dots(Here)
<1>1. PICK D, I, L : /\ D = LiveDirs /\ I = inodeMap /\ \A d \in D : L[d] = Listing(d)
                     /\ TreeOf(D, I, L) /\ L[Here] = curDir
  BY HereListed
<1>2. PICK h, s : h = Here /\ s = Slot(name)
  OBVIOUS
<1>3. curDir \in Seq(Entries) /\ Len(curDir) \in Nat /\ h \in D
  BY <1>1, <1>2, HereListed
<1>4. s \in 1 .. Len(curDir) /\ Found(name) = curDir[s].inode
  BY <1>2, <1>3, SlotFound DEF Found
<1>5. /\ s \in Kids(L, h) => curDir[s].inode \in I
      /\ s \notin Kids(L, h) => curDir[s].inode \in D
  BY <1>1, <1>2, <1>3, <1>4, EntryLive
<1>6. D \subseteq I
  BY <1>1 DEF TreeOf
<1>7. inode[Found(name)].type = "file" => s \in Kids(L, h)
  BY <1>1, <1>4, <1>5 DEF LiveDirs
<1>8. s \in Kids(L, h) => s > Dots(h)
  <2>1. Dots(h) \in 1 .. 2
    BY DEF Dots
  <2> QED BY <2>1, <1>1, <1>2, <1>3, <1>4 DEF Kids
<1> QED
  BY <1>1, <1>2, <1>4, <1>5, <1>6, <1>7, <1>8

\* file_remove: the blocks are all its own, so that it comes to the entry.
LEMMA RemoveFileKeepsTidy ==
  ASSUME TidyInv, NEW name \in AllNames, RemoveFile(name)
  PROVE  TidyInv'
<1>1. FSInv'
  BY RemoveFileKeepsInv DEF TidyInv
<1>2. PICK n : n = Found(name)
  OBVIOUS
<1> DEFINE bs == BlocksOf(n)
<1>3. /\ Exists(name) /\ n \in inodeMap /\ inode[n].type = "file" /\ inodeMap' = inodeMap \ {n}
      /\ MapIntact(n) =>
           /\ blockMap' = blockMap \ {bs[i] : i \in Freed(bs)}
           /\ curDir' = IF Freed(bs) = 1 .. Len(bs) THEN Dropped(n) ELSE curDir
           /\ wild' = (Freed(bs) = 1 .. Len(bs) /\ DropsTooFar(n))
      /\ stray' = StrayAfter(DropsItsEntry(name))
      /\ UNCHANGED <<inode, curDirBlock, disk>>
  BY <1>2 DEF RemoveFile
<1>4. Tidy' => TidyTree' /\ TidyMaps'
  <2> SUFFICES ASSUME Tidy' PROVE TidyTree' /\ TidyMaps'
    OBVIOUS
  <2>1. Tidy /\ DropsItsEntry(name)
    <3>1. DropsItsEntry(name) \in BOOLEAN
      BY DEF DropsItsEntry
    <3> QED BY <3>1, <1>3, TidyBefore DEF TidyInv, FSInv
  <2>2. MapIntact(n)
    BY <2>1, <1>3 DEF TidyInv, TidyMaps
  <2>3. Freed(bs) = 1 .. Len(bs)
    BY <2>2, <1>3, BlocksOfOwned DEF TidyInv, FSInv
  <2>4. Owned(n) \ MapOf(n) \subseteq {bs[i] : i \in 1 .. Len(bs)}
    BY <2>2, <1>3, BlocksOfAll DEF TidyInv, FSInv
  <2>5. PICK B : B = {bs[i] : i \in 1 .. Len(bs)}
    OBVIOUS
  <2> HIDE DEF bs
  <2>6. curDir' = Dropped(n) /\ wild' = DropsTooFar(n) /\ blockMap' = blockMap \ B
    <3>1. DropsTooFar(n) \in BOOLEAN
      BY DEF DropsTooFar
    <3> QED BY <3>1, <2>2, <2>3, <2>5, <1>3
  <2>7. \A b \in Owned(n) : b \in B \/ disk[b].kind = "map"
    <3>1. \A b \in MapOf(n) : disk[b].kind = "map"
      BY <2>2 DEF MapOf, MapIntact
    <3> QED BY <3>1, <2>4, <2>5
  <2>8. TidyMaps'
    BY <2>1, <2>6, <2>7, <1>3, RemoveKeepsMaps DEF TidyInv
  <2>9. Slot(name) > Dots(Here) /\ n \notin LiveDirs
    BY <2>1, <1>2, <1>3, DotsLive DEF TidyInv, LiveDirs
  <2>10. TidyTree'
    BY <2>1, <2>6, <2>9, <1>2, <1>3, DropKeepsTree DEF TidyInv
  <2> QED BY <2>8, <2>10
<1>5. ~Tidy' => TidyTree' /\ TidyMaps'
  BY DEF TidyTree, TidyMaps
<1> QED
  BY <1>1, <1>4, <1>5 DEF TidyInv

\* dir_remove, of an empty child.
LEMMA RemoveDirKeepsTidy ==
  ASSUME TidyInv, NEW name \in AllNames, RemoveDir(name)
  PROVE  TidyInv'
<1>1. FSInv'
  BY RemoveDirKeepsInv DEF TidyInv
<1>2. PICK n : n = Found(name)
  OBVIOUS
<1> DEFINE b0 == inode[n].direct[1]
<1>3. /\ Exists(name) /\ n \in inodeMap /\ inode[n].type = "directory"
      /\ inodeMap' = inodeMap \ {n} /\ blockMap' = blockMap \ {b0}
      /\ curDir' = IF b0 \in blockMap THEN Dropped(n) ELSE curDir
      /\ wild' = (b0 \in blockMap /\ DropsTooFar(n))
      /\ stray' = StrayAfter(EmptyChild(name) /\ DropsItsEntry(name))
      /\ UNCHANGED <<inode, curDirBlock, disk>>
  BY <1>2 DEF RemoveDir
<1>4. Tidy' => TidyTree' /\ TidyMaps'
  <2> SUFFICES ASSUME Tidy' PROVE TidyTree' /\ TidyMaps'
    OBVIOUS
  <2>1. Tidy /\ EmptyChild(name) /\ DropsItsEntry(name)
    <3>1. (EmptyChild(name) /\ DropsItsEntry(name)) \in BOOLEAN
      BY DEF DropsItsEntry, EmptyChild
    <3> QED BY <3>1, <1>3, TidyBefore DEF TidyInv, FSInv
  <2>2. n \in LiveDirs
    BY <1>3 DEF LiveDirs
  <2>3. b0 \in blockMap
    BY <2>2, DirBlockOwned DEF TidyInv
  <2>4. curDir' = Dropped(n) /\ wild' = DropsTooFar(n)
    <3>1. DropsTooFar(n) \in BOOLEAN
      BY DEF DropsTooFar
    <3> QED BY <3>1, <2>3, <1>3
  <2>5. \A b \in Owned(n) : b \in {b0}
    <3>1. inode[n].numIndirect = 0 /\ Len(inode[n].direct) = 1
      BY <2>1, <2>2, DirBlockOwned DEF TidyInv, TidyMaps
    <3>2. MapOf(n) = {} /\ Mapped(n) = {}
      BY <3>1 DEF MapOf, Mapped, HasMap
    <3>3. Direct(n) = {b0}
      BY <3>1 DEF Direct
    <3> QED BY <3>2, <3>3 DEF Owned
  <2>6. TidyMaps'
    BY <2>1, <2>5, <1>3, RemoveKeepsMaps DEF TidyInv
  <2>7. Slot(name) > Dots(Here) /\ Len(disk[inode[n].direct[1]].entries) = 2
    BY <2>1, <1>2 DEF EmptyChild, Here
  <2>8. TidyTree'
    BY <2>1, <2>4, <2>7, <1>2, <1>3, DropKeepsTree DEF TidyInv
  <2> QED BY <2>6, <2>8
<1>5. ~Tidy' => TidyTree' /\ TidyMaps'
  BY DEF TidyTree, TidyMaps
<1> QED
  BY <1>1, <1>4, <1>5 DEF TidyInv

\* dir_change: to a directory of the tree, or nowhere.
LEMMA ChangeDirKeepsTidy ==
  ASSUME TidyInv, NEW name \in AllNames, ChangeDir(name)
  PROVE  TidyInv'
<1>1. FSInv'
  BY ChangeDirKeepsInv DEF TidyInv
<1>2. PICK n, h : n = Found(name) /\ h = Here
  OBVIOUS
<1>3. stray' = StrayAfter(TRUE) /\ UNCHANGED <<inodeMap, blockMap, inode, curDirBlock>>
  BY DEF ChangeDir
<1>4. Tidy' => TidyTree' /\ TidyMaps'
  <2> SUFFICES ASSUME Tidy' PROVE TidyTree' /\ TidyMaps'
    OBVIOUS
  <2>1. Tidy
    BY <1>3, TidyBefore DEF TidyInv, FSInv
  <2>2. h \in LiveDirs /\ inode[h].direct # <<>>
    BY <2>1, <1>2, HereListed, DirBlockOwned DEF TidyInv
  <2>3. disk' = [disk EXCEPT ![inode[h].direct[1]] = DirBlock(curDir)]
    BY <2>2, <1>2 DEF ChangeDir, SavedDisk, Here
  <2>4. PICK w : w = [disk EXCEPT ![inode[h].direct[1]] = DirBlock(curDir)] /\ w = SavedDisk
    BY <1>2 DEF SavedDisk, Here
  <2>5. /\ \A d \in LiveDirs : /\ w[inode[d].direct[1]].kind = "dir"
                               /\ w[inode[d].direct[1]].entries = Listing(d)
        /\ \A b \in Blocks : b # inode[h].direct[1] => w[b] = disk[b]
    <3>1. FSInv /\ TidyTree
      BY DEF TidyInv
    <3> QED BY <3>1, <2>1, <2>4, <1>2, SavedListings
  <2>6. TidyMaps'
    BY <2>1, <2>2, <2>3, <2>4, <2>5, <1>3, SaveKeepsMaps DEF TidyInv
  <2>7. CASE ~Exists(name) \/ inode[n].type = "file"
    <3>1. UNCHANGED <<curDir, wild>>
      BY <2>2, <2>7, <1>2 DEF ChangeDir, Here
    <3> QED BY <3>1, <2>1, <2>2, <2>3, <2>6, <1>2, <1>3, MoveKeepsTree DEF TidyInv
  <2>8. CASE Exists(name) /\ inode[n].type # "file"
    <3>1. n \in LiveDirs
      <4>1. n \in inodeMap
        BY <2>1, <2>8, <1>2, DotsLive DEF TidyInv
      <4>2. inode[n].type \in {"file", "directory"}
        BY <4>1 DEF TidyInv, FSInv, Typed, TypeOK
      <4> QED BY <4>1, <4>2, <2>8 DEF LiveDirs
    <3>2. w[inode[n].direct[1]].kind = "dir" /\ w[inode[n].direct[1]].entries = Listing(n)
      BY <3>1, <2>5
    <3>3. Listing(n) # <<>>
      <4>1. PICK D, I, L : /\ D = LiveDirs /\ \A d \in D : L[d] = Listing(d)
                           /\ TreeOf(D, I, L)
        BY <2>1 DEF TidyInv, TidyTree
      <4>2. Lays(L, n)
        BY <3>1, <4>1 DEF TreeOf
      <4>3. Len(L[n]) >= Dots(n) /\ Dots(n) \in 1 .. 2
        BY <4>2 DEF Lays, Dots
      <4>4. Len(<<>>) = 0
        OBVIOUS
      <4> QED BY <3>1, <4>1, <4>3, <4>4
    <3>4. SavedDisk = w
      BY <2>4
    <3>5. curDir' = w[inode[n].direct[1]].entries /\ UNCHANGED wild
      BY <2>2, <2>8, <3>2, <3>3, <3>4, <1>2 DEF ChangeDir, Here
    <3>6. curDir' = disk'[inode[n].direct[1]].entries
      BY <3>5, <2>3, <2>4
    <3> QED BY <3>1, <3>5, <3>6, <2>1, <2>3, <2>6, <1>2, <1>3, MoveKeepsTree DEF TidyInv
  <2> QED BY <2>7, <2>8
<1>5. ~Tidy' => TidyTree' /\ TidyMaps'
  BY DEF TidyTree, TidyMaps
<1> QED
  BY <1>1, <1>4, <1>5 DEF TidyInv

\* fs_umount in the root, and fs_mount.
LEMMA RemountKeepsTidy ==
  ASSUME TidyInv, Remount
  PROVE  TidyInv'
<1>1. FSInv'
  BY RemountKeepsInv DEF TidyInv
<1>2. PICK w : w = [disk EXCEPT ![curDirBlock] = DirBlock(curDir)]
  OBVIOUS
<1>3. /\ disk' = w /\ stray' = StrayAfter(AtRoot) /\ UNCHANGED <<inodeMap, blockMap, inode>>
      /\ (/\ inode[0].direct # <<>>
          /\ w[inode[0].direct[1]].kind = "dir"
          /\ w[inode[0].direct[1]].entries # <<>>) =>
           /\ curDirBlock' = inode[0].direct[1]
           /\ curDir' = w[inode[0].direct[1]].entries
           /\ UNCHANGED wild
  BY <1>2 DEF Remount
<1>4. Tidy' => TidyTree' /\ TidyMaps'
  <2> SUFFICES ASSUME Tidy' PROVE TidyTree' /\ TidyMaps'
    OBVIOUS
  <2>1. Tidy /\ Here = 0
    <3>1. AtRoot \in BOOLEAN
      BY DEF AtRoot
    <3> QED BY <3>1, <1>3, TidyBefore DEF TidyInv, FSInv, AtRoot, Here
  <2>2. PICK h : h = Here /\ h = 0
    BY <2>1
  <2>3. h \in LiveDirs /\ inode[h].direct # <<>> /\ curDirBlock = inode[h].direct[1]
        /\ inode[h].direct[1] \in Blocks
    BY <2>1, <2>2, HereListed, DirBlockOwned DEF TidyInv, TidyTree
  <2>4. w = [disk EXCEPT ![inode[h].direct[1]] = DirBlock(curDir)] /\ w = SavedDisk
    BY <2>2, <2>3, <1>2 DEF SavedDisk, Here
  <2>5. /\ \A d \in LiveDirs : /\ w[inode[d].direct[1]].kind = "dir"
                               /\ w[inode[d].direct[1]].entries = Listing(d)
        /\ \A b \in Blocks : b # inode[h].direct[1] => w[b] = disk[b]
    <3>1. FSInv /\ TidyTree
      BY DEF TidyInv
    <3> QED BY <3>1, <2>1, <2>2, <2>4, SavedListings
  <2>6. TidyMaps'
    BY <2>1, <2>3, <2>5, <1>3, SaveKeepsMaps DEF TidyInv
  <2>7. Listing(h) = curDir /\ curDir # <<>>
    BY <2>1, <2>2 DEF Listing, Here, TidyInv, FSInv, Listed, TidyTree
  <2>8. /\ curDirBlock' = inode[0].direct[1] /\ UNCHANGED wild
        /\ curDir' = w[inode[0].direct[1]].entries
    BY <2>2, <2>3, <2>5, <2>7, <1>3
  <2>9. UNCHANGED curDirBlock /\ curDir' = disk'[inode[h].direct[1]].entries
    BY <2>2, <2>3, <2>8, <1>3
  <2>10. disk' = [disk EXCEPT ![inode[h].direct[1]] = DirBlock(curDir)]
    BY <2>4, <1>3
  <2>11. TidyTree'
    BY <2>1, <2>2, <2>3, <2>8, <2>9, <2>10, <1>3, MoveKeepsTree DEF TidyInv
  <2> QED BY <2>6, <2>11
<1>5. ~Tidy' => TidyTree' /\ TidyMaps'
  BY DEF TidyTree, TidyMaps
<1> QED
  BY <1>1, <1>4, <1>5 DEF TidyInv

\* A state repeated.
LEMMA SameKeepsTidy ==
  ASSUME TidyInv, FSInv', UNCHANGED vars
  PROVE  TidyInv'
<1>1. Tidy' = Tidy /\ wild' = wild /\ LiveDirs' = LiveDirs /\ Here' = Here
  BY DEF vars, Tidy, LiveDirs, Here
<1>2. \A d : Listing(d)' = Listing(d)
  BY DEF vars, Listing
<1>3. \A n : Owned(n)' = Owned(n) /\ (MapIntact(n)' <=> MapIntact(n))
  BY DEF vars, Owned, Direct, MapOf, Mapped, HasMap, MapIntact
<1>4. TidyTree'
  <2> SUFFICES ASSUME Tidy' PROVE TidyTree'
    BY DEF TidyTree
  <2>1. PICK D, I, L : /\ D = LiveDirs /\ I = inodeMap /\ \A d \in D : L[d] = Listing(d)
                       /\ TreeOf(D, I, L)
    BY <1>1 DEF TidyInv, TidyTree
  <2>2. \E D1, I1, L1 : /\ D1 = LiveDirs' /\ I1 = inodeMap'
                        /\ \A d \in D1 : L1[d] = Listing(d)' /\ TreeOf(D1, I1, L1)
    BY <2>1, <1>1, <1>2 DEF vars
  <2> QED BY <2>2, <1>1 DEF TidyInv, TidyTree, vars
<1>5. TidyMaps'
  BY <1>1, <1>3 DEF TidyInv, TidyMaps, vars
<1> QED
  BY <1>4, <1>5 DEF TidyInv

\* A formatted disk.
LEMMA InitTidy == ASSUME Init PROVE TidyInv
<1>1. FSInv
  BY InitInv
<1>2. 0 \in Inodes /\ SystemBlocks \in Blocks
  BY FSAssumption DEF Inodes, Blocks
<1>3. PICK e : e = [name |-> ".", inode |-> 0]
  OBVIOUS
<1>4. /\ e \in Entries /\ curDir = <<e>> /\ curDir \in Seq(Entries) /\ Len(curDir) = 1
      /\ curDir[1] = e
  BY <1>2, <1>3 DEF Entries, AllNames, Init
<1>5. /\ inodeMap = {0} /\ inode[0].type = "directory" /\ inode[0].direct = <<SystemBlocks>>
      /\ inode[0].numIndirect = 0 /\ curDirBlock = SystemBlocks /\ ~wild
      /\ blockMap = 0 .. SystemBlocks
  BY <1>2 DEF Init
<1>6. LiveDirs = {0} /\ Here = 0 /\ Listing(0) = curDir
  BY <1>3, <1>4, <1>5 DEF LiveDirs, Here, Listing
<1>7. TidyTree
  <2>1. PICK D, I, L : D = {0} /\ I = {0} /\ L = [d \in D |-> curDir]
    OBVIOUS
  <2>2. Dots(0) = 1 /\ Kids(L, 0) = {} /\ L[0] = curDir
    <3>1. 1 + 1 .. 1 = {}
      OBVIOUS
    <3> QED BY <3>1, <2>1, <1>4 DEF Dots, Kids
  <2>3. \A i, j \in 1 .. Len(L[0]) : i = j
    BY <2>2, <1>4
  <2>4. Lays(L, 0)
    <3>1. 1 <= MAX_DIR_ENTRY
      BY FSAssumption
    <3> QED BY <2>2, <2>3, <3>1, <1>3, <1>4 DEF Lays
  <2>5. TreeOf(D, I, L)
    BY <2>1, <2>2, <2>4, <1>2 DEF TreeOf
  <2>6. D = LiveDirs /\ I = inodeMap /\ \A d \in D : L[d] = Listing(d)
    BY <2>1, <2>2, <1>5, <1>6
  <2> QED BY <2>5, <2>6, <1>5, <1>6 DEF TidyTree
<1>8. TidyMaps
  <2>1. MapIntact(0)
    BY <1>5 DEF MapIntact
  <2>2. SystemBlocks \in Owned(0)
    BY <1>5 DEF Owned, Direct
  <2>3. \A b \in blockMap : b < SystemBlocks \/ b = SystemBlocks
    BY <1>5, FSAssumption
  <2> QED BY <2>1, <2>2, <2>3, <1>5, <1>6 DEF TidyMaps
<1> QED
  BY <1>1, <1>7, <1>8 DEF TidyInv

\* Every step keeps the tree and the maps, as long as the usage is tidy.
LEMMA NextKeepsTidy == ASSUME TidyInv, [Next]_vars PROVE TidyInv'
<1>1. ASSUME NEW name \in AllNames, NEW size \in Sizes, Create(name, size) PROVE TidyInv'
  BY <1>1, CreateKeepsTidy
<1>2. ASSUME NEW name \in AllNames,
             RemoveFile(name) \/ MakeDir(name) \/ RemoveDir(name) \/ ChangeDir(name)
      PROVE  TidyInv'
  BY <1>2, RemoveFileKeepsTidy, MakeDirKeepsTidy, RemoveDirKeepsTidy, ChangeDirKeepsTidy
<1>3. CASE Remount
  BY <1>3, RemountKeepsTidy
<1>4. CASE UNCHANGED vars
  BY <1>4, NextKeepsInv, SameKeepsTidy DEF TidyInv
<1> QED
  BY <1>1, <1>2, <1>3, <1>4 DEF Next, Lost

-----------------------------------------------------------------------------
(* The theorems about it.                                                  *)

\* In every state of a tidy session the directories form a tree and the maps
\* are intact.
THEOREM TidyInvAlways == Spec => []TidyInv
<1>1. Init => TidyInv
  BY InitTidy
<1>2. TidyInv /\ [Next]_vars => TidyInv'
  BY NextKeepsTidy
<1> QED
  BY <1>1, <1>2, PTL DEF Spec

\* As long as the user keeps to what rm, rmdir and the unmount of fs.c cope
\* with, the directories form one tree: each lists itself first, no name comes
\* twice, ".." is the directory that lists it, every inode in use but the root
\* is listed exactly once and nothing else is.
THEOREM TreeAlwaysSound == Spec => []TreeSound
<1>1. ASSUME TidyInv PROVE TreeSound
  <2> SUFFICES ASSUME Tidy PROVE TreeSound
    BY DEF TreeSound
  <2>1. PICK D, I, L : /\ D = LiveDirs /\ I = inodeMap /\ \A d \in D : L[d] = Listing(d)
                       /\ TreeOf(D, I, L)
    BY <1>1 DEF TidyInv, TidyTree
  <2>2. ~wild /\ 0 \in LiveDirs /\ curDir[1].inode \in LiveDirs
    BY <2>1, <1>1 DEF TidyInv, TidyTree, Here, TreeOf
  <2>3. ASSUME NEW d \in LiveDirs PROVE IsDirectory(d)
    <3>1. Lays(L, d) /\ L[d] = Listing(d)
      BY <2>1 DEF TreeOf
    <3>2. d # curDir[1].inode => disk[inode[d].direct[1]].kind = "dir"
      BY <1>1 DEF TidyInv, TidyTree, Here
    <3> QED BY <3>1, <3>2 DEF IsDirectory, Lays
  <2>4. \A c : c \in Children <=> \E d \in D : \E i \in Kids(L, d) : c = <<d, i>>
    <3>1. \A d \in D : Kids(L, d) = Dots(d) + 1 .. Len(Listing(d))
      BY <2>1 DEF Kids
    <3>2. PICK C : C = [d \in D |-> {<<d, i>> : i \in Kids(L, d)}]
      OBVIOUS
    <3>3. \A d \in D : C[d] = {<<d, i>> : i \in Dots(d) + 1 .. Len(Listing(d))}
      BY <3>1, <3>2
    <3>4. \A c : c \in Children <=> \E d \in D : c \in C[d]
      BY <3>3, <2>1 DEF Children
    <3> QED BY <3>2, <3>4
  <2>5. \A c \in Children : Listing(c[1])[c[2]].inode \in inodeMap \ {0}
    <3> SUFFICES ASSUME NEW c \in Children PROVE Listing(c[1])[c[2]].inode \in inodeMap \ {0}
      OBVIOUS
    <3>1. PICK d \in D : \E i \in Kids(L, d) : c = <<d, i>>
      BY <2>4
    <3>2. PICK i \in Kids(L, d) : c = <<d, i>>
      BY <3>1
    <3> QED BY <3>2, <2>1 DEF TreeOf
  <2>6. ASSUME NEW n \in inodeMap \ {0}
        PROVE  \E c \in Children :
                 /\ Listing(c[1])[c[2]].inode = n
                 /\ \A e \in Children : Listing(e[1])[e[2]].inode = n => e = c
                 /\ inode[n].type = "directory" =>
                      Listing(n)[2] = [name |-> "..", inode |-> c[1]]
    <3>1. PICK d \in D : \E i \in Kids(L, d) : Lists(D, L, n, d, i)
      BY <2>1 DEF TreeOf
    <3>2. PICK i \in Kids(L, d) : Lists(D, L, n, d, i)
      BY <3>1
    <3>3. PICK c : c = <<d, i>>
      OBVIOUS
    <3>4. c \in Children /\ c[1] = d /\ c[2] = i
      BY <3>3, <2>4
    <3>5. Listing(c[1])[c[2]].inode = n
      BY <3>2, <3>4, <2>1 DEF Lists
    <3>6. ASSUME NEW e \in Children, Listing(e[1])[e[2]].inode = n PROVE e = c
      <4>1. PICK a \in D : \E j \in Kids(L, a) : e = <<a, j>>
        BY <2>4
      <4>2. PICK j \in Kids(L, a) : e = <<a, j>>
        BY <4>1
      <4>3. L[a][j].inode = n
        BY <4>2, <3>6, <2>1
      <4> QED BY <4>2, <4>3, <3>2, <3>3 DEF Lists
    <3>7. inode[n].type = "directory" => Listing(n)[2] = [name |-> "..", inode |-> c[1]]
      <4> SUFFICES ASSUME inode[n].type = "directory"
                   PROVE  Listing(n)[2] = [name |-> "..", inode |-> c[1]]
        OBVIOUS
      <4>1. n \in D
        BY <2>1 DEF LiveDirs
      <4> QED BY <4>1, <3>2, <3>4, <2>1 DEF Lists
    <3> QED BY <3>4, <3>5, <3>6, <3>7
  <2> QED BY <2>2, <2>3, <2>5, <2>6 DEF TreeSound
<1> QED
  BY <1>1, TidyInvAlways, PTL

\* In such a session a file's indirect map is where its inode says and lists
\* as many blocks as the inode counts; map and blocks are marked in use and
\* stand nowhere else, so that rm of one file gives back no block of another.
THEOREM IndirectBlocksAlwaysOwned == Spec => []IndirectBlocksOwned
<1>1. ASSUME TidyInv PROVE IndirectBlocksOwned
  <2> SUFFICES ASSUME Tidy PROVE IndirectBlocksOwned
    BY DEF IndirectBlocksOwned
  <2> DEFINE Big    == {n \in inodeMap : inode[n].numIndirect > 0}
             Own(n) == <<inode[n].indirect>> \o
                         SubSeq(disk[inode[n].indirect].blocks, 1, inode[n].numIndirect)
  <2>1. Typed /\ Ownership /\ \A n \in inodeMap : MapIntact(n)
    BY <1>1 DEF TidyInv, TidyMaps, FSInv
  <2>2. ASSUME NEW n \in Big
        PROVE  /\ ToSet(Own(n)) = MapOf(n) \cup Mapped(n) /\ IsInjective(Own(n))
    <3>1. n \in Inodes /\ MapIntact(n)
      BY <2>1 DEF Typed, TypeOK
    <3>2. PICK k \in Nat : k = inode[n].numIndirect /\ k > 0
      BY <3>1, <2>1 DEF Typed, TypeOK
    <3>3. PICK m, x : m = inode[n].indirect /\ x = disk[m].blocks
      OBVIOUS
    <3>4. HasMap(n) /\ disk[m].kind = "map" /\ Len(x) >= k /\ m \in Blocks
      BY <3>1, <3>2, <3>3, <2>1 DEF HasMap, MapIntact, Typed, TypeOK
    <3>5. x \in Seq(Blocks)
      <4>1. disk[m] # Data /\ disk[m].kind # "dir"
        BY <3>4 DEF Data
      <4> QED BY <4>1, <3>3, <3>4, <2>1 DEF Typed, TypeOK
    <3>6. PICK y : y = SubSeq(x, 1, k)
      OBVIOUS
    <3>7. y \in Seq(Blocks) /\ Len(y) = k /\ \A i \in 1 .. k : y[i] = x[i]
      BY <3>2, <3>4, <3>5, <3>6
    <3>8. PICK z : z = <<m>> \o y
      OBVIOUS
    <3>9. Own(n) = z
      BY <3>2, <3>3, <3>6, <3>8
    <3> HIDE DEF Own
    <3>10. DOMAIN z = 1 .. k + 1 /\ z[1] = m /\ \A i \in 1 .. k : z[i + 1] = x[i]
      <4>1. <<m>> \in Seq(Blocks) /\ Len(<<m>>) = 1 /\ <<m>>[1] = m
        BY <3>4
      <4>2. /\ Len(z) = 1 + k /\ z \in Seq(Blocks)
            /\ \A i \in 1 .. 1 + k : z[i] = IF i <= 1 THEN <<m>>[i] ELSE y[i - 1]
        BY <4>1, <3>7, <3>8
      <4>3. DOMAIN z = 1 .. k + 1
        BY <4>2
      <4>4. \A i \in 1 .. k : i + 1 \in 1 .. 1 + k /\ ~(i + 1 <= 1) /\ (i + 1) - 1 = i
        BY <3>2
      <4>5. 1 \in 1 .. 1 + k
        OBVIOUS
      <4> QED BY <4>1, <4>2, <4>3, <4>4, <4>5, <3>7
    <3>11. MapOf(n) = {m} /\ Mapped(n) = {x[i] : i \in 1 .. k}
      BY <3>2, <3>3, <3>4 DEF MapOf, Mapped
    <3>12. \A j \in 1 .. k + 1 : j = 1 \/ \E i \in 1 .. k : j = i + 1
      <4> SUFFICES ASSUME NEW j \in 1 .. k + 1, j # 1 PROVE \E i \in 1 .. k : j = i + 1
        OBVIOUS
      <4>1. j - 1 \in 1 .. k /\ j = (j - 1) + 1
        OBVIOUS
      <4> QED BY <4>1
    <3>13. ToSet(z) = MapOf(n) \cup Mapped(n)
      <4>1. \A j \in DOMAIN z : z[j] \in MapOf(n) \cup Mapped(n)
        <5> SUFFICES ASSUME NEW j \in 1 .. k + 1 PROVE z[j] \in MapOf(n) \cup Mapped(n)
          BY <3>10
        <5>1. CASE j = 1
          BY <5>1, <3>10, <3>11
        <5>2. CASE j # 1
          <6>1. PICK i \in 1 .. k : j = i + 1
            BY <5>2, <3>12
          <6>2. z[j] = x[i]
            BY <6>1, <3>10
          <6> QED BY <6>1, <6>2, <3>11
        <5> QED BY <5>1, <5>2
      <4>2. \A b \in MapOf(n) \cup Mapped(n) : \E j \in DOMAIN z : z[j] = b
        <5>1. 1 \in DOMAIN z /\ \A i \in 1 .. k : i + 1 \in DOMAIN z
          BY <3>10
        <5> QED BY <5>1, <3>10, <3>11
      <4> QED BY <4>1, <4>2 DEF ToSet
    <3>14. Apart(n)
      BY <2>1 DEF Ownership
    <3>15. \A i \in 1 .. k : x[i] # m
      BY <3>11, <3>14 DEF Apart
    <3>16. \A i, j \in 1 .. k : i # j => x[i] # x[j]
      BY <3>2, <3>3, <3>4, <3>14 DEF Apart
    <3>17. \A i, j \in 1 .. k + 1 : z[i] = z[j] => i = j
      <4> SUFFICES ASSUME NEW i \in 1 .. k + 1, NEW j \in 1 .. k + 1, z[i] = z[j]
                   PROVE  i = j
        OBVIOUS
      <4>1. (i = 1 \/ \E a \in 1 .. k : i = a + 1) /\ (j = 1 \/ \E b \in 1 .. k : j = b + 1)
        BY <3>12
      <4>2. ASSUME NEW a \in 1 .. k, i = a + 1, j = 1 PROVE FALSE
        BY <4>2, <3>10, <3>15
      <4>3. ASSUME NEW b \in 1 .. k, j = b + 1, i = 1 PROVE FALSE
        BY <4>3, <3>10, <3>15
      <4>4. ASSUME NEW a \in 1 .. k, NEW b \in 1 .. k, i = a + 1, j = b + 1 PROVE i = j
        <5>1. x[a] = x[b]
          BY <4>4, <3>10
        <5> QED BY <5>1, <4>4, <3>16
      <4> QED BY <4>1, <4>2, <4>3, <4>4
    <3> QED BY <3>9, <3>10, <3>13, <3>17 DEF IsInjective
  <2>3. \A n \in inodeMap : inode[n].direct \in Seq(Blocks)
    BY <2>1 DEF Typed, TypeOK
  <2>4. \A n \in inodeMap : ToSet(inode[n].direct) = Direct(n)
    BY <2>3 DEF ToSet, Direct
  <2> HIDE DEF Own
  <2>5. \A n \in Big : MapIntact(n) /\ ToSet(Own(n)) \subseteq blockMap /\ IsInjective(Own(n))
    BY <2>1, <2>2 DEF Ownership, Owned
  <2>6. \A n \in Big : \A m \in Big \ {n} : ToSet(Own(n)) \cap ToSet(Own(m)) = {}
    <3> SUFFICES ASSUME NEW n \in Big, NEW m \in Big \ {n}
                 PROVE  ToSet(Own(n)) \cap ToSet(Own(m)) = {}
      OBVIOUS
    <3>1. Owned(n) \cap Owned(m) = {}
      BY <2>1 DEF Ownership
    <3> QED BY <3>1, <2>2 DEF Owned
  <2>7. \A n \in Big : \A m \in inodeMap : ToSet(Own(n)) \cap ToSet(inode[m].direct) = {}
    <3> SUFFICES ASSUME NEW n \in Big, NEW m \in inodeMap
                 PROVE  ToSet(Own(n)) \cap ToSet(inode[m].direct) = {}
      OBVIOUS
    <3>1. n # m => Owned(n) \cap Owned(m) = {}
      BY <2>1 DEF Ownership
    <3>2. Direct(n) \cap MapOf(n) = {} /\ Direct(n) \cap Mapped(n) = {}
      BY <2>1 DEF Ownership, Apart
    <3> QED BY <3>1, <3>2, <2>2, <2>4 DEF Owned
  <2> QED BY <2>5, <2>6, <2>7 DEF IndirectBlocksOwned, Own
<1> QED
  BY <1>1, TidyInvAlways, PTL

\* In such a session rm and rmdir leave no block of data or of a directory
\* marked: only the indirect map of a removed file (fs.c, file_remove).
THEOREM OnlyMapsAlwaysLeak == Spec => []OnlyMapsLeak
<1>1. ASSUME TidyInv PROVE OnlyMapsLeak
  <2> SUFFICES ASSUME Tidy PROVE OnlyMapsLeak
    BY DEF OnlyMapsLeak
  <2>1. ASSUME NEW n \in inodeMap
        PROVE  Owned(n) \subseteq ToSet(BlocksOf(n)) \cup {inode[n].indirect}
    <3>1. Typed /\ Ownership /\ MapIntact(n)
      BY <1>1 DEF TidyInv, TidyMaps, FSInv
    <3>2. PICK bs : bs = BlocksOf(n)
      OBVIOUS
    <3>3. bs \in Seq(Blocks) /\ Owned(n) \ MapOf(n) \subseteq {bs[i] : i \in 1 .. Len(bs)}
      BY <3>1, <3>2, BlocksOfOwned, BlocksOfAll
    <3>4. {bs[i] : i \in 1 .. Len(bs)} = ToSet(bs)
      BY <3>3 DEF ToSet
    <3>5. MapOf(n) \subseteq {inode[n].indirect}
      BY DEF MapOf
    <3> QED BY <3>2, <3>3, <3>4, <3>5
  <2>2. \A b \in blockMap : \/ b < SystemBlocks
                            \/ \E n \in inodeMap : b \in Owned(n)
                            \/ disk[b].kind = "map"
    BY <1>1 DEF TidyInv, TidyMaps
  <2> QED BY <2>1, <2>2 DEF OnlyMapsLeak
<1> QED
  BY <1>1, TidyInvAlways, PTL
==============================================================================
