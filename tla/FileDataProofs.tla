---------------------------- MODULE FileDataProofs ----------------------------
(***************************************************************************)
(* Theorems about FileData, for every disk and block size, any number of   *)
(* direct blocks, and any commands, sizes and places.  Those about the     *)
(* commands of the file system are taken from FileSystemProofs, whose      *)
(* sizes in blocks here are any.                                           *)
(***************************************************************************)
EXTENDS FileData, FiniteSetTheorems, TLAPS

P == INSTANCE FileSystemProofs WITH Sizes <- Nat

\* The constants are those that FileSystemProofs asks for.
LEMMA PAssumption == P!FSAssumption
BY FileDataAssumption DEF P!FSAssumption

-----------------------------------------------------------------------------
(* Places of bytes.                                                        *)

\* Induction, for the property of being in a set.
LEMMA Induction ==
  ASSUME NEW T, 0 \in T, \A k \in Nat : k \in T => k + 1 \in T
  PROVE  Nat \subseteq T
<1> SUFFICES ASSUME Nat \ T # {} PROVE FALSE
  OBVIOUS
<1>1. PICK m \in Nat \ T : \A x \in Nat \ T : m <= x
  <2>1. Nat \ T \in SUBSET Nat
    OBVIOUS
  <2> QED BY <2>1, PAssumption, P!LeastNumber
<1>2. m # 0 /\ m - 1 \in Nat /\ (m - 1) + 1 = m /\ ~(m <= m - 1)
  BY <1>1
<1>3. m - 1 \in T
  BY <1>1, <1>2
<1> QED
  BY <1>1, <1>2, <1>3

\* A multiple is a natural number.
LEMMA TimesNat ==
  ASSUME NEW b \in Nat, NEW j \in Nat PROVE j * b \in Nat
OBVIOUS

\* A multiple, and the next one.
LEMMA TimesNext ==
  ASSUME NEW b \in Nat, NEW j \in Nat PROVE (j + 1) * b = j * b + b
OBVIOUS

\* A smaller number has the smaller multiple.
LEMMA TimesMonotone ==
  ASSUME NEW b \in Nat, NEW j \in Nat, NEW k \in Nat, j <= k
  PROVE  j * b <= k * b
OBVIOUS

\* Multiples add up.
LEMMA TimesPlus ==
  ASSUME NEW b \in Nat, NEW j \in Nat, NEW k \in Nat
  PROVE  (j + k) * b = j * b + k * b
OBVIOUS

\* Byte r of block j stands at j * b + r.
LEMMA DivUnique ==
  ASSUME NEW b \in Nat \ {0}, NEW j \in Nat, NEW r \in 0 .. b - 1
  PROVE  /\ (j * b + r) \div b = j
         /\ (j * b + r) % b = r
OBVIOUS

\* Every place is a byte of a block.
LEMMA DivMod ==
  ASSUME NEW b \in Nat \ {0}, NEW a \in Nat
  PROVE  /\ a \div b \in Nat
         /\ a % b \in 0 .. b - 1
         /\ a = (a \div b) * b + (a % b)
<1> DEFINE T == {c \in Nat : \E j \in Nat, r \in 0 .. b - 1 : c = j * b + r}
<1>1. 0 \in T
  <2>1. 0 = 0 * b + 0 /\ 0 \in 0 .. b - 1
    OBVIOUS
  <2> QED BY <2>1
<1>2. ASSUME NEW k \in Nat, k \in T PROVE k + 1 \in T
  <2>1. PICK j \in Nat, r \in 0 .. b - 1 : k = j * b + r
    BY <1>2
  <2>2. PICK c \in Nat : c = j * b
    BY TimesNat
  <2>3. CASE r # b - 1
    <3>1. r + 1 \in 0 .. b - 1 /\ k + 1 = c + (r + 1)
      BY <2>1, <2>2, <2>3
    <3> QED BY <3>1, <2>2
  <2>4. CASE r = b - 1
    <3>1. PICK i \in Nat : i = j + 1
      OBVIOUS
    <3>2. i * b = c + b
      BY <2>2, <3>1, TimesNext
    <3>3. 0 \in 0 .. b - 1 /\ k + 1 = i * b + 0
      BY <2>1, <2>2, <2>4, <3>2
    <3> QED BY <3>3
  <2> QED BY <2>3, <2>4
<1>3. a \in T
  <2> HIDE DEF T
  <2> QED BY <1>1, <1>2, Induction
<1>4. PICK j \in Nat, r \in 0 .. b - 1 : a = j * b + r
  BY <1>3
<1>5. a \div b = j /\ a % b = r
  BY <1>4, DivUnique
<1> QED
  BY <1>4, <1>5

\* A place below the end of k blocks is in one of them.
LEMMA DivBelow ==
  ASSUME NEW b \in Nat \ {0}, NEW a \in Nat, NEW k \in Nat
  PROVE  a < k * b <=> a \div b < k
<1>1. PICK j \in Nat, r \in 0 .. b - 1 : a \div b = j /\ a = j * b + r
  BY DivMod
<1>2. PICK c \in Nat, d \in Nat : c = j * b /\ d = k * b
  BY TimesNat
<1>3. j < k => c + b <= d
  <2>1. (j + 1) * b = c + b
    BY <1>2, TimesNext
  <2>2. j < k => j + 1 <= k
    OBVIOUS
  <2> QED BY <2>1, <2>2, <1>2, TimesMonotone
<1>4. k <= j => d <= c
  BY <1>2, TimesMonotone
<1> QED
  BY <1>1, <1>2, <1>3, <1>4

-----------------------------------------------------------------------------
(* Buffers of whole blocks.                                                *)

\* The byte of a buffer of blocks of b bytes at place q, and the first i blocks.
At(s, b, q) == s[((q - 1) \div b) + 1][((q - 1) % b) + 1]
Joined(s, b, i) == [q \in 1 .. i * b |-> At(s, b, q)]

\* Bytes keep their place when a block is joined.
LEMMA JoinNext ==
  ASSUME NEW b \in Nat \ {0}, NEW S, NEW s \in Seq([1 .. b -> S]),
         NEW i \in Nat, i < Len(s)
  PROVE  /\ Joined(s, b, i) \in Seq(S) /\ Len(Joined(s, b, i)) = i * b
         /\ Joined(s, b, i + 1) = Joined(s, b, i) \o s[i + 1]
<1>1. PICK c \in Nat, d \in Nat : c = i * b /\ d = (i + 1) * b /\ d = c + b
  BY TimesNat, TimesNext
<1>2. ASSUME NEW q \in 1 .. d PROVE At(s, b, q) \in S
  <2>1. PICK j \in Nat, r \in 0 .. b - 1 :
          (q - 1) \div b = j /\ (q - 1) % b = r
    <3>1. q - 1 \in Nat
      OBVIOUS
    <3> QED BY <3>1, DivMod
  <2>2. j < i + 1
    <3>1. q - 1 \in Nat /\ q - 1 < (i + 1) * b /\ i + 1 \in Nat
      BY <1>1
    <3>2. (q - 1) \div b < i + 1
      BY <3>1, DivBelow
    <3> QED BY <2>1, <3>2
  <2>3. j + 1 \in 1 .. Len(s) /\ r + 1 \in 1 .. b
    BY <2>2
  <2> QED BY <2>1, <2>3 DEF At
<1>3. Joined(s, b, i) \in Seq(S) /\ Len(Joined(s, b, i)) = c
  <2>1. \A q \in 1 .. c : At(s, b, q) \in S
    BY <1>1, <1>2
  <2>2. Joined(s, b, i) = [q \in 1 .. c |-> At(s, b, q)]
    BY <1>1 DEF Joined
  <2> QED BY <2>1, <2>2
<1>4. Joined(s, b, i + 1) \in Seq(S) /\ Len(Joined(s, b, i + 1)) = d
  <2>1. Joined(s, b, i + 1) = [q \in 1 .. d |-> At(s, b, q)]
    BY <1>1 DEF Joined
  <2> QED BY <1>2, <2>1
<1>5. s[i + 1] \in Seq(S) /\ Len(s[i + 1]) = b
  <2>1. i + 1 \in 1 .. Len(s)
    OBVIOUS
  <2> QED BY <2>1
<1>6. ASSUME NEW q \in 1 .. d
      PROVE  Joined(s, b, i + 1)[q] = (Joined(s, b, i) \o s[i + 1])[q]
  <2>1. Joined(s, b, i + 1)[q] = At(s, b, q)
    BY <1>1 DEF Joined
  <2>2. CASE q <= c
    <3>1. Joined(s, b, i)[q] = At(s, b, q)
      BY <1>1, <2>2 DEF Joined
    <3> QED BY <2>1, <2>2, <3>1, <1>3, <1>5
  <2>3. CASE ~(q <= c)
    <3>1. PICK r \in 0 .. b - 1 : q - 1 = c + r
      <4>1. q - 1 - c \in 0 .. b - 1
        BY <1>1, <2>3
      <4> QED BY <4>1
    <3>2. (q - 1) \div b = i /\ (q - 1) % b = r
      <4>1. q - 1 = i * b + r
        BY <1>1, <3>1
      <4> QED BY <4>1, DivUnique
    <3>3. At(s, b, q) = s[i + 1][r + 1]
      BY <3>2 DEF At
    <3>4. (Joined(s, b, i) \o s[i + 1])[q] = s[i + 1][q - c]
      BY <1>1, <1>3, <1>5, <2>3
    <3>5. q - c = r + 1
      BY <3>1
    <3> QED BY <2>1, <3>3, <3>4, <3>5
  <2> QED BY <2>2, <2>3
<1> QED
  <2>1. PICK x, y, z : x = Joined(s, b, i) /\ y = s[i + 1] /\ z = Joined(s, b, i + 1)
    OBVIOUS
  <2>2. x \o y \in Seq(S) /\ Len(x \o y) = d
    <3>1. x \in Seq(S) /\ y \in Seq(S) /\ Len(x) + Len(y) = d
      BY <2>1, <1>1, <1>3, <1>5
    <3> QED BY <3>1
  <2>3. z = x \o y
    <3>1. z \in Seq(S) /\ Len(z) = d /\ \A q \in 1 .. d : z[q] = (x \o y)[q]
      BY <2>1, <1>4, <1>6
    <3> QED BY <2>2, <3>1
  <2> QED BY <2>1, <2>3, <1>1, <1>3

\* FlattenSeq joins blocks.
LEMMA FlattenBlocks ==
  ASSUME NEW b \in Nat \ {0}, NEW S, NEW s \in Seq([1 .. b -> S])
  PROVE  FlattenSeq(s) = Joined(s, b, Len(s))
<1>1. CASE Len(s) = 0
  <2>1. s = <<>> /\ FlattenSeq(s) = s
    BY <1>1 DEF FlattenSeq
  <2>2. 0 * b = 0
    OBVIOUS
  <2>3. Joined(s, b, 0) = <<>>
    BY <2>2 DEF Joined
  <2> QED BY <1>1, <2>1, <2>3
<1>2. CASE Len(s) # 0
  <2> DEFINE h == [i \in 1 .. Len(s) |-> Joined(s, b, i)]
             IsFlat(f) == f = [i \in 1 .. Len(s) |-> IF i = 1 THEN s[i] ELSE f[i - 1] \o s[i]]
  <2>1. FlattenSeq(s) = (CHOOSE f : IsFlat(f))[Len(s)]
    BY <1>2 DEF FlattenSeq
  <2>2. Joined(s, b, 1) = s[1]
    <3>1. 1 \in 1 .. Len(s) /\ s[1] \in [1 .. b -> S]
      BY <1>2
    <3>2. 1 * b = b
      OBVIOUS
    <3>3. ASSUME NEW q \in 1 .. b PROVE At(s, b, q) = s[1][q]
      <4>1. PICK r \in 0 .. b - 1 : r = q - 1
        OBVIOUS
      <4>2. q - 1 = 0 * b + r
        BY <4>1
      <4>3. (q - 1) \div b = 0 /\ (q - 1) % b = r
        BY <4>2, DivUnique
      <4> QED BY <4>1, <4>3 DEF At
    <3> QED BY <3>1, <3>2, <3>3 DEF Joined
  <2>3. \A i \in 1 .. Len(s) : i # 1 => Joined(s, b, i) = Joined(s, b, i - 1) \o s[i]
    <3> SUFFICES ASSUME NEW i \in 1 .. Len(s), i # 1
                 PROVE  Joined(s, b, i) = Joined(s, b, i - 1) \o s[i]
      OBVIOUS
    <3>1. PICK j \in Nat : j = i - 1 /\ i = j + 1 /\ j < Len(s)
      OBVIOUS
    <3> QED BY <3>1, JoinNext
  <2>4. IsFlat(h)
    <3>1. \A i \in 1 .. Len(s) : h[i] = Joined(s, b, i)
      OBVIOUS
    <3>2. \A i \in 1 .. Len(s) : i # 1 => i - 1 \in 1 .. Len(s)
      OBVIOUS
    <3>3. \A i \in 1 .. Len(s) : h[i] = IF i = 1 THEN s[i] ELSE h[i - 1] \o s[i]
      BY <2>2, <2>3, <3>1, <3>2
    <3>4. h = [i \in 1 .. Len(s) |-> h[i]]
      OBVIOUS
    <3> HIDE DEF h
    <3> QED BY <3>3, <3>4
  <2>5. PICK f : f = CHOOSE g : IsFlat(g)
    OBVIOUS
  <2>6. IsFlat(f)
    BY <2>4, <2>5
  <2> DEFINE T == {i \in Nat : i + 1 \in 1 .. Len(s) => f[i + 1] = Joined(s, b, i + 1)}
  <2>7. f[1] = s[1] /\ \A i \in 1 .. Len(s) : i # 1 => f[i] = f[i - 1] \o s[i]
    <3>1. \A i \in 1 .. Len(s) : f[i] = IF i = 1 THEN s[i] ELSE f[i - 1] \o s[i]
      BY Zenon, <2>6
    <3>2. 1 \in 1 .. Len(s)
      BY <1>2
    <3> QED BY <3>1, <3>2
  <2>8. 0 \in T
    BY <2>2, <2>7
  <2>9. ASSUME NEW i \in Nat, i \in T PROVE i + 1 \in T
    <3> SUFFICES ASSUME (i + 1) + 1 \in 1 .. Len(s)
                 PROVE  f[(i + 1) + 1] = Joined(s, b, (i + 1) + 1)
      OBVIOUS
    <3>1. f[i + 1] = Joined(s, b, i + 1)
      BY <2>9
    <3>2. ((i + 1) + 1) - 1 = i + 1 /\ (i + 1) + 1 # 1
      OBVIOUS
    <3> QED BY <3>1, <3>2, <2>3, <2>7
  <2>10. Nat \subseteq T
    <3> HIDE DEF T
    <3> QED BY <2>8, <2>9, Induction
  <2>11. f[Len(s)] = Joined(s, b, Len(s))
    <3>1. PICK i \in Nat : i + 1 = Len(s)
      <4>1. Len(s) - 1 \in Nat /\ (Len(s) - 1) + 1 = Len(s)
        BY <1>2
      <4> QED BY <4>1
    <3> QED BY <3>1, <2>10, <1>2
  <2> QED BY <2>1, <2>5, <2>11
<1> QED
  BY <1>1, <1>2

-----------------------------------------------------------------------------
(* The file system under the data.                                         *)

\* The words of FileSystem mean the same in its proofs.
LEMMA SameWords ==
  /\ FS!Inodes = P!Inodes /\ FS!Blocks = P!Blocks /\ FS!AllNames = P!AllNames
  /\ FS!Data = P!Data /\ FS!FreeInodes = P!FreeInodes
  /\ FS!FirstFreeInode = P!FirstFreeInode
  /\ (FS!Tidy <=> P!Tidy) /\ (FS!Tidy' <=> P!Tidy') /\ (FS!Running <=> P!Running)
  /\ \A k : FS!StrayAfter(k) = P!StrayAfter(k)
  /\ \A name : (FS!Exists(name) <=> P!Exists(name)) /\ FS!Found(name) = P!Found(name)
  /\ \A n : (FS!MapIntact(n) <=> P!MapIntact(n)) /\ (FS!MapIntact(n)' <=> P!MapIntact(n)')
BY Zenon
   DEF FS!Inodes, P!Inodes, FS!Blocks, P!Blocks, FS!AllNames, P!AllNames,
      FS!Data, P!Data, FS!FreeInodes, P!FreeInodes,
      FS!FirstFreeInode, P!FirstFreeInode, FS!Slot, P!Slot,
      FS!Exists, P!Exists, FS!Found, P!Found, FS!Tidy, P!Tidy,
      FS!Running, P!Running, FS!StrayAfter, P!StrayAfter,
      FS!MapIntact, P!MapIntact

\* So do its commands.
LEMMA SameCommands ==
  /\ FS!Init <=> P!Init
  /\ \A name, size : FS!Create(name, size) <=> P!Create(name, size)
  /\ \A name : FS!RemoveFile(name) <=> P!RemoveFile(name)
  /\ \A name : FS!MakeDir(name) <=> P!MakeDir(name)
  /\ \A name : FS!RemoveDir(name) <=> P!RemoveDir(name)
  /\ \A name : FS!ChangeDir(name) <=> P!ChangeDir(name)
  /\ FS!Remount <=> P!Remount
<1> USE DEF FS!Inodes, P!Inodes, FS!Blocks, P!Blocks, FS!AllNames, P!AllNames,
      FS!Entries, P!Entries, FS!Data, P!Data, FS!DirBlock, P!DirBlock,
      FS!MapBlock, P!MapBlock, FS!FreeInodes, P!FreeInodes,
      FS!FreeBlocks, P!FreeBlocks, FS!FirstFreeInode, P!FirstFreeInode,
      FS!FirstFreeBlocks, P!FirstFreeBlocks, FS!Freed, P!Freed,
      FS!Slot, P!Slot, FS!Exists, P!Exists, FS!Found, P!Found,
      FS!DirectoryFull, P!DirectoryFull, FS!Added, P!Added,
      FS!Dropped, P!Dropped, FS!DropsTooFar, P!DropsTooFar,
      FS!DropsItsEntry, P!DropsItsEntry, FS!AtRoot, P!AtRoot,
      FS!Dots, P!Dots, FS!Tidy, P!Tidy, FS!Running, P!Running,
      FS!StrayAfter, P!StrayAfter, FS!MapIntact, P!MapIntact,
      FS!BlocksOf, P!BlocksOf, FS!EmptyChild, P!EmptyChild,
      FS!SavedDisk, P!SavedDisk, FS!Cardinality, P!Cardinality,
      FS!ToSet, P!ToSet
<1>1. FS!Init <=> P!Init
  BY Zenon DEF FS!Init, P!Init
<1>2. ASSUME NEW name, NEW size PROVE FS!Create(name, size) <=> P!Create(name, size)
  BY Zenon DEF FS!Create, P!Create
<1>3. ASSUME NEW name PROVE FS!RemoveFile(name) <=> P!RemoveFile(name)
  BY Zenon DEF FS!RemoveFile, P!RemoveFile
<1>4. ASSUME NEW name PROVE FS!MakeDir(name) <=> P!MakeDir(name)
  BY Zenon DEF FS!MakeDir, P!MakeDir
<1>5. ASSUME NEW name PROVE FS!RemoveDir(name) <=> P!RemoveDir(name)
  BY Zenon DEF FS!RemoveDir, P!RemoveDir
<1>6. ASSUME NEW name PROVE FS!ChangeDir(name) <=> P!ChangeDir(name)
  BY Zenon DEF FS!ChangeDir, P!ChangeDir
<1>7. FS!Remount <=> P!Remount
  BY Zenon DEF FS!Remount, P!Remount
<1> QED
  BY <1>1, <1>2, <1>3, <1>4, <1>5, <1>6, <1>7

-----------------------------------------------------------------------------
(* The inductive invariant.                                                *)

\* Only the first DIRECT_BLOCK blocks of a file are direct, and indirect ones
\* begin after these.
Sized ==
  \A n \in FS!Inodes :
    /\ Len(inode[n].direct) <= DIRECT_BLOCK
    /\ inode[n].numIndirect > 0 => Len(inode[n].direct) = DIRECT_BLOCK

\* The array of an inode begins with its direct blocks.
SlotsMatch ==
  \A n \in FS!Inodes : \A k \in Slots :
    k < Len(inode[n].direct) => slot[n][k] = inode[n].direct[k + 1]

\* The byte at place q of file n.
ByteAt(n, q) == bytes[DataBlocks(n)[(q \div BLOCK_SIZE) + 1]][(q % BLOCK_SIZE) + 1]

\* File n has room for its contents, and has them in its blocks, byte by byte.
Holds(n) ==
  /\ Len(content[n]) <= Len(DataBlocks(n)) * BLOCK_SIZE
  /\ \A q \in 0 .. Len(content[n]) - 1 : content[n][q + 1] = ByteAt(n, q)

Held == Followed => \A n \in Files \ late : Holds(n)

\* What FileSystemProofs shows of every state, and of the ones still followed.
FSState == P!FSInv /\ (~wild => P!TidyTree /\ P!TidyMaps)

DataInv == FSState /\ TypeOK /\ Sized /\ SlotsMatch /\ Held

-----------------------------------------------------------------------------
(* The blocks of a file.                                                   *)

\* The direct blocks d and then the first k blocks x of a map.
DirectThenMap(d, k, x) == d \o (IF k > 0 THEN SubSeq(x, 1, k) ELSE <<>>)

\* They are in S, are different, and belong to O.
Fits(S, d, k, x) == d \in Seq(S) /\ k \in Nat /\ (k > 0 => x \in Seq(S) /\ k <= Len(x))
Differ(d, k, x) ==
  /\ \A i, j \in 1 .. Len(d) : d[i] = d[j] => i = j
  /\ k > 0 => \A i, j \in 1 .. k : x[i] = x[j] => i = j
  /\ k > 0 => \A i \in 1 .. Len(d), j \in 1 .. k : d[i] # x[j]
Within(O, d, k, x) ==
  /\ \A j \in 1 .. Len(d) : d[j] \in O
  /\ k > 0 => \A j \in 1 .. k : x[j] \in O

\* Where they are; the list keeps what is so of its parts.
LEMMA ListedBlocks ==
  ASSUME NEW S, NEW d, NEW k, NEW x, NEW O,
         Fits(S, d, k, x), Differ(d, k, x), Within(O, d, k, x)
  PROVE  LET z == DirectThenMap(d, k, x) IN
         /\ z \in Seq(S) /\ Len(z) = Len(d) + k
         /\ \A j \in 1 .. Len(d) : z[j] = d[j]
         /\ \A j \in 1 .. k : z[Len(d) + j] = x[j]
         /\ \A j \in 1 .. Len(z) : z[j] \in O
         /\ \A i, j \in 1 .. Len(z) : z[i] = z[j] => i = j
<1> USE DEF Fits, Differ, Within
<1>1. PICK y : y = IF k > 0 THEN SubSeq(x, 1, k) ELSE <<>>
  OBVIOUS
<1>2. y \in Seq(S) /\ Len(y) = k /\ \A j \in 1 .. k : y[j] = x[j]
  <2>1. CASE k > 0
    BY <2>1, <1>1
  <2>2. CASE k = 0
    BY <2>2, <1>1
  <2> QED BY <2>1, <2>2
<1>3. PICK z : z = d \o y
  OBVIOUS
<1>4. z \in Seq(S) /\ Len(z) = Len(d) + k
  <2>1. d \o y \in Seq(S)
    BY <1>2
  <2>2. Len(d \o y) = Len(d) + k
    BY <1>2
  <2> QED BY <2>1, <2>2, <1>3
<1>5. ASSUME NEW j \in 1 .. Len(d) PROVE z[j] = d[j]
  <2>1. (d \o y)[j] = d[j]
    BY <1>2
  <2> QED BY <2>1, <1>3
<1>6. \A j \in 1 .. k : z[Len(d) + j] = x[j]
  <2> SUFFICES ASSUME NEW j \in 1 .. k PROVE z[Len(d) + j] = x[j]
    OBVIOUS
  <2>1. z[Len(d) + j] = y[j]
    BY <1>2, <1>3
  <2> QED BY <2>1, <1>2
<1>7. \A i \in 1 .. Len(z) : i \notin 1 .. Len(d) => \E j \in 1 .. k : i = Len(d) + j
  <2> SUFFICES ASSUME NEW i \in 1 .. Len(z), i \notin 1 .. Len(d)
               PROVE  \E j \in 1 .. k : i = Len(d) + j
    OBVIOUS
  <2>1. i - Len(d) \in 1 .. k /\ i = Len(d) + (i - Len(d))
    BY <1>4
  <2> QED BY <2>1
<1>8. /\ z \in Seq(S) /\ Len(z) = Len(d) + k
      /\ \A j \in 1 .. Len(d) : z[j] = d[j]
      /\ \A j \in 1 .. k : z[Len(d) + j] = x[j]
      /\ \A i \in 1 .. Len(z) : i \notin 1 .. Len(d) => \E j \in 1 .. k : i = Len(d) + j
  BY <1>4, <1>5, <1>6, <1>7
<1>9. \A j \in 1 .. Len(z) : z[j] \in O
  <2> SUFFICES ASSUME NEW j \in 1 .. Len(z) PROVE z[j] \in O
    OBVIOUS
  <2>1. CASE j \in 1 .. Len(d)
    BY <2>1, <1>8
  <2>2. CASE j \notin 1 .. Len(d)
    <3>1. PICK i \in 1 .. k : j = Len(d) + i
      BY <2>2, <1>8
    <3>2. z[j] = x[i] /\ k > 0
      BY <3>1, <1>8
    <3> QED BY <3>2
  <2> QED BY <2>1, <2>2
<1>10. \A i, j \in 1 .. Len(z) : z[i] = z[j] => i = j
  <2> SUFFICES ASSUME NEW i \in 1 .. Len(z), NEW j \in 1 .. Len(z), z[i] = z[j]
               PROVE  i = j
    OBVIOUS
  <2>1. i \in 1 .. Len(d) \/ \E a \in 1 .. k : i = Len(d) + a
    BY <1>8
  <2>2. j \in 1 .. Len(d) \/ \E a \in 1 .. k : j = Len(d) + a
    BY <1>8
  <2>3. CASE i \in 1 .. Len(d) /\ j \in 1 .. Len(d)
    BY <2>3, <1>8
  <2>4. ASSUME NEW a \in 1 .. k, i = Len(d) + a, j \in 1 .. Len(d) PROVE FALSE
    <3>1. z[i] = x[a] /\ z[j] = d[j] /\ k > 0
      BY <2>4, <1>8
    <3> QED BY <3>1, <2>4
  <2>5. ASSUME NEW a \in 1 .. k, j = Len(d) + a, i \in 1 .. Len(d) PROVE FALSE
    <3>1. z[j] = x[a] /\ z[i] = d[i] /\ k > 0
      BY <2>5, <1>8
    <3> QED BY <3>1, <2>5
  <2>6. ASSUME NEW a \in 1 .. k, i = Len(d) + a, NEW b \in 1 .. k, j = Len(d) + b
        PROVE  i = j
    <3>1. z[i] = x[a] /\ z[j] = x[b] /\ k > 0
      BY <2>6, <1>8
    <3> QED BY <3>1, <2>6
  <2> QED BY <2>1, <2>2, <2>3, <2>4, <2>5, <2>6
<1>11. z = DirectThenMap(d, k, x)
  BY <1>1, <1>3 DEF DirectThenMap
<1> QED
  BY <1>8, <1>9, <1>10, <1>11

\* Where the blocks of a file in use are, and that they are its own.
LEMMA BlocksOfFile ==
  ASSUME P!FSInv, NEW n \in inodeMap, P!MapIntact(n)
  PROVE  LET d == inode[n].direct
             bs == DataBlocks(n) IN
         /\ n \in FS!Inodes /\ d \in Seq(FS!Blocks) /\ inode[n].numIndirect \in Nat
         /\ inode[n].indirect \in FS!Blocks
         /\ bs \in Seq(FS!Blocks) /\ Len(bs) = Len(d) + inode[n].numIndirect
         /\ \A j \in 1 .. Len(d) : bs[j] = d[j]
         /\ \A j \in 1 .. inode[n].numIndirect :
              bs[Len(d) + j] = disk[inode[n].indirect].blocks[j]
         /\ \A j \in 1 .. Len(bs) : bs[j] \in P!Owned(n)
         /\ \A i, j \in 1 .. Len(bs) : bs[i] = bs[j] => i = j
<1>1. PICK d, k, m, x : /\ d = inode[n].direct /\ k = inode[n].numIndirect
                        /\ m = inode[n].indirect /\ x = disk[m].blocks
  OBVIOUS
<1>2. n \in FS!Inodes /\ d \in Seq(FS!Blocks) /\ k \in Nat /\ m \in FS!Blocks
  <2>1. n \in P!Inodes /\ inode[n] \in [type : {"file", "directory"}, direct : Seq(P!Blocks),
                                         indirect : P!Blocks, numIndirect : Nat]
    BY DEF P!FSInv, P!Typed, P!TypeOK
  <2> QED BY <1>1, <2>1, SameWords
<1>3. k > 0 => disk[m].kind = "map" /\ x \in Seq(FS!Blocks) /\ k <= Len(x)
  <2>1. k > 0 => disk[m].kind = "map" /\ Len(x) >= k
    BY <1>1 DEF P!MapIntact
  <2>2. disk[m].kind = "map" => x \in Seq(P!Blocks)
    <3>1. \/ disk[m] = P!Data
          \/ disk[m].kind = "dir"
          \/ disk[m].kind = "map" /\ disk[m].blocks \in Seq(P!Blocks)
      BY <1>2, SameWords DEF P!FSInv, P!Typed, P!TypeOK
    <3> QED BY <3>1, <1>1 DEF P!Data
  <2> QED BY <2>1, <2>2, <1>2, SameWords
<1>4. DataBlocks(n) = DirectThenMap(d, k, x)
  <2>1. k > 0 /\ FS!MapIntact(n) <=> k > 0
    BY SameWords
  <2> QED BY <1>1, <2>1 DEF DataBlocks, DirectThenMap
<1>5. PICK z : z = DataBlocks(n)
  OBVIOUS
<1>6. /\ P!Direct(n) = {d[j] : j \in 1 .. Len(d)}
      /\ k > 0 => P!HasMap(n) /\ P!Mapped(n) = {x[j] : j \in 1 .. k}
  BY <1>1 DEF P!Direct, P!HasMap, P!Mapped
<1>7. /\ \A i, j \in 1 .. Len(d) : d[i] = d[j] => i = j
      /\ k > 0 => \A i, j \in 1 .. k : x[i] = x[j] => i = j
      /\ k > 0 => \A i \in 1 .. Len(d), j \in 1 .. k : d[i] # x[j]
  <2>1. P!Apart(n)
    BY DEF P!FSInv, P!Ownership
  <2>2. \A i, j \in 1 .. Len(d) : d[i] = d[j] => i = j
    BY <2>1, <1>1 DEF P!Apart
  <2>3. k > 0 => \A i, j \in 1 .. k : x[i] = x[j] => i = j
    BY <2>1, <1>1, <1>6 DEF P!Apart
  <2>4. k > 0 => \A i \in 1 .. Len(d), j \in 1 .. k : d[i] # x[j]
    BY <2>1, <1>6 DEF P!Apart
  <2> QED BY <2>2, <2>3, <2>4
<1>8. PICK O : O = P!Owned(n)
  OBVIOUS
<1>9. /\ \A j \in 1 .. Len(d) : d[j] \in O
      /\ k > 0 => \A j \in 1 .. k : x[j] \in O
  BY <1>6, <1>8 DEF P!Owned
<1>10. /\ z \in Seq(FS!Blocks) /\ Len(z) = Len(d) + k
       /\ \A j \in 1 .. Len(d) : z[j] = d[j]
       /\ \A j \in 1 .. k : z[Len(d) + j] = x[j]
       /\ \A j \in 1 .. Len(z) : z[j] \in O
       /\ \A i, j \in 1 .. Len(z) : z[i] = z[j] => i = j
  <2>1. Fits(FS!Blocks, d, k, x)
    BY <1>2, <1>3 DEF Fits
  <2>2. Differ(d, k, x)
    BY <1>7 DEF Differ
  <2>3. Within(O, d, k, x)
    BY <1>9 DEF Within
  <2>4. z = DirectThenMap(d, k, x)
    BY <1>4, <1>5
  <2>5. LET y == DirectThenMap(d, k, x) IN
        /\ y \in Seq(FS!Blocks) /\ Len(y) = Len(d) + k
        /\ \A j \in 1 .. Len(d) : y[j] = d[j]
        /\ \A j \in 1 .. k : y[Len(d) + j] = x[j]
        /\ \A j \in 1 .. Len(y) : y[j] \in O
        /\ \A i, j \in 1 .. Len(y) : y[i] = y[j] => i = j
    BY <2>1, <2>2, <2>3, ListedBlocks
  <2> QED BY <2>4, <2>5
<1> QED
  BY <1>1, <1>2, <1>5, <1>8, <1>10

\* The same of a file that is in use after a command.
LEMMA BlocksOfNewFile ==
  ASSUME P!FSInv', NEW n \in inodeMap', P!MapIntact(n)'
  PROVE  LET d == inode'[n].direct
             bs == DataBlocks(n)' IN
         /\ n \in FS!Inodes /\ d \in Seq(FS!Blocks) /\ inode'[n].numIndirect \in Nat
         /\ inode'[n].indirect \in FS!Blocks
         /\ bs \in Seq(FS!Blocks) /\ Len(bs) = Len(d) + inode'[n].numIndirect
         /\ \A j \in 1 .. Len(d) : bs[j] = d[j]
         /\ \A j \in 1 .. inode'[n].numIndirect :
              bs[Len(d) + j] = disk'[inode'[n].indirect].blocks[j]
         /\ \A j \in 1 .. Len(bs) : bs[j] \in P!Owned(n)'
         /\ \A i, j \in 1 .. Len(bs) : bs[i] = bs[j] => i = j
<1>1. PICK d, k, m, x : /\ d = inode'[n].direct /\ k = inode'[n].numIndirect
                        /\ m = inode'[n].indirect /\ x = disk'[m].blocks
  OBVIOUS
<1>2. n \in FS!Inodes /\ d \in Seq(FS!Blocks) /\ k \in Nat /\ m \in FS!Blocks
  <2>1. n \in P!Inodes /\ inode'[n] \in [type : {"file", "directory"}, direct : Seq(P!Blocks),
                                         indirect : P!Blocks, numIndirect : Nat]
    BY DEF P!FSInv, P!Typed, P!TypeOK
  <2> QED BY <1>1, <2>1, SameWords
<1>3. k > 0 => disk'[m].kind = "map" /\ x \in Seq(FS!Blocks) /\ k <= Len(x)
  <2>1. k > 0 => disk'[m].kind = "map" /\ Len(x) >= k
    BY <1>1 DEF P!MapIntact
  <2>2. disk'[m].kind = "map" => x \in Seq(P!Blocks)
    <3>1. \/ disk'[m] = P!Data
          \/ disk'[m].kind = "dir"
          \/ disk'[m].kind = "map" /\ disk'[m].blocks \in Seq(P!Blocks)
      BY <1>2, SameWords DEF P!FSInv, P!Typed, P!TypeOK
    <3> QED BY <3>1, <1>1 DEF P!Data
  <2> QED BY <2>1, <2>2, <1>2, SameWords
<1>4. DataBlocks(n)' = DirectThenMap(d, k, x)
  <2>1. k > 0 /\ FS!MapIntact(n)' <=> k > 0
    BY SameWords
  <2> QED BY <1>1, <2>1 DEF DataBlocks, DirectThenMap
<1>5. PICK z : z = DataBlocks(n)'
  OBVIOUS
<1>6. /\ P!Direct(n)' = {d[j] : j \in 1 .. Len(d)}
      /\ k > 0 => P!HasMap(n)' /\ P!Mapped(n)' = {x[j] : j \in 1 .. k}
  BY <1>1 DEF P!Direct, P!HasMap, P!Mapped
<1>7. /\ \A i, j \in 1 .. Len(d) : d[i] = d[j] => i = j
      /\ k > 0 => \A i, j \in 1 .. k : x[i] = x[j] => i = j
      /\ k > 0 => \A i \in 1 .. Len(d), j \in 1 .. k : d[i] # x[j]
  <2>1. P!Apart(n)'
    BY DEF P!FSInv, P!Ownership
  <2>2. \A i, j \in 1 .. Len(d) : d[i] = d[j] => i = j
    BY <2>1, <1>1 DEF P!Apart
  <2>3. k > 0 => \A i, j \in 1 .. k : x[i] = x[j] => i = j
    BY <2>1, <1>1, <1>6 DEF P!Apart
  <2>4. k > 0 => \A i \in 1 .. Len(d), j \in 1 .. k : d[i] # x[j]
    BY <2>1, <1>6 DEF P!Apart
  <2> QED BY <2>2, <2>3, <2>4
<1>8. PICK O : O = P!Owned(n)'
  OBVIOUS
<1>9. /\ \A j \in 1 .. Len(d) : d[j] \in O
      /\ k > 0 => \A j \in 1 .. k : x[j] \in O
  BY <1>6, <1>8 DEF P!Owned
<1>10. /\ z \in Seq(FS!Blocks) /\ Len(z) = Len(d) + k
       /\ \A j \in 1 .. Len(d) : z[j] = d[j]
       /\ \A j \in 1 .. k : z[Len(d) + j] = x[j]
       /\ \A j \in 1 .. Len(z) : z[j] \in O
       /\ \A i, j \in 1 .. Len(z) : z[i] = z[j] => i = j
  <2>1. Fits(FS!Blocks, d, k, x)
    BY <1>2, <1>3 DEF Fits
  <2>2. Differ(d, k, x)
    BY <1>7 DEF Differ
  <2>3. Within(O, d, k, x)
    BY <1>9 DEF Within
  <2>4. z = DirectThenMap(d, k, x)
    BY <1>4, <1>5
  <2>5. LET y == DirectThenMap(d, k, x) IN
        /\ y \in Seq(FS!Blocks) /\ Len(y) = Len(d) + k
        /\ \A j \in 1 .. Len(d) : y[j] = d[j]
        /\ \A j \in 1 .. k : y[Len(d) + j] = x[j]
        /\ \A j \in 1 .. Len(y) : y[j] \in O
        /\ \A i, j \in 1 .. Len(y) : y[i] = y[j] => i = j
    BY <2>1, <2>2, <2>3, ListedBlocks
  <2> QED BY <2>4, <2>5
<1> QED
  BY <1>1, <1>2, <1>5, <1>8, <1>10

\* A file whose blocks, their bytes and the contents expected of it stay the
\* same still holds them.
LEMMA StillHolds ==
  ASSUME NEW n, Holds(n), content[n] \in Seq(Byte), DataBlocks(n) \in Seq(FS!Blocks),
         content'[n] = content[n], DataBlocks(n)' = DataBlocks(n),
         \A j \in 1 .. Len(DataBlocks(n)) : bytes'[DataBlocks(n)[j]] = bytes[DataBlocks(n)[j]]
  PROVE  Holds(n)'
<1>1. PICK z, c : z = DataBlocks(n) /\ c = content[n]
  OBVIOUS
<1>2. z = DataBlocks(n)' /\ c = content'[n] /\ Len(z) \in Nat /\ Len(c) \in Nat
  BY <1>1
<1>3. ASSUME NEW q \in 0 .. Len(c) - 1
      PROVE  (q \div BLOCK_SIZE) + 1 \in 1 .. Len(z)
  <2>1. q \in Nat /\ q < Len(z) * BLOCK_SIZE
    <3>1. Len(z) * BLOCK_SIZE \in Nat
      BY <1>2, FileDataAssumption, TimesNat
    <3> QED BY <1>1, <1>2, <3>1 DEF Holds
  <2>2. q \div BLOCK_SIZE < Len(z) /\ q \div BLOCK_SIZE \in Nat
    <3>1. BLOCK_SIZE \in Nat \ {0}
      BY FileDataAssumption
    <3> QED BY <2>1, <1>2, <3>1, DivBelow, DivMod
  <2> QED BY <2>2, <1>2
<1>4. ASSUME NEW q \in 0 .. Len(c) - 1 PROVE c[q + 1] = ByteAt(n, q)'
  <2>1. PICK j \in 1 .. Len(z) : j = (q \div BLOCK_SIZE) + 1
    BY <1>3
  <2>2. ByteAt(n, q)' = bytes'[z[j]][(q % BLOCK_SIZE) + 1]
    BY <1>2, <2>1 DEF ByteAt
  <2>3. ByteAt(n, q) = bytes[z[j]][(q % BLOCK_SIZE) + 1]
    BY <1>1, <2>1 DEF ByteAt
  <2>4. bytes'[z[j]] = bytes[z[j]]
    BY <1>1
  <2> QED BY <2>2, <2>3, <2>4, <1>1 DEF Holds
<1>5. Len(content'[n]) <= Len(DataBlocks(n)') * BLOCK_SIZE
  BY <1>1, <1>2 DEF Holds
<1>6. \A q \in 0 .. Len(content'[n]) - 1 : content'[n][q + 1] = ByteAt(n, q)'
  BY <1>2, <1>4
<1> QED
  BY <1>5, <1>6 DEF Holds

\* So does a file of whose inode, map and blocks nothing changed.
LEMMA SameBlocks ==
  ASSUME P!FSInv, NEW n \in inodeMap, P!MapIntact(n), inode'[n] = inode[n],
         \A b \in P!Owned(n) : disk'[b] = disk[b]
  PROVE  DataBlocks(n)' = DataBlocks(n) /\ P!Owned(n)' = P!Owned(n)
<1>1. \A b \in P!MapOf(n) : disk'[b] = disk[b]
  BY DEF P!Owned
<1>2. P!Owned(n)' = P!Owned(n) /\ P!MapIntact(n)'
  BY <1>1, PAssumption, P!SameOwned
<1>3. inode[n].numIndirect > 0 => disk'[inode[n].indirect] = disk[inode[n].indirect]
  BY <1>1 DEF P!MapOf
<1>4. FS!MapIntact(n) /\ FS!MapIntact(n)'
  BY <1>2, SameWords
<1> QED
  BY <1>2, <1>3, <1>4 DEF DataBlocks

-----------------------------------------------------------------------------
(* The commands that move no data.                                         *)

\* The program takes commands in states where all of the file system's
\* invariants hold.
LEMMA RunningTidy ==
  ASSUME FSState, FS!Running
  PROVE  P!TidyInv /\ P!FSInv /\ P!Typed /\ ~wild
BY SameWords DEF FSState, P!Running, P!TidyInv, P!FSInv

\* A command after which the session is still followed kept to the usage.
LEMMA FollowedBefore ==
  ASSUME FSState, FS!Running, NEW k \in BOOLEAN, stray' = P!StrayAfter(k), Followed'
  PROVE  Followed /\ k /\ P!Tidy /\ P!Tidy' /\ \A n \in inodeMap : P!MapIntact(n)
<1>1. P!Typed /\ P!TidyInv /\ ~wild
  BY RunningTidy
<1>2. P!Tidy'
  BY SameWords DEF Followed
<1>3. P!Tidy /\ k
  BY <1>1, <1>2, PAssumption, P!TidyBefore
<1> QED
  BY <1>1, <1>2, <1>3, SameWords DEF Followed, P!TidyInv, P!TidyMaps

\* Blocks that inodes in use own are marked, and no other's.
LEMMA OwnedApart ==
  ASSUME P!FSInv, NEW n \in inodeMap
  PROVE  /\ P!Owned(n) \subseteq blockMap
         /\ \A m \in inodeMap : m # n => P!Owned(n) \cap P!Owned(m) = {}
BY DEF P!FSInv, P!Ownership

\* The inode, the map and the blocks of a file that the command is not about.
Untouched(m) ==
  /\ m \in Files /\ inode'[m] = inode[m] /\ content'[m] = content[m]
  /\ \A b \in P!Owned(m) : disk'[b] = disk[b] /\ bytes'[b] = bytes[b]

\* It still holds its contents.
LEMMA UntouchedHolds ==
  ASSUME DataInv, Followed, \A n \in inodeMap : P!MapIntact(n),
         NEW m, m \notin late, Untouched(m)
  PROVE  Holds(m)'
<1>1. P!FSInv /\ m \in inodeMap /\ P!MapIntact(m) /\ Holds(m)
  BY DEF DataInv, FSState, Held, Untouched, Files
<1>2. DataBlocks(m)' = DataBlocks(m)
  BY <1>1, SameBlocks DEF Untouched
<1>3. PICK bs : bs = DataBlocks(m)
  OBVIOUS
<1>4. m \in FS!Inodes /\ bs \in Seq(FS!Blocks) /\ \A j \in 1 .. Len(bs) : bs[j] \in P!Owned(m)
  BY <1>1, <1>3, BlocksOfFile
<1>5. content[m] \in Seq(Byte) /\ content'[m] = content[m]
  BY <1>4 DEF DataInv, TypeOK, Untouched
<1>6. \A j \in 1 .. Len(bs) : bytes'[bs[j]] = bytes[bs[j]]
  BY <1>4 DEF Untouched
<1> QED
  BY <1>1, <1>2, <1>3, <1>4, <1>5, <1>6, StillHolds

\* The array after a command: typed, and beginning with the direct blocks.
LEMMA FilledSlots ==
  ASSUME DataInv, FillSlots, P!FSInv'
  PROVE  slot' \in [FS!Inodes -> [Slots -> FS!Blocks]] /\ SlotsMatch'
<1>1. slot \in [FS!Inodes -> [Slots -> FS!Blocks]]
  BY DEF DataInv, TypeOK
<1>2. \A n \in FS!Inodes : inode'[n].direct \in Seq(FS!Blocks)
  BY SameWords DEF P!FSInv, P!Typed, P!TypeOK
<1>3. ASSUME NEW n \in FS!Inodes, NEW k \in Slots
      PROVE  /\ k < Len(inode'[n].direct) => inode'[n].direct[k + 1] \in FS!Blocks
             /\ slot[n][k] \in FS!Blocks
  <2>1. inode'[n].direct \in Seq(FS!Blocks) /\ k \in Nat
    BY <1>2, FileDataAssumption DEF Slots
  <2> QED BY <2>1, <1>1
<1>4. slot' = [n \in FS!Inodes |->
                 [k \in Slots |-> IF k < Len(inode'[n].direct) THEN inode'[n].direct[k + 1]
                                  ELSE slot[n][k]]]
  BY DEF FillSlots
<1>5. slot' \in [FS!Inodes -> [Slots -> FS!Blocks]]
  BY <1>3, <1>4
<1>6. \A n \in FS!Inodes, k \in Slots :
        k < Len(inode'[n].direct) => slot'[n][k] = inode'[n].direct[k + 1]
  BY <1>4
<1>7. FS!Inodes' = FS!Inodes /\ Slots' = Slots
  BY DEF FS!Inodes, Slots
<1> QED
  BY <1>5, <1>6, <1>7 DEF SlotsMatch

\* rm.
LEMMA RemoveFileKeepsData ==
  ASSUME DataInv, NEW name \in FS!AllNames, RemoveFile(name)
  PROVE  DataInv'
<1>0. PICK n : n = FS!Found(name)
  OBVIOUS
<1>1. /\ P!RemoveFile(name) /\ FS!Running /\ name \in P!AllNames
      /\ content' = [content EXCEPT ![n] = <<>>] /\ late' = late \ {n}
      /\ UNCHANGED <<slot, bytes>>
  BY <1>0, SameWords, SameCommands DEF RemoveFile, P!RemoveFile
<1>2. P!TidyInv /\ P!FSInv /\ ~wild
  BY <1>1, RunningTidy DEF DataInv
<1>3. P!TidyInv'
  BY <1>1, <1>2, PAssumption, P!RemoveFileKeepsTidy
<1>4. FSState'
  BY <1>3 DEF FSState, P!TidyInv
<1>5. /\ inodeMap' = inodeMap \ {n} /\ UNCHANGED <<inode, disk>>
      /\ stray' = P!StrayAfter(P!DropsItsEntry(name))
  BY <1>0, <1>1, SameWords DEF P!RemoveFile
<1>6. TypeOK'
  <2>1. content' \in [FS!Inodes -> Seq(Byte)]
    <3>1. <<>> \in Seq(Byte)
      OBVIOUS
    <3>2. PICK e : e = <<>>
      OBVIOUS
    <3> QED BY <3>1, <3>2, <1>1 DEF DataInv, TypeOK
  <2> QED BY <2>1, <1>1 DEF DataInv, TypeOK, FS!Inodes, FS!Blocks, Slots, Block
<1>7. Sized' /\ SlotsMatch'
  BY <1>1, <1>5 DEF DataInv, Sized, SlotsMatch, FS!Inodes, Slots
<1>8. Held'
  <2> SUFFICES ASSUME Followed', NEW m \in Files' \ late' PROVE Holds(m)'
    BY DEF Held
  <2>1. P!DropsItsEntry(name) \in BOOLEAN
    BY DEF P!DropsItsEntry
  <2>2. Followed /\ \A a \in inodeMap : P!MapIntact(a)
    BY <2>1, <1>1, <1>5, FollowedBefore DEF DataInv
  <2>3. m # n /\ m \in Files /\ m \notin late
    BY <1>1, <1>5 DEF Files
  <2>4. content'[m] = content[m]
    <3>1. m \in FS!Inodes
      BY <2>2, <2>3, <1>2, BlocksOfFile DEF Files
    <3> QED BY <3>1, <2>3, <1>1 DEF DataInv, TypeOK
  <2>5. Untouched(m)
    BY <2>3, <2>4, <1>1, <1>5 DEF Untouched
  <2> QED BY <2>2, <2>3, <2>5, UntouchedHolds
<1> QED
  BY <1>4, <1>6, <1>7, <1>8 DEF DataInv

\* What mkdir, rmdir, cd and the unmount have in common.
LEMMA OtherKeepsData ==
  ASSUME DataInv, FS!Running, FillSlots, UNCHANGED <<bytes, content, late>>,
         P!TidyInv', NEW k \in BOOLEAN, stray' = P!StrayAfter(k), Sized',
         Followed' /\ Followed /\ k =>
           \A m \in Files' : m \in Files /\ inode'[m] = inode[m]
                            /\ \A b \in P!Owned(m) : disk'[b] = disk[b]
  PROVE  DataInv'
<1>1. P!FSInv' /\ FSState'
  BY DEF FSState, P!TidyInv
<1>2. slot' \in [FS!Inodes -> [Slots -> FS!Blocks]] /\ SlotsMatch'
  BY <1>1, FilledSlots
<1>3. TypeOK'
  BY <1>2 DEF DataInv, TypeOK, FS!Inodes, FS!Blocks, Slots, Block
<1>4. Held'
  <2> SUFFICES ASSUME Followed', NEW m \in Files' \ late' PROVE Holds(m)'
    BY DEF Held
  <2>1. Followed /\ k /\ \A a \in inodeMap : P!MapIntact(a)
    BY FollowedBefore DEF DataInv
  <2>2. Untouched(m) /\ m \notin late
    BY <2>1 DEF Untouched
  <2> QED BY <2>1, <2>2, UntouchedHolds
<1> QED
  BY <1>1, <1>2, <1>3, <1>4 DEF DataInv

\* mkdir: the new directory is no file, and its inode and block were free.
LEMMA MakeDirKeepsData ==
  ASSUME DataInv, FillSlots, UNCHANGED <<bytes, content, late>>,
         NEW name \in FS!AllNames, FS!MakeDir(name)
  PROVE  DataInv'
<1>1. P!MakeDir(name) /\ FS!Running /\ name \in P!AllNames
  BY SameWords, SameCommands DEF P!MakeDir
<1>2. P!TidyInv /\ P!FSInv
  BY <1>1, RunningTidy DEF DataInv
<1>3. P!TidyInv'
  BY <1>1, <1>2, PAssumption, P!MakeDirKeepsTidy
<1>4. PICK n \in P!Inodes :
        P!Made(n, name) /\ inode'[n].type = "directory" /\ inode'[n].numIndirect = 0
  BY <1>1, <1>2, PAssumption, P!MakeDirKeepsInv
<1>5. stray' = P!StrayAfter(TRUE)
  BY <1>1 DEF P!MakeDir
<1>6. /\ n \notin inodeMap /\ inodeMap' = inodeMap \cup {n}
      /\ \A m \in FS!Inodes : m # n => inode'[m] = inode[m]
      /\ \A b \in blockMap : disk'[b] = disk[b]
  BY <1>4, SameWords DEF P!Made
<1>7. Sized'
  <2>1. Len(inode'[n].direct) = 1
    BY <1>3, <1>4 DEF P!TidyInv, P!FSInv, P!DirsHaveBlock, P!Inodes
  <2>2. \A m \in FS!Inodes :
          /\ Len(inode'[m].direct) <= DIRECT_BLOCK
          /\ inode'[m].numIndirect > 0 => Len(inode'[m].direct) = DIRECT_BLOCK
    <3> SUFFICES ASSUME NEW m \in FS!Inodes
                 PROVE  /\ Len(inode'[m].direct) <= DIRECT_BLOCK
                        /\ inode'[m].numIndirect > 0 => Len(inode'[m].direct) = DIRECT_BLOCK
      OBVIOUS
    <3>1. CASE m = n
      BY <3>1, <2>1, <1>4, FileDataAssumption
    <3>2. CASE m # n
      BY <3>2, <1>6 DEF DataInv, Sized
    <3> QED BY <3>1, <3>2
  <2>3. FS!Inodes' = FS!Inodes
    BY DEF FS!Inodes
  <2> QED BY <2>2, <2>3 DEF Sized
<1>8. ASSUME NEW m \in Files'
      PROVE  m \in Files /\ inode'[m] = inode[m] /\ \A b \in P!Owned(m) : disk'[b] = disk[b]
  <2>1. m # n /\ m \in inodeMap
    BY <1>4, <1>6 DEF Files
  <2>2. m \in FS!Inodes /\ P!Owned(m) \subseteq blockMap
    BY <2>1, <1>2, OwnedApart, SameWords DEF P!FSInv, P!Typed, P!TypeOK
  <2> QED BY <2>1, <2>2, <1>6 DEF Files
<1> QED
  BY <1>1, <1>3, <1>5, <1>7, <1>8, OtherKeepsData

\* rmdir.
LEMMA RemoveDirKeepsData ==
  ASSUME DataInv, FillSlots, UNCHANGED <<bytes, content, late>>,
         NEW name \in FS!AllNames, FS!RemoveDir(name)
  PROVE  DataInv'
<1>1. P!RemoveDir(name) /\ FS!Running /\ name \in P!AllNames
  BY SameWords, SameCommands DEF P!RemoveDir
<1>2. P!TidyInv
  BY <1>1, RunningTidy DEF DataInv
<1>3. P!TidyInv'
  BY <1>1, <1>2, PAssumption, P!RemoveDirKeepsTidy
<1>4. PICK k \in BOOLEAN : stray' = P!StrayAfter(k)
  <2>1. (P!EmptyChild(name) /\ P!DropsItsEntry(name)) \in BOOLEAN
    BY DEF P!EmptyChild, P!DropsItsEntry
  <2>2. stray' = P!StrayAfter(P!EmptyChild(name) /\ P!DropsItsEntry(name))
    BY <1>1 DEF P!RemoveDir
  <2> QED BY <2>1, <2>2
<1>5. inodeMap' \subseteq inodeMap /\ UNCHANGED <<inode, disk>>
  BY <1>1 DEF P!RemoveDir
<1>6. Sized'
  BY <1>5 DEF DataInv, Sized, FS!Inodes
<1>7. \A m \in Files' : m \in Files /\ inode'[m] = inode[m]
                       /\ \A b \in P!Owned(m) : disk'[b] = disk[b]
  BY <1>5 DEF Files
<1> QED
  BY <1>1, <1>3, <1>4, <1>6, <1>7, OtherKeepsData

\* A directory's block, in a session that keeps to the usage, is no file's.
LEMMA DirBlockNoFile ==
  ASSUME P!FSInv, NEW d \in P!LiveDirs, NEW m \in Files
  PROVE  inode[d].direct[1] \notin P!Owned(m)
<1>1. d \in inodeMap /\ inode[d].direct[1] \in P!Owned(d)
  BY PAssumption, P!DirBlockOwned
<1>2. d # m /\ m \in inodeMap
  BY DEF P!LiveDirs, Files
<1> QED
  BY <1>1, <1>2, OwnedApart

\* cd writes the block of the current directory only.
LEMMA ChangeDirKeepsData ==
  ASSUME DataInv, FillSlots, UNCHANGED <<bytes, content, late>>,
         NEW name \in FS!AllNames, FS!ChangeDir(name)
  PROVE  DataInv'
<1>1. P!ChangeDir(name) /\ FS!Running /\ name \in P!AllNames
  BY SameWords, SameCommands DEF P!ChangeDir
<1>2. P!TidyInv /\ P!FSInv
  BY <1>1, RunningTidy DEF DataInv
<1>3. P!TidyInv'
  BY <1>1, <1>2, PAssumption, P!ChangeDirKeepsTidy
<1>4. stray' = P!StrayAfter(TRUE) /\ UNCHANGED <<inodeMap, inode>>
  BY <1>1 DEF P!ChangeDir
<1>5. Sized'
  BY <1>4 DEF DataInv, Sized, FS!Inodes
<1>6. \A b \in DOMAIN disk : b # inode[P!Here].direct[1] => disk'[b] = disk[b]
  <2>1. disk' = disk \/ disk' = P!SavedDisk
    BY <1>1 DEF P!ChangeDir
  <2> QED BY <2>1 DEF P!SavedDisk, P!Here
<1>7. ASSUME Followed, NEW m \in Files'
      PROVE  m \in Files /\ inode'[m] = inode[m] /\ \A b \in P!Owned(m) : disk'[b] = disk[b]
  <2>1. m \in Files
    BY <1>4 DEF Files
  <2>2. P!Here \in P!LiveDirs
    BY <1>2, <1>7, SameWords DEF Followed, P!TidyInv, P!TidyTree
  <2>3. inode[P!Here].direct[1] \notin P!Owned(m)
    BY <2>1, <2>2, <1>2, DirBlockNoFile
  <2>4. P!Owned(m) \subseteq DOMAIN disk
    <3>1. P!Owned(m) \subseteq blockMap
      BY <2>1, <1>2, OwnedApart DEF Files
    <3> QED BY <3>1, <1>2 DEF P!FSInv, P!Typed, P!TypeOK
  <2> QED BY <2>1, <2>3, <2>4, <1>4, <1>6
<1> QED
  BY <1>1, <1>3, <1>4, <1>5, <1>7, OtherKeepsData

\* The unmount, and the mount of the same disk.
LEMMA RemountKeepsData ==
  ASSUME DataInv, FillSlots, UNCHANGED <<bytes, content, late>>, FS!Remount
  PROVE  DataInv'
<1>1. P!Remount /\ FS!Running
  BY SameWords, SameCommands DEF P!Remount
<1>2. P!TidyInv /\ P!FSInv
  BY <1>1, RunningTidy DEF DataInv
<1>3. P!TidyInv'
  BY <1>1, <1>2, PAssumption, P!RemountKeepsTidy
<1>4. PICK k \in BOOLEAN : stray' = P!StrayAfter(k) /\ (k <=> P!AtRoot)
  <2>1. P!AtRoot \in BOOLEAN
    BY DEF P!AtRoot
  <2> QED BY <2>1, <1>1 DEF P!Remount
<1>5. UNCHANGED <<inodeMap, inode>> /\ disk' = [disk EXCEPT ![curDirBlock] = P!DirBlock(curDir)]
  BY <1>1 DEF P!Remount
<1>6. Sized'
  BY <1>5 DEF DataInv, Sized, FS!Inodes
<1>7. ASSUME Followed, k, NEW m \in Files'
      PROVE  m \in Files /\ inode'[m] = inode[m] /\ \A b \in P!Owned(m) : disk'[b] = disk[b]
  <2>1. m \in Files
    BY <1>5 DEF Files
  <2>2. P!Here \in P!LiveDirs /\ curDirBlock = inode[0].direct[1] /\ P!Here = 0
    BY <1>2, <1>4, <1>7, SameWords DEF Followed, P!TidyInv, P!TidyTree, P!Here, P!AtRoot
  <2>3. curDirBlock \notin P!Owned(m)
    BY <2>1, <2>2, <1>2, DirBlockNoFile
  <2> QED BY <2>1, <2>3, <1>5
<1> QED
  BY <1>1, <1>3, <1>4, <1>6, <1>7, OtherKeepsData

-----------------------------------------------------------------------------
(* create.                                                                 *)

\* The strings that the commands get are strings of bytes.
LEMMA StringTypes ==
  ASSUME NEW sizes \in SUBSET Nat, NEW str \in Strings(sizes)
  PROVE  str \in Seq(Byte) /\ Len(str) \in sizes
<1>1. PICK size \in sizes : str = [k \in 1 .. size |-> k % Cardinality(Byte)]
  BY DEF Strings
<1>2. PICK e \in Byte : Byte = 0 .. e
  BY FileDataAssumption
<1>3. e \in Nat /\ Cardinality(Byte) = e + 1
  <2>1. e \in Nat
    BY <1>2
  <2>2. Cardinality(0 .. e) = e + 1
    BY <2>1, FS_Interval
  <2> QED BY <1>2, <2>1, <2>2
<1>4. ASSUME NEW k \in 1 .. size PROVE k % Cardinality(Byte) \in Byte
  <2>1. k \in Nat /\ e + 1 \in Nat \ {0}
    BY <1>3
  <2>2. k % (e + 1) \in 0 .. (e + 1) - 1
    BY <2>1, DivMod
  <2> QED BY <2>2, <1>2, <1>3
<1> QED
  BY <1>1, <1>4

\* Zero is a byte.
LEMMA PadByte == Pad \in Byte
BY FileDataAssumption DEF Pad

\* CeilDiv is the least number of units that have room for so many bytes.
LEMMA CeilRoom ==
  ASSUME NEW b \in Nat \ {0}, NEW a \in Nat
  PROVE  /\ CeilDiv(a, b) \in Nat /\ a <= CeilDiv(a, b) * b
         /\ \A k \in Nat : a <= k * b => CeilDiv(a, b) <= k
<1>1. a + b - 1 \in Nat
  OBVIOUS
<1>2. PICK c \in Nat, r \in 0 .. b - 1 : c = CeilDiv(a, b) /\ a + b - 1 = c * b + r
  BY <1>1, DivMod DEF CeilDiv
<1>3. PICK d \in Nat : d = c * b
  BY TimesNat
<1>4. a <= d
  BY <1>2, <1>3
<1>5. ASSUME NEW k \in Nat, a <= k * b PROVE c <= k
  <2>1. PICK e \in Nat : e = k * b
    BY TimesNat
  <2>2. (k + 1) * b = e + b /\ k + 1 \in Nat
    BY <2>1, TimesNext
  <2>3. a + b - 1 < (k + 1) * b
    BY <1>5, <2>1, <2>2
  <2>4. CeilDiv(a, b) < k + 1
    BY <2>2, <2>3, <1>1, DivBelow DEF CeilDiv
  <2> QED BY <2>4, <1>2
<1> QED
  BY <1>2, <1>3, <1>4, <1>5

\* The blocks create asks for have room for the string; only a large file gets
\* more than the direct blocks.
LEMMA RoomAsked ==
  ASSUME NEW size \in Nat
  PROVE  /\ NumBlocks(size) \in Nat /\ size <= NumBlocks(size) * BLOCK_SIZE
         /\ NumBlocks(size) > DIRECT_BLOCK => SMALL_FILE <= size
         /\ SMALL_FILE \in Nat \ {0} /\ SMALL_FILE = DIRECT_BLOCK * BLOCK_SIZE
<1>1. BLOCK_SIZE \in Nat \ {0} /\ DIRECT_BLOCK \in Nat \ {0}
  BY FileDataAssumption
<1>2. PICK s \in Nat \ {0} : s = SMALL_FILE /\ s = DIRECT_BLOCK * BLOCK_SIZE
  <2>1. DIRECT_BLOCK * BLOCK_SIZE \in Nat
    BY <1>1, TimesNat
  <2>2. 1 * BLOCK_SIZE <= DIRECT_BLOCK * BLOCK_SIZE
    BY <1>1, TimesMonotone
  <2>3. 1 * BLOCK_SIZE = BLOCK_SIZE
    BY <1>1
  <2> QED BY <2>1, <2>2, <2>3, <1>1 DEF SMALL_FILE
<1>3. CASE size >= s
  <2>1. PICK a \in Nat : a = size - (s - 1)
    BY <1>3
  <2>2. PICK c \in Nat : c = CeilDiv(a, BLOCK_SIZE) /\ a <= c * BLOCK_SIZE
    BY <1>1, CeilRoom
  <2>3. NumBlocks(size) = DIRECT_BLOCK + c
    BY <1>2, <1>3, <2>1, <2>2 DEF NumBlocks
  <2>4. PICK e \in Nat : e = c * BLOCK_SIZE
    BY <1>1, TimesNat
  <2>5. (DIRECT_BLOCK + c) * BLOCK_SIZE = s + e
    BY <1>1, <1>2, <2>4, TimesPlus
  <2>6. size <= s + e
    BY <2>1, <2>2, <2>4
  <2> QED BY <1>1, <1>2, <1>3, <2>3, <2>5, <2>6
<1>4. CASE size < s
  <2>1. PICK c \in Nat : c = CeilDiv(size, BLOCK_SIZE) /\ size <= c * BLOCK_SIZE /\ c <= DIRECT_BLOCK
    <3>1. size <= DIRECT_BLOCK * BLOCK_SIZE
      BY <1>2, <1>4
    <3> QED BY <3>1, <1>1, CeilRoom
  <2>2. NumBlocks(size) = c
    BY <1>2, <1>4, <2>1 DEF NumBlocks
  <2> QED BY <1>1, <1>2, <2>1, <2>2
<1> QED
  BY <1>3, <1>4

\* A piece of a string is a block, and has the string's bytes in their places.
LEMMA PieceBytes ==
  ASSUME NEW str \in Seq(Byte), NEW j \in Nat
  PROVE  /\ Piece(str, j + 1) \in Block
         /\ \A q \in 0 .. Len(str) - 1 :
              q \div BLOCK_SIZE = j => Piece(str, j + 1)[(q % BLOCK_SIZE) + 1] = str[q + 1]
<1>1. BLOCK_SIZE \in Nat \ {0}
  BY FileDataAssumption
<1>0. Len(str) \in Nat
  OBVIOUS
<1>2. PICK c \in Nat : c = j * BLOCK_SIZE /\ c = ((j + 1) - 1) * BLOCK_SIZE
  <2>1. (j + 1) - 1 = j
    OBVIOUS
  <2> QED BY <1>1, <2>1, TimesNat
<1>3. Piece(str, j + 1) = [p \in 1 .. BLOCK_SIZE |-> IF c + p <= Len(str) THEN str[c + p] ELSE Pad]
  BY <1>2 DEF Piece
<1>4. \A p \in 1 .. BLOCK_SIZE : c + p <= Len(str) => str[c + p] \in Byte
  <2> SUFFICES ASSUME NEW p \in 1 .. BLOCK_SIZE, c + p <= Len(str) PROVE str[c + p] \in Byte
    OBVIOUS
  <2>1. c + p \in 1 .. Len(str)
    OBVIOUS
  <2> QED BY <2>1
<1>5. Piece(str, j + 1) \in Block
  BY <1>3, <1>4, PadByte DEF Block
<1>6. ASSUME NEW q \in 0 .. Len(str) - 1, q \div BLOCK_SIZE = j
      PROVE  Piece(str, j + 1)[(q % BLOCK_SIZE) + 1] = str[q + 1]
  <2>0. q \in Nat /\ q + 1 <= Len(str)
    BY <1>0
  <2>1. q % BLOCK_SIZE \in 0 .. BLOCK_SIZE - 1
    BY <1>1, <2>0, DivMod
  <2>2. PICK r \in 0 .. BLOCK_SIZE - 1 : r = q % BLOCK_SIZE
    BY <2>1
  <2>3. q = c + r
    <3>1. q = (q \div BLOCK_SIZE) * BLOCK_SIZE + (q % BLOCK_SIZE)
      BY <1>1, <2>0, DivMod
    <3>2. (q \div BLOCK_SIZE) * BLOCK_SIZE = c
      BY <1>2, <1>6
    <3> QED BY <3>1, <3>2, <2>2
  <2>4. r + 1 \in 1 .. BLOCK_SIZE /\ c + (r + 1) = q + 1
    BY <2>2, <2>3, <1>1
  <2>5. Piece(str, j + 1)[r + 1] = IF c + (r + 1) <= Len(str) THEN str[c + (r + 1)] ELSE Pad
    BY <2>4, <1>3
  <2> QED BY <2>0, <2>2, <2>4, <2>5
<1> QED
  BY <1>5, <1>6

\* Before and after create: n is the new file, bs its blocks.
LEMMA NewFile ==
  ASSUME DataInv, NEW name \in FS!AllNames, NEW size \in Nat, FS!Create(name, size),
         NEW n, n = FS!FirstFreeInode
  PROVE  LET bs == DataBlocks(n)' IN
         /\ P!TidyInv' /\ n \in FS!Inodes /\ n \notin inodeMap /\ inodeMap' = inodeMap \cup {n}
         /\ inode'[n].type = "file"
         /\ \A m \in FS!Inodes : m # n => inode'[m] = inode[m]
         /\ \A b \in blockMap : disk'[b] = disk[b]
         /\ bs \in Seq(FS!Blocks) /\ \A i, j \in 1 .. Len(bs) : bs[i] = bs[j] => i = j
         /\ \A j \in 1 .. Len(bs) : bs[j] \in P!Owned(n)'
         /\ Len(bs) = size \/ (size > DIRECT_BLOCK /\ Len(bs) = DIRECT_BLOCK)
         /\ Sized'
<1>1. P!Create(name, size) /\ FS!Running /\ name \in P!AllNames
  BY SameWords, SameCommands DEF P!Create
<1>2. P!TidyInv /\ P!FSInv
  BY <1>1, RunningTidy DEF DataInv
<1>3. P!TidyInv' /\ P!FSInv'
  <2>1. P!TidyInv'
    BY <1>1, <1>2, PAssumption, P!CreateKeepsTidy
  <2> QED BY <2>1 DEF P!TidyInv
<1>4. PICK a \in P!Inodes :
        P!Made(a, name) /\ inode'[a].type = "file" /\ P!GotBlocks(a, size)'
  BY <1>1, <1>2, PAssumption, P!CreateKeepsInv
<1>5. a = n
  <2>1. inodeMap' = inodeMap \cup {n}
    BY <1>1, SameWords DEF P!Create
  <2>2. inodeMap' = inodeMap \cup {a} /\ a \notin inodeMap
    BY <1>4 DEF P!Made
  <2> QED BY <2>1, <2>2
<1>6. /\ n \in FS!Inodes /\ n \notin inodeMap /\ inodeMap' = inodeMap \cup {n}
      /\ \A m \in FS!Inodes : m # n => inode'[m] = inode[m]
      /\ \A b \in blockMap : disk'[b] = disk[b]
      /\ P!MapIntact(n)'
  BY <1>4, <1>5, SameWords DEF P!Made
<1>7. PICK bs : bs = DataBlocks(n)'
  OBVIOUS
<1>8. PICK d, k : d = Len(inode'[n].direct) /\ k = inode'[n].numIndirect
  OBVIOUS
<1>9. /\ bs \in Seq(FS!Blocks) /\ Len(bs) = d + k /\ k \in Nat
      /\ \A j \in 1 .. Len(bs) : bs[j] \in P!Owned(n)'
      /\ \A i, j \in 1 .. Len(bs) : bs[i] = bs[j] => i = j
  <2>1. n \in inodeMap'
    BY <1>6
  <2> QED BY <2>1, <1>3, <1>6, <1>7, <1>8, BlocksOfNewFile
<1>10. d = (IF size <= DIRECT_BLOCK THEN size ELSE DIRECT_BLOCK) /\ (k = 0 \/ k = size - d)
  BY <1>4, <1>5, <1>8 DEF P!GotBlocks
<1>11. Len(bs) = size \/ (size > DIRECT_BLOCK /\ Len(bs) = DIRECT_BLOCK)
  BY <1>9, <1>10, FileDataAssumption
<1>12. Sized'
  <2>1. d <= DIRECT_BLOCK /\ (k > 0 => d = DIRECT_BLOCK)
    BY <1>9, <1>10, FileDataAssumption
  <2>2. \A m \in FS!Inodes :
          /\ Len(inode'[m].direct) <= DIRECT_BLOCK
          /\ inode'[m].numIndirect > 0 => Len(inode'[m].direct) = DIRECT_BLOCK
    BY <2>1, <1>6, <1>8 DEF DataInv, Sized
  <2>3. FS!Inodes' = FS!Inodes
    BY DEF FS!Inodes
  <2> QED BY <2>2, <2>3 DEF Sized
<1> QED
  BY <1>3, <1>4, <1>5, <1>6, <1>7, <1>9, <1>11, <1>12

\* The new file has room for its contents, and every byte is in its place.
LEMMA NewFileHolds ==
  ASSUME NEW n, NEW str \in Seq(Byte), NEW bs, bs = DataBlocks(n)', bs \in Seq(FS!Blocks),
         \A j \in 1 .. Len(bs) : bytes'[bs[j]] = Piece(str, j),
         NEW c, c = content'[n], c \in Seq(Byte), Len(c) <= Len(str),
         \A i \in 1 .. Len(c) : c[i] = str[i],
         Len(c) <= Len(bs) * BLOCK_SIZE
  PROVE  Holds(n)'
<1>1. Len(c) \in Nat /\ Len(str) \in Nat /\ Len(bs) \in Nat /\ BLOCK_SIZE \in Nat \ {0}
  BY FileDataAssumption
<1>2. ASSUME NEW q \in 0 .. Len(c) - 1 PROVE c[q + 1] = ByteAt(n, q)'
  <2>1. q \in Nat /\ q < Len(bs) * BLOCK_SIZE
    <3>1. Len(bs) * BLOCK_SIZE \in Nat
      BY <1>1, TimesNat
    <3> QED BY <1>1, <3>1
  <2>2. PICK j \in Nat : j = q \div BLOCK_SIZE /\ j < Len(bs)
    BY <1>1, <2>1, DivBelow, DivMod
  <2>3. j + 1 \in 1 .. Len(bs)
    BY <1>1, <2>2
  <2>4. q \in 0 .. Len(str) - 1 /\ q + 1 \in 1 .. Len(c)
    BY <1>1
  <2>5. Piece(str, j + 1)[(q % BLOCK_SIZE) + 1] = str[q + 1]
    BY <2>2, <2>4, PieceBytes
  <2>6. ByteAt(n, q)' = bytes'[bs[j + 1]][(q % BLOCK_SIZE) + 1]
    BY <2>2 DEF ByteAt
  <2> QED BY <2>3, <2>4, <2>5, <2>6
<1>3. Len(content'[n]) <= Len(DataBlocks(n)') * BLOCK_SIZE
  OBVIOUS
<1>4. \A q \in 0 .. Len(content'[n]) - 1 : content'[n][q + 1] = ByteAt(n, q)'
  BY <1>2
<1> QED
  BY <1>3, <1>4 DEF Holds

\* create: the blocks written were free, so no other file changes.
LEMMA CreateKeepsData ==
  ASSUME DataInv, NEW name \in FS!AllNames, NEW str \in Strings(FileSizes), Create(name, str)
  PROVE  DataInv'
<1>1. str \in Seq(Byte) /\ Len(str) \in Nat
  BY StringTypes, FileDataAssumption
<1>2. PICK size : size = NumBlocks(Len(str))
  OBVIOUS
<1>3. /\ size \in Nat /\ Len(str) <= size * BLOCK_SIZE
      /\ size > DIRECT_BLOCK => SMALL_FILE <= Len(str)
      /\ SMALL_FILE \in Nat \ {0} /\ SMALL_FILE = DIRECT_BLOCK * BLOCK_SIZE
  BY <1>1, <1>2, RoomAsked
<1>4. PICK n \in FS!FreeInodes :
        /\ n = FS!FirstFreeInode /\ FS!Create(name, NumBlocks(Len(str))) /\ FillSlots
        /\ LET bs == DataBlocks(n)' IN
           /\ bytes' = [b \in FS!Blocks |-> IF b \in ToSet(bs)
                                            THEN Piece(str, CHOOSE k \in 1 .. Len(bs) : bs[k] = b)
                                            ELSE bytes[b]]
           /\ content' = [content EXCEPT ![n] = IF Len(bs) = NumBlocks(Len(str)) THEN str
                                                ELSE SubSeq(str, 1, SMALL_FILE - 1)]
        /\ late' = late \ {n}
  BY DEF Create
<1>5. PICK bs : bs = DataBlocks(n)'
  OBVIOUS
<1>6. PICK c : c = IF Len(bs) = size THEN str ELSE SubSeq(str, 1, SMALL_FILE - 1)
  OBVIOUS
<1>7. /\ FS!Create(name, size) /\ FillSlots
      /\ bytes' = [b \in FS!Blocks |-> IF b \in ToSet(bs)
                                       THEN Piece(str, CHOOSE k \in 1 .. Len(bs) : bs[k] = b)
                                       ELSE bytes[b]]
      /\ content' = [content EXCEPT ![n] = c] /\ late' = late \ {n}
  BY <1>2, <1>4, <1>5, <1>6
<1>8. /\ P!TidyInv' /\ n \in FS!Inodes /\ n \notin inodeMap /\ inodeMap' = inodeMap \cup {n}
      /\ inode'[n].type = "file"
      /\ \A m \in FS!Inodes : m # n => inode'[m] = inode[m]
      /\ \A b \in blockMap : disk'[b] = disk[b]
      /\ bs \in Seq(FS!Blocks) /\ \A i, j \in 1 .. Len(bs) : bs[i] = bs[j] => i = j
      /\ \A j \in 1 .. Len(bs) : bs[j] \in P!Owned(n)'
      /\ Len(bs) = size \/ (size > DIRECT_BLOCK /\ Len(bs) = DIRECT_BLOCK)
      /\ Sized'
  BY <1>3, <1>4, <1>5, <1>7, NewFile
<1>9. FSState' /\ P!FSInv'
  BY <1>8 DEF FSState, P!TidyInv
<1>10. slot' \in [FS!Inodes -> [Slots -> FS!Blocks]] /\ SlotsMatch'
  BY <1>7, <1>9, FilledSlots
<1>11. ToSet(bs) = {bs[j] : j \in 1 .. Len(bs)}
  BY <1>8 DEF ToSet
<1>12. ASSUME NEW j \in 1 .. Len(bs)
       PROVE  bytes'[bs[j]] = Piece(str, j) /\ bs[j] \in FS!Blocks
  <2>1. bs[j] \in FS!Blocks /\ bs[j] \in ToSet(bs)
    BY <1>8, <1>11
  <2>2. (CHOOSE k \in 1 .. Len(bs) : bs[k] = bs[j]) = j
    BY <1>8
  <2> QED BY <2>1, <2>2, <1>7
<1>13. ASSUME NEW b \in FS!Blocks, b \notin ToSet(bs) PROVE bytes'[b] = bytes[b]
  BY <1>7, <1>13
<1>14. bytes' \in [FS!Blocks -> Block]
  <2>1. ASSUME NEW b \in FS!Blocks PROVE bytes'[b] \in Block
    <3>1. CASE b \in ToSet(bs)
      <4>1. PICK j \in 1 .. Len(bs) : b = bs[j]
        BY <3>1, <1>11
      <4>2. PICK i \in Nat : j = i + 1
        <5>1. j - 1 \in Nat /\ j = (j - 1) + 1
          OBVIOUS
        <5> QED BY <5>1
      <4> QED BY <4>1, <4>2, <1>1, <1>12, PieceBytes
    <3>2. CASE b \notin ToSet(bs)
      BY <3>2, <1>13 DEF DataInv, TypeOK
    <3> QED BY <3>1, <3>2
  <2>2. bytes' = [b \in FS!Blocks |-> bytes'[b]]
    BY <1>7
  <2> QED BY <2>1, <2>2
<1>15. /\ c \in Seq(Byte) /\ Len(c) <= Len(str) /\ \A i \in 1 .. Len(c) : c[i] = str[i]
       /\ Len(c) <= Len(bs) * BLOCK_SIZE
  <2>1. CASE Len(bs) = size
    BY <2>1, <1>1, <1>3, <1>6
  <2>2. CASE Len(bs) # size
    <3>1. size > DIRECT_BLOCK /\ Len(bs) = DIRECT_BLOCK
      BY <2>2, <1>8
    <3>2. PICK l \in Nat : l = SMALL_FILE - 1 /\ l <= Len(str) /\ l <= Len(bs) * BLOCK_SIZE
      BY <3>1, <1>1, <1>3
    <3>3. c = SubSeq(str, 1, l)
      BY <2>2, <3>2, <1>6
    <3>4. c \in Seq(Byte) /\ Len(c) = l /\ \A i \in 1 .. l : c[i] = str[i]
      BY <3>2, <3>3, <1>1
    <3> QED BY <3>2, <3>4
  <2> QED BY <2>1, <2>2
<1>16. content' \in [FS!Inodes -> Seq(Byte)] /\ content'[n] = c
       /\ \A m \in FS!Inodes : m # n => content'[m] = content[m]
  BY <1>7, <1>8, <1>15 DEF DataInv, TypeOK
<1>17. TypeOK'
  <2>1. late' \subseteq FS!Inodes
    BY <1>7 DEF DataInv, TypeOK
  <2> QED BY <2>1, <1>10, <1>14, <1>16 DEF TypeOK, FS!Inodes, FS!Blocks, Slots, Block
<1>18. Holds(n)'
  <2>1. \A j \in 1 .. Len(bs) : bytes'[bs[j]] = Piece(str, j)
    BY <1>12
  <2> QED BY <2>1, <1>1, <1>5, <1>8, <1>15, <1>16, NewFileHolds
<1>19. Held'
  <2> SUFFICES ASSUME Followed', NEW m \in Files' \ late' PROVE Holds(m)'
    BY DEF Held
  <2>1. CASE m = n
    BY <2>1, <1>18
  <2>2. CASE m # n
    <3>1. FS!Running /\ stray' = P!StrayAfter(TRUE)
      BY <1>7, SameCommands, SameWords DEF P!Create
    <3>2. Followed /\ \A a \in inodeMap : P!MapIntact(a)
      BY <3>1, FollowedBefore DEF DataInv
    <3>3. P!FSInv
      BY DEF DataInv, FSState
    <3>4. m \in inodeMap /\ m \in inodeMap' /\ n \in inodeMap'
      BY <2>2, <1>8 DEF Files
    <3>5. m \in FS!Inodes /\ P!Owned(m) \subseteq blockMap /\ P!Owned(m) \subseteq FS!Blocks
      BY <3>3, <3>4, OwnedApart, SameWords DEF P!FSInv, P!Typed, P!TypeOK
    <3>6. inode'[m] = inode[m] /\ content'[m] = content[m] /\ m \in Files /\ m \notin late
      BY <2>2, <3>4, <3>5, <1>7, <1>8, <1>16 DEF Files
    <3>7. \A b \in P!Owned(m) : disk'[b] = disk[b]
      BY <3>5, <1>8
    <3>8. P!Owned(m)' = P!Owned(m)
      BY <3>2, <3>3, <3>4, <3>6, <3>7, SameBlocks
    <3>9. P!Owned(m)' \cap P!Owned(n)' = {}
      BY <2>2, <3>4, <1>9 DEF P!FSInv, P!Ownership
    <3>10. \A b \in P!Owned(m) : b \notin ToSet(bs)
      BY <3>8, <3>9, <1>8, <1>11
    <3>11. Untouched(m)
      BY <3>5, <3>6, <3>7, <3>10, <1>13 DEF Untouched
    <3> QED BY <3>2, <3>6, <3>11, UntouchedHolds
  <2> QED BY <2>1, <2>2
<1> QED
  BY <1>8, <1>9, <1>10, <1>17, <1>19 DEF DataInv

-----------------------------------------------------------------------------
(* write.                                                                  *)

\* A write changes nothing that the file system's invariants are about, but
\* for whether the session is still followed.
LEMMA WriteKeepsFS ==
  ASSUME FSState, FS!Running, wild' \in BOOLEAN, NEW k \in BOOLEAN, stray' = P!StrayAfter(k),
         UNCHANGED <<inodeMap, blockMap, freeInodeCount, freeBlockCount, inode, curDir,
                     curDirBlock, disk>>
  PROVE  FSState'
<1>1. P!TidyInv /\ P!FSInv /\ P!Typed /\ ~wild
  BY RunningTidy
<1>2. P!FSInv'
  <2>1. P!Typed'
    <3>1. stray' \in Nat
      BY <1>1 DEF P!Typed, P!TypeOK, P!StrayAfter
    <3>2. P!Inodes' = P!Inodes /\ P!Blocks' = P!Blocks /\ P!Entries' = P!Entries /\ P!Data' = P!Data
      BY DEF P!Inodes, P!Blocks, P!Entries, P!AllNames, P!Data
    <3> QED BY <1>1, <3>1, <3>2 DEF P!Typed, P!TypeOK
  <2>2. P!Listed'
    BY <1>1 DEF P!Listed, P!FSInv
  <2>3. P!DirsHaveBlock'
    BY <1>1 DEF P!DirsHaveBlock, P!FSInv, P!Inodes
  <2>4. P!CountsMatch'
    BY <1>1 DEF P!CountsMatch, P!FSInv, P!FreeInodes, P!FreeBlocks, P!Inodes, P!Blocks
  <2>5. P!Ownership'
    BY <1>1, PAssumption, P!OverwriteKeepsOwnership DEF P!FSInv
  <2> QED BY <2>1, <2>2, <2>3, <2>4, <2>5 DEF P!FSInv
<1>3. CASE P!Tidy' /\ ~wild'
  <2>1. P!Tidy
    BY <1>1, <1>3, PAssumption, P!TidyBefore
  <2>2. stray' = stray /\ wild' = wild
    <3>1. wild \in BOOLEAN
      BY <1>1 DEF P!Typed, P!TypeOK
    <3> QED BY <2>1, <1>1, <1>3, <3>1 DEF P!Tidy
  <2>3. UNCHANGED P!vars
    BY <2>2 DEF P!vars
  <2>4. P!TidyInv'
    BY <1>1, <1>2, <2>3, PAssumption, P!SameKeepsTidy
  <2> QED BY <2>4 DEF FSState, P!TidyInv
<1>4. CASE ~P!Tidy' \/ wild'
  <2>1. ~wild' => P!TidyTree' /\ P!TidyMaps'
    BY <1>4 DEF P!TidyTree, P!TidyMaps
  <2> QED BY <2>1, <1>2 DEF FSState
<1> QED
  BY <1>3, <1>4

\* The inode that a command finds by a name.
LEMMA FoundInode ==
  ASSUME FSState, FS!Running, NEW name, FS!Exists(name)
  PROVE  /\ FS!Found(name) \in FS!Inodes
         /\ Followed => FS!Found(name) \in inodeMap
<1>1. P!TidyInv /\ P!FSInv /\ P!Exists(name)
  BY RunningTidy, SameWords
<1>2. P!Found(name) \in P!Inodes
  <2>1. curDir \in Seq(P!Entries)
    BY <1>1 DEF P!FSInv, P!Typed, P!TypeOK
  <2> QED BY <1>1, <2>1, PAssumption, P!SlotFound
<1>3. P!Tidy => P!Found(name) \in inodeMap
  BY <1>1, PAssumption, P!DotsLive DEF P!TidyInv
<1> QED
  BY <1>2, <1>3, SameWords DEF Followed

\* The contents expected after a write are bytes, as many as before.
LEMMA ReplacedType ==
  ASSUME TypeOK, NEW n \in FS!Inodes, NEW offset \in Nat, NEW str \in Seq(Byte)
  PROVE  /\ Replaced(n, offset, str) \in Seq(Byte)
         /\ Len(Replaced(n, offset, str)) = Len(content[n])
         /\ \A i \in 1 .. Len(content[n]) :
              Replaced(n, offset, str)[i] = IF i \in offset + 1 .. offset + Len(str)
                                            THEN str[i - offset] ELSE content[n][i]
<1>1. PICK c \in Seq(Byte) : c = content[n]
  BY DEF TypeOK
<1>2. PICK l \in Nat, m \in Nat : l = Len(c) /\ m = Len(str)
  BY <1>1
<1>3. Replaced(n, offset, str) = [k \in 1 .. l |-> IF k \in offset + 1 .. offset + m
                                                    THEN str[k - offset] ELSE c[k]]
  BY <1>1, <1>2 DEF Replaced
<1>4. ASSUME NEW k \in 1 .. l
      PROVE  (IF k \in offset + 1 .. offset + m THEN str[k - offset] ELSE c[k]) \in Byte
  <2>1. CASE k \in offset + 1 .. offset + m
    <3>1. k - offset \in 1 .. Len(str)
      BY <2>1, <1>2
    <3> QED BY <2>1, <3>1
  <2>2. CASE k \notin offset + 1 .. offset + m
    BY <2>2, <1>2
  <2> QED BY <2>1, <2>2
<1> QED
  BY <1>1, <1>2, <1>3, <1>4

\* file_write_helper, which leaves the blocks as they were: the other files
\* keep theirs, and its own is excepted from now on.
LEMMA WriteHelperKeepsData ==
  ASSUME DataInv, NEW name \in FS!AllNames, NEW str \in Strings(WriteSizes),
         NEW offset \in Nat, WriteHelper(name, offset, str)
  PROVE  DataInv'
<1>0. PICK n : n = FS!Found(name)
  OBVIOUS
<1>1. str \in Seq(Byte)
  BY StringTypes, FileDataAssumption
<1>2. /\ FS!Running /\ FS!Exists(name)
      /\ content' = [content EXCEPT ![n] = Replaced(n, offset, str)] /\ late' = late \cup {n}
      /\ wild' = ~HelperFollows(n, offset) /\ stray' = FS!StrayAfter(TRUE)
      /\ UNCHANGED <<inodeMap, blockMap, freeInodeCount, freeBlockCount, inode, curDir,
                     curDirBlock, disk, slot, bytes>>
  BY <1>0 DEF WriteHelper
<1>3. n \in FS!Inodes
  BY <1>0, <1>2, FoundInode DEF DataInv
<1>4. FSState'
  <2>1. wild' \in BOOLEAN
    BY <1>2 DEF HelperFollows
  <2>2. stray' = P!StrayAfter(TRUE)
    BY <1>2, SameWords
  <2> QED BY <1>2, <2>1, <2>2, WriteKeepsFS DEF DataInv
<1>5. TypeOK'
  <2>1. Replaced(n, offset, str) \in Seq(Byte)
    BY <1>1, <1>3, ReplacedType DEF DataInv
  <2>2. content' \in [FS!Inodes -> Seq(Byte)] /\ late' \subseteq FS!Inodes
    BY <2>1, <1>2, <1>3 DEF DataInv, TypeOK
  <2> QED BY <2>2, <1>2 DEF DataInv, TypeOK, FS!Inodes, FS!Blocks, Slots, Block
<1>6. Sized' /\ SlotsMatch'
  BY <1>2 DEF DataInv, Sized, SlotsMatch, FS!Inodes, Slots
<1>7. Held'
  <2> SUFFICES ASSUME Followed', NEW m \in Files' \ late' PROVE Holds(m)'
    BY DEF Held
  <2>1. Followed /\ \A a \in inodeMap : P!MapIntact(a)
    BY <1>2, SameWords, FollowedBefore DEF DataInv
  <2>2. m \in Files /\ m # n /\ m \notin late
    BY <1>2 DEF Files
  <2>3. m \in FS!Inodes
    BY <2>2, SameWords DEF Files, DataInv, FSState, P!FSInv, P!Typed, P!TypeOK
  <2>4. content'[m] = content[m]
    BY <2>2, <2>3, <1>2 DEF DataInv, TypeOK
  <2>5. Untouched(m)
    BY <2>2, <2>4, <1>2 DEF Untouched
  <2> QED BY <2>1, <2>2, <2>5, UntouchedHolds
<1> QED
  BY <1>4, <1>5, <1>6, <1>7 DEF DataInv

\* The largest of the numbers of a block in the array.
LEMMA MaxBelow ==
  ASSUME NEW e \in Nat, NEW T \in SUBSET (0 .. e), T # {}
  PROVE  Max(T) \in T
<1> DEFINE U == {e - x : x \in T}
<1>1. U \in SUBSET Nat /\ U # {}
  <2>1. ASSUME NEW x \in T PROVE e - x \in Nat
    <3>1. x \in 0 .. e
      OBVIOUS
    <3> QED BY <3>1
  <2> QED BY <2>1
<1>2. PICK u \in U : \A v \in U : u <= v
  <2> HIDE DEF U
  <2> QED BY <1>1, PAssumption, P!LeastNumber
<1>3. PICK x \in T : u = e - x
  BY <1>2
<1>4. ASSUME NEW y \in T PROVE x >= y
  <2>1. e - y \in U /\ x \in 0 .. e /\ y \in 0 .. e
    OBVIOUS
  <2>2. e - x <= e - y
    BY <2>1, <1>2, <1>3
  <2> HIDE DEF U
  <2> QED BY <2>1, <2>2
<1> QED
  BY <1>3, <1>4 DEF Max

\* The places in the array, of those in the range of a write, of block b.
PlacesOf(n, offset, size, b) ==
  {j \in startBlockNo(offset) .. endBlockNo(offset, size) : slot[n][j] = b}

\* The range of a write that file_write does itself lies in the array.
LEMMA DirectRange ==
  ASSUME NEW offset \in Nat, NEW size \in Nat, ~ByHelper(offset, size)
  PROVE  /\ startBlockNo(offset) \in Nat /\ endBlockNo(offset, size) \in Nat
         /\ startBlockNo(offset) .. endBlockNo(offset, size) \subseteq Slots
         /\ Slots \subseteq Nat
<1>1. BLOCK_SIZE \in Nat \ {0} /\ DIRECT_BLOCK \in Nat \ {0} /\ offset + size \in Nat
  BY FileDataAssumption
<1>2. PICK s \in Nat, e \in Nat : s = startBlockNo(offset) /\ e = endBlockNo(offset, size)
  BY <1>1, DivMod DEF startBlockNo, endBlockNo
<1>3. ~(e > DIRECT_BLOCK - 1)
  BY <1>2 DEF ByHelper
<1> QED
  BY <1>1, <1>2, <1>3 DEF Slots

\* A block that is written back is a block of bytes, and the same one when it
\* begins where the new bytes end.
LEMMA PatchedBytes ==
  ASSUME TypeOK, NEW n \in FS!Inodes, NEW j \in Slots, j \in Nat,
         NEW offset \in Nat, NEW str \in Seq(Byte)
  PROVE  /\ Patched(n, j, offset, str) \in Block
         /\ offset + Len(str) <= j * BLOCK_SIZE => Patched(n, j, offset, str) = bytes[slot[n][j]]
         /\ \A p \in 1 .. BLOCK_SIZE :
              Patched(n, j, offset, str)[p]
                = IF j * BLOCK_SIZE + p \in offset + 1 .. offset + Len(str)
                  THEN str[j * BLOCK_SIZE + p - offset] ELSE bytes[slot[n][j]][p]
<1>1. PICK c \in Nat : c = j * BLOCK_SIZE
  BY FileDataAssumption, TimesNat
<1>2. PICK x \in [1 .. BLOCK_SIZE -> Byte] : x = bytes[slot[n][j]]
  <2>1. slot[n][j] \in FS!Blocks
    BY DEF TypeOK
  <2> QED BY <2>1 DEF TypeOK, Block
<1>3. PICK l \in Nat : l = Len(str)
  <2>1. Len(str) \in Nat
    OBVIOUS
  <2> QED BY <2>1
<1>4. BLOCK_SIZE \in Nat
  BY FileDataAssumption
<1>5. Patched(n, j, offset, str)
        = [p \in 1 .. BLOCK_SIZE |-> IF c + p \in offset + 1 .. offset + l
                                     THEN str[c + p - offset] ELSE x[p]]
  BY <1>1, <1>2, <1>3 DEF Patched
<1>6. ASSUME NEW p \in 1 .. BLOCK_SIZE, c + p \in offset + 1 .. offset + l
      PROVE  str[c + p - offset] \in Byte
  <2>1. PICK i \in 1 .. Len(str) : i = c + p - offset
    <3>1. c + p - offset \in 1 .. l
      BY <1>6
    <3> QED BY <3>1, <1>3
  <2>2. str[i] \in Byte
    OBVIOUS
  <2> QED BY <2>1, <2>2
<1>7. Patched(n, j, offset, str) \in Block
  BY <1>5, <1>6 DEF Block
<1>8. ASSUME offset + l <= c PROVE Patched(n, j, offset, str) = x
  <2>1. \A p \in 1 .. BLOCK_SIZE : c + p \notin offset + 1 .. offset + l
    BY <1>8, <1>4
  <2> QED BY <2>1, <1>5
<1> QED
  BY <1>1, <1>2, <1>3, <1>5, <1>7, <1>8

\* What file_write does to the blocks, in the array of an inode: those it has
\* in the range are patched, and no other block changes, the leftover one that
\* the range may end with included.
LEMMA WriteEffect ==
  ASSUME TypeOK, NEW n \in FS!Inodes, NEW offset \in Nat, NEW str \in Seq(Byte),
         ~ByHelper(offset, Len(str)), Copes(n, offset, Len(str)),
         Len(inode[n].direct) \in Nat,
         \A b \in FS!Blocks :
           bytes'[b] = IF PlacesOf(n, offset, Len(str), b) = {} THEN bytes[b]
                       ELSE Patched(n, Max(PlacesOf(n, offset, Len(str), b)), offset, str)
  PROVE  LET range == startBlockNo(offset) .. endBlockNo(offset, Len(str))
             d == Len(inode[n].direct) IN
         /\ \A j \in range : bytes'[slot[n][j]] = Patched(n, j, offset, str)
         /\ \A b \in FS!Blocks :
              (\A j \in range : j < d => slot[n][j] # b) => bytes'[b] = bytes[b]
<1>1. Len(str) \in Nat
  OBVIOUS
<1>2. PICK range : range = startBlockNo(offset) .. endBlockNo(offset, Len(str))
  OBVIOUS
<1>3. PICK d : d = Len(inode[n].direct)
  OBVIOUS
<1>4. range \subseteq Slots /\ Slots \subseteq Nat
  BY <1>1, <1>2, DirectRange
<1>5. /\ offset + Len(str) <= d * BLOCK_SIZE
      /\ \A j, k \in range : slot[n][j] = slot[n][k] => j = k
  BY <1>2, <1>3 DEF Copes
<1>6. ASSUME NEW j \in range PROVE bytes'[slot[n][j]] = Patched(n, j, offset, str)
  <2>1. PICK b \in FS!Blocks : b = slot[n][j]
    BY <1>4 DEF TypeOK
  <2>2. PlacesOf(n, offset, Len(str), b) = {j}
    BY <2>1, <1>2, <1>5 DEF PlacesOf
  <2>3. Max({j}) \in {j}
    BY DEF Max
  <2> QED BY <2>1, <2>2, <2>3
<1>7. ASSUME NEW b \in FS!Blocks, \A j \in range : j < d => slot[n][j] # b
      PROVE  bytes'[b] = bytes[b]
  <2>1. CASE \A j \in range : slot[n][j] # b
    <3>1. PlacesOf(n, offset, Len(str), b) = {}
      BY <2>1, <1>2 DEF PlacesOf
    <3> QED BY <3>1
  <2>2. ASSUME NEW j \in range, slot[n][j] = b PROVE bytes'[b] = bytes[b]
    <3>1. ~(j < d)
      BY <2>2, <1>7
    <3>2. d * BLOCK_SIZE <= j * BLOCK_SIZE
      <4>1. j \in Nat /\ BLOCK_SIZE \in Nat
        BY <1>4, FileDataAssumption
      <4> QED BY <4>1, <3>1, <1>3, TimesMonotone
    <3>3. offset + Len(str) <= j * BLOCK_SIZE
      <4>1. PICK x \in Nat, y \in Nat : x = d * BLOCK_SIZE /\ y = j * BLOCK_SIZE
        BY <1>3, <1>4, FileDataAssumption, TimesNat
      <4> QED BY <4>1, <3>2, <1>1, <1>5
    <3>4. Patched(n, j, offset, str) = bytes[slot[n][j]]
      BY <3>3, <1>4, PatchedBytes
    <3> QED BY <3>4, <2>2, <1>6
  <2> QED BY <2>1, <2>2
<1> QED
  BY <1>2, <1>3, <1>6, <1>7

\* A byte of a file in use after a write: it is the new one where the write put
\* one, and the old one everywhere else.
LEMMA WrittenByte ==
  ASSUME DataInv, NEW n \in inodeMap, P!MapIntact(n), UNCHANGED <<inode, disk>>,
         NEW offset \in Nat, NEW str \in Seq(Byte),
         ~ByHelper(offset, Len(str)), Copes(n, offset, Len(str)),
         \A b \in FS!Blocks :
           bytes'[b] = IF PlacesOf(n, offset, Len(str), b) = {} THEN bytes[b]
                       ELSE Patched(n, Max(PlacesOf(n, offset, Len(str), b)), offset, str),
         NEW q \in Nat, q < Len(DataBlocks(n)) * BLOCK_SIZE
  PROVE  ByteAt(n, q)' = IF q + 1 \in offset + 1 .. offset + Len(str)
                         THEN str[q + 1 - offset] ELSE ByteAt(n, q)
<1>0. BLOCK_SIZE \in Nat \ {0}
  BY FileDataAssumption
<1>1. P!FSInv /\ TypeOK /\ SlotsMatch
  BY DEF DataInv, FSState
<1>2. PICK bs, d, l : bs = DataBlocks(n) /\ d = Len(inode[n].direct) /\ l = Len(str)
  OBVIOUS
<1>3. /\ n \in FS!Inodes /\ inode[n].direct \in Seq(FS!Blocks)
      /\ bs \in Seq(FS!Blocks) /\ Len(bs) \in Nat /\ d \in Nat /\ l \in Nat
      /\ \A j \in 1 .. d : bs[j] = inode[n].direct[j]
      /\ \A i, j \in 1 .. Len(bs) : bs[i] = bs[j] => i = j
      /\ d <= Len(bs)
  <2>1. /\ n \in FS!Inodes /\ inode[n].direct \in Seq(FS!Blocks)
        /\ inode[n].numIndirect \in Nat
        /\ bs \in Seq(FS!Blocks) /\ Len(bs) = d + inode[n].numIndirect
        /\ \A j \in 1 .. d : bs[j] = inode[n].direct[j]
        /\ \A i, j \in 1 .. Len(bs) : bs[i] = bs[j] => i = j
    BY <1>1, <1>2, BlocksOfFile
  <2>2. d \in Nat /\ l \in Nat
    BY <2>1, <1>2
  <2>3. PICK k \in Nat : k = inode[n].numIndirect
    BY <2>1
  <2>4. Len(bs) \in Nat /\ d <= Len(bs)
    BY <2>1, <2>2, <2>3
  <2> QED BY <2>1, <2>2, <2>4
<1>4. DataBlocks(n)' = bs
  <2>1. \A b \in P!Owned(n) : disk'[b] = disk[b]
    OBVIOUS
  <2> QED BY <2>1, <1>1, <1>2, SameBlocks
<1>5. PICK range : range = startBlockNo(offset) .. endBlockNo(offset, l)
  OBVIOUS
<1>6. range \subseteq Slots /\ Slots \subseteq Nat
  BY <1>2, <1>3, <1>5, DirectRange
<1>7. /\ \A j \in range : bytes'[slot[n][j]] = Patched(n, j, offset, str)
      /\ \A b \in FS!Blocks : (\A j \in range : j < d => slot[n][j] # b) => bytes'[b] = bytes[b]
  <2>1. Len(inode[n].direct) \in Nat
    BY <1>2, <1>3
  <2>2. /\ \A j \in startBlockNo(offset) .. endBlockNo(offset, Len(str)) :
             bytes'[slot[n][j]] = Patched(n, j, offset, str)
        /\ \A b \in FS!Blocks :
             (\A j \in startBlockNo(offset) .. endBlockNo(offset, Len(str)) :
                j < Len(inode[n].direct) => slot[n][j] # b) => bytes'[b] = bytes[b]
    BY <2>1, <1>1, <1>3, WriteEffect
  <2> QED BY <2>2, <1>2, <1>5
<1>8. PICK j \in Nat, r \in 0 .. BLOCK_SIZE - 1 :
        /\ j = q \div BLOCK_SIZE /\ r = q % BLOCK_SIZE /\ q = j * BLOCK_SIZE + r /\ j < Len(bs)
  <2>1. PICK j \in Nat, r \in 0 .. BLOCK_SIZE - 1 :
          j = q \div BLOCK_SIZE /\ r = q % BLOCK_SIZE /\ q = j * BLOCK_SIZE + r
    BY <1>0, DivMod
  <2>2. j < Len(bs)
    BY <2>1, <1>0, <1>2, <1>3, DivBelow
  <2> QED BY <2>1, <2>2
<1>9. PICK c \in Nat : c = j * BLOCK_SIZE /\ q = c + r
  BY <1>8, FileDataAssumption, TimesNat
<1>10. j + 1 \in 1 .. Len(bs) /\ r + 1 \in 1 .. BLOCK_SIZE /\ c + (r + 1) = q + 1
  BY <1>3, <1>8, <1>9, FileDataAssumption
<1>11. ByteAt(n, q)' = bytes'[bs[j + 1]][r + 1] /\ ByteAt(n, q) = bytes[bs[j + 1]][r + 1]
  BY <1>2, <1>4, <1>8 DEF ByteAt
<1>12. \A i \in range : i < d => slot[n][i] = bs[i + 1] /\ i + 1 \in 1 .. Len(bs)
  <2> SUFFICES ASSUME NEW i \in range, i < d
               PROVE  slot[n][i] = bs[i + 1] /\ i + 1 \in 1 .. Len(bs)
    OBVIOUS
  <2>1. i \in Nat /\ i \in Slots /\ i + 1 \in 1 .. d
    BY <1>3, <1>6
  <2> QED BY <2>1, <1>1, <1>2, <1>3 DEF SlotsMatch
<1>13. CASE j \in range /\ j < d
  <2>1. slot[n][j] = bs[j + 1]
    BY <1>12, <1>13
  <2>2. bytes'[bs[j + 1]] = Patched(n, j, offset, str)
    BY <2>1, <1>7, <1>13
  <2>3. j \in Slots
    BY <1>6, <1>13
  <2>4. PICK p \in 1 .. BLOCK_SIZE : p = r + 1
    BY <1>10
  <2>5. Patched(n, j, offset, str)[p]
          = IF j * BLOCK_SIZE + p \in offset + 1 .. offset + Len(str)
            THEN str[j * BLOCK_SIZE + p - offset] ELSE bytes[slot[n][j]][p]
    BY <2>3, <1>1, <1>3, PatchedBytes
  <2>6. j * BLOCK_SIZE + p = q + 1
    BY <2>4, <1>9, <1>10
  <2>7. Patched(n, j, offset, str)[p]
          = IF q + 1 \in offset + 1 .. offset + Len(str)
            THEN str[q + 1 - offset] ELSE bytes[slot[n][j]][p]
    <3>1. PICK z \in Int : z = j * BLOCK_SIZE + p /\ z = q + 1
      BY <2>6
    <3>2. Patched(n, j, offset, str)[p]
            = IF z \in offset + 1 .. offset + Len(str) THEN str[z - offset]
              ELSE bytes[slot[n][j]][p]
      BY <2>5, <3>1, <1>0
    <3> QED BY <3>1, <3>2
  <2>8. ByteAt(n, q)' = Patched(n, j, offset, str)[p] /\ ByteAt(n, q) = bytes[slot[n][j]][p]
    BY <2>1, <2>2, <2>4, <1>11
  <2> QED BY <2>7, <2>8
<1>14. CASE ~(j \in range /\ j < d)
  <2>1. bytes'[bs[j + 1]] = bytes[bs[j + 1]]
    <3>1. \A i \in range : i < d => slot[n][i] # bs[j + 1]
      <4> SUFFICES ASSUME NEW i \in range, i < d, slot[n][i] = bs[j + 1] PROVE FALSE
        OBVIOUS
      <4>1. bs[i + 1] = bs[j + 1] /\ i + 1 \in 1 .. Len(bs) /\ i \in Nat
        BY <1>6, <1>12
      <4>2. i + 1 = j + 1
        BY <4>1, <1>3, <1>10
      <4>3. i = j
        BY <4>1, <4>2
      <4> QED BY <4>3, <1>14
    <3>2. bs[j + 1] \in FS!Blocks
      BY <1>3, <1>10
    <3> QED BY <3>1, <3>2, <1>7
  <2>2. q + 1 \notin offset + 1 .. offset + l
    <3> SUFFICES ASSUME q >= offset, q < offset + l PROVE FALSE
      BY <1>3
    <3>1. q < d * BLOCK_SIZE
      <4>1. PICK e \in Nat : e = d * BLOCK_SIZE
        BY <1>3, FileDataAssumption, TimesNat
      <4>2. offset + l <= e
        BY <4>1, <1>2 DEF Copes
      <4> QED BY <4>1, <4>2, <1>3
    <3>2. j < d
      BY <3>1, <1>3, <1>8, FileDataAssumption, DivBelow
    <3>3. j \in range
      <4>1. startBlockNo(offset) \in Nat /\ endBlockNo(offset, l) \in Nat
        BY <1>2, <1>3, DirectRange
      <4>2. startBlockNo(offset) <= j
        <5>1. ~(j < startBlockNo(offset))
          <6> SUFFICES ASSUME j < startBlockNo(offset) PROVE FALSE
            OBVIOUS
          <6>1. PICK s \in Nat, t \in 0 .. BLOCK_SIZE - 1 :
                  s = startBlockNo(offset) /\ offset = s * BLOCK_SIZE + t
            BY <1>0, DivMod DEF startBlockNo
          <6>2. PICK f \in Nat : f = s * BLOCK_SIZE /\ offset = f + t
            BY <6>1, FileDataAssumption, TimesNat
          <6>3. q < f
            BY <6>1, <6>2, <1>8, FileDataAssumption, DivBelow
          <6> QED BY <6>2, <6>3
        <5> QED BY <5>1, <4>1
      <4>3. j <= endBlockNo(offset, l)
        <5>1. PICK e \in Nat, t \in 0 .. BLOCK_SIZE - 1 :
                e = endBlockNo(offset, l) /\ offset + l = e * BLOCK_SIZE + t
          <6>1. offset + l \in Nat
            BY <1>3
          <6> QED BY <6>1, <1>0, DivMod DEF endBlockNo
        <5>2. (e + 1) * BLOCK_SIZE = e * BLOCK_SIZE + BLOCK_SIZE
          BY FileDataAssumption, TimesNext
        <5>3. PICK f \in Nat : f = e * BLOCK_SIZE /\ (e + 1) * BLOCK_SIZE = f + BLOCK_SIZE
          BY <5>2, FileDataAssumption, TimesNat
        <5>4. q < f + BLOCK_SIZE
          <6>1. q \in Nat /\ f \in Nat /\ BLOCK_SIZE \in Nat /\ q < f + t
            BY <5>1, <5>3, <1>0
          <6> QED BY <6>1, <5>1
        <5>5. q < (e + 1) * BLOCK_SIZE
          BY <5>3, <5>4
        <5>6. PICK g \in Nat : g = e + 1
          OBVIOUS
        <5>7. j < g
          BY <5>5, <5>6, <1>8, FileDataAssumption, DivBelow
        <5> QED BY <5>1, <5>6, <5>7
      <4> QED BY <4>1, <4>2, <4>3, <1>5
    <3> QED BY <3>2, <3>3, <1>14
  <2> QED BY <2>1, <2>2, <1>2, <1>11
<1> QED
  BY <1>13, <1>14

\* file_write within the direct blocks: the new bytes replace the old ones of
\* the file, and no byte of another file changes.
LEMMA WriteDirectKeepsData ==
  ASSUME DataInv, NEW name \in FS!AllNames, NEW str \in Strings(WriteSizes),
         NEW offset \in Nat, WriteDirect(name, offset, str)
  PROVE  DataInv'
<1>0. PICK n : n = FS!Found(name)
  OBVIOUS
<1>1. str \in Seq(Byte) /\ Len(str) \in Nat
  BY StringTypes, FileDataAssumption
<1>2. /\ FS!Running /\ FS!Exists(name) /\ ~ByHelper(offset, Len(str))
      /\ bytes' = [b \in FS!Blocks |->
                     IF PlacesOf(n, offset, Len(str), b) = {} THEN bytes[b]
                     ELSE Patched(n, Max(PlacesOf(n, offset, Len(str), b)), offset, str)]
      /\ content' = [content EXCEPT ![n] = Replaced(n, offset, str)]
      /\ stray' = FS!StrayAfter(Copes(n, offset, Len(str))) /\ wild' \in BOOLEAN
      /\ UNCHANGED <<inodeMap, blockMap, freeInodeCount, freeBlockCount, inode, curDir,
                     curDirBlock, disk, slot, late>>
  BY <1>0 DEF WriteDirect, PlacesOf
<1>3. n \in FS!Inodes /\ (Followed => n \in inodeMap)
  BY <1>0, <1>2, FoundInode DEF DataInv
<1>4. PICK k \in BOOLEAN : k = Copes(n, offset, Len(str))
  <2>1. Copes(n, offset, Len(str)) \in BOOLEAN
    BY DEF Copes
  <2> QED BY <2>1
<1>5. stray' = P!StrayAfter(k)
  BY <1>2, <1>4, SameWords
<1>6. FSState'
  BY <1>2, <1>5, WriteKeepsFS DEF DataInv
<1>7. /\ Replaced(n, offset, str) \in Seq(Byte)
      /\ Len(Replaced(n, offset, str)) = Len(content[n])
      /\ \A i \in 1 .. Len(content[n]) :
           Replaced(n, offset, str)[i] = IF i \in offset + 1 .. offset + Len(str)
                                         THEN str[i - offset] ELSE content[n][i]
  BY <1>1, <1>3, ReplacedType DEF DataInv
<1>8. /\ content' \in [FS!Inodes -> Seq(Byte)] /\ content'[n] = Replaced(n, offset, str)
      /\ \A m \in FS!Inodes : m # n => content'[m] = content[m]
  BY <1>2, <1>3, <1>7 DEF DataInv, TypeOK
<1>9. bytes' \in [FS!Blocks -> Block]
  <2>1. ASSUME NEW b \in FS!Blocks PROVE bytes'[b] \in Block
    <3>1. PICK T : T = PlacesOf(n, offset, Len(str), b)
      OBVIOUS
    <3>2. CASE T = {}
      <4>1. bytes'[b] = bytes[b]
        BY <3>1, <3>2, <1>2
      <4> QED BY <4>1 DEF DataInv, TypeOK
    <3>3. CASE T # {}
      <4>1. T \subseteq Slots /\ Slots \subseteq Nat
        BY <3>1, <1>1, <1>2, DirectRange DEF PlacesOf
      <4>2. PICK e \in Nat : Slots = 0 .. e
        <5>1. DIRECT_BLOCK - 1 \in Nat
          BY FileDataAssumption
        <5> QED BY <5>1 DEF Slots
      <4>3. PICK j \in T : j = Max(T)
        BY <4>1, <4>2, <3>3, MaxBelow
      <4>4. bytes'[b] = Patched(n, j, offset, str)
        BY <4>3, <3>1, <3>3, <1>2
      <4>5. j \in Slots /\ j \in Nat
        BY <4>1
      <4>6. Patched(n, j, offset, str) \in Block
        BY <4>5, <1>1, <1>3, PatchedBytes DEF DataInv
      <4> QED BY <4>4, <4>6
    <3> QED BY <3>2, <3>3
  <2>2. bytes' = [b \in FS!Blocks |-> bytes'[b]]
    BY <1>2
  <2> QED BY <2>1, <2>2
<1>10. TypeOK'
  BY <1>2, <1>8, <1>9 DEF DataInv, TypeOK, FS!Inodes, FS!Blocks, Slots, Block
<1>11. Sized' /\ SlotsMatch'
  BY <1>2 DEF DataInv, Sized, SlotsMatch, FS!Inodes, Slots
<1>12. Held'
  <2> SUFFICES ASSUME Followed', NEW m \in Files' \ late' PROVE Holds(m)'
    BY DEF Held
  <2>1. Followed /\ k /\ \A a \in inodeMap : P!MapIntact(a)
    BY <1>2, <1>5, FollowedBefore DEF DataInv
  <2>2. P!FSInv /\ TypeOK /\ SlotsMatch
    BY DEF DataInv, FSState
  <2>3. m \in Files /\ m \in inodeMap /\ m \notin late /\ n \in inodeMap
    BY <2>1, <1>2, <1>3 DEF Files
  <2>4. Copes(n, offset, Len(str)) /\ Holds(m)
    BY <2>1, <2>3, <1>4 DEF DataInv, Held
  <2>5. \A b \in FS!Blocks :
          bytes'[b] = IF PlacesOf(n, offset, Len(str), b) = {} THEN bytes[b]
                      ELSE Patched(n, Max(PlacesOf(n, offset, Len(str), b)), offset, str)
    BY <1>2
  <2>6. CASE m # n
    <3>1. m \in FS!Inodes /\ content'[m] = content[m]
      <4>1. m \in FS!Inodes
        BY <2>1, <2>2, <2>3, BlocksOfFile
      <4> QED BY <4>1, <2>6, <1>8
    <3>2. ASSUME NEW b \in P!Owned(m) PROVE bytes'[b] = bytes[b]
      <4>1. b \in FS!Blocks /\ b \notin P!Owned(n)
        BY <2>2, <2>3, <2>6, OwnedApart, SameWords DEF P!FSInv, P!Typed, P!TypeOK
      <4>2. inode[n].direct \in Seq(FS!Blocks) /\ Len(inode[n].direct) \in Nat
        <5>1. inode[n].direct \in Seq(FS!Blocks)
          BY <2>1, <2>2, <2>3, BlocksOfFile
        <5> QED BY <5>1
      <4>3. /\ startBlockNo(offset) .. endBlockNo(offset, Len(str)) \subseteq Slots
            /\ Slots \subseteq Nat
        BY <1>1, <1>2, DirectRange
      <4>4. ASSUME NEW j \in startBlockNo(offset) .. endBlockNo(offset, Len(str)),
                   j < Len(inode[n].direct)
            PROVE  slot[n][j] # b
        <5>1. slot[n][j] = inode[n].direct[j + 1] /\ j + 1 \in 1 .. Len(inode[n].direct)
          BY <4>2, <4>3, <4>4, <2>2, <1>3 DEF SlotsMatch
        <5>2. slot[n][j] \in P!Owned(n)
          BY <5>1, <4>2 DEF P!Owned, P!Direct
        <5> QED BY <5>2, <4>1
      <4>5. \A x \in FS!Blocks :
              (\A j \in startBlockNo(offset) .. endBlockNo(offset, Len(str)) :
                 j < Len(inode[n].direct) => slot[n][j] # x) => bytes'[x] = bytes[x]
        BY <4>2, <2>2, <2>4, <2>5, <1>1, <1>2, <1>3, WriteEffect
      <4> QED BY <4>1, <4>4, <4>5
    <3>3. Untouched(m)
      BY <3>1, <3>2, <2>3, <1>2 DEF Untouched
    <3> QED BY <3>3, <2>1, <2>3, UntouchedHolds
  <2>7. CASE m = n
    <3>1. PICK bs, c : bs = DataBlocks(n) /\ c = content[n]
      OBVIOUS
    <3>2. bs = DataBlocks(n)'
      <4>1. \A b \in P!Owned(n) : disk'[b] = disk[b]
        BY <1>2
      <4> QED BY <4>1, <3>1, <2>1, <2>2, <2>3, <1>2, SameBlocks
    <3>3. Len(bs) \in Nat /\ c \in Seq(Byte) /\ Len(c) \in Nat
      <4>1. bs \in Seq(FS!Blocks)
        BY <3>1, <2>1, <2>2, <2>3, BlocksOfFile
      <4>2. c \in Seq(Byte)
        BY <3>1, <2>2, <1>3 DEF TypeOK
      <4> QED BY <4>1, <4>2
    <3>4. Len(c) <= Len(bs) * BLOCK_SIZE /\ \A q \in 0 .. Len(c) - 1 : c[q + 1] = ByteAt(n, q)
      BY <3>1, <2>4, <2>7 DEF Holds
    <3>5. Len(content'[n]) = Len(c)
      BY <3>1, <1>7, <1>8
    <3>6. ASSUME NEW q \in 0 .. Len(c) - 1 PROVE content'[n][q + 1] = ByteAt(n, q)'
      <4>1. q \in Nat /\ q < Len(bs) * BLOCK_SIZE /\ q + 1 \in 1 .. Len(c)
        <5>1. Len(bs) * BLOCK_SIZE \in Nat
          BY <3>3, FileDataAssumption, TimesNat
        <5> QED BY <5>1, <3>3, <3>4
      <4>2. ByteAt(n, q)' = IF q + 1 \in offset + 1 .. offset + Len(str)
                            THEN str[q + 1 - offset] ELSE ByteAt(n, q)
        BY <4>1, <3>1, <2>1, <2>3, <2>4, <2>5, <1>1, <1>2, WrittenByte
      <4>3. content'[n][q + 1] = IF q + 1 \in offset + 1 .. offset + Len(str)
                                 THEN str[q + 1 - offset] ELSE c[q + 1]
        BY <4>1, <3>1, <1>7, <1>8
      <4> QED BY <4>2, <4>3, <3>4
    <3>7. Holds(n)'
      BY <3>2, <3>4, <3>5, <3>6 DEF Holds
    <3> QED BY <3>7, <2>7
  <2> QED BY <2>6, <2>7
<1> QED
  BY <1>6, <1>10, <1>11, <1>12 DEF DataInv

-----------------------------------------------------------------------------
(* The theorems about FileData.                                            *)

\* The initial state: no file yet.
LEMMA InitData == ASSUME Init PROVE DataInv
<1>1. P!TidyInv /\ P!FSInv
  <2>1. P!Init
    BY SameCommands DEF Init
  <2>2. P!TidyInv
    BY <2>1, PAssumption, P!InitTidy
  <2> QED BY <2>2 DEF P!TidyInv
<1>2. FSState
  BY <1>1 DEF FSState, P!TidyInv
<1>3. /\ inodeMap = {0} /\ inode[0].direct = <<SystemBlocks>>
      /\ \A n \in FS!Inodes : /\ n # 0 => inode[n].direct = <<>>
                              /\ inode[n].numIndirect = 0
      /\ inode[0].type = "directory"
  BY FileDataAssumption DEF Init, FS!Init, FS!Inodes
<1>4. 0 \in FS!Inodes /\ SystemBlocks \in FS!Blocks /\ 0 \in FS!Blocks /\ 0 \in Byte
  BY FileDataAssumption DEF FS!Inodes, FS!Blocks
<1>5. TypeOK
  <2>1. slot \in [FS!Inodes -> [Slots -> FS!Blocks]]
    BY <1>4 DEF Init
  <2>2. bytes \in [FS!Blocks -> Block]
    BY <1>4 DEF Init, Block, Pad
  <2>3. content \in [FS!Inodes -> Seq(Byte)]
    <3>1. <<>> \in Seq(Byte)
      OBVIOUS
    <3>2. PICK e : e = <<>>
      OBVIOUS
    <3> QED BY <3>1, <3>2 DEF Init
  <2> QED BY <2>1, <2>2, <2>3 DEF Init, TypeOK
<1>6. Sized
  <2> SUFFICES ASSUME NEW n \in FS!Inodes
               PROVE  Len(inode[n].direct) <= DIRECT_BLOCK /\ ~(inode[n].numIndirect > 0)
    BY DEF Sized
  <2>1. CASE n = 0
    BY <2>1, <1>3, FileDataAssumption
  <2>2. CASE n # 0
    <3>1. inode[n].direct = <<>> /\ inode[n].numIndirect = 0
      BY <2>2, <1>3
    <3> QED BY <3>1, FileDataAssumption
  <2> QED BY <2>1, <2>2
<1>7. SlotsMatch
  <2> SUFFICES ASSUME NEW n \in FS!Inodes, NEW k \in Slots, k < Len(inode[n].direct)
               PROVE  slot[n][k] = inode[n].direct[k + 1]
    BY DEF SlotsMatch
  <2>1. k \in Nat
    BY FileDataAssumption DEF Slots
  <2>2. n = 0 /\ k = 0
    <3>1. CASE n = 0
      BY <3>1, <2>1, <1>3
    <3>2. CASE n # 0
      <4>1. inode[n].direct = <<>>
        BY <3>2, <1>3
      <4> QED BY <4>1, <2>1
    <3> QED BY <3>1, <3>2
  <2> QED BY <2>2, <1>3, <1>4 DEF Init
<1>8. Held
  BY <1>3 DEF Held, Files
<1> QED
  BY <1>2, <1>5, <1>6, <1>7, <1>8 DEF DataInv

\* The places that the model gives to a write.
LEMMA OffsetsNat == Offsets \subseteq Nat
<1>1. (DIRECT_BLOCK + 1) * BLOCK_SIZE \in Nat
  BY FileDataAssumption, TimesNat
<1> QED
  BY <1>1 DEF Offsets

\* Every command keeps the invariant.
LEMMA NextKeepsData == ASSUME DataInv, [Next]_vars PROVE DataInv'
<1>1. CASE UNCHANGED vars
  <2>1. UNCHANGED <<inodeMap, blockMap, freeInodeCount, freeBlockCount, inode, curDir,
                    curDirBlock, disk, wild, stray, slot, bytes, content, late>>
    BY <1>1 DEF vars, fsVars
  <2>2. FSState'
    <3>1. P!FSInv'
      BY <2>1, PAssumption, P!NextKeepsInv DEF DataInv, FSState, P!vars
    <3>2. CASE wild
      BY <3>1, <3>2, <2>1 DEF FSState
    <3>3. CASE ~wild
      <4>1. P!TidyInv
        BY <3>3 DEF DataInv, FSState, P!TidyInv
      <4>2. P!TidyInv'
        BY <3>1, <4>1, <2>1, PAssumption, P!SameKeepsTidy DEF P!vars
      <4> QED BY <4>2 DEF FSState, P!TidyInv
    <3> QED BY <3>2, <3>3
  <2>3. TypeOK' /\ Sized' /\ SlotsMatch'
    BY <2>1 DEF DataInv, TypeOK, Sized, SlotsMatch, FS!Inodes, FS!Blocks, Slots, Block
  <2>4. Held'
    <3>1. Followed' <=> Followed
      BY <2>1 DEF Followed, FS!Tidy
    <3>2. \A n : DataBlocks(n)' = DataBlocks(n)
      BY <2>1 DEF DataBlocks, FS!MapIntact, FS!Blocks
    <3>3. \A n : Holds(n)' <=> Holds(n)
      BY <2>1, <3>2 DEF Holds, ByteAt
    <3>4. Files' = Files
      BY <2>1 DEF Files
    <3> QED BY <2>1, <3>1, <3>3, <3>4 DEF DataInv, Held
  <2> QED BY <2>2, <2>3, <2>4 DEF DataInv
<1>2. ASSUME NEW name \in FS!AllNames, NEW str \in Strings(FileSizes), Create(name, str)
      PROVE  DataInv'
  BY <1>2, CreateKeepsData
<1>3. ASSUME NEW name \in FS!AllNames, RemoveFile(name) PROVE DataInv'
  BY <1>3, RemoveFileKeepsData
<1>4. ASSUME NEW name \in FS!AllNames, NEW str \in Strings(WriteSizes), NEW offset \in Offsets,
             WriteDirect(name, offset, str) \/ WriteHelper(name, offset, str)
      PROVE  DataInv'
  <2>1. offset \in Nat
    BY OffsetsNat
  <2> QED BY <2>1, <1>4, WriteDirectKeepsData, WriteHelperKeepsData
<1>5. CASE Other
  BY <1>5, MakeDirKeepsData, RemoveDirKeepsData, ChangeDirKeepsData, RemountKeepsData DEF Other
<1>6. CASE Lost
  BY <1>1, <1>6 DEF Lost
<1> QED
  BY <1>1, <1>2, <1>3, <1>4, <1>5, <1>6 DEF Next

\* In every state of a session the file system's invariants hold, the numbers in
\* the arrays of the inodes begin with those of the files' blocks, and every file
\* has, byte by byte, what create and write put there.
THEOREM DataInvAlways == Spec => []DataInv
<1>1. Init => DataInv
  BY InitData
<1>2. DataInv /\ [Next]_vars => DataInv'
  BY NextKeepsData
<1> QED
  BY <1>1, <1>2, PTL DEF Spec

\* The arrays of the inodes always hold numbers of blocks, and blocks hold bytes.
THEOREM TypesKept == Spec => []TypeOK
<1>1. DataInv => TypeOK
  BY DEF DataInv
<1> QED
  BY <1>1, DataInvAlways, PTL

\* What the blocks of a file in use are, in a session that is still followed.
LEMMA FollowedFile ==
  ASSUME DataInv, Followed, NEW n \in Files
  PROVE  /\ n \in FS!Inodes /\ P!MapIntact(n) /\ P!FSInv /\ n \in inodeMap
         /\ DataBlocks(n) \in Seq(FS!Blocks) /\ Len(DataBlocks(n)) \in Nat
         /\ content[n] \in Seq(Byte) /\ Len(content[n]) \in Nat
<1>1. P!FSInv /\ n \in inodeMap /\ P!MapIntact(n)
  BY SameWords DEF DataInv, FSState, Followed, Files, P!TidyMaps
<1>2. n \in FS!Inodes /\ DataBlocks(n) \in Seq(FS!Blocks)
  BY <1>1, BlocksOfFile
<1>3. content[n] \in Seq(Byte)
  BY <1>2 DEF DataInv, TypeOK
<1>4. Len(DataBlocks(n)) \in Nat /\ Len(content[n]) \in Nat
  BY <1>2, <1>3
<1> QED
  BY <1>1, <1>2, <1>3, <1>4

\* s is what the k blocks numbered x give, read into a buffer of m bytes.
BufferFrom(k, x, s, m) ==
  /\ x \in [1 .. k -> FS!Blocks] /\ s = [j \in 1 .. k |-> bytes[x[j]]]
  /\ m = k * BLOCK_SIZE

\* In it the bytes have the places that At gives.
LEMMA BufferOf ==
  ASSUME TypeOK, NEW k \in Nat, NEW x, NEW s, NEW m \in Nat, BufferFrom(k, x, s, m)
  PROVE  /\ \A q \in 1 .. m : FlattenSeq(s)[q] = At(s, BLOCK_SIZE, q)
         /\ FlattenSeq(s) \in Seq(Byte) /\ Len(FlattenSeq(s)) = m
<1>1. /\ x \in [1 .. k -> FS!Blocks] /\ s = [j \in 1 .. k |-> bytes[x[j]]]
      /\ m = k * BLOCK_SIZE
  BY DEF BufferFrom
<1>2. s \in Seq([1 .. BLOCK_SIZE -> Byte]) /\ Len(s) = k
  <2>1. \A j \in 1 .. k : bytes[x[j]] \in [1 .. BLOCK_SIZE -> Byte]
    BY <1>1 DEF TypeOK, Block
  <2> QED BY <2>1, <1>1
<1>3. BLOCK_SIZE \in Nat \ {0} /\ k * BLOCK_SIZE \in Nat
  BY FileDataAssumption, TimesNat
<1>4. FlattenSeq(s) = Joined(s, BLOCK_SIZE, k)
  BY <1>2, <1>3, FlattenBlocks
<1>5. Joined(s, BLOCK_SIZE, k) = [q \in 1 .. k * BLOCK_SIZE |-> At(s, BLOCK_SIZE, q)]
  BY DEF Joined
<1>6. \A q \in 1 .. k * BLOCK_SIZE : At(s, BLOCK_SIZE, q) \in Byte
  <2> SUFFICES ASSUME NEW q \in 1 .. k * BLOCK_SIZE PROVE At(s, BLOCK_SIZE, q) \in Byte
    OBVIOUS
  <2>1. PICK a \in Nat : a = q - 1 /\ a < k * BLOCK_SIZE
    BY <1>3
  <2>2. PICK j \in Nat, r \in 0 .. BLOCK_SIZE - 1 :
          j = a \div BLOCK_SIZE /\ r = a % BLOCK_SIZE
    BY <2>1, <1>3, DivMod
  <2>3. j < k
    BY <2>1, <2>2, <1>3, DivBelow
  <2>4. j + 1 \in 1 .. k /\ r + 1 \in 1 .. BLOCK_SIZE
    BY <2>2, <2>3, <1>3
  <2>5. At(s, BLOCK_SIZE, q) = s[j + 1][r + 1]
    BY <2>1, <2>2 DEF At
  <2>6. s[j + 1] \in [1 .. BLOCK_SIZE -> Byte]
    BY <2>4, <1>2
  <2> QED BY <2>4, <2>5, <2>6
<1>7. FlattenSeq(s) = [q \in 1 .. m |-> At(s, BLOCK_SIZE, q)]
  BY <1>1, <1>4, <1>5
<1>8. \A q \in 1 .. m : At(s, BLOCK_SIZE, q) \in Byte
  BY <1>1, <1>6
<1>9. FlattenSeq(s) \in [1 .. m -> Byte]
  BY <1>7, <1>8
<1>10. \A g \in [1 .. m -> Byte] : g \in Seq(Byte) /\ Len(g) = m
  OBVIOUS
<1> QED
  BY <1>7, <1>9, <1>10

\* The l bytes of s after o are those of c after p.
Agree(s, o, c, p, l) == \A y \in 1 .. l : s[o + y] = c[p + y]

\* Buffers that agree in a part have the same part there.
LEMMA PartOf ==
  ASSUME NEW s \in Seq(Byte), NEW o \in Nat, NEW l \in Nat, o + l <= Len(s),
         NEW c \in Seq(Byte), NEW p \in Nat, p + l <= Len(c),
         Agree(s, o, c, p, l)
  PROVE  SubSeq(s, o + 1, o + l) = SubSeq(c, p + 1, p + l)
<1>1. SubSeq(s, o + 1, o + l) = [y \in 1 .. l |-> s[o + y]]
  OBVIOUS
<1>2. SubSeq(c, p + 1, p + l) = [y \in 1 .. l |-> c[p + y]]
  OBVIOUS
<1> QED
  BY <1>1, <1>2 DEF Agree

\* cat of a file that holds its contents.
LEMMA FileShows ==
  ASSUME DataInv, Followed, NEW n \in Files \ late
  PROVE  Shows(n)
<1>1. /\ DataBlocks(n) \in Seq(FS!Blocks) /\ Len(DataBlocks(n)) \in Nat
      /\ content[n] \in Seq(Byte) /\ Len(content[n]) \in Nat
      /\ Holds(n) /\ TypeOK /\ BLOCK_SIZE \in Nat \ {0}
  BY FollowedFile, FileDataAssumption DEF DataInv, Held
<1>2. PICK bs \in Seq(FS!Blocks), k \in Nat : bs = DataBlocks(n) /\ k = Len(bs)
  BY <1>1
<1>3. PICK c \in Seq(Byte), l \in Nat : c = content[n] /\ l = Len(c)
  BY <1>1
<1>4. PICK x : x = [j \in 1 .. k |-> bs[j]]
  OBVIOUS
<1>5. x \in [1 .. k -> FS!Blocks] /\ \A j \in 1 .. k : x[j] = bs[j]
  BY <1>2, <1>4
<1>6. PICK s : s = [j \in 1 .. k |-> bytes[x[j]]]
  OBVIOUS
<1>7. PICK m \in Nat : m = k * BLOCK_SIZE
  BY <1>1, TimesNat
<1>8. /\ \A q \in 1 .. m : FlattenSeq(s)[q] = At(s, BLOCK_SIZE, q)
      /\ FlattenSeq(s) \in Seq(Byte) /\ Len(FlattenSeq(s)) = m
  <2>1. BufferFrom(k, x, s, m)
    BY <1>5, <1>6, <1>7 DEF BufferFrom
  <2> QED BY <2>1, <1>1, BufferOf
<1>9. FileCat(n) = FlattenSeq(s)
  <2>1. [j \in 1 .. k |-> bytes[bs[j]]] = s
    BY <1>5, <1>6
  <2> QED BY <2>1, <1>2 DEF FileCat
<1>10. l <= m /\ \A q \in 0 .. l - 1 : c[q + 1] = ByteAt(n, q)
  BY <1>1, <1>2, <1>3, <1>7 DEF Holds
<1>11. ASSUME NEW y \in 1 .. l PROVE FlattenSeq(s)[0 + y] = c[0 + y]
  <2>1. PICK q \in 0 .. l - 1 : y = q + 1
    <3>1. y - 1 \in 0 .. l - 1 /\ y = (y - 1) + 1
      OBVIOUS
    <3> QED BY <3>1
  <2>2. q \in Nat /\ q < m /\ y \in 1 .. m /\ y - 1 = q /\ 0 + y = y
    BY <2>1, <1>10
  <2>3. PICK j \in Nat, r \in 0 .. BLOCK_SIZE - 1 : j = q \div BLOCK_SIZE /\ r = q % BLOCK_SIZE
    BY <2>2, <1>1, DivMod
  <2>4. j < k
    BY <2>2, <2>3, <1>1, <1>7, DivBelow
  <2>5. s[j + 1] = bytes[bs[j + 1]]
    <3>1. j + 1 \in 1 .. k
      BY <2>4
    <3> QED BY <3>1, <1>5, <1>6
  <2>6. At(s, BLOCK_SIZE, y) = s[j + 1][r + 1]
    BY <2>2, <2>3 DEF At
  <2>7. ByteAt(n, q) = bytes[bs[j + 1]][r + 1]
    BY <2>3, <1>2 DEF ByteAt
  <2>8. FlattenSeq(s)[y] = At(s, BLOCK_SIZE, y)
    BY <2>2, <1>8
  <2>9. c[y] = ByteAt(n, q)
    BY <2>1, <1>10
  <2> QED BY <2>2, <2>5, <2>6, <2>7, <2>8, <2>9
<1>12. SubSeq(FlattenSeq(s), 0 + 1, 0 + l) = SubSeq(c, 0 + 1, 0 + l)
  <2>1. PICK f \in Seq(Byte) : f = FlattenSeq(s)
    BY <1>8
  <2>2. 0 + l <= Len(f) /\ 0 + l <= Len(c) /\ 0 \in Nat
    BY <2>1, <1>3, <1>8, <1>10
  <2>3. Agree(f, 0, c, 0, l)
    BY <2>1, <1>11 DEF Agree
  <2>4. SubSeq(f, 0 + 1, 0 + l) = SubSeq(c, 0 + 1, 0 + l)
    BY <2>2, <2>3, PartOf
  <2> QED BY <2>1, <2>4
<1>13. SubSeq(c, 0 + 1, 0 + l) = c /\ 0 + 1 = 1 /\ 0 + l = l
  BY <1>3
<1> QED
  BY <1>3, <1>9, <1>12, <1>13 DEF Shows

\* Every file that was created and written within its direct blocks shows, by cat,
\* what create and the writes put there (file_create, file_write, file_cat).
THEOREM ContentAlwaysKept == Spec => []ContentKept
<1>1. DataInv => ContentKept
  BY FileShows DEF ContentKept
<1> QED
  BY <1>1, DataInvAlways, PTL

\* read takes the file's blocks, in order, as long as the file has one; and
\* always a block of the disk, when it does not go through a missing map.
LEMMA ReadsBlocks ==
  ASSUME DataInv, Followed, NEW n \in Files, NEW i \in Nat
  PROVE  /\ i < Len(DataBlocks(n)) => BlockAt(n, i) = DataBlocks(n)[i + 1]
         /\ i < DIRECT_BLOCK \/ disk[inode[n].indirect].kind = "map"
              => BlockAt(n, i) \in FS!Blocks
<1>1. /\ n \in FS!Inodes /\ n \in inodeMap /\ P!MapIntact(n) /\ P!FSInv
      /\ TypeOK /\ SlotsMatch /\ Sized
  BY FollowedFile DEF DataInv
<1>2. PICK bs, d, k, x : /\ bs = DataBlocks(n) /\ d = inode[n].direct
                         /\ k = inode[n].numIndirect /\ x = disk[inode[n].indirect].blocks
  OBVIOUS
<1>3. PICK l \in Nat : l = Len(d)
  <2>1. d \in Seq(FS!Blocks)
    BY <1>1, <1>2, BlocksOfFile
  <2> QED BY <2>1
<1>4. /\ k \in Nat /\ Len(bs) = l + k /\ inode[n].indirect \in FS!Blocks
      /\ \A j \in 1 .. l : bs[j] = d[j]
      /\ \A j \in 1 .. k : bs[l + j] = x[j]
  BY <1>1, <1>2, <1>3, BlocksOfFile
<1>5. l <= DIRECT_BLOCK /\ (k > 0 => l = DIRECT_BLOCK) /\ DIRECT_BLOCK \in Nat
  BY <1>1, <1>2, <1>3, FileDataAssumption DEF Sized
<1>6. CASE i < DIRECT_BLOCK
  <2>1. i \in Slots /\ BlockAt(n, i) = slot[n][i]
    BY <1>5, <1>6 DEF BlockAt, Slots
  <2>2. i < l + k => i < l
    BY <1>4, <1>5, <1>6
  <2>3. i < l => slot[n][i] = bs[i + 1]
    <3>1. i < l => slot[n][i] = d[i + 1]
      BY <2>1, <1>1, <1>2, <1>3 DEF SlotsMatch
    <3>2. i < l => i + 1 \in 1 .. l
      OBVIOUS
    <3> QED BY <3>1, <3>2, <1>4
  <2>4. slot[n][i] \in FS!Blocks
    BY <2>1, <1>1 DEF TypeOK
  <2> QED BY <2>1, <2>2, <2>3, <2>4, <1>2, <1>4
<1>7. CASE ~(i < DIRECT_BLOCK)
  <2>1. PICK h \in Nat : h = i - DIRECT_BLOCK /\ i = DIRECT_BLOCK + h
    <3>1. i - DIRECT_BLOCK \in Nat /\ i = DIRECT_BLOCK + (i - DIRECT_BLOCK)
      BY <1>5, <1>7
    <3> QED BY <3>1
  <2>2. BlockAt(n, i) = IF h < Len(x) THEN x[h + 1] ELSE 0
    BY <2>1, <1>2, <1>7 DEF BlockAt
  <2>3. disk[inode[n].indirect].kind = "map" => x \in Seq(FS!Blocks)
    <3>1. PICK b \in P!Blocks : b = inode[n].indirect
      BY <1>4, SameWords
    <3>2. \/ disk[b] = P!Data
          \/ disk[b].kind = "dir"
          \/ disk[b].kind = "map" /\ disk[b].blocks \in Seq(P!Blocks)
      BY <1>1 DEF P!FSInv, P!Typed, P!TypeOK
    <3> QED BY <3>1, <3>2, <1>2, SameWords DEF P!Data
  <2>4. ASSUME i < Len(bs) PROVE BlockAt(n, i) = bs[i + 1]
    <3>1. k > 0 /\ l = DIRECT_BLOCK /\ h < k
      BY <2>1, <2>4, <1>4, <1>5
    <3>2. disk[inode[n].indirect].kind = "map" /\ Len(x) >= k
      BY <3>1, <1>1, <1>2 DEF P!MapIntact
    <3>3. h < Len(x) /\ h + 1 \in 1 .. k
      <4>1. Len(x) \in Nat
        BY <3>2, <2>3
      <4> QED BY <4>1, <3>1, <3>2, <1>4
    <3>4. bs[l + (h + 1)] = x[h + 1]
      BY <3>3, <1>4
    <3>5. l + (h + 1) = i + 1
      BY <3>1, <2>1
    <3> QED BY <3>3, <3>4, <3>5, <2>2
  <2>5. ASSUME disk[inode[n].indirect].kind = "map" PROVE BlockAt(n, i) \in FS!Blocks
    <3>1. 0 \in FS!Blocks
      BY FileDataAssumption DEF FS!Blocks
    <3>2. h < Len(x) => x[h + 1] \in FS!Blocks
      BY <2>3, <2>5
    <3> QED BY <3>1, <3>2, <2>2
  <2> QED BY <2>4, <2>5, <1>2, <1>7
<1> QED
  BY <1>6, <1>7

\* read of a file that holds its contents.
LEMMA RangeReads ==
  ASSUME DataInv, Followed, NEW n \in Files \ late,
         NEW offset \in 0 .. Len(content[n]) - 1,
         NEW size \in 1 .. Len(content[n]) - offset,
         ByHelper(offset, size) => HelperFollows(n, offset)
  PROVE  FileRead(n, offset, size) = SubSeq(content[n], offset + 1, offset + size)
<1>1. /\ Len(DataBlocks(n)) \in Nat /\ content[n] \in Seq(Byte) /\ Len(content[n]) \in Nat
      /\ Holds(n) /\ TypeOK /\ BLOCK_SIZE \in Nat \ {0} /\ DIRECT_BLOCK \in Nat
  BY FollowedFile, FileDataAssumption DEF DataInv, Held
<1>2. PICK bs : bs = DataBlocks(n)
  OBVIOUS
<1>3. PICK c \in Seq(Byte), l \in Nat : c = content[n] /\ l = Len(c)
  BY <1>1
<1>4. offset \in Nat /\ size \in Nat /\ offset + size \in Nat /\ offset + size <= l
  BY <1>3
<1>5. PICK start \in Nat, o \in 0 .. BLOCK_SIZE - 1 :
        /\ start = startBlockNo(offset) /\ o = offset % BLOCK_SIZE
        /\ offset = start * BLOCK_SIZE + o
  BY <1>1, <1>4, DivMod DEF startBlockNo
<1>6. PICK end \in Nat, u \in 0 .. BLOCK_SIZE - 1 :
        /\ end = endBlockNo(offset, size)
        /\ offset + size = end * BLOCK_SIZE + u
  BY <1>1, <1>4, DivMod DEF endBlockNo
<1>7. start <= end
  <2> SUFFICES ASSUME end < start PROVE FALSE
    OBVIOUS
  <2>1. offset + size < start * BLOCK_SIZE
    BY <1>1, <1>4, <1>6, DivBelow DEF endBlockNo
  <2>2. PICK f \in Nat : f = start * BLOCK_SIZE /\ offset = f + o
    BY <1>1, <1>5, TimesNat
  <2>3. offset + size < f
    BY <2>1, <2>2
  <2>4. size \in 0 .. l /\ o >= 0 /\ o \in Int
    BY <1>1, <1>4
  <2> QED BY <2>2, <2>3, <2>4
<1>8. PICK k \in Nat : k = end - start + 1 /\ start + k = end + 1
  <2>1. end - start + 1 \in Nat /\ start + (end - start + 1) = end + 1
    BY <1>7
  <2> QED BY <2>1
<1>9. PICK x : x = [i \in 1 .. k |-> BlockAt(n, start + i - 1)]
  OBVIOUS
<1>10. ASSUME NEW i \in 1 .. k PROVE BlockAt(n, start + i - 1) \in FS!Blocks
  <2>1. PICK h \in Nat : h = start + i - 1 /\ h <= end
    <3>1. start + i - 1 \in Nat /\ start + i - 1 <= end
      BY <1>8
    <3> QED BY <3>1
  <2>2. h < DIRECT_BLOCK \/ disk[inode[n].indirect].kind = "map"
    <3>1. CASE ByHelper(offset, size)
      BY <3>1 DEF HelperFollows
    <3>2. CASE ~ByHelper(offset, size)
      BY <3>2, <2>1, <1>1, <1>6 DEF ByHelper
    <3> QED BY <3>1, <3>2
  <2> QED BY <2>1, <2>2, ReadsBlocks
<1>11. x \in [1 .. k -> FS!Blocks]
  BY <1>9, <1>10
<1>12. PICK s : s = [i \in 1 .. k |-> bytes[x[i]]]
  OBVIOUS
<1>13. PICK m \in Nat : m = k * BLOCK_SIZE
  BY <1>1, TimesNat
<1>14. /\ \A q \in 1 .. m : FlattenSeq(s)[q] = At(s, BLOCK_SIZE, q)
       /\ FlattenSeq(s) \in Seq(Byte) /\ Len(FlattenSeq(s)) = m
  <2>1. BufferFrom(k, x, s, m)
    BY <1>11, <1>12, <1>13 DEF BufferFrom
  <2> QED BY <2>1, <1>1, BufferOf
<1>15. Gathered(n, offset, size) = FlattenSeq(s)
  <2>1. s = [i \in 1 .. k |-> bytes[BlockAt(n, start + i - 1)]]
    BY <1>9, <1>12
  <2> QED BY <2>1, <1>5, <1>6, <1>8 DEF Gathered
<1>16. PICK f \in Nat : f = start * BLOCK_SIZE /\ offset = f + o
  BY <1>1, <1>5, TimesNat
<1>17. o + size <= m
  <2>1. PICK e \in Nat : e = end * BLOCK_SIZE /\ offset + size = e + u
    BY <1>1, <1>6, TimesNat
  <2>2. (start + k) * BLOCK_SIZE = f + m /\ (end + 1) * BLOCK_SIZE = e + BLOCK_SIZE
    BY <2>1, <1>1, <1>13, <1>16, TimesPlus, TimesNext
  <2>3. f + m = e + BLOCK_SIZE
    BY <2>2, <1>8
  <2> QED BY <2>1, <2>3, <1>1, <1>4, <1>16
<1>18. l <= Len(bs) * BLOCK_SIZE /\ \A q \in 0 .. l - 1 : c[q + 1] = ByteAt(n, q)
  BY <1>1, <1>2, <1>3 DEF Holds
<1>19. ASSUME NEW y \in 1 .. size PROVE FlattenSeq(s)[o + y] = c[offset + y]
  <2>1. PICK a \in Nat : a = o + y - 1 /\ a + 1 = o + y /\ a < m
    <3>1. o + y - 1 \in Nat /\ (o + y - 1) + 1 = o + y /\ o + y - 1 < m
      BY <1>4, <1>17
    <3> QED BY <3>1
  <2>2. PICK q \in 0 .. l - 1 : q = f + a /\ q + 1 = offset + y
    <3>1. f + a \in 0 .. l - 1 /\ (f + a) + 1 = offset + y
      BY <2>1, <1>1, <1>4, <1>16
    <3> QED BY <3>1
  <2>3. PICK j \in Nat, r \in 0 .. BLOCK_SIZE - 1 :
          j = a \div BLOCK_SIZE /\ r = a % BLOCK_SIZE /\ a = j * BLOCK_SIZE + r
    BY <2>1, <1>1, DivMod
  <2>4. j < k
    BY <2>1, <2>3, <1>1, <1>13, DivBelow
  <2>5. PICK i \in Nat : i = start + j
    OBVIOUS
  <2>6. q \div BLOCK_SIZE = i /\ q % BLOCK_SIZE = r
    <3>1. i * BLOCK_SIZE = f + j * BLOCK_SIZE
      BY <2>5, <1>1, <1>16, TimesPlus
    <3>2. PICK g \in Nat : g = j * BLOCK_SIZE
      BY <1>1, TimesNat
    <3>3. q = i * BLOCK_SIZE + r
      BY <3>1, <3>2, <2>2, <2>3
    <3> QED BY <3>3, <1>1, DivUnique
  <2>7. i < Len(bs)
    <3>1. q \in Nat /\ Len(bs) \in Nat
      BY <1>1, <1>2
    <3>2. q < Len(bs) * BLOCK_SIZE
      <4>1. Len(bs) * BLOCK_SIZE \in Nat
        BY <3>1, <1>1, TimesNat
      <4> QED BY <4>1, <1>18
    <3> QED BY <3>1, <3>2, <2>6, <1>1, DivBelow
  <2>8. s[j + 1] = bytes[bs[i + 1]]
    <3>1. j + 1 \in 1 .. k /\ start + (j + 1) - 1 = i
      BY <2>4, <2>5
    <3>2. x[j + 1] = BlockAt(n, i)
      BY <3>1, <1>9
    <3>3. BlockAt(n, i) = bs[i + 1]
      BY <2>7, <1>2, ReadsBlocks
    <3> QED BY <3>1, <3>2, <3>3, <1>12
  <2>9. FlattenSeq(s)[a + 1] = s[j + 1][r + 1]
    <3>1. a + 1 \in 1 .. m /\ (a + 1) - 1 = a
      BY <2>1
    <3>2. At(s, BLOCK_SIZE, a + 1) = s[j + 1][r + 1]
      BY <3>1, <2>3 DEF At
    <3> QED BY <3>1, <3>2, <1>14
  <2>10. c[q + 1] = bytes[bs[i + 1]][r + 1]
    <3>1. c[q + 1] = ByteAt(n, q)
      BY <1>18
    <3> QED BY <3>1, <2>6, <1>2 DEF ByteAt
  <2> QED BY <2>1, <2>2, <2>8, <2>9, <2>10
<1>20. SubSeq(FlattenSeq(s), o + 1, o + size) = SubSeq(c, offset + 1, offset + size)
  <2>1. PICK w \in Seq(Byte) : w = FlattenSeq(s)
    BY <1>14
  <2>2. o \in Nat /\ o + size <= Len(w) /\ offset + size <= Len(c)
    BY <2>1, <1>1, <1>3, <1>4, <1>14, <1>17
  <2>3. Agree(w, o, c, offset, size)
    BY <2>1, <1>19 DEF Agree
  <2>4. SubSeq(w, o + 1, o + size) = SubSeq(c, offset + 1, offset + size)
    BY <2>2, <2>3, <1>4, PartOf
  <2> QED BY <2>1, <2>4
<1> QED
  BY <1>3, <1>5, <1>15, <1>20 DEF FileRead

\* read gives what cat shows, across blocks and from the direct to the indirect
\* ones, wherever its helper finds its way (file_read, file_read_helper).
THEOREM ReadsBack == Spec => []ReadBack
<1>1. DataInv => ReadBack
  BY RangeReads DEF ReadBack
<1> QED
  BY <1>1, DataInvAlways, PTL
==============================================================================
