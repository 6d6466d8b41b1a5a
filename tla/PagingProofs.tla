----------------------------- MODULE PagingProofs -----------------------------
(***************************************************************************)
(* Theorems about Paging, for every number of processes, pages, frames and *)
(* TLB entries, and for every replacement policy.                          *)
(***************************************************************************)
EXTENDS Paging, TLAPS

\* The set a page falls in is a set of its process's TLB.
LEMMA SetOfType == \A p \in VPages : SetOf(p) \in Sets
<1> SUFFICES ASSUME NEW p \in VPages PROVE SetOf(p) \in Sets
  OBVIOUS
<1> DEFINE n == TLB_ENTRY \div 2
<1>1. n \in Nat /\ n > 0
  BY SizesAssumption
<1>2. p[2] \in Nat
  BY SizesAssumption DEF VPages
<1>3. p[2] % n \in 0 .. n - 1
  <2> HIDE DEF n
  <2> QED BY <1>1, <1>2
<1> QED
  BY <1>3 DEF SetOf, Sets, VPages

\* Removing a frame from the list of list.c, or moving it to the head, gives
\* a list of frames.
LEMMA WithoutType ==
  ASSUME NEW S, NEW s \in Seq(S), NEW x PROVE Without(s, x) \in Seq(S)
<1>1. CASE \E i \in 1 .. Len(s) : s[i] = x
  <2> DEFINE i == CHOOSE k \in 1 .. Len(s) : s[k] = x
  <2>1. i \in 1 .. Len(s)
    BY <1>1
  <2> HIDE DEF i
  <2>2. SubSeq(s, 1, i - 1) \in Seq(S) /\ SubSeq(s, i + 1, Len(s)) \in Seq(S)
    BY <2>1
  <2>3. SubSeq(s, 1, i - 1) \o SubSeq(s, i + 1, Len(s)) \in Seq(S)
    BY <2>2
  <2> QED
    BY <1>1, <2>3 DEF Without, i
<1>2. CASE ~ \E i \in 1 .. Len(s) : s[i] = x
  BY <1>2 DEF Without
<1> QED
  BY <1>1, <1>2

\* Moving a frame to the head of the list keeps a list of frames.
LEMMA ToHeadType ==
  ASSUME NEW S, NEW s \in Seq(S), NEW x \in S PROVE ToHead(s, x) \in Seq(S)
  BY WithoutType DEF ToHead

-----------------------------------------------------------------------------
(* Types of the TLB and of the policies' state.                            *)

TLBWay == [entry : 0 .. MAX_PAGE - 1, frameNo : Frames, valid : BOOLEAN]
TLBType == [Sets -> [Ways -> TLBWay]]

\* Filling a way keeps the TLB's type.
LEMMA FilledType ==
  ASSUME NEW t \in TLBType, NEW ptr \in [Sets -> Ways],
         NEW p \in VPages, NEW f \in Frames
  PROVE  /\ Filled(t, ptr, p, f) \in TLBType
         /\ Flipped(ptr, p) \in [Sets -> Ways]
<1>1. SetOf(p) \in Sets /\ p[2] \in 0 .. MAX_PAGE - 1
  BY SetOfType DEF VPages
<1>2. \A k \in Ways : 1 - k \in Ways
  BY DEF Ways
<1>3. [entry |-> p[2], frameNo |-> f, valid |-> TRUE] \in TLBWay
  BY <1>1 DEF TLBWay
<1> QED
  BY <1>1, <1>2, <1>3 DEF Filled, Flipped, TLBType

\* So does clearing the victim's ways.
LEMMA ShotType ==
  ASSUME NEW t \in TLBType, NEW ptr \in [Sets -> Ways], NEW q \in VPages
  PROVE  /\ Shot(t, q) \in TLBType
         /\ ShotPtr(t, ptr, q) \in [Sets -> Ways]
<1>1. SetOf(q) \in Sets
  BY SetOfType
<1>2. ShotPtr(t, ptr, q) \in [Sets -> Ways]
  BY <1>1 DEF ShotPtr, Ways
<1> DEFINE s == t[SetOf(q)]
           row == [k \in Ways |-> IF s[k].entry = q[2] THEN [s[k] EXCEPT !.valid = FALSE]
                                                       ELSE s[k]]
<1>3. s \in [Ways -> TLBWay]
  BY <1>1 DEF TLBType
<1>4. \A k \in Ways : [s[k] EXCEPT !.valid = FALSE] \in TLBWay
  BY <1>3 DEF TLBWay
<1>5. row \in [Ways -> TLBWay]
  BY <1>3, <1>4
<1>6. Shot(t, q) = [t EXCEPT ![SetOf(q)] = row]
  BY <1>1 DEF Shot, TLBType
<1> HIDE DEF row
<1> QED
  BY <1>1, <1>2, <1>5, <1>6 DEF TLBType

\* A reference keeps the types of the policies' variables.
LEMMA ReferenceType ==
  ASSUME TypeOK, NEW f \in Frames, Reference(f)
  PROVE  /\ lruList' \in Seq(Frames) /\ clock_flag' \in [Frames -> {0, 1}]
         /\ fifo_index' \in Frames /\ clock_index' \in Frames
  BY ToHeadType DEF TypeOK, Reference

\* So does the choice of a victim, under each policy.
LEMMA ChooseVictimType ==
  ASSUME TypeOK, NEW f \in Frames, ChooseVictim(f)
  PROVE  /\ lruList' \in Seq(Frames) /\ clock_flag' \in [Frames -> {0, 1}]
         /\ fifo_index' \in Frames /\ clock_index' \in Frames
<1>1. CASE RandomVictim(f)
  BY <1>1 DEF RandomVictim, TypeOK, policyVars
<1>2. CASE FifoVictim(f)
  BY <1>2, SizesAssumption DEF FifoVictim, TypeOK, Frames
<1>3. CASE LruVictim(f)
  BY <1>3 DEF LruVictim, TypeOK
<1>4. CASE ClockVictim(f)
  BY <1>4 DEF ClockVictim, ClockFound, ClockAllSet, TypeOK
<1> QED
  BY <1>1, <1>2, <1>3, <1>4 DEF ChooseVictim

\* A frame that is written keeps values in all frames.
LEMMA StoredType ==
  ASSUME NEW c \in [Frames -> Values], NEW f \in Frames, NEW x \in Requests
  PROVE  Stored(c, f, x) \in [Frames -> Values]
  BY DEF Stored, Requests

\* Every request keeps every variable in its type.
LEMMA PagingTypeStep == TypeOK /\ [Next]_vars => TypeOK'
<1> SUFFICES ASSUME TypeOK, [Next]_vars PROVE TypeOK'
  OBVIOUS
<1> DEFINE PTE == [frameNo : Frames, valid : BOOLEAN, dirty : BOOLEAN]
<1>0. /\ tlb \in TLBType /\ tlbset_ptr \in [Sets -> Ways]
      /\ \A p \in VPages : pageTable[p].frameNo \in Frames
      /\ pageTable \in [VPages -> PTE]
  BY DEF TypeOK, TLBType, TLBWay
<1>1. ASSUME NEW p \in VPages, NEW x \in Requests, TLBHit(p, x) PROVE TypeOK'
  <2> DEFINE f == pageTable[p].frameNo
  <2>1. f \in Frames
    BY <1>0
  <2>2. tlbset_ptr' \in [Sets -> Ways]
    BY <1>1, SetOfType DEF TLBHit, TypeOK, Ways
  <2>3. pageTable' \in [VPages -> PTE]
    BY <1>0, <1>1 DEF TLBHit
  <2>4. order' \in Seq(VPages)
    BY <1>1, ToHeadType DEF TLBHit, Used, TypeOK
  <2>5. Reference(f) /\ ram' \in [Frames -> Values]
    BY <1>1, <2>1, StoredType DEF TLBHit, TypeOK
  <2> QED
    BY <1>1, <2>1, <2>2, <2>3, <2>4, <2>5, ReferenceType DEF TLBHit, TypeOK
<1>2. ASSUME NEW p \in VPages, NEW x \in Requests, PageHit(p, x) PROVE TypeOK'
  <2> DEFINE f == pageTable[p].frameNo
  <2>1. f \in Frames
    BY <1>0
  <2>2. tlb' \in TLBType /\ tlbset_ptr' \in [Sets -> Ways]
    BY <1>0, <1>2, <2>1, FilledType DEF PageHit
  <2>3. pageTable' \in [VPages -> PTE]
    BY <1>0, <1>2 DEF PageHit
  <2>4. order' \in Seq(VPages)
    BY <1>2, ToHeadType DEF PageHit, Used, TypeOK
  <2>5. Reference(f) /\ ram' \in [Frames -> Values]
    BY <1>2, <2>1, StoredType DEF PageHit, TypeOK
  <2> QED
    BY <1>2, <2>1, <2>2, <2>3, <2>4, <2>5, ReferenceType
       DEF PageHit, TypeOK, TLBType, TLBWay
<1>3. ASSUME NEW p \in VPages, NEW x \in Requests, FaultFree(p, x) PROVE TypeOK'
  <2>1. frame_ind \in Frames /\ frame_ind + 1 \in 0 .. MAX_FRAME
    BY <1>3, SizesAssumption DEF FaultFree, TypeOK, Frames
  <2>2. tlb' \in TLBType /\ tlbset_ptr' \in [Sets -> Ways]
    BY <1>0, <1>3, <2>1, FilledType DEF FaultFree
  <2>3. pageTable' \in [VPages -> PTE]
    BY <1>0, <1>3, <2>1 DEF FaultFree
  <2>4. order' \in Seq(VPages)
    BY <1>3 DEF FaultFree, Loaded, TypeOK
  <2>5. [ram EXCEPT ![frame_ind] = disk[p]] \in [Frames -> Values]
    BY <2>1 DEF TypeOK
  <2>6. Reference(frame_ind) /\ ram' \in [Frames -> Values]
    BY <1>3, <2>1, <2>5, StoredType DEF FaultFree
  <2> QED
    BY <1>3, <2>1, <2>2, <2>3, <2>4, <2>6, ReferenceType
       DEF FaultFree, TypeOK, TLBType, TLBWay
<1>4. ASSUME NEW p \in VPages, NEW x \in Requests, FaultEvict(p, x) PROVE TypeOK'
  <2>1. PICK f \in Frames :
          LET q == invert_table[f] IN
          /\ ChooseVictim(f)
          /\ tlb' = Filled(Shot(tlb, q), ShotPtr(tlb, tlbset_ptr, q), p, pageTable[p].frameNo)
          /\ tlbset_ptr' = Flipped(ShotPtr(tlb, tlbset_ptr, q), p)
          /\ pageTable' = [pageTable EXCEPT
               ![q].valid = FALSE, ![q].dirty = FALSE,
               ![p] = [frameNo |-> f, valid |-> TRUE, dirty |-> x # "R"]]
          /\ disk' = IF pageTable[q].dirty THEN [disk EXCEPT ![q] = ram[f]] ELSE disk
          /\ ram' = Stored([ram EXCEPT ![f] = disk[p]], f, x)
          /\ invert_table' = [invert_table EXCEPT ![f] = p]
          /\ order' = Loaded(Without(order, q), p)
    BY <1>4 DEF FaultEvict
  <2> DEFINE q == invert_table[f]
  <2>2. q \in VPages
    BY DEF TypeOK
  <2>3. tlb' \in TLBType /\ tlbset_ptr' \in [Sets -> Ways]
    BY <1>0, <2>1, <2>2, ShotType, FilledType
  <2>4. pageTable' \in [VPages -> PTE]
    <3> DEFINE t1 == [pageTable EXCEPT ![q].valid = FALSE]
               t2 == [t1 EXCEPT ![q].dirty = FALSE]
               e  == [frameNo |-> f, valid |-> TRUE, dirty |-> x # "R"]
    <3>1. t1 \in [VPages -> PTE]
      BY <1>0, <2>2
    <3>2. t2 \in [VPages -> PTE]
      <4> HIDE DEF t1
      <4> QED BY <3>1, <2>2
    <3>3. e \in PTE
      OBVIOUS
    <3>4. pageTable' = [t2 EXCEPT ![p] = e]
      BY <2>1
    <3> HIDE DEF t2, e
    <3> QED
      BY <3>2, <3>3, <3>4
  <2>5. order' \in Seq(VPages)
    BY <2>1, <2>2, WithoutType DEF Loaded, TypeOK
  <2>6. [ram EXCEPT ![f] = disk[p]] \in [Frames -> Values]
    BY DEF TypeOK
  <2>7. ram' \in [Frames -> Values] /\ disk' \in [VPages -> Values]
    BY <2>1, <2>2, <2>6, StoredType DEF TypeOK
  <2> QED
    BY <1>4, <2>1, <2>3, <2>4, <2>5, <2>7, ChooseVictimType
       DEF FaultEvict, TypeOK, TLBType, TLBWay
<1>5. CASE \E p \in VPages : HitCrash(p)
  BY <1>5 DEF HitCrash, Crash, TypeOK, tlbVars, policyVars
<1>6. CASE UNCHANGED vars
  BY <1>6 DEF vars, TypeOK, tlbVars, policyVars
<1> QED
  BY <1>1, <1>2, <1>3, <1>4, <1>5, <1>6 DEF Next, Dead

\* The page table, the TLB and the policies' state stay in their types: every
\* frame number in them is the number of a frame, every page one of the process.
THEOREM PagingTypeCorrect == Spec => []TypeOK
<1>1. Init => TypeOK
  <2> SUFFICES ASSUME Init PROVE TypeOK
    OBVIOUS
  <2>1. 0 \in Frames /\ <<0, 0>> \in VPages /\ 0 \in 0 .. MAX_PAGE - 1
    BY SizesAssumption DEF Frames, VPages
  <2>2. lruList \in Seq(Frames) /\ order \in Seq(VPages)
    BY DEF Init
  <2>3. ram \in [Frames -> Values] /\ disk \in [VPages -> Values]
    BY ValuesAssumption DEF Init
  <2>4. frame_ind \in 0 .. MAX_FRAME
    BY SizesAssumption DEF Init
  <2>5. pageTable \in [VPages -> [frameNo : Frames, valid : BOOLEAN, dirty : BOOLEAN]]
    <3> DEFINE E == [frameNo |-> 0, valid |-> FALSE, dirty |-> FALSE]
               T == [frameNo : Frames, valid : BOOLEAN, dirty : BOOLEAN]
    <3>1. E \in T
      BY <2>1
    <3>2. pageTable \in [VPages -> {E}]
      BY DEF Init
    <3> HIDE DEF E, T
    <3>3. pageTable \in [VPages -> T]
      BY <3>1, <3>2
    <3> QED
      BY <3>3 DEF T
  <2>6. tlb \in [Sets -> [Ways -> [entry : 0 .. MAX_PAGE - 1, frameNo : Frames, valid : BOOLEAN]]]
    <3> DEFINE E == [entry |-> 0, frameNo |-> 0, valid |-> FALSE]
               T == [entry : 0 .. MAX_PAGE - 1, frameNo : Frames, valid : BOOLEAN]
    <3>1. E \in T
      BY <2>1
    <3>2. tlb \in [Sets -> [Ways -> {E}]]
      BY DEF Init
    <3> HIDE DEF E, T
    <3>3. [Ways -> {E}] \subseteq [Ways -> T]
      BY <3>1
    <3>4. tlb \in [Sets -> [Ways -> T]]
      BY <3>2, <3>3
    <3> QED
      BY <3>4 DEF T
  <2>7. /\ replacementPolicy \in Policies /\ crashed \in BOOLEAN
        /\ invert_table \in [Frames -> VPages]
        /\ tlbset_ptr \in [Sets -> Ways]
        /\ fifo_index \in Frames /\ clock_index \in Frames
        /\ clock_flag \in [Frames -> {0, 1}]
    BY <2>1 DEF Init, Ways
  <2> QED
    BY <2>2, <2>3, <2>4, <2>5, <2>6, <2>7 DEF TypeOK
<1> QED
  BY <1>1, PagingTypeStep, PTL DEF Spec

-----------------------------------------------------------------------------
(* The page table and the inverted table.                                  *)

\* Paths that move no page keep FramesAgree.
LEMMA FramesUnmoved ==
  ASSUME TypeOK, TypeOK', FramesAgree, UNCHANGED <<invert_table, frame_ind>>,
         \A p \in VPages : /\ pageTable'[p].valid = pageTable[p].valid
                           /\ pageTable'[p].frameNo = pageTable[p].frameNo
  PROVE  FramesAgree'
<1>1. \A g \in 0 .. frame_ind - 1 : invert_table[g] \in VPages
  BY SizesAssumption DEF TypeOK, Frames
<1>2. \A p \in VPages : pageTable'[p].valid =>
        /\ invert_table'[pageTable'[p].frameNo] = p
        /\ pageTable'[p].frameNo < frame_ind'
  BY DEF FramesAgree
<1>3. \A g \in 0 .. frame_ind' - 1 :
        /\ pageTable'[invert_table'[g]].valid
        /\ pageTable'[invert_table'[g]].frameNo = g
  BY <1>1 DEF FramesAgree
<1> QED
  BY <1>2, <1>3 DEF FramesAgree

\* Every path through MMU keeps the tables in agreement.
LEMMA FramesAgreeStep == TypeOK /\ FramesAgree /\ [Next]_vars => FramesAgree'
<1> SUFFICES ASSUME TypeOK, FramesAgree, [Next]_vars PROVE FramesAgree'
  OBVIOUS
<1>0. TypeOK'
  BY PagingTypeStep
<1>1. ASSUME NEW p \in VPages, NEW x \in Requests, TLBHit(p, x) \/ PageHit(p, x)
      PROVE FramesAgree'
  <2>1. \A r \in VPages : /\ pageTable'[r].valid = pageTable[r].valid
                          /\ pageTable'[r].frameNo = pageTable[r].frameNo
    <3>1. pageTable' = [pageTable EXCEPT ![p].dirty = @ \/ x # "R"]
      BY <1>1 DEF TLBHit, PageHit
    <3> QED
      BY <3>1 DEF TypeOK
  <2>2. UNCHANGED <<invert_table, frame_ind>>
    BY <1>1 DEF TLBHit, PageHit
  <2> QED
    BY <1>0, <2>1, <2>2, FramesUnmoved
<1>2. ASSUME NEW p \in VPages, NEW x \in Requests, FaultFree(p, x) PROVE FramesAgree'
  <2>1. frame_ind \in Frames /\ frame_ind \in Nat /\ frame_ind' = frame_ind + 1
    BY <1>2, SizesAssumption DEF FaultFree, TypeOK, Frames
  <2>2. /\ pageTable'[p].valid /\ pageTable'[p].frameNo = frame_ind
        /\ \A r \in VPages : r # p => pageTable'[r] = pageTable[r]
    BY <1>2 DEF FaultFree, TypeOK
  <2>3. /\ invert_table'[frame_ind] = p
        /\ \A g \in Frames : g # frame_ind => invert_table'[g] = invert_table[g]
    BY <1>2, <2>1 DEF FaultFree, TypeOK
  <2>4. ~pageTable[p].valid
    BY <1>2 DEF FaultFree
  <2>5. \A r \in VPages : pageTable'[r].valid =>
          /\ invert_table'[pageTable'[r].frameNo] = r
          /\ pageTable'[r].frameNo < frame_ind'
    <3>1. ASSUME NEW r \in VPages, r # p, pageTable[r].valid
          PROVE  /\ invert_table[pageTable[r].frameNo] = r
                 /\ pageTable[r].frameNo < frame_ind
                 /\ pageTable[r].frameNo \in Frames
      BY <3>1 DEF FramesAgree, TypeOK
    <3> SUFFICES ASSUME NEW r \in VPages, pageTable'[r].valid
                 PROVE  /\ invert_table'[pageTable'[r].frameNo] = r
                        /\ pageTable'[r].frameNo < frame_ind'
      OBVIOUS
    <3>2. CASE r = p
      BY <3>2, <2>1, <2>2, <2>3
    <3>3. CASE r # p
      <4>1. pageTable'[r] = pageTable[r] /\ pageTable[r].valid
        BY <3>3, <2>2
      <4>2. /\ invert_table[pageTable[r].frameNo] = r
            /\ pageTable[r].frameNo < frame_ind
            /\ pageTable[r].frameNo \in Frames
        BY <4>1, <3>1, <3>3
      <4>3. pageTable[r].frameNo \in Int
        BY <4>2 DEF Frames
      <4> QED
        BY <4>1, <4>2, <4>3, <2>1, <2>3
    <3> QED
      BY <3>2, <3>3
  <2>6. ASSUME NEW g \in 0 .. frame_ind' - 1
        PROVE  /\ pageTable'[invert_table'[g]].valid
               /\ pageTable'[invert_table'[g]].frameNo = g
    <3>1. CASE g = frame_ind
      BY <3>1, <2>2, <2>3
    <3>2. CASE g # frame_ind
      <4>1. g \in 0 .. frame_ind - 1 /\ g \in Frames
        BY <2>1, <2>6, <3>2, SizesAssumption DEF Frames
      <4>2. pageTable[invert_table[g]].valid /\ pageTable[invert_table[g]].frameNo = g
        BY <4>1 DEF FramesAgree
      <4> QED
        BY <2>2, <2>3, <2>4, <3>2, <4>1, <4>2 DEF TypeOK
    <3> QED
      BY <3>1, <3>2
  <2> QED
    BY <2>5, <2>6 DEF FramesAgree
<1>3. ASSUME NEW p \in VPages, NEW x \in Requests, FaultEvict(p, x) PROVE FramesAgree'
  <2>1. PICK f \in Frames :
          LET q == invert_table[f] IN
          /\ pageTable' = [pageTable EXCEPT
               ![q].valid = FALSE, ![q].dirty = FALSE,
               ![p] = [frameNo |-> f, valid |-> TRUE, dirty |-> x # "R"]]
          /\ invert_table' = [invert_table EXCEPT ![f] = p]
    BY <1>3 DEF FaultEvict
  <2> DEFINE q == invert_table[f]
  <2>2. frame_ind = MAX_FRAME /\ frame_ind' = frame_ind /\ ~pageTable[p].valid
    BY <1>3 DEF FaultEvict
  <2>3. f \in 0 .. frame_ind - 1 /\ Frames = 0 .. frame_ind - 1
    BY <2>2, SizesAssumption DEF Frames
  <2>4. q \in VPages /\ pageTable[q].valid /\ pageTable[q].frameNo = f
    BY <2>3 DEF FramesAgree, TypeOK
  <2>5. p # q
    BY <2>2, <2>4
  <2>6. /\ pageTable'[p].valid /\ pageTable'[p].frameNo = f
        /\ ~pageTable'[q].valid
        /\ \A r \in VPages : r # p /\ r # q => pageTable'[r] = pageTable[r]
    BY <2>1, <2>4, <2>5 DEF TypeOK
  <2>7. /\ invert_table'[f] = p
        /\ \A g \in Frames : g # f => invert_table'[g] = invert_table[g]
    BY <2>1 DEF TypeOK
  <2>8. ASSUME NEW r \in VPages, pageTable'[r].valid
        PROVE  /\ invert_table'[pageTable'[r].frameNo] = r
               /\ pageTable'[r].frameNo < frame_ind'
    <3>1. CASE r = p
      BY <3>1, <2>2, <2>3, <2>6, <2>7, SizesAssumption
    <3>2. CASE r # p
      <4>1. r # q /\ pageTable'[r] = pageTable[r] /\ pageTable[r].valid
        BY <2>6, <2>8, <3>2
      <4>2. /\ invert_table[pageTable[r].frameNo] = r
            /\ pageTable[r].frameNo < frame_ind
            /\ pageTable[r].frameNo \in Frames
        BY <4>1 DEF FramesAgree, TypeOK
      <4>3. pageTable[r].frameNo # f
        BY <4>1, <4>2
      <4> QED
        BY <2>2, <2>7, <4>1, <4>2, <4>3
    <3> QED
      BY <3>1, <3>2
  <2>9. ASSUME NEW g \in 0 .. frame_ind' - 1
        PROVE  /\ pageTable'[invert_table'[g]].valid
               /\ pageTable'[invert_table'[g]].frameNo = g
    <3>1. CASE g = f
      BY <3>1, <2>6, <2>7
    <3>2. CASE g # f
      <4>1. g \in 0 .. frame_ind - 1 /\ g \in Frames
        BY <2>2, <2>3
      <4>2. /\ pageTable[invert_table[g]].valid /\ pageTable[invert_table[g]].frameNo = g
            /\ invert_table[g] \in VPages
        BY <4>1 DEF FramesAgree, TypeOK
      <4>3. invert_table[g] # p /\ invert_table[g] # q
        BY <2>2, <2>4, <3>2, <4>2
      <4> QED
        BY <2>6, <2>7, <3>2, <4>1, <4>2, <4>3
    <3> QED
      BY <3>1, <3>2
  <2> QED
    BY <2>8, <2>9 DEF FramesAgree
<1>4. CASE \E p \in VPages : HitCrash(p)
  <2>1. UNCHANGED <<pageTable, invert_table, frame_ind>>
    BY <1>4 DEF HitCrash, Crash
  <2> QED
    BY <1>0, <2>1, FramesUnmoved
<1>5. CASE UNCHANGED vars
  <2>1. UNCHANGED <<pageTable, invert_table, frame_ind>>
    BY <1>5 DEF vars
  <2> QED
    BY <1>0, <2>1, FramesUnmoved
<1> QED
  BY <1>1, <1>2, <1>3, <1>4, <1>5 DEF Next, Dead

\* The page table and the inverted table always agree: no two resident pages
\* share a frame, and no frame handed out is without its page
\* (is_page_hit, pagefault_handler).
THEOREM FramesAlwaysAgree == Spec => []FramesAgree
<1>1. Init => FramesAgree
  BY DEF Init, FramesAgree
<1> QED
  BY <1>1, FramesAgreeStep, PagingTypeCorrect, PTL DEF Spec

-----------------------------------------------------------------------------
(* The TLB.                                                                *)

\* A TLB whose valid ways are the old ones, or the way just filled for a
\* resident page, vouches for resident pages only.
LEMMA FilledResident ==
  ASSUME NEW t \in TLBType, NEW ptr \in [Sets -> Ways],
         NEW p \in VPages, NEW f \in Frames, NEW R \in SUBSET VPages, p \in R,
         \A s \in Sets, k \in Ways : t[s][k].valid =>
            <<s[1], t[s][k].entry>> \in R /\ SetOf(<<s[1], t[s][k].entry>>) = s
  PROVE  LET u == Filled(t, ptr, p, f) IN
         \A s \in Sets, k \in Ways : u[s][k].valid =>
            <<s[1], u[s][k].entry>> \in R /\ SetOf(<<s[1], u[s][k].entry>>) = s
<1> DEFINE u == Filled(t, ptr, p, f)
           w == 1 - ptr[SetOf(p)]
<1>1. SetOf(p) \in Sets /\ w \in Ways
  BY SetOfType DEF Ways
<1>2. u[SetOf(p)][w] = [entry |-> p[2], frameNo |-> f, valid |-> TRUE]
  BY <1>1 DEF Filled, TLBType
<1>3. \A s \in Sets, k \in Ways : s # SetOf(p) \/ k # w => u[s][k] = t[s][k]
  BY <1>1 DEF Filled, TLBType
<1>4. <<SetOf(p)[1], p[2]>> = p
  BY DEF SetOf, VPages
<1> HIDE DEF u, w
<1>5. ASSUME NEW s \in Sets, NEW k \in Ways, u[s][k].valid
      PROVE <<s[1], u[s][k].entry>> \in R /\ SetOf(<<s[1], u[s][k].entry>>) = s
  <2>1. CASE s = SetOf(p) /\ k = w
    <3>1. u[s][k].entry = p[2]
      BY <2>1, <1>2
    <3>2. <<s[1], u[s][k].entry>> = p
      BY <3>1, <2>1, <1>4
    <3> QED
      BY <3>2, <2>1
  <2>2. CASE ~ (s = SetOf(p) /\ k = w)
    BY <2>2, <1>3, <1>5
  <2> QED
    BY <2>1, <2>2
<1> QED
  BY <1>5 DEF u

\* Invalidating the ways that name page q leaves no valid way for q.
LEMMA ShotResident ==
  ASSUME NEW t \in TLBType, NEW q \in VPages, NEW R \in SUBSET VPages,
         \A s \in Sets, k \in Ways : t[s][k].valid =>
            <<s[1], t[s][k].entry>> \in R /\ SetOf(<<s[1], t[s][k].entry>>) = s
  PROVE  LET u == Shot(t, q) IN
         \A s \in Sets, k \in Ways : u[s][k].valid =>
            <<s[1], u[s][k].entry>> \in R \ {q} /\ SetOf(<<s[1], u[s][k].entry>>) = s
<1> DEFINE u == Shot(t, q)
<1>1. SetOf(q) \in Sets
  BY SetOfType
<1>2. \A k \in Ways : t[SetOf(q)][k] \in TLBWay
  BY <1>1 DEF TLBType
<1>3. \A k \in Ways : u[SetOf(q)][k] = IF t[SetOf(q)][k].entry = q[2]
                                       THEN [t[SetOf(q)][k] EXCEPT !.valid = FALSE]
                                       ELSE t[SetOf(q)][k]
  BY <1>1 DEF Shot, TLBType
<1>4. \A s \in Sets : s # SetOf(q) => u[s] = t[s]
  BY <1>1 DEF Shot, TLBType
<1> HIDE DEF u
<1>5. ASSUME NEW s \in Sets, NEW k \in Ways, u[s][k].valid
      PROVE  <<s[1], u[s][k].entry>> \in R \ {q} /\ SetOf(<<s[1], u[s][k].entry>>) = s
  <2>1. CASE s = SetOf(q)
    <3>1. t[s][k].entry # q[2]
      BY <1>2, <1>3, <1>5, <2>1 DEF TLBWay
    <3>2. u[s][k] = t[s][k]
      BY <1>3, <2>1, <3>1
    <3>3. <<s[1], u[s][k].entry>> # q
      BY <3>1, <3>2
    <3> QED
      BY <1>5, <3>2, <3>3
  <2>2. CASE s # SetOf(q)
    <3>1. u[s][k] = t[s][k]
      BY <1>4, <2>2
    <3>2. SetOf(<<s[1], u[s][k].entry>>) = s /\ <<s[1], u[s][k].entry>> \in R
      BY <1>5, <3>1
    <3>3. <<s[1], u[s][k].entry>> # q
      BY <2>2, <3>2
    <3> QED
      BY <3>2, <3>3
  <2> QED
    BY <2>1, <2>2
<1> QED
  BY <1>5 DEF u

\* The pages resident now, and what TLBResident says in terms of them.
Residents == {p \in VPages : pageTable[p].valid}

\* TLBResident, said of each way.
LEMMA ResidentForm ==
  TypeOK => (TLBResident <=>
    \A s \in Sets, k \in Ways : tlb[s][k].valid =>
       <<s[1], tlb[s][k].entry>> \in Residents /\ SetOf(<<s[1], tlb[s][k].entry>>) = s)
<1> SUFFICES ASSUME TypeOK
             PROVE  \A s \in Sets, k \in Ways : <<s[1], tlb[s][k].entry>> \in VPages
  BY DEF TLBResident, Residents
<1> SUFFICES ASSUME NEW s \in Sets, NEW k \in Ways
             PROVE  <<s[1], tlb[s][k].entry>> \in VPages
  OBVIOUS
<1>1. tlb[s][k].entry \in 0 .. MAX_PAGE - 1
  BY DEF TypeOK
<1> QED
  BY <1>1 DEF VPages, Sets

\* Every path through MMU keeps the TLB's entries resident.
LEMMA TLBResidentStep == TypeOK /\ TLBResident /\ [Next]_vars => TLBResident'
<1> SUFFICES ASSUME TypeOK, TLBResident, [Next]_vars PROVE TLBResident'
  OBVIOUS
<1>0. /\ TypeOK'
      /\ tlb \in TLBType /\ tlbset_ptr \in [Sets -> Ways]
      /\ \A p \in VPages : pageTable[p].frameNo \in Frames
  BY PagingTypeStep DEF TypeOK, TLBType, TLBWay
<1> DEFINE Fit(t, R) == \A s \in Sets, k \in Ways : t[s][k].valid =>
              <<s[1], t[s][k].entry>> \in R /\ SetOf(<<s[1], t[s][k].entry>>) = s
<1>a. Fit(tlb, Residents) /\ Residents \in SUBSET VPages
  BY ResidentForm DEF Residents
<1>b. Fit(tlb', Residents') => TLBResident'
  BY DEF TLBResident, Residents
<1>1. ASSUME NEW p \in VPages, NEW x \in Requests, TLBHit(p, x) PROVE TLBResident'
  <2>1. Residents' = Residents /\ tlb' = tlb
    BY <1>1 DEF TLBHit, TypeOK, Residents
  <2> QED
    BY <1>a, <1>b, <2>1
<1>2. ASSUME NEW p \in VPages, NEW x \in Requests, PageHit(p, x) PROVE TLBResident'
  <2>1. Residents' = Residents /\ p \in Residents
    BY <1>2 DEF PageHit, TypeOK, Residents
  <2>2. tlb' = Filled(tlb, tlbset_ptr, p, pageTable[p].frameNo)
    BY <1>2 DEF PageHit
  <2>3. Fit(tlb', Residents)
    BY <1>0, <1>a, <2>1, <2>2, FilledResident
  <2> QED
    BY <1>b, <2>1, <2>3
<1>3. ASSUME NEW p \in VPages, NEW x \in Requests, FaultFree(p, x) PROVE TLBResident'
  <2>1. frame_ind \in Frames
    BY <1>3, SizesAssumption DEF FaultFree, TypeOK, Frames
  <2>2. Residents' = Residents \cup {p}
    BY <1>3 DEF FaultFree, TypeOK, Residents
  <2>3. tlb' = Filled(tlb, tlbset_ptr, p, frame_ind)
    BY <1>3 DEF FaultFree
  <2>4. Fit(tlb, Residents') /\ Residents' \in SUBSET VPages /\ p \in Residents'
    BY <1>a, <2>2
  <2>5. Fit(tlb', Residents')
    BY <1>0, <2>1, <2>3, <2>4, FilledResident
  <2> QED
    BY <1>b, <2>5
<1>4. ASSUME NEW p \in VPages, NEW x \in Requests, FaultEvict(p, x) PROVE TLBResident'
  <2>1. PICK f \in Frames :
          LET q == invert_table[f] IN
          /\ tlb' = Filled(Shot(tlb, q), ShotPtr(tlb, tlbset_ptr, q), p, pageTable[p].frameNo)
          /\ pageTable' = [pageTable EXCEPT
               ![q].valid = FALSE, ![q].dirty = FALSE,
               ![p] = [frameNo |-> f, valid |-> TRUE, dirty |-> x # "R"]]
    BY <1>4 DEF FaultEvict
  <2> DEFINE q == invert_table[f]
             t == Shot(tlb, q)
             ptr == ShotPtr(tlb, tlbset_ptr, q)
  <2>2. q \in VPages
    BY DEF TypeOK
  <2>3. (Residents \ {q}) \cup {p} \subseteq Residents'
    BY <2>1, <2>2 DEF TypeOK, Residents
  <2>4. Residents' \in SUBSET VPages /\ p \in Residents'
    BY <2>3 DEF Residents
  <2>5. t \in TLBType /\ ptr \in [Sets -> Ways]
    BY <1>0, <2>2, ShotType
  <2>6. Fit(t, Residents \ {q})
    BY <1>0, <1>a, <2>2, ShotResident
  <2>7. Fit(t, Residents')
    BY <2>3, <2>6
  <2>8. tlb' = Filled(t, ptr, p, pageTable[p].frameNo)
    BY <2>1
  <2> HIDE DEF t, ptr
  <2>9. Fit(tlb', Residents')
    BY <1>0, <2>4, <2>5, <2>7, <2>8, FilledResident
  <2> QED
    BY <1>b, <2>9
<1>5. CASE \E p \in VPages : HitCrash(p)
  BY <1>5 DEF HitCrash, Crash, tlbVars, TLBResident
<1>6. CASE UNCHANGED vars
  BY <1>6 DEF vars, tlbVars, TLBResident
<1> QED
  BY <1>1, <1>2, <1>3, <1>4, <1>5, <1>6 DEF Next, Dead

\* A TLB hit never translates a page that is not resident: every valid TLB way
\* names a resident page of its process and set (is_TLB_hit, which does not
\* look at the page table's valid bit).
THEOREM TLBAlwaysResident == Spec => []TLBResident
<1>1. Init => TLBResident
  BY DEF Init, TLBResident
<1> QED
  BY <1>1, TLBResidentStep, PagingTypeCorrect, PTL DEF Spec
==============================================================================
