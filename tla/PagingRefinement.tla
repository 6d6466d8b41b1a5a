--------------------------- MODULE PagingRefinement ---------------------------
(***************************************************************************)
(* More theorems about Paging, for every number of processes, pages,       *)
(* frames and TLB entries: the list of LRU stays complete, the TLB sets    *)
(* are well used, LRU and FIFO evict the oldest page, and every virtual    *)
(* page is a cell of its own.                                              *)
(***************************************************************************)
EXTENDS PagingProofs, SequenceTheorems

-----------------------------------------------------------------------------
(* The list of list.c as a sequence without repetitions.                   *)

Distinct(s) == \A i, k \in 1 .. Len(s) : s[i] = s[k] => i = k

\* Removing an element that occurs once, at i, closes the gap it leaves.
LEMMA WithoutAt ==
  ASSUME NEW S, NEW s \in Seq(S), Distinct(s), NEW i \in 1 .. Len(s)
  PROVE  /\ Without(s, s[i]) \in Seq(S)
         /\ Len(Without(s, s[i])) = Len(s) - 1
         /\ \A k \in 1 .. Len(s) - 1 :
              Without(s, s[i])[k] = IF k < i THEN s[k] ELSE s[k + 1]
<1> DEFINE x == s[i]
           c == CHOOSE k \in 1 .. Len(s) : s[k] = x
           a == SubSeq(s, 1, i - 1)
           b == SubSeq(s, i + 1, Len(s))
<1>1. c = i
  BY DEF Distinct
<1>2. Without(s, x) = a \o b
  BY <1>1 DEF Without
<1>3. /\ a \in Seq(S) /\ Len(a) = i - 1
      /\ \A k \in 1 .. i - 1 : a[k] = s[k]
  BY SubSeqProperties
<1>4. /\ b \in Seq(S) /\ Len(b) = Len(s) - i
      /\ \A k \in 1 .. Len(s) - i : b[k] = s[i + k]
  BY SubSeqProperties
<1> HIDE DEF a, b, c, x
<1>5. /\ a \o b \in Seq(S) /\ Len(a \o b) = Len(s) - 1
      /\ \A k \in 1 .. Len(s) - 1 : (a \o b)[k] = IF k < i THEN a[k] ELSE b[k - (i - 1)]
  <2>1. /\ a \o b \in Seq(S) /\ Len(a \o b) = Len(a) + Len(b)
        /\ \A k \in 1 .. Len(a) + Len(b) :
             (a \o b)[k] = IF k <= Len(a) THEN a[k] ELSE b[k - Len(a)]
    BY <1>3, <1>4, ConcatProperties
  <2> QED
    BY <1>3, <1>4, <2>1
<1>6. ASSUME NEW k \in 1 .. Len(s) - 1
      PROVE (a \o b)[k] = IF k < i THEN s[k] ELSE s[k + 1]
  BY <1>3, <1>4, <1>5
<1> QED
  BY <1>2, <1>5, <1>6 DEF x

\* Where the element at k comes from when the one at i is moved to the head.
MovedFrom(i, k) == IF k = 1 THEN i ELSE IF k <= i THEN k - 1 ELSE k

\* Moving one to the head permutes the places.
LEMMA MovedFromPermutes ==
  ASSUME NEW n \in Nat, NEW i \in 1 .. n
  PROVE  /\ \A k \in 1 .. n : MovedFrom(i, k) \in 1 .. n
         /\ \A k, l \in 1 .. n : MovedFrom(i, k) = MovedFrom(i, l) => k = l
         /\ \A l \in 1 .. n : \E k \in 1 .. n : MovedFrom(i, k) = l
<1>1. /\ \A k \in 1 .. n : MovedFrom(i, k) \in 1 .. n
      /\ \A k, l \in 1 .. n : MovedFrom(i, k) = MovedFrom(i, l) => k = l
  BY DEF MovedFrom
<1>2. ASSUME NEW l \in 1 .. n PROVE \E k \in 1 .. n : MovedFrom(i, k) = l
  <2>1. CASE l = i
    BY <2>1 DEF MovedFrom
  <2>2. CASE l < i
    <3>1. l + 1 \in 1 .. n /\ MovedFrom(i, l + 1) = l
      BY <2>2 DEF MovedFrom
    <3> QED
      BY <3>1
  <2>3. CASE l > i
    BY <2>3 DEF MovedFrom
  <2> QED
    BY <2>1, <2>2, <2>3
<1> QED
  BY <1>1, <1>2

\* An element moved to the head leaves the others in their order.
LEMMA ToHeadAt ==
  ASSUME NEW S, NEW s \in Seq(S), Distinct(s), NEW i \in 1 .. Len(s)
  PROVE  /\ Len(ToHead(s, s[i])) = Len(s)
         /\ \A k \in 1 .. Len(s) : ToHead(s, s[i])[k] = s[MovedFrom(i, k)]
<1> DEFINE w == Without(s, s[i])
<1>1. /\ w \in Seq(S)
      /\ Len(w) = Len(s) - 1
      /\ \A k \in 1 .. Len(s) - 1 : w[k] = IF k < i THEN s[k] ELSE s[k + 1]
  BY WithoutAt, Zenon
<1> HIDE DEF w
<1>2. /\ Len(<<s[i]>> \o w) = Len(s)
      /\ \A k \in 1 .. Len(s) : (<<s[i]>> \o w)[k] = IF k = 1 THEN s[i] ELSE w[k - 1]
  BY <1>1
<1> QED
  BY <1>1, <1>2 DEF ToHead, MovedFrom, w

\* A new element is put in front of the others.
LEMMA ToHeadNew ==
  ASSUME NEW S, NEW s \in Seq(S), NEW x \in S, \A i \in 1 .. Len(s) : s[i] # x
  PROVE  ToHead(s, x) = <<x>> \o s
<1>1. Without(s, x) = s
  BY DEF Without
<1> QED
  BY <1>1 DEF ToHead

-----------------------------------------------------------------------------
(* What the paths of MMU do to the page table.                             *)

\* A page that hits the TLB is resident, though is_TLB_hit does not look.
LEMMA HitResident ==
  ASSUME TypeOK, TLBResident, NEW p \in VPages, InTLB(p)
  PROVE  pageTable[p].valid
<1>1. PICK k \in Ways : tlb[SetOf(p)][k].valid /\ tlb[SetOf(p)][k].entry = p[2]
  BY DEF InTLB, Holds
<1>2. pageTable[<<SetOf(p)[1], p[2]>>].valid
  BY <1>1, SetOfType DEF TLBResident
<1>3. <<SetOf(p)[1], p[2]>> = p
  BY DEF SetOf, VPages
<1> QED
  BY <1>2, <1>3

\* What FramesAgree says of one resident page.
LEMMA ResidentFrame ==
  ASSUME TypeOK, FramesAgree, NEW p \in VPages, pageTable[p].valid
  PROVE  /\ pageTable[p].frameNo \in Frames
         /\ pageTable[p].frameNo \in 0 .. frame_ind - 1
         /\ invert_table[pageTable[p].frameNo] = p
  BY DEF FramesAgree, TypeOK, Frames

\* What FramesAgree says of one frame handed out.
LEMMA FrameOwner ==
  ASSUME TypeOK, FramesAgree, NEW f \in 0 .. frame_ind - 1
  PROVE  /\ f \in Frames /\ invert_table[f] \in VPages
         /\ pageTable[invert_table[f]].valid
         /\ pageTable[invert_table[f]].frameNo = f
  BY SizesAssumption DEF FramesAgree, TypeOK, Frames

\* An eviction takes frame f from page q, the owner of f, and gives it to p.
Evicts(f, q, p, x) ==
  /\ ChooseVictim(f)
  /\ f \in 0 .. frame_ind - 1 /\ f \in Frames /\ q = invert_table[f]
  /\ q \in VPages /\ q # p /\ pageTable[q].valid /\ pageTable[q].frameNo = f
  /\ pageTable'[p] = [frameNo |-> f, valid |-> TRUE, dirty |-> x # "R"]
  /\ ~pageTable'[q].valid
  /\ \A r \in VPages : r # p /\ r # q => pageTable'[r] = pageTable[r]
  /\ invert_table' = [invert_table EXCEPT ![f] = p]
  /\ tlb' = Filled(Shot(tlb, q), ShotPtr(tlb, tlbset_ptr, q), p, pageTable[p].frameNo)
  /\ tlbset_ptr' = Flipped(ShotPtr(tlb, tlbset_ptr, q), p)
  /\ disk' = IF pageTable[q].dirty THEN [disk EXCEPT ![q] = ram[f]] ELSE disk
  /\ ram' = Stored([ram EXCEPT ![f] = disk[p]], f, x)
  /\ order' = Loaded(Without(order, q), p)

\* What an eviction does, in terms of the frame and of the page that was in it.
LEMMA EvictFacts ==
  ASSUME TypeOK, FramesAgree, NEW p \in VPages, NEW x \in Requests, FaultEvict(p, x)
  PROVE  /\ frame_ind = MAX_FRAME /\ UNCHANGED <<frame_ind, replacementPolicy>>
         /\ ~InTLB(p) /\ ~pageTable[p].valid
         /\ \E f \in Frames, q \in VPages : Evicts(f, q, p, x)
<1>1. /\ frame_ind = MAX_FRAME /\ UNCHANGED <<frame_ind, replacementPolicy>>
      /\ ~InTLB(p) /\ ~pageTable[p].valid
  BY DEF FaultEvict
<1>2. PICK f \in Frames :
        LET q == invert_table[f] IN
        /\ ChooseVictim(f)
        /\ tlb' = Filled(Shot(tlb, q), ShotPtr(tlb, tlbset_ptr, q), p, pageTable[p].frameNo)
        /\ tlbset_ptr' = Flipped(ShotPtr(tlb, tlbset_ptr, q), p)
        /\ pageTable' = [pageTable EXCEPT
             ![q].valid = FALSE, ![q].dirty = FALSE,
             ![p] = [frameNo |-> f, valid |-> TRUE, dirty |-> x # "R"]]
        /\ disk' = IF pageTable[q].dirty THEN [disk EXCEPT ![q] = ram[f]] ELSE disk
        /\ ram' = Stored([ram EXCEPT ![f] = disk[p]], f, x)
        /\ invert_table' = [invert_table EXCEPT ![f] = p]
        /\ order' = Loaded(Without(order, q), p)
  BY DEF FaultEvict
<1> DEFINE q == invert_table[f]
<1>3. f \in 0 .. frame_ind - 1
  BY <1>1 DEF Frames
<1>4. q \in VPages /\ pageTable[q].valid /\ pageTable[q].frameNo = f
  BY <1>3, FrameOwner
<1>5. q # p
  BY <1>1, <1>4
<1>6. /\ pageTable'[p] = [frameNo |-> f, valid |-> TRUE, dirty |-> x # "R"]
      /\ ~pageTable'[q].valid
      /\ \A r \in VPages : r # p /\ r # q => pageTable'[r] = pageTable[r]
  BY <1>2, <1>4, <1>5 DEF TypeOK
<1>7. Evicts(f, q, p, x)
  BY <1>2, <1>3, <1>4, <1>5, <1>6 DEF Evicts
<1> QED
  BY <1>1, <1>4, <1>7

-----------------------------------------------------------------------------
(* The TLB sets.                                                           *)

\* What TLBSetsWellUsed says of a TLB and its pointers.
WellUsed(t, ptr) ==
  \A s \in Sets :
    /\ t[s][0].valid /\ t[s][1].valid => t[s][0].entry # t[s][1].entry
    /\ t[s][0].valid # t[s][1].valid => t[s][ptr[s]].valid

\* No valid way names page p.
Misses(t, p) == \A k \in Ways : ~(t[SetOf(p)][k].valid /\ t[SetOf(p)][k].entry = p[2])

\* Filling the way not used last, for a page that misses, keeps the sets well
\* used: the way filled becomes the one used last.
LEMMA FilledWellUsed ==
  ASSUME NEW t \in TLBType, NEW ptr \in [Sets -> Ways],
         NEW p \in VPages, NEW f \in Frames, WellUsed(t, ptr), Misses(t, p)
  PROVE  WellUsed(Filled(t, ptr, p, f), Flipped(ptr, p))
<1> DEFINE u == Filled(t, ptr, p, f)
           d == Flipped(ptr, p)
           o == SetOf(p)
           w == 1 - ptr[o]
<1>1. o \in Sets /\ w \in Ways
  BY SetOfType DEF Ways
<1>2. u[o][w] = [entry |-> p[2], frameNo |-> f, valid |-> TRUE] /\ d[o] = w
  BY <1>1 DEF Filled, Flipped, TLBType
<1>3. \A k \in Ways : k # w => u[o][k] = t[o][k]
  BY <1>1 DEF Filled, TLBType
<1>4. \A s \in Sets : s # o => u[s] = t[s] /\ d[s] = ptr[s]
  BY <1>1 DEF Filled, Flipped, TLBType
<1>5. \A k \in Ways : u[o][k].valid => k = w \/ u[o][k].entry # p[2]
  BY <1>3 DEF Misses
<1> HIDE DEF u, d, o, w
<1>6. ASSUME NEW s \in Sets
      PROVE  /\ u[s][0].valid /\ u[s][1].valid => u[s][0].entry # u[s][1].entry
             /\ u[s][0].valid # u[s][1].valid => u[s][d[s]].valid
  <2>1. CASE s = o
    <3>1. w = 0 \/ w = 1
      BY <1>1 DEF Ways
    <3>2. u[o][w].entry = p[2] /\ u[o][w].valid
      BY <1>2
    <3> QED
      BY <2>1, <3>1, <3>2, <1>2, <1>5 DEF Ways
  <2>2. CASE s # o
    BY <2>2, <1>4 DEF WellUsed
  <2> QED
    BY <2>1, <2>2
<1> QED
  BY <1>6 DEF WellUsed, u, d

\* Invalidating the ways of the victim leaves the pointer on the way that may
\* still be valid.
LEMMA ShotWellUsed ==
  ASSUME NEW t \in TLBType, NEW ptr \in [Sets -> Ways], NEW q \in VPages,
         WellUsed(t, ptr)
  PROVE  /\ WellUsed(Shot(t, q), ShotPtr(t, ptr, q))
         /\ \A p \in VPages : Misses(t, p) => Misses(Shot(t, q), p)
<1> DEFINE u == Shot(t, q)
           d == ShotPtr(t, ptr, q)
           o == SetOf(q)
<1>1. o \in Sets
  BY SetOfType
<1>2. \A k \in Ways : t[o][k] \in TLBWay
  BY <1>1 DEF TLBType
<1>3. \A k \in Ways : u[o][k] = IF t[o][k].entry = q[2]
                                THEN [t[o][k] EXCEPT !.valid = FALSE] ELSE t[o][k]
  BY <1>1 DEF Shot, TLBType
<1>4. \A k \in Ways : /\ u[o][k].entry = t[o][k].entry
                      /\ u[o][k].valid <=> t[o][k].valid /\ t[o][k].entry # q[2]
  BY <1>2, <1>3 DEF TLBWay
<1>5. d[o] = IF t[o][1].entry = q[2] THEN 0 ELSE IF t[o][0].entry = q[2] THEN 1 ELSE ptr[o]
  BY <1>1 DEF ShotPtr
<1>6. \A s \in Sets : s # o => u[s] = t[s] /\ d[s] = ptr[s]
  BY <1>1 DEF Shot, ShotPtr, TLBType
<1> HIDE DEF u, d, o
<1>7. ASSUME NEW s \in Sets
      PROVE  /\ u[s][0].valid /\ u[s][1].valid => u[s][0].entry # u[s][1].entry
             /\ u[s][0].valid # u[s][1].valid => u[s][d[s]].valid
  <2>1. CASE s = o
    <3>1. ptr[o] = 0 \/ ptr[o] = 1
      BY <1>1 DEF Ways
    <3>2. /\ t[o][0].valid /\ t[o][1].valid => t[o][0].entry # t[o][1].entry
          /\ t[o][0].valid # t[o][1].valid => t[o][ptr[o]].valid
      BY <1>1 DEF WellUsed
    <3>3. /\ u[o][0].entry = t[o][0].entry /\ u[o][1].entry = t[o][1].entry
          /\ u[o][0].valid <=> t[o][0].valid /\ t[o][0].entry # q[2]
          /\ u[o][1].valid <=> t[o][1].valid /\ t[o][1].entry # q[2]
      BY <1>4 DEF Ways
    <3>4. t[o][0].valid \in BOOLEAN /\ t[o][1].valid \in BOOLEAN
          /\ u[o][0].valid \in BOOLEAN /\ u[o][1].valid \in BOOLEAN
      BY <1>2, <1>3 DEF Ways, TLBWay
    <3> QED
      BY <2>1, <1>5, <3>1, <3>2, <3>3, <3>4
  <2>2. CASE s # o
    BY <2>2, <1>6 DEF WellUsed
  <2> QED
    BY <2>1, <2>2
<1>8. ASSUME NEW p \in VPages, Misses(t, p), NEW k \in Ways
      PROVE  ~(u[SetOf(p)][k].valid /\ u[SetOf(p)][k].entry = p[2])
  BY <1>4, <1>6, <1>8, SetOfType DEF Misses
<1> QED
  BY <1>7, <1>8 DEF WellUsed, Misses, u, d

\* TLBSetsWellUsed is inductive given the frames: only a miss fills a way, and
\* only an eviction invalidates one.
LEMMA TLBSetsWellUsedStep ==
  TypeOK /\ FramesAgree /\ TLBSetsWellUsed /\ [Next]_vars => TLBSetsWellUsed'
<1> SUFFICES ASSUME TypeOK, FramesAgree, TLBSetsWellUsed, [Next]_vars
             PROVE  TLBSetsWellUsed'
  OBVIOUS
<1>0. /\ tlb \in TLBType /\ tlbset_ptr \in [Sets -> Ways]
      /\ \A p \in VPages : pageTable[p].frameNo \in Frames
      /\ WellUsed(tlb, tlbset_ptr)
      /\ WellUsed(tlb', tlbset_ptr') => TLBSetsWellUsed'
  BY DEF TypeOK, TLBType, TLBWay, WellUsed, TLBSetsWellUsed
<1>a. \A p \in VPages : ~InTLB(p) => Misses(tlb, p)
  BY DEF InTLB, Holds, Misses
<1>1. ASSUME NEW p \in VPages, NEW x \in Requests, TLBHit(p, x) PROVE TLBSetsWellUsed'
  <2> DEFINE k == IF Holds(p, 0) THEN 0 ELSE 1
  <2>1. /\ tlb' = tlb /\ tlbset_ptr' = [tlbset_ptr EXCEPT ![SetOf(p)] = k]
        /\ k \in Ways /\ Holds(p, k)
    BY <1>1 DEF TLBHit, InTLB, Ways
  <2> HIDE DEF k
  <2>2. \A s \in Sets : tlbset_ptr'[s] = IF s = SetOf(p) THEN k ELSE tlbset_ptr[s]
    BY <1>0, <2>1
  <2>3. WellUsed(tlb, tlbset_ptr')
    BY <1>0, <2>1, <2>2 DEF WellUsed, Holds
  <2> QED
    BY <1>0, <2>1, <2>3
<1>2. ASSUME NEW p \in VPages, NEW x \in Requests, PageHit(p, x) PROVE TLBSetsWellUsed'
  <2>1. /\ tlb' = Filled(tlb, tlbset_ptr, p, pageTable[p].frameNo)
        /\ tlbset_ptr' = Flipped(tlbset_ptr, p) /\ Misses(tlb, p)
    BY <1>2, <1>a DEF PageHit
  <2> QED
    BY <1>0, <2>1, FilledWellUsed
<1>3. ASSUME NEW p \in VPages, NEW x \in Requests, FaultFree(p, x) PROVE TLBSetsWellUsed'
  <2>1. /\ tlb' = Filled(tlb, tlbset_ptr, p, frame_ind)
        /\ tlbset_ptr' = Flipped(tlbset_ptr, p) /\ Misses(tlb, p)
    BY <1>3, <1>a DEF FaultFree
  <2>2. frame_ind \in Frames
    BY <1>3, SizesAssumption DEF FaultFree, TypeOK, Frames
  <2> QED
    BY <1>0, <2>1, <2>2, FilledWellUsed
<1>4. ASSUME NEW p \in VPages, NEW x \in Requests, FaultEvict(p, x) PROVE TLBSetsWellUsed'
  <2>1. PICK f \in Frames, q \in VPages : Evicts(f, q, p, x)
    BY <1>4, EvictFacts
  <2> DEFINE t == Shot(tlb, q)
             ptr == ShotPtr(tlb, tlbset_ptr, q)
  <2>2. t \in TLBType /\ ptr \in [Sets -> Ways]
    BY <1>0, ShotType
  <2>3. WellUsed(t, ptr) /\ Misses(t, p)
    BY <1>0, <1>4, <1>a, ShotWellUsed DEF FaultEvict
  <2>4. tlb' = Filled(t, ptr, p, pageTable[p].frameNo) /\ tlbset_ptr' = Flipped(ptr, p)
    BY <2>1 DEF Evicts
  <2> HIDE DEF t, ptr
  <2> QED
    BY <1>0, <2>2, <2>3, <2>4, FilledWellUsed
<1>5. CASE \E p \in VPages : HitCrash(p)
  BY <1>0, <1>5 DEF HitCrash, Crash, tlbVars
<1>6. CASE UNCHANGED vars
  BY <1>0, <1>6 DEF vars, tlbVars
<1> QED
  BY <1>1, <1>2, <1>3, <1>4, <1>5, <1>6 DEF Next, Dead

\* A set of the TLB never has a page twice, and a fill never throws a valid way
\* away while the other way is free (is_TLB_hit, MMU, pagefault_handler).
THEOREM TLBSetsAlwaysWellUsed == Spec => []TLBSetsWellUsed
<1>1. Init => TLBSetsWellUsed
  <2> SUFFICES ASSUME Init PROVE TLBSetsWellUsed
    OBVIOUS
  <2>1. \A s \in Sets, k \in Ways : tlb[s][k].valid = FALSE
    BY DEF Init
  <2>2. \A s \in Sets : tlb[s][0].valid = FALSE /\ tlb[s][1].valid = FALSE
    BY <2>1 DEF Ways
  <2> QED
    BY <2>2 DEF TLBSetsWellUsed
<1> QED
  BY <1>1, TLBSetsWellUsedStep, PagingTypeCorrect, FramesAlwaysAgree, PTL DEF Spec

-----------------------------------------------------------------------------
(* The order of uses and of loads.                                         *)

\* The frame FIFO loaded i loads ago.
FifoFrame(i) == LET k == fifo_index + frame_ind - i
                IN  IF k >= MAX_FRAME THEN k - MAX_FRAME ELSE k

\* Under LRU the list names the frames handed out, once each, in the order in
\* which their pages were used last.
LruOrder ==
  replacementPolicy = "LRU" =>
    /\ Len(lruList) = frame_ind /\ Len(order) = frame_ind
    /\ Distinct(lruList)
    /\ \A i \in 1 .. frame_ind : lruList[i] \in 0 .. frame_ind - 1
    /\ \A f \in 0 .. frame_ind - 1 : \E i \in 1 .. frame_ind : lruList[i] = f
    /\ \A i \in 1 .. frame_ind : order[i] = invert_table[lruList[i]]

\* Under FIFO the frames, backwards from the index, are in the order in which
\* their pages were loaded.
FifoOrder ==
  replacementPolicy = "FIFO" =>
    /\ Len(order) = frame_ind
    /\ frame_ind < MAX_FRAME => fifo_index = 0
    /\ \A i \in 1 .. frame_ind : order[i] = invert_table[FifoFrame(i)]

\* No page is twice in the order.
LEMMA OrderDistinct ==
  ASSUME TypeOK, FramesAgree, LruOrder, FifoOrder, replacementPolicy \in {"LRU", "FIFO"}
  PROVE  Len(order) = frame_ind /\ Distinct(order)
<1>1. ASSUME NEW f \in 0 .. frame_ind - 1, NEW g \in 0 .. frame_ind - 1,
             invert_table[f] = invert_table[g]
      PROVE  f = g
  BY <1>1, FrameOwner
<1>2. CASE replacementPolicy = "LRU"
  <2>1. /\ Len(lruList) = frame_ind /\ Len(order) = frame_ind
        /\ \A i, k \in 1 .. frame_ind : lruList[i] = lruList[k] => i = k
        /\ \A i \in 1 .. frame_ind : lruList[i] \in 0 .. frame_ind - 1
        /\ \A i \in 1 .. frame_ind : order[i] = invert_table[lruList[i]]
    BY <1>2 DEF LruOrder, Distinct
  <2> QED
    BY <1>1, <2>1 DEF Distinct
<1>3. CASE replacementPolicy = "FIFO"
  <2>1. fifo_index \in 0 .. MAX_FRAME - 1 /\ frame_ind \in 0 .. MAX_FRAME /\ MAX_FRAME \in Nat
    BY SizesAssumption DEF TypeOK, Frames
  <2>2. \A i \in 1 .. frame_ind : FifoFrame(i) \in 0 .. frame_ind - 1
    BY <1>3, <2>1 DEF FifoOrder, FifoFrame
  <2>3. \A i, k \in 1 .. frame_ind : FifoFrame(i) = FifoFrame(k) => i = k
    BY <2>1 DEF FifoFrame
  <2> QED
    BY <1>1, <1>3, <2>2, <2>3 DEF FifoOrder, Distinct
<1> QED
  BY <1>2, <1>3

\* The order and the list are kept together by a use of a resident page.
LEMMA HitKeepsLruOrder ==
  ASSUME TypeOK, FramesAgree, LruOrder, FifoOrder,
         NEW p \in VPages, pageTable[p].valid,
         Reference(pageTable[p].frameNo), order' = Used(order, p),
         UNCHANGED <<replacementPolicy, invert_table, frame_ind>>
  PROVE  LruOrder'
<1> SUFFICES ASSUME replacementPolicy = "LRU" PROVE LruOrder'
  BY DEF LruOrder
<1> DEFINE f == pageTable[p].frameNo
<1>1. f \in 0 .. frame_ind - 1 /\ invert_table[f] = p
  BY ResidentFrame
<1>2. /\ Len(lruList) = frame_ind /\ Len(order) = frame_ind /\ Distinct(lruList)
      /\ \A k \in 1 .. frame_ind : lruList[k] \in 0 .. frame_ind - 1
      /\ \A k \in 1 .. frame_ind : order[k] = invert_table[lruList[k]]
      /\ \A g \in 0 .. frame_ind - 1 : \E k \in 1 .. frame_ind : lruList[k] = g
  BY DEF LruOrder
<1>3. PICK i \in 1 .. frame_ind : lruList[i] = f
  BY <1>1, <1>2
<1>4. order[i] = p /\ Distinct(order)
  BY <1>1, <1>2, <1>3, OrderDistinct
<1>5. lruList' = ToHead(lruList, lruList[i]) /\ order' = ToHead(order, order[i])
  BY <1>3, <1>4 DEF Reference, Used
<1>6. lruList \in Seq(Frames) /\ order \in Seq(VPages) /\ frame_ind \in Nat
  BY SizesAssumption DEF TypeOK
<1>7. /\ Len(lruList') = frame_ind
      /\ \A k \in 1 .. frame_ind : lruList'[k] = lruList[MovedFrom(i, k)]
  <2>1. lruList \in Seq(Frames) /\ Distinct(lruList) /\ i \in 1 .. Len(lruList)
    BY <1>2, <1>6
  <2>2. /\ Len(ToHead(lruList, lruList[i])) = Len(lruList)
        /\ \A k \in 1 .. Len(lruList) : ToHead(lruList, lruList[i])[k] = lruList[MovedFrom(i, k)]
    BY <2>1, ToHeadAt
  <2> QED
    BY <1>2, <1>5, <2>2
<1>8. /\ Len(order') = frame_ind
      /\ \A k \in 1 .. frame_ind : order'[k] = order[MovedFrom(i, k)]
  <2>1. order \in Seq(VPages) /\ Distinct(order) /\ i \in 1 .. Len(order)
    BY <1>2, <1>4, <1>6
  <2>2. /\ Len(ToHead(order, order[i])) = Len(order)
        /\ \A k \in 1 .. Len(order) : ToHead(order, order[i])[k] = order[MovedFrom(i, k)]
    BY <2>1, ToHeadAt
  <2> QED
    BY <1>2, <1>5, <2>2
<1>9. /\ \A k \in 1 .. frame_ind : MovedFrom(i, k) \in 1 .. frame_ind
      /\ \A k, l \in 1 .. frame_ind : MovedFrom(i, k) = MovedFrom(i, l) => k = l
      /\ \A l \in 1 .. frame_ind : \E k \in 1 .. frame_ind : MovedFrom(i, k) = l
  BY <1>6, MovedFromPermutes
<1>10. Distinct(lruList')
  <2>1. \A k, l \in 1 .. frame_ind : lruList[k] = lruList[l] => k = l
    BY <1>2 DEF Distinct
  <2>2. ASSUME NEW k \in 1 .. frame_ind, NEW l \in 1 .. frame_ind,
               lruList'[k] = lruList'[l]
        PROVE  k = l
    <3>1. lruList[MovedFrom(i, k)] = lruList[MovedFrom(i, l)]
      BY <1>7, <2>2
    <3>2. MovedFrom(i, k) = MovedFrom(i, l)
      BY <1>9, <2>1, <3>1
    <3> QED
      BY <1>9, <3>2
  <2> QED
    BY <1>7, <2>2 DEF Distinct
<1>11. \A k \in 1 .. frame_ind : lruList'[k] \in 0 .. frame_ind - 1
  BY <1>2, <1>7, <1>9
<1>12. \A k \in 1 .. frame_ind : order'[k] = invert_table[lruList'[k]]
  BY <1>2, <1>7, <1>8, <1>9
<1>13. \A g \in 0 .. frame_ind - 1 : \E k \in 1 .. frame_ind : lruList'[k] = g
  BY <1>2, <1>7, <1>9
<1> QED
  BY <1>7, <1>8, <1>10, <1>11, <1>12, <1>13 DEF LruOrder

\* A free frame enters the list, and its page the order, in front.
LEMMA FreeKeepsOrder ==
  ASSUME TypeOK, LruOrder, FifoOrder, NEW p \in VPages, NEW x \in Requests, FaultFree(p, x)
  PROVE  LruOrder' /\ FifoOrder'
<1>1. /\ frame_ind \in Nat /\ frame_ind < MAX_FRAME /\ frame_ind \in Frames
      /\ frame_ind' = frame_ind + 1 /\ replacementPolicy' = replacementPolicy
      /\ Reference(frame_ind) /\ order' = Loaded(order, p)
      /\ fifo_index' = fifo_index
  BY SizesAssumption DEF FaultFree, TypeOK, Frames, Reference
<1>2. /\ invert_table'[frame_ind] = p
      /\ \A g \in 0 .. frame_ind - 1 : invert_table'[g] = invert_table[g]
  BY <1>1 DEF FaultFree, TypeOK, Frames
<1>3. ASSUME replacementPolicy \in {"LRU", "FIFO"}, Len(order) = frame_ind
      PROVE  /\ Len(order') = frame_ind + 1
             /\ \A k \in 1 .. frame_ind + 1 : order'[k] = IF k = 1 THEN p ELSE order[k - 1]
  BY <1>1, <1>3 DEF Loaded, TypeOK
<1>4. ASSUME replacementPolicy = "LRU" PROVE LruOrder'
  <2>1. /\ Len(lruList) = frame_ind /\ Len(order) = frame_ind
        /\ \A k, l \in 1 .. frame_ind : lruList[k] = lruList[l] => k = l
        /\ \A k \in 1 .. frame_ind : lruList[k] \in 0 .. frame_ind - 1
        /\ \A k \in 1 .. frame_ind : order[k] = invert_table[lruList[k]]
        /\ \A g \in 0 .. frame_ind - 1 : \E k \in 1 .. frame_ind : lruList[k] = g
    BY <1>4 DEF LruOrder, Distinct
  <2>2. lruList' = ToHead(lruList, frame_ind) /\ lruList \in Seq(Frames)
        /\ \A k \in 1 .. Len(lruList) : lruList[k] # frame_ind
    BY <1>1, <1>4, <2>1 DEF Reference, TypeOK
  <2>3. /\ Len(lruList') = frame_ind + 1
        /\ \A k \in 1 .. frame_ind + 1 :
             lruList'[k] = IF k = 1 THEN frame_ind ELSE lruList[k - 1]
    <3>0. /\ lruList \in Seq(Frames) /\ frame_ind \in Frames
          /\ \A k \in 1 .. Len(lruList) : lruList[k] # frame_ind
      BY <1>1, <2>2
    <3>1. ToHead(lruList, frame_ind) = <<frame_ind>> \o lruList
      BY <3>0, ToHeadNew
    <3> QED
      BY <1>1, <2>1, <2>2, <3>0, <3>1
  <2>4. ASSUME NEW k \in 1 .. frame_ind + 1, NEW l \in 1 .. frame_ind + 1,
               lruList'[k] = lruList'[l]
        PROVE  k = l
    <3>1. k # 1 => k - 1 \in 1 .. frame_ind /\ lruList'[k] = lruList[k - 1]
      BY <1>1, <2>3
    <3>2. l # 1 => l - 1 \in 1 .. frame_ind /\ lruList'[l] = lruList[l - 1]
      BY <1>1, <2>3
    <3>3. lruList'[1] = frame_ind
      BY <1>1, <2>3
    <3> QED
      BY <1>1, <2>1, <2>4, <3>1, <3>2, <3>3
  <2>5. \A k \in 1 .. frame_ind + 1 : lruList'[k] \in 0 .. frame_ind
    BY <1>1, <2>1, <2>3
  <2>6. ASSUME NEW k \in 1 .. frame_ind + 1
        PROVE  order'[k] = invert_table'[lruList'[k]]
    <3>1. CASE k = 1
      BY <1>1, <1>2, <1>3, <1>4, <2>1, <2>3, <3>1
    <3>2. CASE k # 1
      <4>1. k - 1 \in 1 .. frame_ind
        BY <1>1, <3>2
      <4>2. order'[k] = order[k - 1] /\ lruList'[k] = lruList[k - 1]
        BY <1>3, <1>4, <2>1, <2>3, <3>2
      <4> QED
        BY <1>2, <2>1, <4>1, <4>2
    <3> QED
      BY <3>1, <3>2
  <2>7. ASSUME NEW g \in 0 .. frame_ind
        PROVE  \E k \in 1 .. frame_ind + 1 : lruList'[k] = g
    <3>1. CASE g = frame_ind
      BY <1>1, <2>3, <3>1
    <3>2. CASE g # frame_ind
      <4>1. PICK k \in 1 .. frame_ind : lruList[k] = g
        BY <1>1, <2>1, <3>2
      <4>2. k + 1 \in 1 .. frame_ind + 1 /\ lruList'[k + 1] = g
        BY <1>1, <2>3, <4>1
      <4> QED
        BY <4>2
    <3> QED
      BY <3>1, <3>2
  <2> QED
    <3>1. Len(lruList') = frame_ind' /\ Len(order') = frame_ind'
      BY <1>1, <1>3, <1>4, <2>1, <2>3
    <3>2. 1 .. frame_ind' = 1 .. frame_ind + 1 /\ 0 .. frame_ind' - 1 = 0 .. frame_ind
      BY <1>1
    <3> QED
      BY <2>4, <2>5, <2>6, <2>7, <3>1, <3>2 DEF LruOrder, Distinct
<1>5. ASSUME replacementPolicy = "FIFO" PROVE FifoOrder'
  <2>1. /\ Len(order) = frame_ind /\ fifo_index = 0 /\ MAX_FRAME \in Nat
        /\ \A k \in 1 .. frame_ind : order[k] = invert_table[frame_ind - k]
    BY <1>1, <1>5, SizesAssumption DEF FifoOrder, FifoFrame
  <2>2. ASSUME NEW k \in 1 .. frame_ind + 1
        PROVE  order'[k] = invert_table'[frame_ind + 1 - k]
    <3>1. CASE k = 1
      <4>1. frame_ind + 1 - k = frame_ind /\ order'[k] = p
        BY <1>1, <1>3, <1>5, <2>1, <3>1
      <4> QED
        BY <1>2, <4>1
    <3>2. CASE k # 1
      <4>1. /\ k - 1 \in 1 .. frame_ind /\ frame_ind - (k - 1) \in 0 .. frame_ind - 1
            /\ frame_ind - (k - 1) = frame_ind + 1 - k
        BY <1>1, <3>2
      <4>2. order'[k] = order[k - 1]
        BY <1>3, <1>5, <2>1, <3>2
      <4>3. order[k - 1] = invert_table[frame_ind - (k - 1)]
        BY <2>1, <4>1
      <4> QED
        BY <1>2, <4>1, <4>2, <4>3
    <3> QED
      BY <3>1, <3>2
  <2> QED
    BY <1>1, <1>3, <1>5, <2>1, <2>2 DEF FifoOrder, FifoFrame
<1> QED
  BY <1>1, <1>4, <1>5 DEF LruOrder, FifoOrder

\* The victim of LRU and of FIFO is the last page of the order.
LEMMA VictimIsOldest ==
  ASSUME TypeOK, LruOrder, FifoOrder, replacementPolicy \in {"LRU", "FIFO"},
         frame_ind = MAX_FRAME, NEW f \in Frames, ChooseVictim(f)
  PROVE  order[Len(order)] = invert_table[f]
<1>1. MAX_FRAME \in Nat /\ MAX_FRAME > 1 /\ fifo_index \in 0 .. MAX_FRAME - 1
  BY SizesAssumption DEF TypeOK, Frames
<1>2. CASE replacementPolicy = "LRU"
  <2>1. f = lruList[Len(lruList)]
    BY <1>2 DEF ChooseVictim, RandomVictim, FifoVictim, LruVictim, ClockVictim
  <2> QED
    BY <1>1, <1>2, <2>1 DEF LruOrder
<1>3. CASE replacementPolicy = "FIFO"
  <2>1. f = fifo_index
    BY <1>3 DEF ChooseVictim, RandomVictim, FifoVictim, LruVictim, ClockVictim
  <2>2. FifoFrame(frame_ind) = f
    BY <1>1, <2>1 DEF FifoFrame
  <2> QED
    BY <1>1, <1>3, <2>2 DEF FifoOrder
<1> QED
  BY <1>2, <1>3

\* An eviction takes the oldest page out of the order and puts the new one in
\* front; the policy does the same with the frame.
LEMMA EvictKeepsOrder ==
  ASSUME TypeOK, FramesAgree, LruOrder, FifoOrder,
         NEW p \in VPages, NEW x \in Requests, FaultEvict(p, x)
  PROVE  LruOrder' /\ FifoOrder'
<1> DEFINE n == frame_ind
<1>1. /\ n = MAX_FRAME /\ n \in Nat /\ n > 1
      /\ frame_ind' = n /\ replacementPolicy' = replacementPolicy
  BY EvictFacts, SizesAssumption
<1>2. PICK f \in Frames, q \in VPages : Evicts(f, q, p, x)
  BY EvictFacts
<1>3. /\ ChooseVictim(f) /\ f \in 0 .. n - 1 /\ q = invert_table[f]
      /\ order' = Loaded(Without(order, q), p)
      /\ invert_table'[f] = p
      /\ \A g \in 0 .. n - 1 : g # f => invert_table'[g] = invert_table[g]
  BY <1>1, <1>2 DEF Evicts, TypeOK, Frames
<1>4. ASSUME replacementPolicy \in {"LRU", "FIFO"}
      PROVE  /\ Len(order') = n
             /\ order'[1] = p
             /\ \A k \in 2 .. n : order'[k] = order[k - 1]
  <2>1. /\ Len(order) = n /\ Distinct(order) /\ order \in Seq(VPages)
        /\ order[n] = q /\ n \in 1 .. Len(order)
    BY <1>1, <1>3, <1>4, OrderDistinct, VictimIsOldest DEF TypeOK
  <2>2. /\ Without(order, q) \in Seq(VPages) /\ Len(Without(order, q)) = n - 1
        /\ \A k \in 1 .. n - 1 : Without(order, q)[k] = IF k < n THEN order[k] ELSE order[k + 1]
    BY <2>1, WithoutAt
  <2>3. order' = <<p>> \o Without(order, q)
    BY <1>3, <1>4 DEF Loaded
  <2> QED
    BY <1>1, <2>2, <2>3
<1>5. ASSUME replacementPolicy = "LRU" PROVE LruOrder'
  <2>1. /\ Len(lruList) = n /\ lruList \in Seq(Frames)
        /\ \A k, l \in 1 .. n : lruList[k] = lruList[l] => k = l
        /\ \A k \in 1 .. n : lruList[k] \in 0 .. n - 1
        /\ \A k \in 1 .. n : order[k] = invert_table[lruList[k]]
        /\ \A g \in 0 .. n - 1 : \E k \in 1 .. n : lruList[k] = g
    BY <1>5 DEF LruOrder, Distinct, TypeOK
  <2>2. f = lruList[n] /\ lruList' = <<f>> \o SubSeq(lruList, 1, n - 1)
    BY <1>3, <1>5, <2>1 DEF ChooseVictim, RandomVictim, FifoVictim, LruVictim, ClockVictim
  <2>3. /\ Len(lruList') = n
        /\ lruList'[1] = f
        /\ \A k \in 2 .. n : lruList'[k] = lruList[k - 1]
    BY <1>1, <2>1, <2>2
  <2>4. \A k \in 1 .. n : lruList'[k] = lruList[MovedFrom(n, k)]
    BY <1>1, <2>2, <2>3 DEF MovedFrom
  <2>5. /\ \A k \in 1 .. n : MovedFrom(n, k) \in 1 .. n
        /\ \A k, l \in 1 .. n : MovedFrom(n, k) = MovedFrom(n, l) => k = l
        /\ \A l \in 1 .. n : \E k \in 1 .. n : MovedFrom(n, k) = l
    <3>1. n \in Nat /\ n \in 1 .. n
      BY <1>1
    <3> HIDE DEF n
    <3> QED
      BY <3>1, MovedFromPermutes
  <2>6. ASSUME NEW k \in 1 .. n, NEW l \in 1 .. n, lruList'[k] = lruList'[l]
        PROVE  k = l
    <3>1. lruList[MovedFrom(n, k)] = lruList[MovedFrom(n, l)]
      BY <2>4, <2>6
    <3>2. MovedFrom(n, k) \in 1 .. n /\ MovedFrom(n, l) \in 1 .. n
      BY <2>5
    <3>3. MovedFrom(n, k) = MovedFrom(n, l)
      BY <2>1, <3>1, <3>2
    <3> QED
      BY <2>5, <3>3
  <2>7. \A k \in 1 .. n : lruList'[k] \in 0 .. n - 1
    BY <2>1, <2>4, <2>5
  <2>8. ASSUME NEW g \in 0 .. n - 1 PROVE \E k \in 1 .. n : lruList'[k] = g
    <3>1. PICK l \in 1 .. n : lruList[l] = g
      BY <2>1
    <3>2. PICK k \in 1 .. n : MovedFrom(n, k) = l
      BY <2>5
    <3> QED
      BY <2>4, <3>1, <3>2
  <2>9. ASSUME NEW k \in 1 .. n PROVE order'[k] = invert_table'[lruList'[k]]
    <3>1. CASE k = 1
      BY <1>3, <1>4, <1>5, <2>3, <3>1
    <3>2. CASE k # 1
      <4>1. k \in 2 .. n /\ k - 1 \in 1 .. n /\ n \in 1 .. n /\ k - 1 # n
        BY <1>1, <3>2
      <4>2. order'[k] = order[k - 1] /\ lruList'[k] = lruList[k - 1]
        BY <1>4, <1>5, <2>3, <4>1
      <4>3. lruList[k - 1] # f
        BY <2>1, <2>2, <4>1
      <4>4. invert_table'[lruList[k - 1]] = invert_table[lruList[k - 1]]
        BY <1>3, <2>1, <4>1, <4>3
      <4> QED
        BY <2>1, <4>1, <4>2, <4>4
    <3> QED
      BY <3>1, <3>2
  <2> QED
    BY <1>1, <1>4, <1>5, <2>3, <2>6, <2>7, <2>8, <2>9 DEF LruOrder, Distinct
<1>6. ASSUME replacementPolicy = "FIFO" PROVE FifoOrder'
  <2>1. fifo_index \in 0 .. n - 1 /\ \A k \in 1 .. n : order[k] = invert_table[FifoFrame(k)]
    BY <1>1, <1>6 DEF FifoOrder, TypeOK, Frames
  <2>2. f = fifo_index /\ fifo_index' = (fifo_index + 1) % n
    BY <1>1, <1>3, <1>6 DEF ChooseVictim, RandomVictim, FifoVictim, LruVictim, ClockVictim
  <2>3. fifo_index' = IF f = n - 1 THEN 0 ELSE f + 1
    <3> HIDE DEF n
    <3> QED
      BY <1>1, <2>1, <2>2
  <2>4. FifoFrame(1)' = f
    BY <1>1, <1>3, <2>3 DEF FifoFrame
  <2>5. ASSUME NEW k \in 2 .. n
        PROVE  FifoFrame(k)' = FifoFrame(k - 1) /\ FifoFrame(k - 1) # f
                 /\ FifoFrame(k - 1) \in 0 .. n - 1 /\ k - 1 \in 1 .. n
    BY <1>1, <1>3, <2>2, <2>3 DEF FifoFrame
  <2>6. \A k \in 1 .. n : order'[k] = invert_table'[FifoFrame(k)']
    <3>1. order'[1] = invert_table'[FifoFrame(1)']
      BY <1>3, <1>4, <1>6, <2>4
    <3>2. ASSUME NEW k \in 2 .. n PROVE order'[k] = invert_table'[FifoFrame(k)']
      BY <1>3, <1>4, <1>6, <2>1, <2>5
    <3> QED
      BY <1>1, <3>1, <3>2
  <2> QED
    BY <1>1, <1>4, <1>6, <2>6 DEF FifoOrder
<1> QED
  BY <1>1, <1>5, <1>6 DEF LruOrder, FifoOrder

\* What MMU keeps true of the page table, the TLB and the policies together.
PagingInv == TypeOK /\ FramesAgree /\ TLBResident /\ LruOrder /\ FifoOrder

\* The two orders are inductive given the frames and the TLB.
LEMMA OrderStep == PagingInv /\ [Next]_vars => LruOrder' /\ FifoOrder'
<1> SUFFICES ASSUME PagingInv, [Next]_vars PROVE LruOrder' /\ FifoOrder'
  OBVIOUS
<1> USE DEF PagingInv
<1>1. ASSUME NEW p \in VPages, NEW x \in Requests, TLBHit(p, x) \/ PageHit(p, x)
      PROVE  LruOrder' /\ FifoOrder'
  <2>1. pageTable[p].valid
    BY <1>1, HitResident DEF TLBHit, PageHit
  <2>2. /\ Reference(pageTable[p].frameNo) /\ order' = Used(order, p)
        /\ UNCHANGED <<replacementPolicy, invert_table, frame_ind>>
    BY <1>1 DEF TLBHit, PageHit
  <2>3. LruOrder'
    BY <2>1, <2>2, HitKeepsLruOrder
  <2>4. FifoOrder'
    BY <2>2 DEF FifoOrder, FifoFrame, Reference, Used
  <2> QED
    BY <2>3, <2>4
<1>2. ASSUME NEW p \in VPages, NEW x \in Requests, FaultFree(p, x)
      PROVE  LruOrder' /\ FifoOrder'
  BY <1>2, FreeKeepsOrder
<1>3. ASSUME NEW p \in VPages, NEW x \in Requests, FaultEvict(p, x)
      PROVE  LruOrder' /\ FifoOrder'
  BY <1>3, EvictKeepsOrder
<1>4. CASE \E p \in VPages : HitCrash(p)
  BY <1>4 DEF HitCrash, Crash, policyVars, LruOrder, FifoOrder, FifoFrame
<1>5. CASE UNCHANGED vars
  BY <1>5 DEF vars, policyVars, LruOrder, FifoOrder, FifoFrame
<1> QED
  BY <1>1, <1>2, <1>3, <1>4, <1>5 DEF Next, Dead

\* Under LRU and FIFO the policy's state is the order of uses or loads.
THEOREM PagingInvAlways == Spec => []PagingInv
<1>1. Init => LruOrder /\ FifoOrder
  BY SizesAssumption DEF Init, LruOrder, FifoOrder, Distinct
<1>2. TypeOK /\ FramesAgree /\ TLBResident /\ (LruOrder /\ FifoOrder) /\ [Next]_vars
      => (LruOrder /\ FifoOrder)'
  BY OrderStep DEF PagingInv
<1> QED
  BY <1>1, <1>2, PagingTypeCorrect, FramesAlwaysAgree, TLBAlwaysResident, PTL
     DEF Spec, PagingInv

\* The list of LRU names every frame handed out, and no other: no frame is out
\* of the policy's reach (list.c, the LRU branches of pagetable.c).
THEOREM LruListAlwaysComplete == Spec => []LruListComplete
<1>1. PagingInv => LruListComplete
  BY DEF PagingInv, LruOrder, LruListComplete
<1> QED
  BY <1>1, PagingInvAlways, PTL

\* Under LRU an eviction takes the page used longest ago, and under FIFO the one
\* loaded longest ago.
THEOREM OldestEvicted == Spec => EvictsOldest
<1> DEFINE Oldest == \A p \in VPages :
             /\ replacementPolicy \in {"LRU", "FIFO"}
             /\ pageTable[p].valid /\ ~pageTable'[p].valid
             => p = order[Len(order)]
<1>1. PagingInv /\ [Next]_vars => [Oldest]_vars
  <2> SUFFICES ASSUME PagingInv, Next PROVE Oldest \/ UNCHANGED vars
    OBVIOUS
  <2> USE DEF PagingInv
  <2>1. ASSUME NEW p \in VPages, NEW x \in Requests, TLBHit(p, x) \/ PageHit(p, x)
        PROVE  Oldest
    <3>1. pageTable' = [pageTable EXCEPT ![p].dirty = @ \/ x # "R"]
      BY <2>1 DEF TLBHit, PageHit
    <3> QED
      BY <3>1 DEF TypeOK
  <2>2. ASSUME NEW p \in VPages, NEW x \in Requests, FaultFree(p, x) PROVE Oldest
    BY <2>2 DEF FaultFree, TypeOK
  <2>3. ASSUME NEW p \in VPages, NEW x \in Requests, FaultEvict(p, x) PROVE Oldest
    <3>1. PICK f \in Frames, q \in VPages : Evicts(f, q, p, x)
      BY <2>3, EvictFacts
    <3>2. /\ \A r \in VPages : r # p /\ r # q => pageTable'[r] = pageTable[r]
          /\ pageTable'[p].valid /\ q = invert_table[f] /\ ChooseVictim(f)
      BY <3>1 DEF Evicts
    <3>3. ASSUME replacementPolicy \in {"LRU", "FIFO"} PROVE q = order[Len(order)]
      BY <2>3, <3>2, <3>3, EvictFacts, VictimIsOldest
    <3> QED
      BY <3>2, <3>3
  <2>4. CASE \E p \in VPages : HitCrash(p)
    BY <2>4 DEF HitCrash, Crash
  <2> QED
    BY <2>1, <2>2, <2>3, <2>4 DEF Next, Dead
<1> QED
  BY <1>1, PagingInvAlways, PTL DEF Spec, EvictsOldest

-----------------------------------------------------------------------------
(* Each virtual page is a cell of its own.                                 *)

\* A resident page that is not dirty is the same on disk.
CleanOnDisk ==
  \A p \in VPages : pageTable[p].valid /\ ~pageTable[p].dirty
                      => ram[pageTable[p].frameNo] = disk[p]

\* What process and page p would read.
Cell(p) == IF pageTable[p].valid THEN ram[pageTable[p].frameNo] ELSE disk[p]

\* A request changes the cell of its own page, to the value it writes, or none.
Request(p, x) ==
  /\ \A r \in VPages : r # p => Cell(r)' = Cell(r)
  /\ Cell(p)' = IF x = "R" THEN Cell(p) ELSE x

\* No resident page but the owner of a frame depends on the frame.
LEMMA FrameOfOne ==
  ASSUME TypeOK, FramesAgree, NEW p \in VPages, NEW r \in VPages, r # p,
         pageTable[p].valid, pageTable[r].valid
  PROVE  pageTable[r].frameNo # pageTable[p].frameNo
  BY ResidentFrame

\* What is in the frames once the request is served.
LEMMA StoredAt ==
  ASSUME NEW c \in [Frames -> Values], NEW f \in Frames, NEW x \in Requests
  PROVE  /\ \A g \in Frames : g # f => Stored(c, f, x)[g] = c[g]
         /\ Stored(c, f, x)[f] = IF x = "R" THEN c[f] ELSE x
  BY DEF Stored, Requests

\* A hit writes the frame of its page, and marks the page dirty.
LEMMA HitCell ==
  ASSUME PagingInv, CleanOnDisk, NEW p \in VPages, NEW x \in Requests,
         TLBHit(p, x) \/ PageHit(p, x)
  PROVE  Request(p, x) /\ CleanOnDisk'
<1> USE DEF PagingInv
<1> DEFINE f == pageTable[p].frameNo
<1>1. pageTable[p].valid /\ f \in Frames
  BY HitResident, ResidentFrame DEF TLBHit, PageHit
<1>2. /\ pageTable' = [pageTable EXCEPT ![p].dirty = @ \/ x # "R"]
      /\ ram' = Stored(ram, f, x) /\ disk' = disk
  BY DEF TLBHit, PageHit
<1>3. /\ \A r \in VPages : /\ pageTable'[r].valid = pageTable[r].valid
                           /\ pageTable'[r].frameNo = pageTable[r].frameNo
                           /\ r # p => pageTable'[r].dirty = pageTable[r].dirty
      /\ pageTable'[p].dirty <=> pageTable[p].dirty \/ x # "R"
  BY <1>2 DEF TypeOK
<1>4. /\ \A g \in Frames : g # f => ram'[g] = ram[g]
      /\ ram'[f] = IF x = "R" THEN ram[f] ELSE x
  <2>1. ram \in [Frames -> Values]
    BY DEF TypeOK
  <2> HIDE DEF f
  <2> QED
    BY <1>1, <1>2, <2>1, StoredAt
<1>5. \A r \in VPages : r # p /\ pageTable[r].valid =>
        pageTable[r].frameNo \in Frames /\ pageTable[r].frameNo # f
  BY <1>1, FrameOfOne, ResidentFrame
<1> HIDE DEF f
<1>6. Request(p, x)
  BY <1>1, <1>2, <1>3, <1>4, <1>5 DEF Request, Cell, f
<1>7. CleanOnDisk'
  <2> SUFFICES ASSUME NEW r \in VPages, pageTable'[r].valid, ~pageTable'[r].dirty
               PROVE  ram'[pageTable'[r].frameNo] = disk'[r]
    BY DEF CleanOnDisk
  <2>1. CASE r = p
    BY <2>1, <1>1, <1>2, <1>3, <1>4, <1>5 DEF CleanOnDisk, f
  <2>2. CASE r # p
    BY <2>2, <1>1, <1>2, <1>3, <1>4, <1>5 DEF CleanOnDisk, f
  <2> QED
    BY <2>1, <2>2
<1> QED
  BY <1>6, <1>7

\* A free frame is loaded from disk for its page; no other page had it.
LEMMA FreeCell ==
  ASSUME PagingInv, CleanOnDisk, NEW p \in VPages, NEW x \in Requests, FaultFree(p, x)
  PROVE  Request(p, x) /\ CleanOnDisk'
<1> USE DEF PagingInv
<1> DEFINE f == frame_ind
           c == [ram EXCEPT ![f] = disk[p]]
<1>1. f \in Frames /\ ~pageTable[p].valid
  BY SizesAssumption DEF FaultFree, TypeOK, Frames
<1>2. /\ pageTable'[p] = [frameNo |-> f, valid |-> TRUE, dirty |-> x # "R"]
      /\ \A r \in VPages : r # p => pageTable'[r] = pageTable[r]
      /\ ram' = Stored(c, f, x) /\ disk' = disk
  BY DEF FaultFree, TypeOK
<1>3. c \in [Frames -> Values] /\ c[f] = disk[p] /\ \A g \in Frames : g # f => c[g] = ram[g]
  BY <1>1 DEF TypeOK
<1>4. /\ \A g \in Frames : g # f => ram'[g] = ram[g]
      /\ ram'[f] = IF x = "R" THEN disk[p] ELSE x
  <2> HIDE DEF c, f
  <2> QED
    BY <1>1, <1>2, <1>3, StoredAt
<1>5. \A r \in VPages : pageTable[r].valid =>
        pageTable[r].frameNo \in Frames /\ pageTable[r].frameNo # f
  BY ResidentFrame DEF TypeOK
<1> HIDE DEF f, c
<1>6. Request(p, x)
  BY <1>1, <1>2, <1>4, <1>5 DEF Request, Cell
<1>7. CleanOnDisk'
  <2> SUFFICES ASSUME NEW r \in VPages, pageTable'[r].valid, ~pageTable'[r].dirty
               PROVE  ram'[pageTable'[r].frameNo] = disk'[r]
    BY DEF CleanOnDisk
  <2>1. CASE r = p
    <3>1. pageTable'[p].frameNo = f /\ (pageTable'[p].dirty <=> x # "R") /\ disk'[p] = disk[p]
      <4>1. pageTable'[p].dirty = (x # "R")
        BY <1>2
      <4>2. pageTable'[p].frameNo = f /\ disk'[p] = disk[p]
        BY <1>2
      <4> QED
        BY <4>1, <4>2, Zenon
    <3> QED
      BY <2>1, <1>4, <3>1
  <2>2. CASE r # p
    BY <2>2, <1>1, <1>2, <1>4, <1>5 DEF CleanOnDisk
  <2> QED
    BY <2>1, <2>2
<1> QED
  BY <1>6, <1>7

\* An eviction writes the victim back when disk and frame differ, then loads.
LEMMA EvictCell ==
  ASSUME PagingInv, CleanOnDisk, NEW p \in VPages, NEW x \in Requests, FaultEvict(p, x)
  PROVE  Request(p, x) /\ CleanOnDisk'
<1> USE DEF PagingInv
<1>1. PICK f \in Frames, q \in VPages : Evicts(f, q, p, x)
  BY EvictFacts
<1> DEFINE c == [ram EXCEPT ![f] = disk[p]]
<1>2. /\ q # p /\ pageTable[q].valid /\ pageTable[q].frameNo = f
      /\ pageTable'[p] = [frameNo |-> f, valid |-> TRUE, dirty |-> x # "R"]
      /\ ~pageTable'[q].valid
      /\ \A r \in VPages : r # p /\ r # q => pageTable'[r] = pageTable[r]
      /\ disk' = IF pageTable[q].dirty THEN [disk EXCEPT ![q] = ram[f]] ELSE disk
      /\ ram' = Stored(c, f, x)
  BY <1>1 DEF Evicts
<1>3. ~pageTable[p].valid
  BY EvictFacts
<1>4. c \in [Frames -> Values] /\ c[f] = disk[p] /\ \A g \in Frames : g # f => c[g] = ram[g]
  BY DEF TypeOK
<1>5. /\ \A g \in Frames : g # f => ram'[g] = ram[g]
      /\ ram'[f] = IF x = "R" THEN disk[p] ELSE x
  <2> HIDE DEF c
  <2> QED
    BY <1>2, <1>4, StoredAt
<1>6. \A r \in VPages : r # q /\ pageTable[r].valid =>
        pageTable[r].frameNo \in Frames /\ pageTable[r].frameNo # f
  BY <1>2, FrameOfOne, ResidentFrame
<1>7. disk'[q] = ram[f] /\ \A r \in VPages : r # q => disk'[r] = disk[r]
  BY <1>2 DEF CleanOnDisk, TypeOK
<1>8. Request(p, x)
  <2>1. Cell(p)' = IF x = "R" THEN Cell(p) ELSE x
    BY <1>2, <1>3, <1>5, <1>7 DEF Cell
  <2>2. Cell(q)' = Cell(q)
    BY <1>2, <1>7 DEF Cell
  <2>3. ASSUME NEW r \in VPages, r # p, r # q PROVE Cell(r)' = Cell(r)
    <3>1. pageTable'[r] = pageTable[r] /\ disk'[r] = disk[r]
      BY <1>2, <1>7, <2>3
    <3>2. pageTable[r].valid => ram'[pageTable[r].frameNo] = ram[pageTable[r].frameNo]
      BY <1>5, <1>6, <2>3
    <3> QED
      BY <3>1, <3>2 DEF Cell
  <2> QED
    BY <2>1, <2>2, <2>3 DEF Request
<1>9. CleanOnDisk'
  <2> SUFFICES ASSUME NEW r \in VPages, pageTable'[r].valid, ~pageTable'[r].dirty
               PROVE  ram'[pageTable'[r].frameNo] = disk'[r]
    BY DEF CleanOnDisk
  <2>1. CASE r = p
    <3>1. pageTable'[p].frameNo = f /\ (pageTable'[p].dirty <=> x # "R") /\ disk'[p] = disk[p]
      <4>1. pageTable'[p].dirty = (x # "R")
        BY <1>2
      <4>2. pageTable'[p].frameNo = f /\ disk'[p] = disk[p]
        BY <1>2, <1>7
      <4> QED
        BY <4>1, <4>2, Zenon
    <3> QED
      BY <2>1, <1>5, <3>1
  <2>2. CASE r # p
    <3>1. r # q
      BY <1>2
    <3>2. pageTable'[r] = pageTable[r] /\ disk'[r] = disk[r]
      BY <1>2, <1>7, <2>2, <3>1
    <3>3. pageTable[r].frameNo \in Frames /\ pageTable[r].frameNo # f
      BY <1>6, <3>1, <3>2
    <3> QED
      BY <1>5, <3>2, <3>3 DEF CleanOnDisk
  <2> QED
    BY <2>1, <2>2
<1> QED
  BY <1>8, <1>9

\* Each request is a write of its own page's cell or none, and keeps CleanOnDisk.
LEMMA CleanOnDiskStep ==
  PagingInv /\ CleanOnDisk /\ [Next]_vars
    => /\ CleanOnDisk'
       /\ \/ \E p \in VPages, x \in Requests : Request(p, x)
          \/ \A r \in VPages : Cell(r)' = Cell(r)
<1> SUFFICES ASSUME PagingInv, CleanOnDisk, [Next]_vars
             PROVE  /\ CleanOnDisk'
                    /\ \/ \E p \in VPages, x \in Requests : Request(p, x)
                       \/ \A r \in VPages : Cell(r)' = Cell(r)
  OBVIOUS
<1>1. ASSUME NEW p \in VPages, NEW x \in Requests,
             TLBHit(p, x) \/ PageHit(p, x) \/ FaultFree(p, x) \/ FaultEvict(p, x)
      PROVE  Request(p, x) /\ CleanOnDisk'
  BY <1>1, HitCell, FreeCell, EvictCell
<1>2. CASE UNCHANGED <<pageTable, ram, disk>>
  BY <1>2 DEF CleanOnDisk, Cell
<1>3. CASE \E p \in VPages : HitCrash(p)
  BY <1>2, <1>3 DEF HitCrash, Crash
<1>4. CASE UNCHANGED vars
  BY <1>2, <1>4 DEF vars
<1> QED
  BY <1>1, <1>3, <1>4 DEF Next, Dead

\* A resident page that MMU has not marked dirty is the same on disk, so that
\* pagefault_handler may drop it without writing it.
THEOREM CleanAlwaysOnDisk == Spec => []CleanOnDisk
<1>1. Init => CleanOnDisk
  BY DEF Init, CleanOnDisk
<1> QED
  BY <1>1, CleanOnDiskStep, PagingInvAlways, PTL DEF Spec

\* Every virtual page is a cell of its own: no write is lost when its page is
\* evicted and reloaded, and none shows up in another page.
THEOREM PagingImplementsVirtualMemory == Spec => ImplementsVirtualMemory
<1> DEFINE store == [p \in VPages |-> IF pageTable[p].valid THEN ram[pageTable[p].frameNo]
                                                             ELSE disk[p]]
<1>1. store = [p \in VPages |-> Cell(p)] /\ store' = [p \in VPages |-> Cell(p)']
  BY DEF Cell
<1>2. Init => Memory!Init
  BY DEF Init, Memory!Init
<1>3. PagingInv /\ CleanOnDisk /\ [Next]_vars => [Memory!Next]_store
  <2> SUFFICES ASSUME PagingInv, CleanOnDisk, [Next]_vars
               PROVE  Memory!Next \/ store' = store
    OBVIOUS
  <2>1. ASSUME NEW p \in VPages, NEW x \in Requests, Request(p, x)
        PROVE  Memory!Next \/ store' = store
    <3>1. CASE x = "R"
      BY <1>1, <2>1, <3>1 DEF Request
    <3>2. CASE x # "R"
      <4>1. x \in Values /\ Cell(p)' = x /\ \A r \in VPages : r # p => Cell(r)' = Cell(r)
        BY <2>1, <3>2 DEF Request, Requests
      <4>2. store' = [store EXCEPT ![p] = x]
        <5> HIDE DEF store
        <5>1. store' = [r \in VPages |-> IF r = p THEN x ELSE Cell(r)]
          BY <1>1, <4>1
        <5>2. [store EXCEPT ![p] = x] = [r \in VPages |-> IF r = p THEN x ELSE Cell(r)]
          BY <1>1
        <5> QED
          BY <5>1, <5>2
      <4> QED
        BY <4>1, <4>2 DEF Memory!Next, Memory!Write
    <3> QED
      BY <3>1, <3>2
  <2>2. CASE \A r \in VPages : Cell(r)' = Cell(r)
    BY <1>1, <2>2
  <2> QED
    BY <2>1, <2>2, CleanOnDiskStep
<1> QED
  BY <1>2, <1>3, PagingInvAlways, CleanAlwaysOnDisk, PTL
     DEF Spec, ImplementsVirtualMemory, Memory!Spec
==============================================================================
