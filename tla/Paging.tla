-------------------------------- MODULE Paging --------------------------------
(***************************************************************************)
(* The address translation of Project-3: the MMU with its per-process TLB  *)
(* (two ways per set), the page table, the inverted table of frames, and   *)
(* the four replacement policies.  The simulator runs one request after    *)
(* another, so one request is one step; which of the four paths of MMU it  *)
(* takes is the action.                                                    *)
(*                                                                         *)
(* The simulator counts disk transfers and stores no data.  ram and disk   *)
(* give the data those transfers are about: a write request changes the    *)
(* frame that MMU returned, disk_read and disk_write copy a page.          *)
(***************************************************************************)
EXTENDS Integers, Sequences

CONSTANTS MAX_PID, MAX_PAGE, MAX_FRAME,
          TLB_ENTRY,    \* entries of each process's TLB, two per set
          Policies,     \* the policies a run may choose
          Values, Blank

ASSUME SizesAssumption ==
  /\ MAX_PID \in Nat \ {0} /\ MAX_PAGE \in Nat \ {0} /\ MAX_FRAME \in Nat \ {0, 1}
  /\ TLB_ENTRY \in Nat /\ TLB_ENTRY \div 2 \in Nat \ {0}
ASSUME PoliciesAssumption == Policies \subseteq {"RANDOM", "FIFO", "LRU", "CLOCK"}
\* random() draws a frame with rand() % MAX_PAGE.
ASSUME RandomAssumption == "RANDOM" \in Policies => MAX_PAGE <= MAX_FRAME
ASSUME ValuesAssumption == Blank \in Values

Frames == 0 .. MAX_FRAME - 1
VPages == (0 .. MAX_PID - 1) \X (0 .. MAX_PAGE - 1)     \* <<pid, pageNo>>
Sets   == (0 .. MAX_PID - 1) \X (0 .. (TLB_ENTRY \div 2) - 1)
Ways   == {0, 1}

VARIABLES
  replacementPolicy,
  pageTable,       \* [frameNo, valid, dirty] of each virtual page
  invert_table,    \* the virtual page each frame was last given
  frame_ind,       \* number of frames handed out so far
  tlb,             \* [entry, frameNo, valid] of each way of each set
  tlbset_ptr,      \* the way of a set used or filled last
  lruList,         \* the list from head to tail
  fifo_index,      \* modulo MAX_FRAME
  clock_index,
  clock_flag,
  crashed,         \* a NULL pointer of the list was dereferenced
  ram, disk,       \* contents of the frames, and of the pages on disk
  order            \* resident pages, last used (LRU) or loaded (FIFO) first

tlbVars    == <<tlb, tlbset_ptr>>
policyVars == <<lruList, fifo_index, clock_index, clock_flag>>
vars == <<replacementPolicy, pageTable, invert_table, frame_ind, tlbVars,
          policyVars, crashed, ram, disk, order>>

SetOf(p) == <<p[1], p[2] % (TLB_ENTRY \div 2)>>

TypeOK ==
  /\ replacementPolicy \in Policies
  /\ pageTable \in [VPages -> [frameNo : Frames, valid : BOOLEAN, dirty : BOOLEAN]]
  /\ invert_table \in [Frames -> VPages]
  /\ frame_ind \in 0 .. MAX_FRAME
  /\ tlb \in [Sets -> [Ways -> [entry : 0 .. MAX_PAGE - 1, frameNo : Frames,
                                valid : BOOLEAN]]]
  /\ tlbset_ptr \in [Sets -> Ways]
  /\ lruList \in Seq(Frames)
  /\ fifo_index \in Frames
  /\ clock_index \in Frames
  /\ clock_flag \in [Frames -> {0, 1}]
  /\ crashed \in BOOLEAN
  /\ ram \in [Frames -> Values]
  /\ disk \in [VPages -> Values]
  /\ order \in Seq(VPages)

\* pt_init, tlb_init and the zeroes of global variables.
Init ==
  /\ replacementPolicy \in Policies
  /\ pageTable \in [VPages -> {[frameNo |-> 0, valid |-> FALSE, dirty |-> FALSE]}]
  /\ invert_table = [f \in Frames |-> <<0, 0>>]
  /\ frame_ind = 0
  /\ tlb \in [Sets -> [Ways -> {[entry |-> 0, frameNo |-> 0, valid |-> FALSE]}]]
  /\ tlbset_ptr = [s \in Sets |-> IF s = <<0, 0>> THEN 1 ELSE 0]
  /\ lruList = <<>>
  /\ fifo_index = 0
  /\ clock_index = 0
  /\ clock_flag = [f \in Frames |-> 0]
  /\ crashed = FALSE
  /\ ram = [f \in Frames |-> Blank]
  /\ disk = [p \in VPages |-> Blank]
  /\ order = <<>>

-----------------------------------------------------------------------------
(* The doubly linked list of list.c, as the sequence of its data.          *)

\* list_remove of the node that holds x: no list here holds a value twice.
Without(s, x) ==
  IF \E i \in 1 .. Len(s) : s[i] = x
  THEN LET i == CHOOSE k \in 1 .. Len(s) : s[k] = x
       IN  SubSeq(s, 1, i - 1) \o SubSeq(s, i + 1, Len(s))
  ELSE s

\* list_remove_head and list_remove_tail write through the neighbour of the
\* removed node, which a list of one node does not have.
RemovalCrashes(s, x) == s = <<x>>

ToHead(s, x) == <<x>> \o Without(s, x)

-----------------------------------------------------------------------------
(* The replacement policies: what a reference to a frame and the choice of *)
(* a victim do to their state.                                             *)

\* Mutant of Reference: a hit does not move the frame to the head.
ReferenceOnce(f) ==
  /\ lruList' = IF replacementPolicy = "LRU" /\ \A i \in 1 .. Len(lruList) : lruList[i] # f
                THEN ToHead(lruList, f) ELSE lruList
  /\ clock_flag' = IF replacementPolicy = "CLOCK"
                   THEN [clock_flag EXCEPT ![f] = 1] ELSE clock_flag
  /\ UNCHANGED <<fifo_index, clock_index>>

\* A resident page in frame f is referenced, or a free frame f is taken.
Reference(f) ==
  /\ lruList' = IF replacementPolicy = "LRU" THEN ToHead(lruList, f) ELSE lruList
  /\ clock_flag' = IF replacementPolicy = "CLOCK"
                   THEN [clock_flag EXCEPT ![f] = 1] ELSE clock_flag
  /\ UNCHANGED <<fifo_index, clock_index>>

ReferenceCrashes(f) == replacementPolicy = "LRU" /\ RemovalCrashes(lruList, f)

RandomVictim(f) ==
  /\ replacementPolicy = "RANDOM"
  /\ f < MAX_PAGE
  /\ UNCHANGED policyVars

\* Mutant of FifoVictim: the index is not wrapped.
FifoVictimNoWrap(f) ==
  /\ replacementPolicy = "FIFO"
  /\ f = fifo_index
  /\ fifo_index' = fifo_index + 1
  /\ UNCHANGED <<lruList, clock_index, clock_flag>>

FifoVictim(f) ==
  /\ replacementPolicy = "FIFO"
  /\ f = fifo_index
  /\ fifo_index' = (fifo_index + 1) % MAX_FRAME
  /\ UNCHANGED <<lruList, clock_index, clock_flag>>

\* Mutant of LruVictim: the tail is not put back at the head.
LruVictimDropped(f) ==
  /\ replacementPolicy = "LRU"
  /\ Len(lruList) > 1
  /\ f = lruList[Len(lruList)]
  /\ lruList' = SubSeq(lruList, 1, Len(lruList) - 1)
  /\ UNCHANGED <<fifo_index, clock_index, clock_flag>>

\* The tail of the list moves to its head; with two frames or more the list
\* has other nodes by then (LruListComplete).
LruVictim(f) ==
  /\ replacementPolicy = "LRU"
  /\ Len(lruList) > 1
  /\ f = lruList[Len(lruList)]
  /\ lruList' = <<f>> \o SubSeq(lruList, 1, Len(lruList) - 1)
  /\ UNCHANGED <<fifo_index, clock_index, clock_flag>>

\* Frames the hand passes, from clock_index round to clock_index, before f.
Passed(f) == LET Steps(g) == (g + MAX_FRAME - clock_index) % MAX_FRAME
             IN  {g \in Frames : Steps(g) < Steps(f)}

\* The hand stops at the first clear flag and sets it.
ClockFound(f) ==
  /\ clock_flag[f] = 0
  /\ \A g \in Passed(f) : clock_flag[g] = 1
  /\ clock_index' = f
  /\ clock_flag' = [g \in Frames |-> IF g \in Passed(f) THEN 0
                                     ELSE IF g = f THEN 1 ELSE clock_flag[g]]

\* Every flag was set: all are cleared, the frame under the hand is taken
\* and its flag stays clear.
ClockAllSet(f) ==
  /\ \A g \in Frames : clock_flag[g] = 1
  /\ f = clock_index
  /\ clock_flag' = [g \in Frames |-> 0]
  /\ UNCHANGED clock_index

ClockVictim(f) ==
  /\ replacementPolicy = "CLOCK"
  /\ ClockFound(f) \/ ClockAllSet(f)
  /\ UNCHANGED <<lruList, fifo_index>>

ChooseVictim(f) == RandomVictim(f) \/ FifoVictim(f) \/ LruVictim(f) \/ ClockVictim(f)

-----------------------------------------------------------------------------
(* The TLB.                                                                *)

Holds(p, k) == tlb[SetOf(p)][k].valid /\ tlb[SetOf(p)][k].entry = p[2]

InTLB(p) == \E k \in Ways : Holds(p, k)

\* The way not used last is filled with page p and the given frame.
Filled(t, ptr, p, f) ==
  [t EXCEPT ![SetOf(p)][1 - ptr[SetOf(p)]] = [entry |-> p[2], frameNo |-> f, valid |-> TRUE]]

Flipped(ptr, p) == [ptr EXCEPT ![SetOf(p)] = 1 - @]

\* Mutants of Shot: the victim is left in the TLB; only way 0 is looked at.
ShotNothing(t, q) == t

ShotWayZero(t, q) ==
  [t EXCEPT ![SetOf(q)] =
     [k \in Ways |-> IF k = 0 /\ @[k].entry = q[2]
                     THEN [@[k] EXCEPT !.valid = FALSE] ELSE @[k]]]

\* Mutant of ShotPtr: the pointer is left on the way just invalidated.
ShotPtrOnVictim(t, ptr, q) ==
  [ptr EXCEPT ![SetOf(q)] = IF t[SetOf(q)][1].entry = q[2] THEN 1
                            ELSE IF t[SetOf(q)][0].entry = q[2] THEN 0 ELSE @]

\* The ways that name page q, valid or not, are invalidated, and the set's
\* pointer is left on the other way of the last of them.
Shot(t, q) ==
  [t EXCEPT ![SetOf(q)] =
     [k \in Ways |-> IF @[k].entry = q[2] THEN [@[k] EXCEPT !.valid = FALSE] ELSE @[k]]]

ShotPtr(t, ptr, q) ==
  [ptr EXCEPT ![SetOf(q)] = IF t[SetOf(q)][1].entry = q[2] THEN 0
                            ELSE IF t[SetOf(q)][0].entry = q[2] THEN 1 ELSE @]

-----------------------------------------------------------------------------
(* MMU.  type is 'W' when x is a value to write, and 'R' when it is not.   *)

Requests == Values \cup {"R"}

\* The value written by the request goes to the frame that MMU returned.
Stored(contents, f, x) == IF x = "R" THEN contents ELSE [contents EXCEPT ![f] = x]

\* The order of loads or of uses, by the policy.
Used(s, p) == IF replacementPolicy = "LRU" THEN ToHead(s, p) ELSE s
Loaded(s, p) == IF replacementPolicy \in {"LRU", "FIFO"} THEN <<p>> \o s ELSE s

Crash == /\ crashed' = TRUE
         /\ UNCHANGED <<replacementPolicy, pageTable, invert_table, frame_ind,
                        tlbVars, policyVars, ram, disk, order>>

\* Mutant of TLBHit: a write that hits the TLB does not set the dirty bit.
TLBHitClean(p, x) ==
  LET f == pageTable[p].frameNo
      k == IF Holds(p, 0) THEN 0 ELSE 1
  IN
  /\ ~crashed
  /\ InTLB(p)
  /\ ~ReferenceCrashes(f)
  /\ tlbset_ptr' = [tlbset_ptr EXCEPT ![SetOf(p)] = k]
  /\ Reference(f)
  /\ ram' = Stored(ram, f, x)
  /\ order' = Used(order, p)
  /\ UNCHANGED <<replacementPolicy, pageTable, invert_table, frame_ind, tlb, crashed, disk>>

\* is_TLB_hit
TLBHit(p, x) ==
  LET f == pageTable[p].frameNo
      k == IF Holds(p, 0) THEN 0 ELSE 1
  IN
  /\ ~crashed
  /\ InTLB(p)
  /\ ~ReferenceCrashes(f)
  /\ tlbset_ptr' = [tlbset_ptr EXCEPT ![SetOf(p)] = k]
  /\ pageTable' = [pageTable EXCEPT ![p].dirty = @ \/ x # "R"]
  /\ Reference(f)
  /\ ram' = Stored(ram, f, x)
  /\ order' = Used(order, p)
  /\ UNCHANGED <<replacementPolicy, invert_table, frame_ind, tlb, crashed, disk>>

\* is_page_hit, after a TLB miss
PageHit(p, x) ==
  LET f == pageTable[p].frameNo IN
  /\ ~crashed
  /\ ~InTLB(p)
  /\ pageTable[p].valid
  /\ ~ReferenceCrashes(f)
  /\ pageTable' = [pageTable EXCEPT ![p].dirty = @ \/ x # "R"]
  /\ Reference(f)
  /\ tlb' = Filled(tlb, tlbset_ptr, p, f)
  /\ tlbset_ptr' = Flipped(tlbset_ptr, p)
  /\ ram' = Stored(ram, f, x)
  /\ order' = Used(order, p)
  /\ UNCHANGED <<replacementPolicy, invert_table, frame_ind, crashed, disk>>

\* A hit under LRU on the only page of the list.
HitCrash(p) ==
  /\ ~crashed
  /\ InTLB(p) \/ pageTable[p].valid
  /\ ReferenceCrashes(pageTable[p].frameNo)
  /\ Crash

\* Mutant of FaultFree: the frame's owner is not recorded.
FaultFreeUnowned(p, x) ==
  LET f == frame_ind IN
  /\ ~crashed
  /\ ~InTLB(p) /\ ~pageTable[p].valid
  /\ frame_ind # MAX_FRAME
  /\ pageTable' = [pageTable EXCEPT ![p] = [frameNo |-> f, valid |-> TRUE, dirty |-> x # "R"]]
  /\ Reference(f)
  /\ tlb' = Filled(tlb, tlbset_ptr, p, f)
  /\ tlbset_ptr' = Flipped(tlbset_ptr, p)
  /\ frame_ind' = frame_ind + 1
  /\ ram' = Stored([ram EXCEPT ![f] = disk[p]], f, x)
  /\ order' = Loaded(order, p)
  /\ UNCHANGED <<replacementPolicy, invert_table, crashed, disk>>

\* pagefault_handler with a frame never used before
FaultFree(p, x) ==
  LET f == frame_ind IN
  /\ ~crashed
  /\ ~InTLB(p) /\ ~pageTable[p].valid
  /\ frame_ind # MAX_FRAME
  /\ pageTable' = [pageTable EXCEPT ![p] = [frameNo |-> f, valid |-> TRUE, dirty |-> x # "R"]]
  /\ Reference(f)
  /\ invert_table' = [invert_table EXCEPT ![f] = p]
  /\ tlb' = Filled(tlb, tlbset_ptr, p, f)
  /\ tlbset_ptr' = Flipped(tlbset_ptr, p)
  /\ frame_ind' = frame_ind + 1
  /\ ram' = Stored([ram EXCEPT ![f] = disk[p]], f, x)
  /\ order' = Loaded(order, p)
  /\ UNCHANGED <<replacementPolicy, crashed, disk>>

\* pagefault_handler with every frame in use: the victim leaves the TLB, the
\* new page enters it with the frame number the page table held before this
\* fault, and then the page table is updated.
FaultEvict(p, x) ==
  /\ ~crashed
  /\ ~InTLB(p) /\ ~pageTable[p].valid
  /\ frame_ind = MAX_FRAME
  /\ \E f \in Frames :
       LET q == invert_table[f] IN
       /\ ChooseVictim(f)
       /\ tlb' = Filled(Shot(tlb, q), ShotPtr(tlb, tlbset_ptr, q), p, pageTable[p].frameNo)
       /\ tlbset_ptr' = Flipped(ShotPtr(tlb, tlbset_ptr, q), p)
       /\ pageTable' = [pageTable EXCEPT
            ![q].valid = FALSE, ![q].dirty = FALSE,
            ![p] = [frameNo |-> f, valid |-> TRUE, dirty |-> x # "R"]]
       /\ disk' = IF pageTable[q].dirty THEN [disk EXCEPT ![q] = ram[f]] ELSE disk
       /\ ram' = Stored([ram EXCEPT ![f] = disk[p]], f, x)
       /\ invert_table' = [invert_table EXCEPT ![f] = p]
       /\ order' = Loaded(Without(order, q), p)
  /\ UNCHANGED <<replacementPolicy, frame_ind, crashed>>

\* The process is dead.
Dead == crashed /\ UNCHANGED vars

Next == \/ \E p \in VPages, x \in Requests :
             TLBHit(p, x) \/ PageHit(p, x) \/ FaultFree(p, x) \/ FaultEvict(p, x)
        \/ \E p \in VPages : HitCrash(p)
        \/ Dead

Spec == Init /\ [][Next]_vars

-----------------------------------------------------------------------------
(* Properties.                                                             *)

\* No stale TLB entry: a page the TLB vouches for is resident, so that a TLB
\* hit, which does not look at the valid bit of the page table, never
\* translates to a frame the page no longer owns.
TLBResident ==
  \A s \in Sets, k \in Ways :
    tlb[s][k].valid => /\ pageTable[<<s[1], tlb[s][k].entry>>].valid
                       /\ SetOf(<<s[1], tlb[s][k].entry>>) = s

\* The page table and the inverted table agree: a resident page is the one
\* its frame belongs to, so no two pages share a frame, and every frame
\* handed out belongs to a resident page.
FramesAgree ==
  /\ \A p \in VPages : pageTable[p].valid =>
       /\ invert_table[pageTable[p].frameNo] = p
       /\ pageTable[p].frameNo < frame_ind
  /\ \A f \in 0 .. frame_ind - 1 :
       /\ pageTable[invert_table[f]].valid
       /\ pageTable[invert_table[f]].frameNo = f

\* A TLB set never has the same page twice, and the pointer never makes the
\* next fill throw away a valid way while the other is free.
TLBSetsWellUsed ==
  \A s \in Sets :
    /\ tlb[s][0].valid /\ tlb[s][1].valid => tlb[s][0].entry # tlb[s][1].entry
    /\ tlb[s][0].valid # tlb[s][1].valid => tlb[s][tlbset_ptr[s]].valid

\* The list of LRU names every frame handed out, once: no frame is ever out of
\* the policy's reach, and the list is never down to one node when a victim
\* is wanted.
LruListComplete ==
  replacementPolicy = "LRU" =>
    /\ Len(lruList) = frame_ind
    /\ \A f \in 0 .. frame_ind - 1 : \E i \in 1 .. Len(lruList) : lruList[i] = f

\* Under LRU the page evicted is the one used longest ago, and under FIFO the
\* one loaded longest ago.
EvictsOldest ==
  [][\A p \in VPages :
       /\ replacementPolicy \in {"LRU", "FIFO"}
       /\ pageTable[p].valid /\ ~pageTable'[p].valid
       => p = order[Len(order)]]_vars

\* Each virtual page is a cell of its own: no write is lost when its page is
\* evicted and reloaded, and none shows up in another page.
Memory == INSTANCE VirtualMemory WITH
  store <- [p \in VPages |-> IF pageTable[p].valid THEN ram[pageTable[p].frameNo]
                                                   ELSE disk[p]]

ImplementsVirtualMemory == Memory!Spec
==============================================================================
