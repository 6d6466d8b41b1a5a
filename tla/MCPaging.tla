------------------------------ MODULE MCPaging ------------------------------
(***************************************************************************)
(* Instances of Paging for TLC.                                            *)
(***************************************************************************)
EXTENDS Paging

\* No step reads the frame number that a TLB way stores, nor the one that
\* the page table keeps of an absent page except to copy it into a TLB way.
\* States that differ only in those behave alike, and the runs that look at
\* neither of them identify such states.
WithoutStoredFrames ==
  <<replacementPolicy, invert_table, frame_ind, tlbset_ptr, policyVars, crashed,
    ram, disk, order,
    [p \in VPages |-> IF pageTable[p].valid THEN <<pageTable[p].frameNo, pageTable[p].dirty>>
                                            ELSE <<>>],
    [s \in Sets |-> [k \in Ways |-> <<tlb[s][k].entry, tlb[s][k].valid>>]]>>

-----------------------------------------------------------------------------
(* The list of list.c against the sequence that Paging has in its place,   *)
(* for every list that up to MaxCalls calls make of three values.          *)
MaxCalls == 4
ListData == {1, 2, 3}
List == INSTANCE DList WITH Size <- MaxCalls + 1
Lists == List!Made(MaxCalls, ListData)
Seqs == INSTANCE SequencesExt

\* The two directions agree: list_reverse_print visits the nodes that
\* list_print visits, from the last to the first, and none twice.
ASSUME DirectionsAgree ==
  \A l \in Lists :
    LET f == List!Forward(l)
    IN  /\ List!Backward(l) = Seqs!Reverse(f)
        /\ \A i, j \in 1 .. Len(f) : f[i] = f[j] => i = j

\* Each function does to the data what its name says, and a removal writes
\* through NULL exactly where Paging says it does: on the list's only node.
\* list_remove takes the first node of a value; Paging's Without agrees where
\* a value occurs once, and no list of Paging holds one twice.
ASSUME ListIsSequence ==
  \A l \in Lists :
    LET s == List!Contents(l)
        Does(m, t) == List!Contents(m) = t
    IN  /\ \A x \in ListData :
             /\ Does(List!list_insert_head(l, x), <<x>> \o s)
             /\ Does(List!list_insert_tail(l, x), Append(s, x))
             /\ List!RemoveCrashes(l, x) <=> RemovalCrashes(s, x)
             /\ ~RemovalCrashes(s, x) => Does(List!list_remove(l, x), Seqs!RemoveFirst(s, x))
             /\ (\A i, j \in 1 .. Len(s) : s[i] = x /\ s[j] = x => i = j)
                  => Without(s, x) = Seqs!RemoveFirst(s, x)
        /\ List!HeadCrashes(l) <=> Len(s) = 1
        /\ List!TailCrashes(l) <=> Len(s) = 1
        /\ s = <<>> => List!list_remove_head(l) = l /\ List!list_remove_tail(l) = l
        /\ Len(s) > 1 => /\ Does(List!list_remove_head(l), Tail(s))
                         /\ Does(List!list_remove_tail(l), Seqs!Front(s))
==============================================================================
