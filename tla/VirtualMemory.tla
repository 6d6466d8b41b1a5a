---------------------------- MODULE VirtualMemory ----------------------------
(***************************************************************************)
(* What demand paging promises the processes of Project-3: each virtual    *)
(* page is a cell of its own.  A write changes the page written and no     *)
(* other; reads, TLB updates, page faults and evictions change nothing.    *)
(***************************************************************************)
CONSTANTS VPages,     \* the virtual pages of all processes
          Values,     \* what a page may contain
          Blank       \* what every page contains at first

VARIABLE store        \* the content of each virtual page

Init == store = [p \in VPages |-> Blank]

Write(p, x) == store' = [store EXCEPT ![p] = x]

Next == \E p \in VPages, x \in Values : Write(p, x)

Spec == Init /\ [][Next]_store
==============================================================================
