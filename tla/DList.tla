-------------------------------- MODULE DList --------------------------------
(***************************************************************************)
(* The pointers of list.c, of which Paging keeps only the sequence of the  *)
(* data.  Nodes are numbered in the order of their malloc; nothing frees   *)
(* one, so a removed node keeps its pointers and is reached no more.  The  *)
(* functions of list.c are operators on a heap with a head pointer;        *)
(* *Crashes says when one of them writes through NULL.                     *)
(***************************************************************************)
EXTENDS Integers, Sequences

CONSTANT Size       \* nodes the heap has room for

NULL == 0
Nodes == 1 .. Size

\* head = NULL
Empty == [head |-> NULL, made |-> 0, data |-> [n \in Nodes |-> NULL],
          next |-> [n \in Nodes |-> NULL], prev |-> [n \in Nodes |-> NULL]]

\* The nodes that list_print meets.
Forward(l) ==
  LET from[n \in Nodes \cup {NULL}] == IF n = NULL THEN <<>> ELSE <<n>> \o from[l.next[n]]
  IN  from[l.head]

LastNode(l) == Forward(l)[Len(Forward(l))]

\* The nodes that list_reverse_print meets.
Backward(l) ==
  LET from[n \in Nodes \cup {NULL}] == IF n = NULL THEN <<>> ELSE <<n>> \o from[l.prev[n]]
  IN  IF l.head = NULL THEN <<>> ELSE from[LastNode(l)]

list_new_node(l, x) == [l EXCEPT !.made = @ + 1, !.data[l.made + 1] = x]

list_insert_head(l, x) ==
  LET n == l.made + 1
      m == [list_new_node(l, x) EXCEPT !.head = n]
  IN  IF l.head = NULL THEN m ELSE [m EXCEPT !.prev[l.head] = n, !.next[n] = l.head]

list_insert_tail(l, x) ==
  LET n == l.made + 1
      m == list_new_node(l, x)
  IN  IF l.head = NULL THEN [m EXCEPT !.head = n]
      ELSE [m EXCEPT !.next[LastNode(l)] = n, !.prev[n] = LastNode(l)]

HeadCrashes(l) == l.head # NULL /\ l.next[l.head] = NULL
list_remove_head(l) ==
  IF l.head = NULL THEN l
  ELSE [l EXCEPT !.head = l.next[l.head], !.prev[l.next[l.head]] = NULL]

TailCrashes(l) == l.head # NULL /\ l.prev[LastNode(l)] = NULL
list_remove_tail(l) ==
  IF l.head = NULL THEN l ELSE [l EXCEPT !.next[l.prev[LastNode(l)]] = NULL]

\* The first node that holds x, or NULL.
Holder(l, x) ==
  LET s == SelectSeq(Forward(l), LAMBDA n : l.data[n] = x)
  IN  IF s = <<>> THEN NULL ELSE s[1]

RemoveCrashes(l, x) ==
  LET ret == Holder(l, x)
  IN  /\ ret # NULL
      /\ \/ ret = l.head /\ HeadCrashes(l)
         \/ ret # l.head /\ l.next[ret] = NULL /\ TailCrashes(l)

list_remove(l, x) ==
  LET ret == Holder(l, x)
  IN  CASE ret = NULL -> l
        [] ret # NULL /\ ret = l.head -> list_remove_head(l)
        [] ret # NULL /\ ret # l.head /\ l.next[ret] = NULL -> list_remove_tail(l)
        [] OTHER -> [l EXCEPT !.next = IF l.prev[ret] = NULL THEN @
                                       ELSE [@ EXCEPT ![l.prev[ret]] = l.next[ret]],
                              !.prev[l.next[ret]] = l.prev[ret]]

-----------------------------------------------------------------------------
\* Every list that at most k calls make of the empty one without a crash.
Step(l, Data) ==
  {list_insert_head(l, x) : x \in Data} \cup {list_insert_tail(l, x) : x \in Data}
  \cup (IF HeadCrashes(l) THEN {} ELSE {list_remove_head(l)})
  \cup (IF TailCrashes(l) THEN {} ELSE {list_remove_tail(l)})
  \cup {list_remove(l, x) : x \in {y \in Data : ~RemoveCrashes(l, y)}}

Made(k, Data) ==
  LET by[i \in 0 .. k] == IF i = 0 THEN {Empty}
                          ELSE by[i - 1] \cup UNION {Step(l, Data) : l \in by[i - 1]}
  IN  by[k]

Contents(l) == [i \in 1 .. Len(Forward(l)) |-> l.data[Forward(l)[i]]]
==============================================================================
