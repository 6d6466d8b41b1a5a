------------------------------- MODULE JobPool -------------------------------
(***************************************************************************)
(* What the thread pool of Project-2/webserver_part2.c promises its        *)
(* callers, with no threads, locks or semaphores in it: jobs are started   *)
(* in the order they were submitted and once each, a thpool_wait returns   *)
(* only at an instant when nothing is queued and nothing is being          *)
(* executed, and the pool is torn down only when nothing is executing.     *)
(* ThreadPool implements this specification.                               *)
(***************************************************************************)
EXTENDS Naturals, Sequences

CONSTANTS Clients,    \* threads that call the API
          Jobs        \* identities of the jobs that may be submitted

VARIABLES pending,    \* jobs submitted and not started, in order
          running,    \* jobs being executed
          finished,   \* jobs executed to the end
          waiting,    \* clients inside thpool_wait
          phase       \* "open", "closing" (thpool_destroy called), "closed"

vars == <<pending, running, finished, waiting, phase>>

Used == {pending[i] : i \in 1 .. Len(pending)} \cup running \cup finished

Init == /\ pending = <<>>
        /\ running = {}
        /\ finished = {}
        /\ waiting = {}
        /\ phase = "open"

Submit == /\ phase = "open"
          /\ \E j \in Jobs \ Used : pending' = Append(pending, j)
          /\ UNCHANGED <<running, finished, waiting, phase>>

Start == /\ phase # "closed"
         /\ pending # <<>>
         /\ running' = running \cup {Head(pending)}
         /\ pending' = Tail(pending)
         /\ UNCHANGED <<finished, waiting, phase>>

Finish == /\ \E j \in running : /\ running' = running \ {j}
                                /\ finished' = finished \cup {j}
          /\ UNCHANGED <<pending, waiting, phase>>

CallWait(c) == /\ phase = "open"
               /\ c \notin waiting
               /\ waiting' = waiting \cup {c}
               /\ UNCHANGED <<pending, running, finished, phase>>

ReturnWait(c) == /\ c \in waiting
                 /\ pending = <<>>
                 /\ running = {}
                 /\ waiting' = waiting \ {c}
                 /\ UNCHANGED <<pending, running, finished, phase>>

BeginClose == /\ phase = "open"
              /\ waiting = {}
              /\ phase' = "closing"
              /\ UNCHANGED <<pending, running, finished, waiting>>

\* Jobs still queued when the last thread has left are dropped.
Close == /\ phase = "closing"
         /\ running = {}
         /\ phase' = "closed"
         /\ pending' = <<>>
         /\ UNCHANGED <<running, finished, waiting>>

Next == \/ Submit \/ Start \/ Finish \/ BeginClose \/ Close
        \/ \E c \in Clients : CallWait(c) \/ ReturnWait(c)

Spec == Init /\ [][Next]_vars
==============================================================================
