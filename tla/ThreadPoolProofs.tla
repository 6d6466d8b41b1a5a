--------------------------- MODULE ThreadPoolProofs ---------------------------
(***************************************************************************)
(* Theorems about ThreadPool, for any number of workers, clients and jobs. *)
(***************************************************************************)
EXTENDS ThreadPool, TLAPS

\* Every step keeps every variable in its type.
LEMMA TypeStep == TypeOK /\ [Next]_vars => TypeOK'
<1> USE ClientsAssumption, ThreadsAssumption, BoundsAssumption, NoJobAssumption
<1> USE DEF TypeOK, Jobs, WorkerPC, ClientPC, At, poolVars, lockVars, jobVars,
            pauseVars
<1> SUFFICES ASSUME TypeOK, [Next]_vars PROVE TypeOK'
  OBVIOUS
<1>1. ASSUME NEW w \in Workers, MarkAlive(w) PROVE TypeOK'
  BY <1>1 DEF MarkAlive
<1>2. ASSUME NEW w \in Workers, LoopTest(w) PROVE TypeOK'
  BY <1>2 DEF LoopTest
<1>3. ASSUME NEW w \in Workers, BsemTake(w) PROVE TypeOK'
  BY <1>3 DEF BsemTake
<1>4. ASSUME NEW w \in Workers, BsemSleep(w) PROVE TypeOK'
  BY <1>4 DEF BsemSleep
<1>5. ASSUME NEW w \in Workers, CheckAlive(w) PROVE TypeOK'
  BY <1>5 DEF CheckAlive
<1>6. ASSUME NEW w \in Workers, IncWorking(w) PROVE TypeOK'
  BY <1>6 DEF IncWorking
<1>7. ASSUME NEW w \in Workers, PullNothing(w) PROVE TypeOK'
  BY <1>7 DEF PullNothing
<1>8. ASSUME NEW w \in Workers, PullLast(w) PROVE TypeOK'
  BY <1>8 DEF PullLast
<1>9. ASSUME NEW w \in Workers, PullFront(w) PROVE TypeOK'
  BY <1>9 DEF PullFront
<1>10. ASSUME NEW w \in Workers, PullPost(w) PROVE TypeOK'
  BY <1>10 DEF PullPost, BsemPost
<1>11. ASSUME NEW w \in Workers, RunJob(w) PROVE TypeOK'
  BY <1>11 DEF RunJob
<1>12. ASSUME NEW w \in Workers, DecWorking(w) PROVE TypeOK'
  BY <1>12 DEF DecWorking
<1>13. ASSUME NEW w \in Workers, Die(w) PROVE TypeOK'
  BY <1>13 DEF Die
<1>14. ASSUME NEW w \in Workers, Unlock(w) PROVE TypeOK'
  BY <1>14 DEF Unlock
<1>15. ASSUME NEW w \in Workers, HandlerStep(w) PROVE TypeOK'
  BY <1>15 DEF HandlerStep, EnterHold, LeaveHold
<1>16. ASSUME NEW c \in Clients, AddWorkPost(c) PROVE TypeOK'
  BY <1>16 DEF AddWorkPost, BsemPost
<1>17. ASSUME NEW c \in Clients, WaitTest(c) PROVE TypeOK'
  BY <1>17 DEF WaitTest
<1>18. ASSUME NEW c \in Clients, AddWork(c) PROVE TypeOK'
  BY <1>18 DEF AddWork
<1>19. ASSUME NEW c \in Clients, CallWait(c) PROVE TypeOK'
  BY <1>19 DEF CallWait
<1>20. ASSUME NEW c \in Clients, Pause(c) PROVE TypeOK'
  BY <1>20 DEF Pause
<1>21. ASSUME NEW c \in Clients, Resume(c) PROVE TypeOK'
  BY <1>21 DEF Resume
<1>22. CASE OwnerStep
  <2>1. CASE CreateThread
    BY <2>1 DEF CreateThread
  <2>2. CASE AllCreated
    BY <2>2 DEF AllCreated
  <2>3. CASE InitReturn
    BY <2>3 DEF InitReturn
  <2>4. CASE DestroyPoll
    BY <2>4 DEF DestroyPoll
  <2>5. CASE DestroyPostAll
    BY <2>5 DEF DestroyPostAll, BsemPostAll
  <2>6. CASE DestroyFree
    BY <2>6 DEF DestroyFree
  <2> QED
    BY <1>22, <2>1, <2>2, <2>3, <2>4, <2>5, <2>6 DEF OwnerStep
<1>23. CASE CallDestroy
  BY <1>23 DEF CallDestroy
<1>24. CASE SpuriousWakeup
  BY <1>24 DEF SpuriousWakeup
<1>25. CASE UNCHANGED vars
  BY <1>25 DEF vars
<1> QED
  BY <1>1, <1>2, <1>3, <1>4, <1>5, <1>6, <1>7, <1>8, <1>9, <1>10, <1>11, <1>12,
     <1>13, <1>14, <1>15, <1>16, <1>17, <1>18, <1>19, <1>20, <1>21, <1>22,
     <1>23, <1>24, <1>25
     DEF Next, WorkerStep, ContinueCall, NewCall, Terminated

\* Every variable of the pool stays in its type: the counters are integers,
\* the semaphore is 0 or 1, each thread is at a point of the code.
THEOREM TypeCorrect == Spec => []TypeOK
<1>1. Init => TypeOK
  <2> SUFFICES ASSUME Init PROVE TypeOK
    OBVIOUS
  <2>1. pc \in [Workers -> WorkerPC] /\ cpc \in [Clients -> ClientPC]
    BY DEF Init, WorkerPC, ClientPC
  <2>2. job \in [Workers -> Jobs \cup {NoJob}]
    BY DEF Init
  <2>3. nextJob \in 1 .. MaxJobs + 1 /\ pauses \in 0 .. MaxPauses
    BY BoundsAssumption DEF Init
  <2>4. queue \in Seq(Jobs)
    BY DEF Init
  <2>5. /\ done \subseteq Jobs
        /\ signals \subseteq Workers
        /\ held \subseteq Workers
    BY DEF Init
  <2>6. /\ alive \in Int
        /\ working \in Int
        /\ keepalive \in {0, 1}
        /\ onHold \in {0, 1}
        /\ v \in {0, 1}
    BY DEF Init
  <2>7. /\ freed \in BOOLEAN
        /\ paused \in BOOLEAN
        /\ thcountLock \in Workers \cup {NoThread}
        /\ rwmutex \in Workers \cup Clients \cup {NoThread}
    BY DEF Init
  <2> QED
    BY <2>1, <2>2, <2>3, <2>4, <2>5, <2>6, <2>7 DEF TypeOK
<1> QED
  BY <1>1, TypeStep, PTL DEF Spec

-----------------------------------------------------------------------------
(* The pool is shared only when thpool_init has returned.                  *)

\* While the owner is inside thpool_init no other client has the pool.
PoolUnshared ==
  cpc[Owner] \in {"init", "spin"} =>
    \A c \in Clients : c # Owner => cpc[c] = "nopool"

\* PoolUnshared is inductive: only the owner moves before InitReturn.
LEMMA PoolUnsharedStep == TypeOK /\ PoolUnshared /\ [Next]_vars => PoolUnshared'
<1> SUFFICES ASSUME TypeOK, PoolUnshared, [Next]_vars PROVE PoolUnshared'
  OBVIOUS
<1> USE ClientsAssumption DEF PoolUnshared, TypeOK, At, poolVars, lockVars, jobVars, pauseVars
<1>1. ASSUME NEW w \in Workers, MarkAlive(w) PROVE PoolUnshared'
  BY <1>1 DEF MarkAlive
<1>2. ASSUME NEW w \in Workers, LoopTest(w) PROVE PoolUnshared'
  BY <1>2 DEF LoopTest
<1>3. ASSUME NEW w \in Workers, BsemTake(w) PROVE PoolUnshared'
  BY <1>3 DEF BsemTake
<1>4. ASSUME NEW w \in Workers, BsemSleep(w) PROVE PoolUnshared'
  BY <1>4 DEF BsemSleep
<1>5. ASSUME NEW w \in Workers, CheckAlive(w) PROVE PoolUnshared'
  BY <1>5 DEF CheckAlive
<1>6. ASSUME NEW w \in Workers, IncWorking(w) PROVE PoolUnshared'
  BY <1>6 DEF IncWorking
<1>7. ASSUME NEW w \in Workers, PullNothing(w) PROVE PoolUnshared'
  BY <1>7 DEF PullNothing
<1>8. ASSUME NEW w \in Workers, PullLast(w) PROVE PoolUnshared'
  BY <1>8 DEF PullLast
<1>9. ASSUME NEW w \in Workers, PullFront(w) PROVE PoolUnshared'
  BY <1>9 DEF PullFront
<1>10. ASSUME NEW w \in Workers, PullPost(w) PROVE PoolUnshared'
  BY <1>10 DEF PullPost, BsemPost
<1>11. ASSUME NEW w \in Workers, RunJob(w) PROVE PoolUnshared'
  BY <1>11 DEF RunJob
<1>12. ASSUME NEW w \in Workers, DecWorking(w) PROVE PoolUnshared'
  BY <1>12 DEF DecWorking
<1>13. ASSUME NEW w \in Workers, Die(w) PROVE PoolUnshared'
  BY <1>13 DEF Die
<1>14. ASSUME NEW w \in Workers, Unlock(w) PROVE PoolUnshared'
  BY <1>14 DEF Unlock
<1>15. ASSUME NEW w \in Workers, HandlerStep(w) PROVE PoolUnshared'
  BY <1>15 DEF HandlerStep, EnterHold, LeaveHold
<1>16. ASSUME NEW c \in Clients, AddWorkPost(c) PROVE PoolUnshared'
  BY <1>16 DEF AddWorkPost, BsemPost
<1>17. ASSUME NEW c \in Clients, WaitTest(c) PROVE PoolUnshared'
  BY <1>17 DEF WaitTest
<1>18. ASSUME NEW c \in Clients, AddWork(c) PROVE PoolUnshared'
  BY <1>18 DEF AddWork
<1>19. ASSUME NEW c \in Clients, CallWait(c) PROVE PoolUnshared'
  BY <1>19 DEF CallWait
<1>20. ASSUME NEW c \in Clients, Pause(c) PROVE PoolUnshared'
  BY <1>20 DEF Pause
<1>21. ASSUME NEW c \in Clients, Resume(c) PROVE PoolUnshared'
  BY <1>21 DEF Resume
<1>22. CASE CreateThread
  BY <1>22 DEF CreateThread
<1>23. CASE AllCreated
  BY <1>23 DEF AllCreated
<1>24. CASE InitReturn
  BY <1>24 DEF InitReturn
<1>25. CASE DestroyPoll
  BY <1>25 DEF DestroyPoll
<1>26. CASE DestroyPostAll
  BY <1>26 DEF DestroyPostAll, BsemPostAll
<1>27. CASE DestroyFree
  BY <1>27 DEF DestroyFree
<1>28. CASE CallDestroy
  BY <1>28 DEF CallDestroy
<1>29. CASE SpuriousWakeup
  BY <1>29 DEF SpuriousWakeup
<1>30. CASE UNCHANGED vars
  BY <1>30 DEF vars
<1> QED
  BY <1>1, <1>2, <1>3, <1>4, <1>5, <1>6, <1>7, <1>8, <1>9, <1>10, <1>11,
     <1>12, <1>13, <1>14, <1>15, <1>16, <1>17, <1>18, <1>19, <1>20, <1>21,
     <1>22, <1>23, <1>24, <1>25, <1>26, <1>27, <1>28, <1>29, <1>30 DEF Next,
     WorkerStep, ContinueCall, NewCall, OwnerStep, Terminated

\* No client but the owner is in the API before thpool_init returns.
THEOREM PoolUnsharedAlways == Spec => []PoolUnshared
<1>1. Init => PoolUnshared
  BY DEF Init, PoolUnshared
<1> QED
  BY <1>1, PoolUnsharedStep, TypeCorrect, PTL DEF Spec

-----------------------------------------------------------------------------
(* No queued job is forgotten, and no thread sleeps through a post.        *)

\* NoLostJob is inductive: each step that takes the semaphore down, or ends
\* a pull or a push, leaves someone who will pull or post.
LEMMA NoLostJobStep == TypeOK /\ PoolUnshared /\ NoLostJob /\ [Next]_vars => NoLostJob'
<1> SUFFICES ASSUME TypeOK, PoolUnshared, NoLostJob, [Next]_vars PROVE NoLostJob'
  OBVIOUS
<1> USE DEF NoLostJob, TypeOK, At, poolVars, lockVars, jobVars, pauseVars
<1>1. ASSUME NEW w \in Workers, MarkAlive(w) PROVE NoLostJob'
  BY <1>1 DEF MarkAlive
<1>2. ASSUME NEW w \in Workers, LoopTest(w) PROVE NoLostJob'
  BY <1>2 DEF LoopTest
<1>3. ASSUME NEW w \in Workers, BsemTake(w) PROVE NoLostJob'
  BY <1>3 DEF BsemTake
<1>4. ASSUME NEW w \in Workers, BsemSleep(w) PROVE NoLostJob'
  BY <1>4 DEF BsemSleep
<1>5. ASSUME NEW w \in Workers, CheckAlive(w) PROVE NoLostJob'
  BY <1>5 DEF CheckAlive
<1>6. ASSUME NEW w \in Workers, IncWorking(w) PROVE NoLostJob'
  BY <1>6 DEF IncWorking
<1>7. ASSUME NEW w \in Workers, PullNothing(w) PROVE NoLostJob'
  BY <1>7 DEF PullNothing
<1>8. ASSUME NEW w \in Workers, PullLast(w) PROVE NoLostJob'
  BY <1>8 DEF PullLast
<1>9. ASSUME NEW w \in Workers, PullFront(w) PROVE NoLostJob'
  BY <1>9 DEF PullFront
<1>10. ASSUME NEW w \in Workers, PullPost(w) PROVE NoLostJob'
  BY <1>10 DEF PullPost, BsemPost
<1>11. ASSUME NEW w \in Workers, RunJob(w) PROVE NoLostJob'
  BY <1>11 DEF RunJob
<1>12. ASSUME NEW w \in Workers, DecWorking(w) PROVE NoLostJob'
  BY <1>12 DEF DecWorking
<1>13. ASSUME NEW w \in Workers, Die(w) PROVE NoLostJob'
  BY <1>13 DEF Die
<1>14. ASSUME NEW w \in Workers, Unlock(w) PROVE NoLostJob'
  BY <1>14 DEF Unlock
<1>15. ASSUME NEW w \in Workers, HandlerStep(w) PROVE NoLostJob'
  BY <1>15 DEF HandlerStep, EnterHold, LeaveHold
<1>16. ASSUME NEW c \in Clients, AddWorkPost(c) PROVE NoLostJob'
  BY <1>16 DEF AddWorkPost, BsemPost
<1>17. ASSUME NEW c \in Clients, WaitTest(c) PROVE NoLostJob'
  BY <1>17 DEF WaitTest
<1>18. ASSUME NEW c \in Clients, AddWork(c) PROVE NoLostJob'
  BY <1>18 DEF AddWork
<1>19. ASSUME NEW c \in Clients, CallWait(c) PROVE NoLostJob'
  BY <1>19 DEF CallWait
<1>20. ASSUME NEW c \in Clients, Pause(c) PROVE NoLostJob'
  BY <1>20 DEF Pause
<1>21. ASSUME NEW c \in Clients, Resume(c) PROVE NoLostJob'
  BY <1>21 DEF Resume
<1>22. CASE CreateThread
  BY <1>22 DEF CreateThread
<1>23. CASE AllCreated
  BY <1>23 DEF AllCreated
<1>24. CASE InitReturn
  BY <1>24, ClientsAssumption DEF InitReturn, PoolUnshared
<1>25. CASE DestroyPoll
  BY <1>25 DEF DestroyPoll
<1>26. CASE DestroyPostAll
  BY <1>26 DEF DestroyPostAll, BsemPostAll
<1>27. CASE DestroyFree
  BY <1>27 DEF DestroyFree
<1>28. CASE CallDestroy
  BY <1>28 DEF CallDestroy
<1>29. CASE SpuriousWakeup
  BY <1>29 DEF SpuriousWakeup
<1>30. CASE UNCHANGED vars
  BY <1>30 DEF vars
<1> QED
  BY <1>1, <1>2, <1>3, <1>4, <1>5, <1>6, <1>7, <1>8, <1>9, <1>10, <1>11,
     <1>12, <1>13, <1>14, <1>15, <1>16, <1>17, <1>18, <1>19, <1>20, <1>21,
     <1>22, <1>23, <1>24, <1>25, <1>26, <1>27, <1>28, <1>29, <1>30
     DEF Next, WorkerStep, ContinueCall, NewCall, OwnerStep, Terminated

\* While the pool serves, a queued job always has the semaphore up or a thread
\* on its way to pull or to post (jobqueue_push, jobqueue_pull, bsem_wait).
THEOREM LostJobNever == Spec => []NoLostJob
<1>1. Init => NoLostJob
  BY DEF Init, NoLostJob
<1> QED
  BY <1>1, NoLostJobStep, TypeCorrect, PoolUnsharedAlways, PTL DEF Spec

\* SomeoneAwake is inductive: v rises only with a wakeup, and a thread falls
\* asleep only while v is down.
LEMMA SomeoneAwakeStep == TypeOK /\ SomeoneAwake /\ [Next]_vars => SomeoneAwake'
<1> SUFFICES ASSUME TypeOK, SomeoneAwake, [Next]_vars PROVE SomeoneAwake'
  OBVIOUS
<1> USE DEF SomeoneAwake, TypeOK, At, poolVars, lockVars, jobVars, pauseVars
<1>1. ASSUME NEW w \in Workers, MarkAlive(w) PROVE SomeoneAwake'
  BY <1>1 DEF MarkAlive
<1>2. ASSUME NEW w \in Workers, LoopTest(w) PROVE SomeoneAwake'
  BY <1>2 DEF LoopTest
<1>3. ASSUME NEW w \in Workers, BsemTake(w) PROVE SomeoneAwake'
  BY <1>3 DEF BsemTake
<1>4. ASSUME NEW w \in Workers, BsemSleep(w) PROVE SomeoneAwake'
  BY <1>4 DEF BsemSleep
<1>5. ASSUME NEW w \in Workers, CheckAlive(w) PROVE SomeoneAwake'
  BY <1>5 DEF CheckAlive
<1>6. ASSUME NEW w \in Workers, IncWorking(w) PROVE SomeoneAwake'
  BY <1>6 DEF IncWorking
<1>7. ASSUME NEW w \in Workers, PullNothing(w) PROVE SomeoneAwake'
  BY <1>7 DEF PullNothing
<1>8. ASSUME NEW w \in Workers, PullLast(w) PROVE SomeoneAwake'
  BY <1>8 DEF PullLast
<1>9. ASSUME NEW w \in Workers, PullFront(w) PROVE SomeoneAwake'
  BY <1>9 DEF PullFront
<1>10. ASSUME NEW w \in Workers, PullPost(w) PROVE SomeoneAwake'
  BY <1>10 DEF PullPost, BsemPost
<1>11. ASSUME NEW w \in Workers, RunJob(w) PROVE SomeoneAwake'
  BY <1>11 DEF RunJob
<1>12. ASSUME NEW w \in Workers, DecWorking(w) PROVE SomeoneAwake'
  BY <1>12 DEF DecWorking
<1>13. ASSUME NEW w \in Workers, Die(w) PROVE SomeoneAwake'
  BY <1>13 DEF Die
<1>14. ASSUME NEW w \in Workers, Unlock(w) PROVE SomeoneAwake'
  BY <1>14 DEF Unlock
<1>15. ASSUME NEW w \in Workers, HandlerStep(w) PROVE SomeoneAwake'
  BY <1>15 DEF HandlerStep, EnterHold, LeaveHold
<1>16. ASSUME NEW c \in Clients, AddWorkPost(c) PROVE SomeoneAwake'
  BY <1>16 DEF AddWorkPost, BsemPost
<1>17. ASSUME NEW c \in Clients, WaitTest(c) PROVE SomeoneAwake'
  BY <1>17 DEF WaitTest
<1>18. ASSUME NEW c \in Clients, AddWork(c) PROVE SomeoneAwake'
  BY <1>18 DEF AddWork
<1>19. ASSUME NEW c \in Clients, CallWait(c) PROVE SomeoneAwake'
  BY <1>19 DEF CallWait
<1>20. ASSUME NEW c \in Clients, Pause(c) PROVE SomeoneAwake'
  BY <1>20 DEF Pause
<1>21. ASSUME NEW c \in Clients, Resume(c) PROVE SomeoneAwake'
  BY <1>21 DEF Resume
<1>22. CASE CreateThread
  BY <1>22 DEF CreateThread
<1>23. CASE AllCreated
  BY <1>23 DEF AllCreated
<1>24. CASE InitReturn
  BY <1>24 DEF InitReturn
<1>25. CASE DestroyPoll
  BY <1>25 DEF DestroyPoll
<1>26. CASE DestroyPostAll
  BY <1>26 DEF DestroyPostAll, BsemPostAll
<1>27. CASE DestroyFree
  BY <1>27 DEF DestroyFree
<1>28. CASE CallDestroy
  BY <1>28 DEF CallDestroy
<1>29. CASE SpuriousWakeup
  BY <1>29 DEF SpuriousWakeup
<1>30. CASE UNCHANGED vars
  BY <1>30 DEF vars
<1> QED
  BY <1>1, <1>2, <1>3, <1>4, <1>5, <1>6, <1>7, <1>8, <1>9, <1>10, <1>11,
     <1>12, <1>13, <1>14, <1>15, <1>16, <1>17, <1>18, <1>19, <1>20, <1>21,
     <1>22, <1>23, <1>24, <1>25, <1>26, <1>27, <1>28, <1>29, <1>30
     DEF Next, WorkerStep, ContinueCall, NewCall, OwnerStep, Terminated

\* bsem_wait loses no wakeup: v is not up with a thread asleep on the semaphore
\* and nobody about to test it.
THEOREM WakeupNeverLost == Spec => []SomeoneAwake
<1>1. Init => SomeoneAwake
  BY DEF Init, SomeoneAwake
<1> QED
  BY <1>1, SomeoneAwakeStep, TypeCorrect, PTL DEF Spec
==============================================================================
