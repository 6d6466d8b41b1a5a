------------------------- MODULE ThreadPoolRefinement -------------------------
(***************************************************************************)
(* More theorems about ThreadPool, for any number of workers, clients and  *)
(* jobs: the counters are exact, thpool_destroy tears down a pool that     *)
(* nobody uses, a lone caller of thpool_wait sleeps for a reason, and the  *)
(* pool implements JobPool.                                                *)
(***************************************************************************)
EXTENDS ThreadPoolProofs, FiniteSetTheorems, SequenceTheorems

-----------------------------------------------------------------------------
(* Who is where: the phases of a pool's life, and the holder of rwmutex.   *)

\* After CallDestroy only the owner is in the API, inside thpool_destroy.
Phases ==
  /\ keepalive = 0 => /\ cpc[Owner] \in {"poll", "postall", "clear", "over"}
                      /\ \A c \in Clients : c # Owner => cpc[c] = "over"
  /\ keepalive = 1 => \A c \in Clients : cpc[c] \notin {"poll", "postall", "clear", "over"}
  /\ freed <=> cpc[Owner] = "over"

\* rwmutex is held between steps by the thread that is about to post, if any.
RwHolder ==
  /\ \A w \in Workers : rwmutex = w <=> pc[w] = "pullpost"
  /\ \A c \in Clients : rwmutex = c <=> cpc[c] = "post"

\* Phases is inductive: the only way past idle is CallDestroy.
LEMMA PhasesStep == TypeOK /\ PoolUnshared /\ Phases /\ [Next]_vars => Phases'
<1> SUFFICES ASSUME TypeOK, PoolUnshared, Phases, [Next]_vars PROVE Phases'
  OBVIOUS
<1> USE ClientsAssumption, ThreadsAssumption DEF Phases, ClientPC, TypeOK, At, poolVars, lockVars, jobVars, pauseVars
<1>1. ASSUME NEW w \in Workers, MarkAlive(w) PROVE Phases'
  BY <1>1 DEF MarkAlive
<1>2. ASSUME NEW w \in Workers, LoopTest(w) PROVE Phases'
  BY <1>2 DEF LoopTest
<1>3. ASSUME NEW w \in Workers, BsemTake(w) PROVE Phases'
  BY <1>3 DEF BsemTake
<1>4. ASSUME NEW w \in Workers, BsemSleep(w) PROVE Phases'
  BY <1>4 DEF BsemSleep
<1>5. ASSUME NEW w \in Workers, CheckAlive(w) PROVE Phases'
  BY <1>5 DEF CheckAlive
<1>6. ASSUME NEW w \in Workers, IncWorking(w) PROVE Phases'
  BY <1>6 DEF IncWorking
<1>7. ASSUME NEW w \in Workers, PullNothing(w) PROVE Phases'
  BY <1>7 DEF PullNothing
<1>8. ASSUME NEW w \in Workers, PullLast(w) PROVE Phases'
  BY <1>8 DEF PullLast
<1>9. ASSUME NEW w \in Workers, PullFront(w) PROVE Phases'
  BY <1>9 DEF PullFront
<1>10. ASSUME NEW w \in Workers, PullPost(w) PROVE Phases'
  BY <1>10 DEF PullPost, BsemPost
<1>11. ASSUME NEW w \in Workers, RunJob(w) PROVE Phases'
  BY <1>11 DEF RunJob
<1>12. ASSUME NEW w \in Workers, DecWorking(w) PROVE Phases'
  BY <1>12 DEF DecWorking
<1>13. ASSUME NEW w \in Workers, Die(w) PROVE Phases'
  BY <1>13 DEF Die
<1>14. ASSUME NEW w \in Workers, Unlock(w) PROVE Phases'
  BY <1>14 DEF Unlock
<1>15. ASSUME NEW w \in Workers, HandlerStep(w) PROVE Phases'
  BY <1>15 DEF HandlerStep, EnterHold, LeaveHold
<1>16. ASSUME NEW c \in Clients, AddWorkPost(c) PROVE Phases'
  BY <1>16 DEF AddWorkPost, BsemPost
<1>17. ASSUME NEW c \in Clients, WaitTest(c) PROVE Phases'
  BY <1>17 DEF WaitTest
<1>18. ASSUME NEW c \in Clients, AddWork(c) PROVE Phases'
  BY <1>18 DEF AddWork
<1>19. ASSUME NEW c \in Clients, CallWait(c) PROVE Phases'
  BY <1>19 DEF CallWait
<1>20. ASSUME NEW c \in Clients, Pause(c) PROVE Phases'
  BY <1>20 DEF Pause
<1>21. ASSUME NEW c \in Clients, Resume(c) PROVE Phases'
  BY <1>21 DEF Resume
<1>22. CASE CreateThread
  BY <1>22 DEF CreateThread
<1>23. CASE AllCreated
  BY <1>23 DEF AllCreated
<1>24. CASE InitReturn
  BY <1>24 DEF InitReturn, PoolUnshared
<1>25. CASE DestroyPoll
  BY <1>25 DEF DestroyPoll
<1>26. CASE DestroyPostAll
  BY <1>26 DEF DestroyPostAll, BsemPostAll
<1>27. CASE DestroyFree
  BY <1>27 DEF DestroyFree
<1>28. CASE CallDestroy
  BY <1>28 DEF CallDestroy
<1>29. CASE SpuriousWakeup
  BY <1>29 DEF SpuriousWakeup
<1>30. CASE UNCHANGED vars
  BY <1>30 DEF vars
<1> QED
  BY <1>1, <1>2, <1>3, <1>4, <1>5, <1>6, <1>7, <1>8, <1>9, <1>10, <1>11,
     <1>12, <1>13, <1>14, <1>15, <1>16, <1>17, <1>18, <1>19, <1>20, <1>21,
     <1>22, <1>23, <1>24, <1>25, <1>26, <1>27, <1>28, <1>29, <1>30
     DEF Next, WorkerStep, ContinueCall, NewCall, OwnerStep, Terminated

\* RwHolder is inductive: rwmutex is taken free, and given back by its holder.
LEMMA RwHolderStep == TypeOK /\ PoolUnshared /\ RwHolder /\ [Next]_vars => RwHolder'
<1> SUFFICES ASSUME TypeOK, PoolUnshared, RwHolder, [Next]_vars PROVE RwHolder'
  OBVIOUS
<1> USE ClientsAssumption, ThreadsAssumption DEF RwHolder, TypeOK, At, poolVars, lockVars, jobVars, pauseVars
<1>1. ASSUME NEW w \in Workers, MarkAlive(w) PROVE RwHolder'
  BY <1>1 DEF MarkAlive
<1>2. ASSUME NEW w \in Workers, LoopTest(w) PROVE RwHolder'
  BY <1>2 DEF LoopTest
<1>3. ASSUME NEW w \in Workers, BsemTake(w) PROVE RwHolder'
  BY <1>3 DEF BsemTake
<1>4. ASSUME NEW w \in Workers, BsemSleep(w) PROVE RwHolder'
  BY <1>4 DEF BsemSleep
<1>5. ASSUME NEW w \in Workers, CheckAlive(w) PROVE RwHolder'
  BY <1>5 DEF CheckAlive
<1>6. ASSUME NEW w \in Workers, IncWorking(w) PROVE RwHolder'
  BY <1>6 DEF IncWorking
<1>7. ASSUME NEW w \in Workers, PullNothing(w) PROVE RwHolder'
  BY <1>7 DEF PullNothing
<1>8. ASSUME NEW w \in Workers, PullLast(w) PROVE RwHolder'
  BY <1>8 DEF PullLast
<1>9. ASSUME NEW w \in Workers, PullFront(w) PROVE RwHolder'
  BY <1>9 DEF PullFront
<1>10. ASSUME NEW w \in Workers, PullPost(w) PROVE RwHolder'
  BY <1>10 DEF PullPost, BsemPost
<1>11. ASSUME NEW w \in Workers, RunJob(w) PROVE RwHolder'
  BY <1>11 DEF RunJob
<1>12. ASSUME NEW w \in Workers, DecWorking(w) PROVE RwHolder'
  BY <1>12 DEF DecWorking
<1>13. ASSUME NEW w \in Workers, Die(w) PROVE RwHolder'
  BY <1>13 DEF Die
<1>14. ASSUME NEW w \in Workers, Unlock(w) PROVE RwHolder'
  BY <1>14 DEF Unlock
<1>15. ASSUME NEW w \in Workers, HandlerStep(w) PROVE RwHolder'
  BY <1>15 DEF HandlerStep, EnterHold, LeaveHold
<1>16. ASSUME NEW c \in Clients, AddWorkPost(c) PROVE RwHolder'
  BY <1>16 DEF AddWorkPost, BsemPost
<1>17. ASSUME NEW c \in Clients, WaitTest(c) PROVE RwHolder'
  BY <1>17 DEF WaitTest
<1>18. ASSUME NEW c \in Clients, AddWork(c) PROVE RwHolder'
  BY <1>18 DEF AddWork
<1>19. ASSUME NEW c \in Clients, CallWait(c) PROVE RwHolder'
  BY <1>19 DEF CallWait
<1>20. ASSUME NEW c \in Clients, Pause(c) PROVE RwHolder'
  BY <1>20 DEF Pause
<1>21. ASSUME NEW c \in Clients, Resume(c) PROVE RwHolder'
  BY <1>21 DEF Resume
<1>22. CASE CreateThread
  BY <1>22 DEF CreateThread
<1>23. CASE AllCreated
  BY <1>23 DEF AllCreated
<1>24. CASE InitReturn
  BY <1>24 DEF InitReturn, PoolUnshared
<1>25. CASE DestroyPoll
  BY <1>25 DEF DestroyPoll
<1>26. CASE DestroyPostAll
  BY <1>26 DEF DestroyPostAll, BsemPostAll
<1>27. CASE DestroyFree
  BY <1>27 DEF DestroyFree
<1>28. CASE CallDestroy
  BY <1>28 DEF CallDestroy
<1>29. CASE SpuriousWakeup
  BY <1>29 DEF SpuriousWakeup
<1>30. CASE UNCHANGED vars
  BY <1>30 DEF vars
<1> QED
  BY <1>1, <1>2, <1>3, <1>4, <1>5, <1>6, <1>7, <1>8, <1>9, <1>10, <1>11,
     <1>12, <1>13, <1>14, <1>15, <1>16, <1>17, <1>18, <1>19, <1>20, <1>21,
     <1>22, <1>23, <1>24, <1>25, <1>26, <1>27, <1>28, <1>29, <1>30
     DEF Next, WorkerStep, ContinueCall, NewCall, OwnerStep, Terminated

-----------------------------------------------------------------------------
(* The counters.                                                           *)

Section == {w \in Workers : InWorkSection(w)}
Alive == {w \in Workers : Living(w)}

\* Entering or leaving one of the two sets changes its size by one.
LEMMA SectionSize ==
  ASSUME TypeOK, NEW w \in Workers
  PROVE  /\ Section' = Section => Cardinality(Section') = Cardinality(Section)
         /\ Section' = Section \cup {w} /\ w \notin Section
              => Cardinality(Section') = Cardinality(Section) + 1
         /\ Section' = Section \ {w} /\ w \in Section
              => Cardinality(Section') = Cardinality(Section) - 1
<1>1. IsFiniteSet(Section)
  BY ThreadsAssumption, FS_Subset DEF Section
<1> QED
  BY <1>1, FS_AddElement, FS_RemoveElement

\* One worker more or less is counted as one.
LEMMA AliveSize ==
  ASSUME TypeOK, NEW w \in Workers
  PROVE  /\ Alive' = Alive => Cardinality(Alive') = Cardinality(Alive)
         /\ Alive' = Alive \cup {w} /\ w \notin Alive
              => Cardinality(Alive') = Cardinality(Alive) + 1
         /\ Alive' = Alive \ {w} /\ w \in Alive
              => Cardinality(Alive') = Cardinality(Alive) - 1
<1>1. IsFiniteSet(Alive)
  BY ThreadsAssumption, FS_Subset DEF Alive
<1> QED
  BY <1>1, FS_AddElement, FS_RemoveElement

\* A step that moves no thread in or out of the sets leaves the counters exact.
LEMMA CountersUnmoved ==
  ASSUME CountersExact, UNCHANGED <<working, alive>>,
         \A w \in Workers : /\ InWorkSection(w)' <=> InWorkSection(w)
                            /\ Living(w)' <=> Living(w)
  PROVE  CountersExact'
<1>1. Section' = Section /\ Alive' = Alive
  BY DEF Section, Alive
<1> QED
  BY <1>1 DEF CountersExact, Section, Alive

\* CountersExact is inductive: the counters move with the threads they count.
LEMMA CountersExactStep == TypeOK /\ CountersExact /\ [Next]_vars => CountersExact'
<1> SUFFICES ASSUME TypeOK, CountersExact, [Next]_vars PROVE CountersExact'
  OBVIOUS
<1> USE ClientsAssumption, ThreadsAssumption DEF TypeOK, At, poolVars, lockVars, jobVars, pauseVars
<1>1. ASSUME NEW w \in Workers, MarkAlive(w) PROVE CountersExact'
  <2>1. Alive' = Alive \cup {w} /\ w \notin Alive /\ Section' = Section
    BY <1>1 DEF MarkAlive, Section, Alive, InWorkSection, Living
  <2>2. Cardinality(Alive') = Cardinality(Alive) + 1 /\ Cardinality(Section') = Cardinality(Section)
    BY <2>1, AliveSize
  <2> QED
    BY <1>1, <2>2 DEF MarkAlive, CountersExact, Section, Alive
<1>2. ASSUME NEW w \in Workers, LoopTest(w) PROVE CountersExact'
  BY <1>2, CountersUnmoved DEF LoopTest, InWorkSection, Living
<1>3. ASSUME NEW w \in Workers, BsemTake(w) PROVE CountersExact'
  BY <1>3, CountersUnmoved DEF BsemTake, InWorkSection, Living
<1>4. ASSUME NEW w \in Workers, BsemSleep(w) PROVE CountersExact'
  BY <1>4, CountersUnmoved DEF BsemSleep, InWorkSection, Living
<1>5. ASSUME NEW w \in Workers, CheckAlive(w) PROVE CountersExact'
  BY <1>5, CountersUnmoved DEF CheckAlive, InWorkSection, Living
<1>6. ASSUME NEW w \in Workers, IncWorking(w) PROVE CountersExact'
  <2>1. Section' = Section \cup {w} /\ w \notin Section /\ Alive' = Alive
    BY <1>6 DEF IncWorking, Section, Alive, InWorkSection, Living
  <2>2. Cardinality(Section') = Cardinality(Section) + 1 /\ Cardinality(Alive') = Cardinality(Alive)
    BY <2>1, SectionSize
  <2> QED
    BY <1>6, <2>2 DEF IncWorking, CountersExact, Section, Alive
<1>7. ASSUME NEW w \in Workers, PullNothing(w) PROVE CountersExact'
  BY <1>7, CountersUnmoved DEF PullNothing, InWorkSection, Living
<1>8. ASSUME NEW w \in Workers, PullLast(w) PROVE CountersExact'
  BY <1>8, CountersUnmoved DEF PullLast, InWorkSection, Living
<1>9. ASSUME NEW w \in Workers, PullFront(w) PROVE CountersExact'
  BY <1>9, CountersUnmoved DEF PullFront, InWorkSection, Living
<1>10. ASSUME NEW w \in Workers, PullPost(w) PROVE CountersExact'
  BY <1>10, CountersUnmoved DEF PullPost, BsemPost, InWorkSection, Living
<1>11. ASSUME NEW w \in Workers, RunJob(w) PROVE CountersExact'
  BY <1>11, CountersUnmoved DEF RunJob, InWorkSection, Living
<1>12. ASSUME NEW w \in Workers, DecWorking(w) PROVE CountersExact'
  <2>1. Section' = Section \ {w} /\ w \in Section /\ Alive' = Alive
    BY <1>12 DEF DecWorking, Section, Alive, InWorkSection, Living
  <2>2. Cardinality(Section') = Cardinality(Section) - 1 /\ Cardinality(Alive') = Cardinality(Alive)
    BY <2>1, SectionSize
  <2> QED
    BY <1>12, <2>2 DEF DecWorking, CountersExact, Section, Alive
<1>13. ASSUME NEW w \in Workers, Die(w) PROVE CountersExact'
  <2>1. Alive' = Alive \ {w} /\ w \in Alive /\ Section' = Section
    BY <1>13 DEF Die, Section, Alive, InWorkSection, Living
  <2>2. Cardinality(Alive') = Cardinality(Alive) - 1 /\ Cardinality(Section') = Cardinality(Section)
    BY <2>1, AliveSize
  <2> QED
    BY <1>13, <2>2 DEF Die, CountersExact, Section, Alive
<1>14. ASSUME NEW w \in Workers, Unlock(w) PROVE CountersExact'
  BY <1>14, CountersUnmoved DEF Unlock, InWorkSection, Living
<1>15. ASSUME NEW w \in Workers, HandlerStep(w) PROVE CountersExact'
  BY <1>15, CountersUnmoved DEF HandlerStep, EnterHold, LeaveHold, InWorkSection, Living
<1>16. ASSUME NEW c \in Clients, AddWorkPost(c) PROVE CountersExact'
  BY <1>16, CountersUnmoved DEF AddWorkPost, BsemPost, InWorkSection, Living
<1>17. ASSUME NEW c \in Clients, WaitTest(c) PROVE CountersExact'
  BY <1>17, CountersUnmoved DEF WaitTest, InWorkSection, Living
<1>18. ASSUME NEW c \in Clients, AddWork(c) PROVE CountersExact'
  BY <1>18, CountersUnmoved DEF AddWork, InWorkSection, Living
<1>19. ASSUME NEW c \in Clients, CallWait(c) PROVE CountersExact'
  BY <1>19, CountersUnmoved DEF CallWait, InWorkSection, Living
<1>20. ASSUME NEW c \in Clients, Pause(c) PROVE CountersExact'
  BY <1>20, CountersUnmoved DEF Pause, InWorkSection, Living
<1>21. ASSUME NEW c \in Clients, Resume(c) PROVE CountersExact'
  BY <1>21, CountersUnmoved DEF Resume, InWorkSection, Living
<1>22. CASE CreateThread
  BY <1>22, CountersUnmoved DEF CreateThread, InWorkSection, Living
<1>23. CASE AllCreated
  BY <1>23, CountersUnmoved DEF AllCreated, InWorkSection, Living
<1>24. CASE InitReturn
  BY <1>24, CountersUnmoved DEF InitReturn, InWorkSection, Living
<1>25. CASE DestroyPoll
  BY <1>25, CountersUnmoved DEF DestroyPoll, InWorkSection, Living
<1>26. CASE DestroyPostAll
  BY <1>26, CountersUnmoved DEF DestroyPostAll, BsemPostAll, InWorkSection, Living
<1>27. CASE DestroyFree
  BY <1>27, CountersUnmoved DEF DestroyFree, InWorkSection, Living
<1>28. CASE CallDestroy
  BY <1>28, CountersUnmoved DEF CallDestroy, InWorkSection, Living
<1>29. CASE SpuriousWakeup
  BY <1>29, CountersUnmoved DEF SpuriousWakeup, InWorkSection, Living
<1>30. CASE UNCHANGED vars
  BY <1>30, CountersUnmoved DEF vars, InWorkSection, Living
<1> QED
  BY <1>1, <1>2, <1>3, <1>4, <1>5, <1>6, <1>7, <1>8, <1>9, <1>10, <1>11,
     <1>12, <1>13, <1>14, <1>15, <1>16, <1>17, <1>18, <1>19, <1>20, <1>21,
     <1>22, <1>23, <1>24, <1>25, <1>26, <1>27, <1>28, <1>29, <1>30
     DEF Next, WorkerStep, ContinueCall, NewCall, OwnerStep, Terminated


\* num_threads_working is the number of threads between its increment and its
\* decrement, num_threads_alive the number of threads in the loop of thread_do.
THEOREM CountersAlwaysExact == Spec => []CountersExact
<1>1. Init => CountersExact
  <2> SUFFICES ASSUME Init PROVE CountersExact
    OBVIOUS
  <2>1. Section = {} /\ Alive = {}
    BY DEF Init, Section, Alive, InWorkSection, Living
  <2> QED
    BY <2>1, FS_EmptySet DEF Init, CountersExact, Section, Alive
<1> QED
  BY <1>1, CountersExactStep, TypeCorrect, PTL DEF Spec

-----------------------------------------------------------------------------
(* thpool_destroy.                                                         *)

\* thpool_init creates every thread before it spins, and returns only when
\* every thread has counted itself in.
Started ==
  /\ cpc[Owner] = "spin" => \A w \in Workers : pc[w] # "none"
  /\ cpc[Owner] \notin {"init", "spin"} => \A w \in Workers : pc[w] \notin {"none", "start"}

\* Started is inductive: when alive is the number of threads, all are alive.
LEMMA StartedStep == TypeOK /\ CountersExact /\ Started /\ [Next]_vars => Started'
<1> SUFFICES ASSUME TypeOK, CountersExact, Started, [Next]_vars PROVE Started'
  OBVIOUS
<1> USE ClientsAssumption, ThreadsAssumption DEF Started, TypeOK, At, poolVars, lockVars, jobVars, pauseVars
<1>1. ASSUME NEW w \in Workers, MarkAlive(w) PROVE Started'
  BY <1>1 DEF MarkAlive
<1>2. ASSUME NEW w \in Workers, LoopTest(w) PROVE Started'
  BY <1>2 DEF LoopTest
<1>3. ASSUME NEW w \in Workers, BsemTake(w) PROVE Started'
  BY <1>3 DEF BsemTake
<1>4. ASSUME NEW w \in Workers, BsemSleep(w) PROVE Started'
  BY <1>4 DEF BsemSleep
<1>5. ASSUME NEW w \in Workers, CheckAlive(w) PROVE Started'
  BY <1>5 DEF CheckAlive
<1>6. ASSUME NEW w \in Workers, IncWorking(w) PROVE Started'
  BY <1>6 DEF IncWorking
<1>7. ASSUME NEW w \in Workers, PullNothing(w) PROVE Started'
  BY <1>7 DEF PullNothing
<1>8. ASSUME NEW w \in Workers, PullLast(w) PROVE Started'
  BY <1>8 DEF PullLast
<1>9. ASSUME NEW w \in Workers, PullFront(w) PROVE Started'
  BY <1>9 DEF PullFront
<1>10. ASSUME NEW w \in Workers, PullPost(w) PROVE Started'
  BY <1>10 DEF PullPost, BsemPost
<1>11. ASSUME NEW w \in Workers, RunJob(w) PROVE Started'
  BY <1>11 DEF RunJob
<1>12. ASSUME NEW w \in Workers, DecWorking(w) PROVE Started'
  BY <1>12 DEF DecWorking
<1>13. ASSUME NEW w \in Workers, Die(w) PROVE Started'
  BY <1>13 DEF Die
<1>14. ASSUME NEW w \in Workers, Unlock(w) PROVE Started'
  BY <1>14 DEF Unlock
<1>15. ASSUME NEW w \in Workers, HandlerStep(w) PROVE Started'
  BY <1>15 DEF HandlerStep, EnterHold, LeaveHold
<1>16. ASSUME NEW c \in Clients, AddWorkPost(c) PROVE Started'
  BY <1>16 DEF AddWorkPost, BsemPost
<1>17. ASSUME NEW c \in Clients, WaitTest(c) PROVE Started'
  BY <1>17 DEF WaitTest
<1>18. ASSUME NEW c \in Clients, AddWork(c) PROVE Started'
  BY <1>18 DEF AddWork
<1>19. ASSUME NEW c \in Clients, CallWait(c) PROVE Started'
  BY <1>19 DEF CallWait
<1>20. ASSUME NEW c \in Clients, Pause(c) PROVE Started'
  BY <1>20 DEF Pause
<1>21. ASSUME NEW c \in Clients, Resume(c) PROVE Started'
  BY <1>21 DEF Resume
<1>22. CASE CreateThread
  BY <1>22 DEF CreateThread
<1>23. CASE AllCreated
  BY <1>23 DEF AllCreated
<1>24. CASE InitReturn
  <2>1. Alive = Workers
    BY <1>24, FS_Subset DEF InitReturn, CountersExact, Alive
  <2> QED
    BY <1>24, <2>1 DEF InitReturn, Alive, Living
<1>25. CASE DestroyPoll
  BY <1>25 DEF DestroyPoll
<1>26. CASE DestroyPostAll
  BY <1>26 DEF DestroyPostAll, BsemPostAll
<1>27. CASE DestroyFree
  BY <1>27 DEF DestroyFree
<1>28. CASE CallDestroy
  BY <1>28 DEF CallDestroy
<1>29. CASE SpuriousWakeup
  BY <1>29 DEF SpuriousWakeup
<1>30. CASE UNCHANGED vars
  BY <1>30 DEF vars
<1> QED
  BY <1>1, <1>2, <1>3, <1>4, <1>5, <1>6, <1>7, <1>8, <1>9, <1>10, <1>11,
     <1>12, <1>13, <1>14, <1>15, <1>16, <1>17, <1>18, <1>19, <1>20, <1>21,
     <1>22, <1>23, <1>24, <1>25, <1>26, <1>27, <1>28, <1>29, <1>30
     DEF Next, WorkerStep, ContinueCall, NewCall, OwnerStep, Terminated

\* ClearAlone is inductive: when alive is zero no thread is left in the loop of
\* thread_do, so none holds rwmutex.
LEMMA ClearAloneStep == TypeOK /\ Phases /\ RwHolder /\ Started /\ CountersExact /\ ClearAlone /\ [Next]_vars => ClearAlone'
<1> SUFFICES ASSUME TypeOK, Phases, RwHolder, Started, CountersExact, ClearAlone, [Next]_vars PROVE ClearAlone'
  OBVIOUS
<1> USE ClientsAssumption, ThreadsAssumption DEF ClearAlone, Phases, TypeOK, At, poolVars, lockVars, jobVars, pauseVars
<1>1. ASSUME NEW w \in Workers, MarkAlive(w) PROVE ClearAlone'
  BY <1>1 DEF MarkAlive
<1>2. ASSUME NEW w \in Workers, LoopTest(w) PROVE ClearAlone'
  BY <1>2 DEF LoopTest
<1>3. ASSUME NEW w \in Workers, BsemTake(w) PROVE ClearAlone'
  BY <1>3 DEF BsemTake
<1>4. ASSUME NEW w \in Workers, BsemSleep(w) PROVE ClearAlone'
  BY <1>4 DEF BsemSleep
<1>5. ASSUME NEW w \in Workers, CheckAlive(w) PROVE ClearAlone'
  BY <1>5 DEF CheckAlive
<1>6. ASSUME NEW w \in Workers, IncWorking(w) PROVE ClearAlone'
  BY <1>6 DEF IncWorking
<1>7. ASSUME NEW w \in Workers, PullNothing(w) PROVE ClearAlone'
  BY <1>7 DEF PullNothing
<1>8. ASSUME NEW w \in Workers, PullLast(w) PROVE ClearAlone'
  BY <1>8 DEF PullLast
<1>9. ASSUME NEW w \in Workers, PullFront(w) PROVE ClearAlone'
  BY <1>9 DEF PullFront
<1>10. ASSUME NEW w \in Workers, PullPost(w) PROVE ClearAlone'
  BY <1>10 DEF PullPost, BsemPost
<1>11. ASSUME NEW w \in Workers, RunJob(w) PROVE ClearAlone'
  BY <1>11 DEF RunJob
<1>12. ASSUME NEW w \in Workers, DecWorking(w) PROVE ClearAlone'
  BY <1>12 DEF DecWorking
<1>13. ASSUME NEW w \in Workers, Die(w) PROVE ClearAlone'
  BY <1>13 DEF Die
<1>14. ASSUME NEW w \in Workers, Unlock(w) PROVE ClearAlone'
  BY <1>14 DEF Unlock
<1>15. ASSUME NEW w \in Workers, HandlerStep(w) PROVE ClearAlone'
  BY <1>15 DEF HandlerStep, EnterHold, LeaveHold
<1>16. ASSUME NEW c \in Clients, AddWorkPost(c) PROVE ClearAlone'
  BY <1>16 DEF AddWorkPost, BsemPost
<1>17. ASSUME NEW c \in Clients, WaitTest(c) PROVE ClearAlone'
  BY <1>17 DEF WaitTest
<1>18. ASSUME NEW c \in Clients, AddWork(c) PROVE ClearAlone'
  BY <1>18 DEF AddWork
<1>19. ASSUME NEW c \in Clients, CallWait(c) PROVE ClearAlone'
  BY <1>19 DEF CallWait
<1>20. ASSUME NEW c \in Clients, Pause(c) PROVE ClearAlone'
  BY <1>20 DEF Pause
<1>21. ASSUME NEW c \in Clients, Resume(c) PROVE ClearAlone'
  BY <1>21 DEF Resume
<1>22. CASE CreateThread
  BY <1>22 DEF CreateThread
<1>23. CASE AllCreated
  BY <1>23 DEF AllCreated
<1>24. CASE InitReturn
  BY <1>24 DEF InitReturn
<1>25. CASE DestroyPoll
  <2> SUFFICES ASSUME alive = 0 PROVE ClearAlone'
    BY <1>25 DEF DestroyPoll
  <2>1. Alive = {}
    BY FS_Subset, FS_EmptySet DEF CountersExact, Alive
  <2>2. \A w \in Workers : pc[w] \in {"unlock", "exit"}
    BY <1>25, <2>1 DEF DestroyPoll, Started, Alive, Living
  <2>3. \A c \in Clients : cpc[c] # "post"
    BY <1>25 DEF DestroyPoll
  <2>4. rwmutex = NoThread
    BY <2>2, <2>3 DEF RwHolder
  <2> QED
    BY <1>25, <2>2, <2>4 DEF DestroyPoll
<1>26. CASE DestroyPostAll
  BY <1>26 DEF DestroyPostAll, BsemPostAll
<1>27. CASE DestroyFree
  BY <1>27 DEF DestroyFree
<1>28. CASE CallDestroy
  BY <1>28 DEF CallDestroy
<1>29. CASE SpuriousWakeup
  BY <1>29 DEF SpuriousWakeup
<1>30. CASE UNCHANGED vars
  BY <1>30 DEF vars
<1> QED
  BY <1>1, <1>2, <1>3, <1>4, <1>5, <1>6, <1>7, <1>8, <1>9, <1>10, <1>11,
     <1>12, <1>13, <1>14, <1>15, <1>16, <1>17, <1>18, <1>19, <1>20, <1>21,
     <1>22, <1>23, <1>24, <1>25, <1>26, <1>27, <1>28, <1>29, <1>30
     DEF Next, WorkerStep, ContinueCall, NewCall, OwnerStep, Terminated


\* What a thread knows of the others by where it stands.
PoolInv ==
  TypeOK /\ PoolUnshared /\ Phases /\ RwHolder /\ CountersExact /\ Started /\ ClearAlone

\* The parts of PoolInv, each from its own step lemma.
THEOREM PoolInvAlways == Spec => []PoolInv
<1>1. Init => Phases /\ RwHolder /\ Started /\ ClearAlone
  BY ClientsAssumption, ThreadsAssumption
     DEF Init, Phases, RwHolder, Started, ClearAlone
<1>2. TypeOK /\ PoolUnshared /\ CountersExact /\ TypeOK' /\ [Next]_vars
      /\ (Phases /\ RwHolder /\ Started /\ ClearAlone)
      => (Phases /\ RwHolder /\ Started /\ ClearAlone)'
  BY PhasesStep, RwHolderStep, StartedStep, ClearAloneStep
<1> QED
  BY <1>1, <1>2, TypeCorrect, PoolUnsharedAlways, CountersAlwaysExact, PTL
     DEF Spec, PoolInv

\* thpool_destroy empties the queue and frees the pool only when no thread can
\* be in the queue any more.
THEOREM ClearedAlone == Spec => []ClearAlone
BY PoolInvAlways, PTL DEF PoolInv

-----------------------------------------------------------------------------
(* thpool_wait.                                                            *)

\* Only the clients in Waiters call thpool_wait.
WaitersWait == \A c \in Clients : cpc[c] \in {"wait", "cond"} => c \in Waiters

\* A thread between its increment and its decrement keeps the counter off zero.
LEMMA WorkSeen ==
  ASSUME CountersExact, NEW w \in Workers, InWorkSection(w)
  PROVE  working # 0
<1>1. IsFiniteSet(Section) /\ w \in Section
  BY ThreadsAssumption, FS_Subset DEF Section
<1> QED
  BY <1>1, FS_EmptySet DEF CountersExact, Section

\* WaitersWait is inductive: CallWait is the only way in.
LEMMA WaitersWaitStep == TypeOK /\ WaitersWait /\ [Next]_vars => WaitersWait'
<1> SUFFICES ASSUME TypeOK, WaitersWait, [Next]_vars PROVE WaitersWait'
  OBVIOUS
<1> USE ClientsAssumption, ThreadsAssumption DEF WaitersWait, TypeOK, At, poolVars, lockVars, jobVars, pauseVars
<1>1. ASSUME NEW w \in Workers, MarkAlive(w) PROVE WaitersWait'
  BY <1>1 DEF MarkAlive
<1>2. ASSUME NEW w \in Workers, LoopTest(w) PROVE WaitersWait'
  BY <1>2 DEF LoopTest
<1>3. ASSUME NEW w \in Workers, BsemTake(w) PROVE WaitersWait'
  BY <1>3 DEF BsemTake
<1>4. ASSUME NEW w \in Workers, BsemSleep(w) PROVE WaitersWait'
  BY <1>4 DEF BsemSleep
<1>5. ASSUME NEW w \in Workers, CheckAlive(w) PROVE WaitersWait'
  BY <1>5 DEF CheckAlive
<1>6. ASSUME NEW w \in Workers, IncWorking(w) PROVE WaitersWait'
  BY <1>6 DEF IncWorking
<1>7. ASSUME NEW w \in Workers, PullNothing(w) PROVE WaitersWait'
  BY <1>7 DEF PullNothing
<1>8. ASSUME NEW w \in Workers, PullLast(w) PROVE WaitersWait'
  BY <1>8 DEF PullLast
<1>9. ASSUME NEW w \in Workers, PullFront(w) PROVE WaitersWait'
  BY <1>9 DEF PullFront
<1>10. ASSUME NEW w \in Workers, PullPost(w) PROVE WaitersWait'
  BY <1>10 DEF PullPost, BsemPost
<1>11. ASSUME NEW w \in Workers, RunJob(w) PROVE WaitersWait'
  BY <1>11 DEF RunJob
<1>12. ASSUME NEW w \in Workers, DecWorking(w) PROVE WaitersWait'
  BY <1>12 DEF DecWorking
<1>13. ASSUME NEW w \in Workers, Die(w) PROVE WaitersWait'
  BY <1>13 DEF Die
<1>14. ASSUME NEW w \in Workers, Unlock(w) PROVE WaitersWait'
  BY <1>14 DEF Unlock
<1>15. ASSUME NEW w \in Workers, HandlerStep(w) PROVE WaitersWait'
  BY <1>15 DEF HandlerStep, EnterHold, LeaveHold
<1>16. ASSUME NEW c \in Clients, AddWorkPost(c) PROVE WaitersWait'
  BY <1>16 DEF AddWorkPost, BsemPost
<1>17. ASSUME NEW c \in Clients, WaitTest(c) PROVE WaitersWait'
  BY <1>17 DEF WaitTest
<1>18. ASSUME NEW c \in Clients, AddWork(c) PROVE WaitersWait'
  BY <1>18 DEF AddWork
<1>19. ASSUME NEW c \in Clients, CallWait(c) PROVE WaitersWait'
  BY <1>19 DEF CallWait
<1>20. ASSUME NEW c \in Clients, Pause(c) PROVE WaitersWait'
  BY <1>20 DEF Pause
<1>21. ASSUME NEW c \in Clients, Resume(c) PROVE WaitersWait'
  BY <1>21 DEF Resume
<1>22. CASE CreateThread
  BY <1>22 DEF CreateThread
<1>23. CASE AllCreated
  BY <1>23 DEF AllCreated
<1>24. CASE InitReturn
  BY <1>24 DEF InitReturn
<1>25. CASE DestroyPoll
  BY <1>25 DEF DestroyPoll
<1>26. CASE DestroyPostAll
  BY <1>26 DEF DestroyPostAll, BsemPostAll
<1>27. CASE DestroyFree
  BY <1>27 DEF DestroyFree
<1>28. CASE CallDestroy
  BY <1>28 DEF CallDestroy
<1>29. CASE SpuriousWakeup
  BY <1>29 DEF SpuriousWakeup
<1>30. CASE UNCHANGED vars
  BY <1>30 DEF vars
<1> QED
  BY <1>1, <1>2, <1>3, <1>4, <1>5, <1>6, <1>7, <1>8, <1>9, <1>10, <1>11,
     <1>12, <1>13, <1>14, <1>15, <1>16, <1>17, <1>18, <1>19, <1>20, <1>21,
     <1>22, <1>23, <1>24, <1>25, <1>26, <1>27, <1>28, <1>29, <1>30
     DEF Next, WorkerStep, ContinueCall, NewCall, OwnerStep, Terminated


\* A client sleeps in thpool_wait only with a job queued or being executed,
\* when no other client waits: one signal per zero of the counter is enough.
OneWaiter == \A c, d \in Waiters : c = d

\* WaiterHasReason is inductive: the step that ends the last reason wakes the
\* only waiter, and a pull that empties the queue leaves its thread counted.
LEMMA WaiterHasReasonStep == OneWaiter /\ PoolInv /\ WaitersWait /\ WaiterHasReason /\ [Next]_vars => WaiterHasReason'
<1> SUFFICES ASSUME OneWaiter, PoolInv, WaitersWait, WaiterHasReason, [Next]_vars PROVE WaiterHasReason'
  OBVIOUS
<1> USE ClientsAssumption, ThreadsAssumption DEF WaiterHasReason, PoolInv, Phases, TypeOK, At, poolVars, lockVars, jobVars, pauseVars
<1>1. ASSUME NEW w \in Workers, MarkAlive(w) PROVE WaiterHasReason'
  BY <1>1 DEF MarkAlive
<1>2. ASSUME NEW w \in Workers, LoopTest(w) PROVE WaiterHasReason'
  BY <1>2 DEF LoopTest
<1>3. ASSUME NEW w \in Workers, BsemTake(w) PROVE WaiterHasReason'
  BY <1>3 DEF BsemTake
<1>4. ASSUME NEW w \in Workers, BsemSleep(w) PROVE WaiterHasReason'
  BY <1>4 DEF BsemSleep
<1>5. ASSUME NEW w \in Workers, CheckAlive(w) PROVE WaiterHasReason'
  BY <1>5 DEF CheckAlive
<1>6. ASSUME NEW w \in Workers, IncWorking(w) PROVE WaiterHasReason'
  <2>1. working \in Nat
    BY ThreadsAssumption, FS_Subset, FS_CardinalityType DEF CountersExact
  <2> QED
    BY <1>6, <2>1 DEF IncWorking
<1>7. ASSUME NEW w \in Workers, PullNothing(w) PROVE WaiterHasReason'
  BY <1>7 DEF PullNothing
<1>8. ASSUME NEW w \in Workers, PullLast(w) PROVE WaiterHasReason'
  <2>1. working # 0
    BY <1>8, WorkSeen DEF PullLast, InWorkSection
  <2> QED
    BY <1>8, <2>1 DEF PullLast
<1>9. ASSUME NEW w \in Workers, PullFront(w) PROVE WaiterHasReason'
  <2>1. Len(queue') > 0
    BY <1>9 DEF PullFront
  <2>2. queue' # <<>>
    BY <2>1
  <2> QED
    BY <2>2
<1>10. ASSUME NEW w \in Workers, PullPost(w) PROVE WaiterHasReason'
  BY <1>10 DEF PullPost, BsemPost
<1>11. ASSUME NEW w \in Workers, RunJob(w) PROVE WaiterHasReason'
  BY <1>11 DEF RunJob
<1>12. ASSUME NEW w \in Workers, DecWorking(w) PROVE WaiterHasReason'
  BY <1>12 DEF DecWorking, WaitersWait, OneWaiter
<1>13. ASSUME NEW w \in Workers, Die(w) PROVE WaiterHasReason'
  BY <1>13 DEF Die
<1>14. ASSUME NEW w \in Workers, Unlock(w) PROVE WaiterHasReason'
  BY <1>14 DEF Unlock
<1>15. ASSUME NEW w \in Workers, HandlerStep(w) PROVE WaiterHasReason'
  BY <1>15 DEF HandlerStep, EnterHold, LeaveHold
<1>16. ASSUME NEW c \in Clients, AddWorkPost(c) PROVE WaiterHasReason'
  BY <1>16 DEF AddWorkPost, BsemPost
<1>17. ASSUME NEW c \in Clients, WaitTest(c) PROVE WaiterHasReason'
  BY <1>17 DEF WaitTest
<1>18. ASSUME NEW c \in Clients, AddWork(c) PROVE WaiterHasReason'
  BY <1>18 DEF AddWork
<1>19. ASSUME NEW c \in Clients, CallWait(c) PROVE WaiterHasReason'
  BY <1>19 DEF CallWait
<1>20. ASSUME NEW c \in Clients, Pause(c) PROVE WaiterHasReason'
  BY <1>20 DEF Pause
<1>21. ASSUME NEW c \in Clients, Resume(c) PROVE WaiterHasReason'
  BY <1>21 DEF Resume
<1>22. CASE CreateThread
  BY <1>22 DEF CreateThread
<1>23. CASE AllCreated
  BY <1>23 DEF AllCreated
<1>24. CASE InitReturn
  BY <1>24 DEF InitReturn
<1>25. CASE DestroyPoll
  BY <1>25 DEF DestroyPoll
<1>26. CASE DestroyPostAll
  BY <1>26 DEF DestroyPostAll, BsemPostAll
<1>27. CASE DestroyFree
  BY <1>27 DEF DestroyFree
<1>28. CASE CallDestroy
  BY <1>28 DEF CallDestroy
<1>29. CASE SpuriousWakeup
  BY <1>29 DEF SpuriousWakeup
<1>30. CASE UNCHANGED vars
  BY <1>30 DEF vars
<1> QED
  BY <1>1, <1>2, <1>3, <1>4, <1>5, <1>6, <1>7, <1>8, <1>9, <1>10, <1>11,
     <1>12, <1>13, <1>14, <1>15, <1>16, <1>17, <1>18, <1>19, <1>20, <1>21,
     <1>22, <1>23, <1>24, <1>25, <1>26, <1>27, <1>28, <1>29, <1>30
     DEF Next, WorkerStep, ContinueCall, NewCall, OwnerStep, Terminated


\* The caller of thpool_wait sleeps on threads_all_idle only while there is
\* something to wait for, when it is the only caller.
THEOREM LoneWaiterHasReason == OneWaiter => (Spec => []WaiterHasReason)
<1> SUFFICES ASSUME OneWaiter PROVE Spec => []WaiterHasReason
  OBVIOUS
<1>1. Init => WaitersWait /\ WaiterHasReason
  BY DEF Init, WaitersWait, WaiterHasReason
<1>2. PoolInv /\ WaitersWait /\ WaiterHasReason /\ [Next]_vars
      => (WaitersWait /\ WaiterHasReason)'
  BY WaitersWaitStep, WaiterHasReasonStep DEF PoolInv
<1> QED
  BY <1>1, <1>2, PoolInvAlways, PTL DEF Spec

-----------------------------------------------------------------------------
(* The pool implements JobPool.                                            *)

\* Every job is in at most one place: queued once and in submission order,
\* held by one thread that is about to run it, or done.
JobsApart ==
  /\ \A i \in 1 .. Len(queue) : queue[i] < nextJob /\ queue[i] \notin done
  /\ \A i, k \in 1 .. Len(queue) : i < k => queue[i] < queue[k]
  /\ \A w \in Workers : job[w] # NoJob =>
       /\ pc[w] \in {"pullpost", "run"}
       /\ job[w] < nextJob
       /\ job[w] \notin done
       /\ \A i \in 1 .. Len(queue) : queue[i] # job[w]
       /\ \A u \in Workers : job[u] = job[w] => u = w
  /\ \A j \in done : j < nextJob

\* JobsApart is inductive: a new job is newer than all others, and a pull takes
\* the job it gives to its thread out of the queue.
LEMMA JobsApartStep == TypeOK /\ JobsApart /\ [Next]_vars => JobsApart'
<1> SUFFICES ASSUME TypeOK, JobsApart, [Next]_vars PROVE JobsApart'
  OBVIOUS
<1> USE NoJobAssumption, BoundsAssumption, ClientsAssumption, ThreadsAssumption DEF JobsApart, Jobs, TypeOK, At, poolVars, lockVars, jobVars, pauseVars
<1>1. ASSUME NEW w \in Workers, MarkAlive(w) PROVE JobsApart'
  BY <1>1 DEF MarkAlive
<1>2. ASSUME NEW w \in Workers, LoopTest(w) PROVE JobsApart'
  BY <1>2 DEF LoopTest
<1>3. ASSUME NEW w \in Workers, BsemTake(w) PROVE JobsApart'
  BY <1>3 DEF BsemTake
<1>4. ASSUME NEW w \in Workers, BsemSleep(w) PROVE JobsApart'
  BY <1>4 DEF BsemSleep
<1>5. ASSUME NEW w \in Workers, CheckAlive(w) PROVE JobsApart'
  BY <1>5 DEF CheckAlive
<1>6. ASSUME NEW w \in Workers, IncWorking(w) PROVE JobsApart'
  BY <1>6 DEF IncWorking
<1>7. ASSUME NEW w \in Workers, PullNothing(w) PROVE JobsApart'
  BY <1>7 DEF PullNothing
<1>8. ASSUME NEW w \in Workers, PullLast(w) PROVE JobsApart'
  BY <1>8 DEF PullLast
<1>9. ASSUME NEW w \in Workers, PullFront(w) PROVE JobsApart'
  BY <1>9 DEF PullFront
<1>10. ASSUME NEW w \in Workers, PullPost(w) PROVE JobsApart'
  BY <1>10 DEF PullPost, BsemPost
<1>11. ASSUME NEW w \in Workers, RunJob(w) PROVE JobsApart'
  BY <1>11 DEF RunJob
<1>12. ASSUME NEW w \in Workers, DecWorking(w) PROVE JobsApart'
  BY <1>12 DEF DecWorking
<1>13. ASSUME NEW w \in Workers, Die(w) PROVE JobsApart'
  BY <1>13 DEF Die
<1>14. ASSUME NEW w \in Workers, Unlock(w) PROVE JobsApart'
  BY <1>14 DEF Unlock
<1>15. ASSUME NEW w \in Workers, HandlerStep(w) PROVE JobsApart'
  <2>1. CASE EnterHold(w)
    BY <2>1 DEF EnterHold
  <2>2. CASE LeaveHold(w)
    BY <2>2 DEF LeaveHold
  <2> QED
    BY <1>15, <2>1, <2>2 DEF HandlerStep
<1>16. ASSUME NEW c \in Clients, AddWorkPost(c) PROVE JobsApart'
  BY <1>16 DEF AddWorkPost, BsemPost
<1>17. ASSUME NEW c \in Clients, WaitTest(c) PROVE JobsApart'
  BY <1>17 DEF WaitTest
<1>18. ASSUME NEW c \in Clients, AddWork(c) PROVE JobsApart'
  BY <1>18 DEF AddWork
<1>19. ASSUME NEW c \in Clients, CallWait(c) PROVE JobsApart'
  BY <1>19 DEF CallWait
<1>20. ASSUME NEW c \in Clients, Pause(c) PROVE JobsApart'
  BY <1>20 DEF Pause
<1>21. ASSUME NEW c \in Clients, Resume(c) PROVE JobsApart'
  BY <1>21 DEF Resume
<1>22. CASE CreateThread
  BY <1>22 DEF CreateThread
<1>23. CASE AllCreated
  BY <1>23 DEF AllCreated
<1>24. CASE InitReturn
  BY <1>24 DEF InitReturn
<1>25. CASE DestroyPoll
  BY <1>25 DEF DestroyPoll
<1>26. CASE DestroyPostAll
  BY <1>26 DEF DestroyPostAll, BsemPostAll
<1>27. CASE DestroyFree
  BY <1>27 DEF DestroyFree
<1>28. CASE CallDestroy
  BY <1>28 DEF CallDestroy
<1>29. CASE SpuriousWakeup
  BY <1>29 DEF SpuriousWakeup
<1>30. CASE UNCHANGED vars
  BY <1>30 DEF vars
<1> QED
  BY <1>1, <1>2, <1>3, <1>4, <1>5, <1>6, <1>7, <1>8, <1>9, <1>10, <1>11,
     <1>12, <1>13, <1>14, <1>15, <1>16, <1>17, <1>18, <1>19, <1>20, <1>21,
     <1>22, <1>23, <1>24, <1>25, <1>26, <1>27, <1>28, <1>29, <1>30
     DEF Next, WorkerStep, ContinueCall, NewCall, OwnerStep, Terminated


\* Each job has one place at a time, and starts in submission order.
THEOREM JobsApartAlways == Spec => []JobsApart
<1>1. Init => JobsApart
  BY DEF Init, JobsApart
<1> QED
  BY <1>1, JobsApartStep, TypeCorrect, PTL DEF Spec

Waiting == {c \in Clients : cpc[c] \in {"wait", "cond"}}
Running == {job[w] : w \in Workers} \ {NoJob}

\* A step that leaves the jobs, the callers of thpool_wait and the phase alone
\* is a stutter of JobPool.
LEMMA PoolStutter ==
  ASSUME UNCHANGED <<queue, job, done, keepalive, freed>>, Waiting' = Waiting
  PROVE  UNCHANGED Abstract!vars
<1>1. Running' = Running
  BY DEF Running
<1> QED
  BY <1>1 DEF Abstract!vars, Running, Waiting

\* The tail of a queue of one job is empty.
LEMMA EmptyTail == ASSUME NEW q \in Seq(Jobs), Len(q) = 1
                   PROVE  Tail(q) = <<>> /\ q # <<>>
<1>1. Tail(q) \in Seq(Jobs) /\ Len(Tail(q)) = 0
  OBVIOUS
<1>2. Tail(q) = <<>>
  BY <1>1, EmptySeq
<1> QED
  BY <1>2

\* While a client is outside a call the pool is open, and while a thread is in
\* the queue the pool is not closed.
LEMMA PhaseOfPool ==
  ASSUME PoolInv
  PROVE  /\ \A c \in Clients : cpc[c] \in {"idle", "wait", "cond"} => keepalive = 1 /\ ~freed
         /\ \A w \in Workers : pc[w] \notin {"unlock", "exit"} => ~freed
BY ClientsAssumption DEF PoolInv, TypeOK, ClientPC, Phases, ClearAlone

\* Every step of the pool is a step of JobPool or a stutter of it.
LEMMA PoolSimulates ==
  PoolInv /\ JobsApart /\ [Next]_vars => [Abstract!Next]_Abstract!vars
<1> SUFFICES ASSUME PoolInv, JobsApart, [Next]_vars
             PROVE  Abstract!Next \/ UNCHANGED Abstract!vars
  OBVIOUS
<1> DEFINE Step == Abstract!Next \/ UNCHANGED Abstract!vars
<1> USE ClientsAssumption, BoundsAssumption
    DEF PoolInv, TypeOK, At, poolVars, lockVars, jobVars, pauseVars
<1>1. ASSUME NEW w \in Workers, MarkAlive(w) PROVE Step
  BY <1>1, PoolStutter DEF MarkAlive, Waiting
<1>2. ASSUME NEW w \in Workers, LoopTest(w) PROVE Step
  BY <1>2, PoolStutter DEF LoopTest, Waiting
<1>3. ASSUME NEW w \in Workers, BsemTake(w) PROVE Step
  BY <1>3, PoolStutter DEF BsemTake, Waiting
<1>4. ASSUME NEW w \in Workers, BsemSleep(w) PROVE Step
  BY <1>4, PoolStutter DEF BsemSleep, Waiting
<1>5. ASSUME NEW w \in Workers, CheckAlive(w) PROVE Step
  BY <1>5, PoolStutter DEF CheckAlive, Waiting
<1>6. ASSUME NEW w \in Workers, IncWorking(w) PROVE Step
  BY <1>6, PoolStutter DEF IncWorking, Waiting
<1>7. ASSUME NEW w \in Workers, PullNothing(w) PROVE Step
  BY <1>7, PoolStutter DEF PullNothing, Waiting
<1>8. ASSUME NEW w \in Workers, PullLast(w) PROVE Step
  <2>1. job[w] = NoJob /\ Head(queue) \in Jobs
    BY <1>8 DEF PullLast, JobsApart
  <2>2. job' = [job EXCEPT ![w] = Head(queue)] /\ Head(queue) # NoJob
    BY <1>8, <2>1, NoJobAssumption DEF PullLast, Jobs
  <2>3. Running' = Running \cup {Head(queue)}
    BY <2>1, <2>2 DEF Running
  <2>4. ~freed
    BY <1>8, PhaseOfPool DEF PullLast
  <2>5. Waiting' = Waiting
    BY <1>8 DEF PullLast, Waiting
  <2>6. queue' = Tail(queue) /\ queue # <<>>
    BY <1>8, EmptyTail DEF PullLast
  <2> QED
    BY <1>8, <2>3, <2>4, <2>5, <2>6 DEF PullLast, Abstract!Next, Abstract!Start, Running, Waiting
<1>9. ASSUME NEW w \in Workers, PullFront(w) PROVE Step
  <2>1. job[w] = NoJob /\ Head(queue) \in Jobs
    BY <1>9 DEF PullFront, JobsApart
  <2>2. job' = [job EXCEPT ![w] = Head(queue)] /\ Head(queue) # NoJob
    BY <1>9, <2>1, NoJobAssumption DEF PullFront, Jobs
  <2>3. Running' = Running \cup {Head(queue)}
    BY <2>1, <2>2 DEF Running
  <2>4. ~freed
    BY <1>9, PhaseOfPool DEF PullFront
  <2>5. Waiting' = Waiting
    BY <1>9 DEF PullFront, Waiting
  <2>6. queue' = Tail(queue) /\ queue # <<>>
    BY <1>9 DEF PullFront
  <2> QED
    BY <1>9, <2>3, <2>4, <2>5, <2>6 DEF PullFront, Abstract!Next, Abstract!Start, Running, Waiting
<1>10. ASSUME NEW w \in Workers, PullPost(w) PROVE Step
  BY <1>10, PoolStutter DEF PullPost, BsemPost, Waiting
<1>11. ASSUME NEW w \in Workers, RunJob(w) PROVE Step
  <2>1. CASE job[w] = NoJob
    <3>1. job' = job /\ done' = done
      BY <1>11, <2>1 DEF RunJob
    <3> QED
      BY <1>11, <3>1, PoolStutter DEF RunJob, Waiting
  <2>2. CASE job[w] # NoJob
    <3>1. Running' = Running \ {job[w]} /\ job[w] \in Running /\ done' = done \cup {job[w]}
      BY <1>11, <2>2 DEF RunJob, Running, JobsApart
    <3>2. Waiting' = Waiting
      BY <1>11 DEF RunJob, Waiting
    <3> QED
      BY <1>11, <3>1, <3>2 DEF RunJob, Abstract!Next, Abstract!Finish, Running, Waiting
  <2> QED
    BY <2>1, <2>2
<1>12. ASSUME NEW w \in Workers, DecWorking(w) PROVE Step
  BY <1>12, PoolStutter DEF DecWorking, Waiting
<1>13. ASSUME NEW w \in Workers, Die(w) PROVE Step
  BY <1>13, PoolStutter DEF Die, Waiting
<1>14. ASSUME NEW w \in Workers, Unlock(w) PROVE Step
  BY <1>14, PoolStutter DEF Unlock, Waiting
<1>15. ASSUME NEW w \in Workers, HandlerStep(w) PROVE Step
  BY <1>15, PoolStutter DEF HandlerStep, EnterHold, LeaveHold, Waiting
<1>16. ASSUME NEW c \in Clients, AddWorkPost(c) PROVE Step
  BY <1>16, PoolStutter DEF AddWorkPost, BsemPost, Waiting
<1>17. ASSUME NEW c \in Clients, WaitTest(c) PROVE Step
  <2>1. CASE Len(queue) # 0 \/ working # 0
    BY <1>17, <2>1, PoolStutter DEF WaitTest, Waiting
  <2>2. CASE Len(queue) = 0 /\ working = 0
    <3>1. Running = {}
      BY <2>2, WorkSeen DEF Running, JobsApart, InWorkSection
    <3>2. Waiting' = Waiting \ {c} /\ c \in Waiting
      BY <1>17, <2>2 DEF WaitTest, Waiting
    <3>3. Running' = Running
      BY <1>17 DEF WaitTest, Running
    <3>4. queue = <<>>
      BY <2>2
    <3> QED
      BY <1>17, <3>1, <3>2, <3>3, <3>4 DEF WaitTest, Abstract!Next, Abstract!ReturnWait, Running, Waiting
  <2> QED
    BY <2>1, <2>2
<1>18. ASSUME NEW c \in Clients, AddWork(c) PROVE Step
  <2>1. nextJob \in Jobs \ Abstract!Used
    BY <1>18 DEF AddWork, Abstract!Used, JobsApart, Jobs
  <2>2. Running' = Running /\ Waiting' = Waiting
    BY <1>18 DEF AddWork, Running, Waiting
  <2>3. keepalive = 1 /\ ~freed
    BY <1>18, PhaseOfPool DEF AddWork
  <2> QED
    BY <1>18, <2>1, <2>2, <2>3 DEF AddWork, Abstract!Next, Abstract!Submit, Running, Waiting
<1>19. ASSUME NEW c \in Clients, CallWait(c) PROVE Step
  <2>1. Waiting' = Waiting \cup {c} /\ c \notin Waiting
    BY <1>19 DEF CallWait, Waiting
  <2>2. keepalive = 1 /\ ~freed
    BY <1>19, PhaseOfPool DEF CallWait
  <2>3. Running' = Running
    BY <1>19 DEF CallWait, Running
  <2> QED
    BY <1>19, <2>1, <2>2, <2>3 DEF CallWait, Abstract!Next, Abstract!CallWait, Running, Waiting
<1>20. ASSUME NEW c \in Clients, Pause(c) PROVE Step
  BY <1>20, PoolStutter DEF Pause, Waiting
<1>21. ASSUME NEW c \in Clients, Resume(c) PROVE Step
  BY <1>21, PoolStutter DEF Resume, Waiting
<1>22. CASE CreateThread
  BY <1>22, PoolStutter DEF CreateThread, Waiting
<1>23. CASE AllCreated
  BY <1>23, PoolStutter DEF AllCreated, Waiting
<1>24. CASE InitReturn
  <2>1. Waiting' = Waiting
    BY <1>24 DEF InitReturn, Waiting, PoolUnshared
  <2> QED
    BY <1>24, <2>1, PoolStutter DEF InitReturn
<1>25. CASE DestroyPoll
  BY <1>25, PoolStutter DEF DestroyPoll, Waiting
<1>26. CASE DestroyPostAll
  BY <1>26, PoolStutter DEF DestroyPostAll, BsemPostAll, Waiting
<1>27. CASE DestroyFree
  <2>1. Running = {} /\ Running' = {}
    BY <1>27 DEF DestroyFree, Running, JobsApart, ClearAlone
  <2>2. keepalive = 0 /\ ~freed
    BY <1>27, ClientsAssumption DEF DestroyFree, Phases
  <2>3. Waiting' = Waiting
    BY <1>27 DEF DestroyFree, Waiting
  <2> QED
    BY <1>27, <2>1, <2>2, <2>3 DEF DestroyFree, Abstract!Next, Abstract!Close, Running, Waiting
<1>28. CASE CallDestroy
  <2>1. Waiting = {} /\ Waiting' = {}
    BY <1>28 DEF CallDestroy, Waiting
  <2>2. keepalive = 1 /\ ~freed
    BY <1>28, PhaseOfPool, ClientsAssumption DEF CallDestroy
  <2>3. Running' = Running
    BY <1>28 DEF CallDestroy, Running
  <2> QED
    BY <1>28, <2>1, <2>2, <2>3 DEF CallDestroy, Abstract!Next, Abstract!BeginClose, Running, Waiting
<1>29. CASE SpuriousWakeup
  BY <1>29, PoolStutter DEF SpuriousWakeup, Waiting
<1>30. CASE UNCHANGED vars
  BY <1>30, PoolStutter DEF vars, Waiting
<1> QED
  BY <1>1, <1>2, <1>3, <1>4, <1>5, <1>6, <1>7, <1>8, <1>9, <1>10, <1>11,
     <1>12, <1>13, <1>14, <1>15, <1>16, <1>17, <1>18, <1>19, <1>20, <1>21,
     <1>22, <1>23, <1>24, <1>25, <1>26, <1>27, <1>28, <1>29, <1>30
     DEF Next, WorkerStep, ContinueCall, NewCall, OwnerStep, Terminated

\* The pool implements JobPool: jobs start in submission order and once each,
\* thpool_wait returns only when nothing is queued or executing, and the pool
\* is closed only when nothing is executing.
THEOREM PoolImplementsJobPool == Spec => ImplementsJobPool
<1>1. Init => Abstract!Init
  <2> SUFFICES ASSUME Init PROVE Abstract!Init
    OBVIOUS
  <2>1. Running = {} /\ Waiting = {}
    BY DEF Init, Running, Waiting
  <2> QED
    BY <2>1 DEF Init, Abstract!Init, Running, Waiting
<1> QED
  BY <1>1, PoolSimulates, PoolInvAlways, JobsApartAlways, PTL
     DEF Spec, Abstract!Spec, ImplementsJobPool

=============================================================================
