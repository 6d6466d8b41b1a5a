------------------------------ MODULE ThreadPool ------------------------------
(***************************************************************************)
(* The thread pool of Project-2/webserver_part2.c (lines 205-664): worker  *)
(* threads, the job queue, its binary semaphore, and the API the listener  *)
(* and other client threads call: thpool_init, thpool_add_work,            *)
(* thpool_wait, thpool_destroy, thpool_pause and thpool_resume.            *)
(*                                                                         *)
(* Grain of atomicity.  A critical section of bsem->mutex holds no other   *)
(* lock and is one step.  A section of rwmutex that also posts the         *)
(* semaphore is two steps (the list update, then bsem_post and unlock),    *)
(* because len is read outside rwmutex by thpool_wait.  A section of       *)
(* thcount_lock is one step, except the decrement of num_threads_alive,    *)
(* which thpool_destroy reads without the lock: the decrement and the      *)
(* unlock are two steps.  Each unlocked read of threads_keepalive is a     *)
(* step of its own.                                                        *)
(***************************************************************************)
EXTENDS Integers, Sequences, FiniteSets

CONSTANTS Workers,     \* the threads of the pool (num_threads of them)
          Clients,     \* threads that use the pool
          Owner,       \* the client that creates and destroys the pool
          Waiters,     \* the clients that call thpool_wait
          NoThread,    \* "nobody holds this mutex"
          NoJob,       \* a worker holds no job
          MaxJobs,     \* bound on the jobs submitted in a behaviour
          MaxPauses    \* bound on the calls of thpool_pause

ASSUME ClientsAssumption  == Owner \in Clients /\ Waiters \subseteq Clients
ASSUME ThreadsAssumption  == /\ IsFiniteSet(Workers)
                             /\ Workers \cap Clients = {}
                             /\ NoThread \notin Workers \cup Clients
ASSUME BoundsAssumption   == MaxJobs \in Nat /\ MaxPauses \in Nat
ASSUME NoJobAssumption    == NoJob \notin 1 .. MaxJobs

VARIABLES
  keepalive,     \* threads_keepalive
  onHold,        \* threads_on_hold
  alive,         \* num_threads_alive
  working,       \* num_threads_working
  thcountLock,   \* holder of thcount_lock between steps
  queue,         \* the job list from front to rear; len is its length
  rwmutex,       \* holder of rwmutex between steps
  v,             \* value of the binary semaphore has_jobs
  pc,            \* where each worker is in thread_do
  job,           \* the job a worker has pulled and not yet finished
  cpc,           \* where each client is in the API
  freed,         \* the pool's memory has been freed by thpool_destroy
  nextJob,       \* identity of the next job submitted
  done,          \* jobs executed to the end
  signals,       \* workers with a pending SIGUSR1
  held,          \* workers inside the handler thread_hold
  pauses,        \* calls of thpool_pause so far
  paused         \* the last of those calls and of thpool_resume was a pause

lockVars  == <<thcountLock, rwmutex>>
poolVars  == <<keepalive, alive, working, freed>>
jobVars   == <<queue, nextJob, done, job>>
pauseVars == <<onHold, signals, held, pauses, paused>>
vars == <<keepalive, onHold, alive, working, thcountLock, queue, rwmutex, v,
          pc, job, cpc, freed, nextJob, done, signals, held, pauses, paused>>

Jobs == 1 .. MaxJobs

WorkerPC == {"none",        \* pthread_create not called yet
             "start",       \* before num_threads_alive++
             "loop",        \* at while (threads_keepalive)
             "bsem",        \* in bsem_wait, about to test v
             "bwait",       \* in bsem_wait, asleep on bsem->cond
             "check",       \* at if (threads_keepalive)
             "inc",         \* before num_threads_working++
             "pull",        \* before jobqueue_pull
             "pullpost",    \* in jobqueue_pull, before bsem_post
             "run",         \* executing the job, or with none to execute
             "dec",         \* before num_threads_working--
             "die",         \* before num_threads_alive--
             "unlock",      \* before the last pthread_mutex_unlock
             "exit"}        \* returned

ClientPC == {"nopool",      \* no pool yet
             "init",        \* thpool_init: creating threads
             "spin",        \* thpool_init: while (alive != num_threads)
             "idle",        \* outside the API
             "post",        \* jobqueue_push: before bsem_post
             "wait",        \* thpool_wait: about to test the condition
             "cond",        \* thpool_wait: asleep on threads_all_idle
             "poll",        \* thpool_destroy: testing num_threads_alive
             "postall",     \* thpool_destroy: before bsem_post_all
             "clear",       \* thpool_destroy: before jobqueue_destroy
             "over"}        \* the pool is gone

TypeOK ==
  /\ keepalive \in {0, 1}
  /\ onHold \in {0, 1}
  /\ alive \in Int
  /\ working \in Int
  /\ thcountLock \in Workers \cup {NoThread}
  /\ queue \in Seq(Jobs)
  /\ rwmutex \in Workers \cup Clients \cup {NoThread}
  /\ v \in {0, 1}
  /\ pc \in [Workers -> WorkerPC]
  /\ job \in [Workers -> Jobs \cup {NoJob}]
  /\ cpc \in [Clients -> ClientPC]
  /\ freed \in BOOLEAN
  /\ nextJob \in 1 .. MaxJobs + 1
  /\ done \subseteq Jobs
  /\ signals \subseteq Workers
  /\ held \subseteq Workers
  /\ pauses \in 0 .. MaxPauses
  /\ paused \in BOOLEAN

-----------------------------------------------------------------------------
(* The process before thpool_init: every global has the value the first    *)
(* statements of thpool_init and jobqueue_init give it.                    *)

Init ==
  /\ keepalive = 1
  /\ onHold = 0
  /\ alive = 0
  /\ working = 0
  /\ thcountLock = NoThread
  /\ queue = <<>>
  /\ rwmutex = NoThread
  /\ v = 0
  /\ pc = [w \in Workers |-> "none"]
  /\ job = [w \in Workers |-> NoJob]
  /\ cpc = [c \in Clients |-> IF c = Owner THEN "init" ELSE "nopool"]
  /\ freed = FALSE
  /\ nextJob = 1
  /\ done = {}
  /\ signals = {}
  /\ held = {}
  /\ pauses = 0
  /\ paused = FALSE

-----------------------------------------------------------------------------
(* The binary semaphore.                                                   *)

\* Mutants of BsemPost: a counting semaphore; a post that wakes nobody.
BsemPostCounting(pcs) ==
  /\ v' = v + 1
  /\ \/ /\ \A w \in Workers : pcs[w] # "bwait"
        /\ pc' = pcs
     \/ \E w \in Workers : /\ pcs[w] = "bwait"
                           /\ pc' = [pcs EXCEPT ![w] = "bsem"]

BsemPostSilent(pcs) == v' = 1 /\ pc' = pcs

\* bsem_post: set v and signal one sleeper, if there is one.  The caller
\* moves its own pc; pcs is the workers' pc after that move.
BsemPost(pcs) ==
  /\ v' = 1
  /\ \/ /\ \A w \in Workers : pcs[w] # "bwait"
        /\ pc' = pcs
     \/ \E w \in Workers : /\ pcs[w] = "bwait"
                           /\ pc' = [pcs EXCEPT ![w] = "bsem"]

\* Mutant of BsemPostAll: the broadcast is missing.
BsemPostAllSilent == v' = 1 /\ UNCHANGED pc

\* bsem_post_all: set v and wake every sleeper.
BsemPostAll ==
  /\ v' = 1
  /\ pc' = [w \in Workers |-> IF pc[w] = "bwait" THEN "bsem" ELSE pc[w]]

-----------------------------------------------------------------------------
(* Worker threads: thread_do.                                              *)

\* The worker is at the program point and not inside the signal handler.
At(w, point) == pc[w] = point /\ w \notin held

MarkAlive(w) ==
  /\ At(w, "start")
  /\ thcountLock = NoThread
  /\ alive' = alive + 1
  /\ pc' = [pc EXCEPT ![w] = "loop"]
  /\ UNCHANGED <<keepalive, working, freed, lockVars, v, jobVars, cpc, pauseVars>>

LoopTest(w) ==
  /\ At(w, "loop")
  /\ pc' = [pc EXCEPT ![w] = IF keepalive = 1 THEN "bsem" ELSE "die"]
  /\ UNCHANGED <<poolVars, lockVars, v, jobVars, cpc, pauseVars>>

\* bsem_wait: take the semaphore, or sleep on its condition variable.
BsemTake(w) ==
  /\ At(w, "bsem")
  /\ v = 1
  /\ v' = 0
  /\ pc' = [pc EXCEPT ![w] = "check"]
  /\ UNCHANGED <<poolVars, lockVars, jobVars, cpc, pauseVars>>

BsemSleep(w) ==
  /\ At(w, "bsem")
  /\ v # 1
  /\ pc' = [pc EXCEPT ![w] = "bwait"]
  /\ UNCHANGED <<poolVars, lockVars, v, jobVars, cpc, pauseVars>>

\* Mutant of CheckAlive: the worker goes on without counting itself.
CheckAliveUncounted(w) ==
  /\ At(w, "check")
  /\ pc' = [pc EXCEPT ![w] = IF keepalive = 1 THEN "pull" ELSE "loop"]
  /\ UNCHANGED <<poolVars, lockVars, v, jobVars, cpc, pauseVars>>

CheckAlive(w) ==
  /\ At(w, "check")
  /\ pc' = [pc EXCEPT ![w] = IF keepalive = 1 THEN "inc" ELSE "loop"]
  /\ UNCHANGED <<poolVars, lockVars, v, jobVars, cpc, pauseVars>>

IncWorking(w) ==
  /\ At(w, "inc")
  /\ thcountLock = NoThread
  /\ working' = working + 1
  /\ pc' = [pc EXCEPT ![w] = "pull"]
  /\ UNCHANGED <<keepalive, alive, freed, lockVars, v, jobVars, cpc, pauseVars>>

\* jobqueue_pull, case 0: a post that found the queue already emptied.
PullNothing(w) ==
  /\ At(w, "pull")
  /\ rwmutex = NoThread
  /\ Len(queue) = 0
  /\ pc' = [pc EXCEPT ![w] = "run"]
  /\ UNCHANGED <<poolVars, lockVars, v, jobVars, cpc, pauseVars>>

\* jobqueue_pull, case 1: the only job; the semaphore is not posted.
PullLast(w) ==
  /\ At(w, "pull")
  /\ rwmutex = NoThread
  /\ Len(queue) = 1
  /\ job' = [job EXCEPT ![w] = Head(queue)]
  /\ queue' = <<>>
  /\ pc' = [pc EXCEPT ![w] = "run"]
  /\ UNCHANGED <<poolVars, lockVars, v, nextJob, done, cpc, pauseVars>>

\* jobqueue_pull, default: more jobs remain; rwmutex is kept until the post.
PullFront(w) ==
  /\ At(w, "pull")
  /\ rwmutex = NoThread
  /\ Len(queue) > 1
  /\ job' = [job EXCEPT ![w] = Head(queue)]
  /\ queue' = Tail(queue)
  /\ rwmutex' = w
  /\ pc' = [pc EXCEPT ![w] = "pullpost"]
  /\ UNCHANGED <<poolVars, thcountLock, v, nextJob, done, cpc, pauseVars>>

\* Mutant of PullPost: the jobs that remain are not posted.
PullPostNothing(w) ==
  /\ At(w, "pullpost")
  /\ pc' = [pc EXCEPT ![w] = "run"]
  /\ rwmutex' = NoThread
  /\ UNCHANGED <<poolVars, thcountLock, v, jobVars, cpc, pauseVars>>

PullPost(w) ==
  /\ At(w, "pullpost")
  /\ BsemPost([pc EXCEPT ![w] = "run"])
  /\ rwmutex' = NoThread
  /\ UNCHANGED <<poolVars, thcountLock, jobVars, cpc, pauseVars>>

\* func_buff(arg_buff); free(job_p), or nothing when no job was pulled.
RunJob(w) ==
  /\ At(w, "run")
  /\ done' = done \cup ({job[w]} \ {NoJob})
  /\ job' = [job EXCEPT ![w] = NoJob]
  /\ pc' = [pc EXCEPT ![w] = "dec"]
  /\ UNCHANGED <<poolVars, lockVars, v, queue, nextJob, cpc, pauseVars>>

\* Mutant of DecWorking: threads_all_idle is not signalled.
DecWorkingSilent(w) ==
  /\ At(w, "dec")
  /\ thcountLock = NoThread
  /\ working' = working - 1
  /\ pc' = [pc EXCEPT ![w] = "loop"]
  /\ UNCHANGED <<keepalive, alive, freed, lockVars, v, jobVars, cpc, pauseVars>>

\* num_threads_working-- and, at zero, one pthread_cond_signal.
DecWorking(w) ==
  /\ At(w, "dec")
  /\ thcountLock = NoThread
  /\ working' = working - 1
  /\ pc' = [pc EXCEPT ![w] = "loop"]
  /\ \/ /\ working' # 0 \/ \A c \in Clients : cpc[c] # "cond"
        /\ UNCHANGED cpc
     \/ /\ working' = 0
        /\ \E c \in Clients : /\ cpc[c] = "cond"
                              /\ cpc' = [cpc EXCEPT ![c] = "wait"]
  /\ UNCHANGED <<keepalive, alive, freed, lockVars, v, jobVars, pauseVars>>

\* num_threads_alive--, visible to thpool_destroy before the unlock.
Die(w) ==
  /\ At(w, "die")
  /\ thcountLock = NoThread
  /\ alive' = alive - 1
  /\ thcountLock' = w
  /\ pc' = [pc EXCEPT ![w] = "unlock"]
  /\ UNCHANGED <<keepalive, working, freed, rwmutex, v, jobVars, cpc, pauseVars>>

Unlock(w) ==
  /\ At(w, "unlock")
  /\ thcountLock' = NoThread
  /\ pc' = [pc EXCEPT ![w] = "exit"]
  /\ UNCHANGED <<poolVars, rwmutex, v, jobVars, cpc, pauseVars>>

\* pthread_cond_wait may return with no signal; both callers test again.
SpuriousWakeup ==
  /\ \/ /\ \E w \in Workers : At(w, "bwait") /\ pc' = [pc EXCEPT ![w] = "bsem"]
        /\ UNCHANGED cpc
     \/ /\ \E c \in Clients : cpc[c] = "cond" /\ cpc' = [cpc EXCEPT ![c] = "wait"]
        /\ UNCHANGED pc
  /\ UNCHANGED <<poolVars, lockVars, v, jobVars, pauseVars>>

-----------------------------------------------------------------------------
(* The API: thpool_init, thpool_add_work, thpool_wait, thpool_destroy.     *)

CreateThread ==
  /\ cpc[Owner] = "init"
  /\ \E w \in Workers : /\ pc[w] = "none"
                        /\ pc' = [pc EXCEPT ![w] = "start"]
  /\ UNCHANGED <<poolVars, lockVars, v, jobVars, cpc, pauseVars>>

AllCreated ==
  /\ cpc[Owner] = "init"
  /\ \A w \in Workers : pc[w] # "none"
  /\ cpc' = [cpc EXCEPT ![Owner] = "spin"]
  /\ UNCHANGED <<poolVars, lockVars, v, pc, jobVars, pauseVars>>

\* The busy-wait ends: thpool_init returns and the pool can be shared.
InitReturn ==
  /\ cpc[Owner] = "spin"
  /\ alive = Cardinality(Workers)
  /\ cpc' = [c \in Clients |-> "idle"]
  /\ UNCHANGED <<poolVars, lockVars, v, pc, jobVars, pauseVars>>

\* thpool_add_work up to the list update of jobqueue_push.
AddWork(c) ==
  /\ cpc[c] = "idle"
  /\ nextJob <= MaxJobs
  /\ rwmutex = NoThread
  /\ rwmutex' = c
  /\ queue' = Append(queue, nextJob)
  /\ nextJob' = nextJob + 1
  /\ cpc' = [cpc EXCEPT ![c] = "post"]
  /\ UNCHANGED <<poolVars, thcountLock, v, pc, done, job, pauseVars>>

\* The rest of jobqueue_push: bsem_post, then unlock.
AddWorkPost(c) ==
  /\ cpc[c] = "post"
  /\ BsemPost(pc)
  /\ rwmutex' = NoThread
  /\ cpc' = [cpc EXCEPT ![c] = "idle"]
  /\ UNCHANGED <<poolVars, thcountLock, jobVars, pauseVars>>

CallWait(c) ==
  /\ c \in Waiters
  /\ cpc[c] = "idle"
  /\ cpc' = [cpc EXCEPT ![c] = "wait"]
  /\ UNCHANGED <<poolVars, lockVars, v, pc, jobVars, pauseVars>>

\* Mutant of WaitTest: only the queue is looked at.
WaitTestQueue(c) ==
  /\ cpc[c] = "wait"
  /\ thcountLock = NoThread
  /\ cpc' = [cpc EXCEPT ![c] = IF Len(queue) # 0 THEN "cond" ELSE "idle"]
  /\ UNCHANGED <<poolVars, lockVars, v, pc, jobVars, pauseVars>>

\* while (len || num_threads_working), under thcount_lock.
WaitTest(c) ==
  /\ cpc[c] = "wait"
  /\ thcountLock = NoThread
  /\ cpc' = [cpc EXCEPT ![c] = IF Len(queue) # 0 \/ working # 0
                               THEN "cond" ELSE "idle"]
  /\ UNCHANGED <<poolVars, lockVars, v, pc, jobVars, pauseVars>>

\* The owner destroys the pool once no other client is inside the API, and
\* no client uses it afterwards: the caller's side of the contract.
CallDestroy ==
  /\ \A c \in Clients : cpc[c] = "idle"
  /\ keepalive' = 0
  /\ cpc' = [c \in Clients |-> IF c = Owner THEN "poll" ELSE "over"]
  /\ UNCHANGED <<alive, working, freed, lockVars, v, pc, jobVars, pauseVars>>

\* Mutant of DestroyPoll: the threads at work are awaited, not those alive.
DestroyPollWorking ==
  /\ cpc[Owner] = "poll"
  /\ cpc' = [cpc EXCEPT ![Owner] = IF working # 0 THEN "postall" ELSE "clear"]
  /\ UNCHANGED <<poolVars, lockVars, v, pc, jobVars, pauseVars>>

\* The tests of both loops of thpool_destroy.
DestroyPoll ==
  /\ cpc[Owner] = "poll"
  /\ cpc' = [cpc EXCEPT ![Owner] = IF alive # 0 THEN "postall" ELSE "clear"]
  /\ UNCHANGED <<poolVars, lockVars, v, pc, jobVars, pauseVars>>

DestroyPostAll ==
  /\ cpc[Owner] = "postall"
  /\ BsemPostAll
  /\ cpc' = [cpc EXCEPT ![Owner] = "poll"]
  /\ UNCHANGED <<poolVars, lockVars, jobVars, pauseVars>>

\* jobqueue_destroy drops the queued jobs and resets the semaphore; then the
\* threads and the pool are freed.  No worker can be in the queue any more.
DestroyFree ==
  /\ cpc[Owner] = "clear"
  /\ rwmutex = NoThread
  /\ queue' = <<>>
  /\ v' = 0
  /\ freed' = TRUE
  /\ cpc' = [cpc EXCEPT ![Owner] = "over"]
  /\ UNCHANGED <<keepalive, alive, working, lockVars, pc, nextJob, done, job, pauseVars>>

-----------------------------------------------------------------------------
(* thpool_pause, thpool_resume and the handler thread_hold.                *)

\* threads[0 .. num_threads_alive - 1] each get a SIGUSR1; with no destroy
\* under way those are all the workers.
Pause(c) ==
  /\ cpc[c] = "idle"
  /\ pauses < MaxPauses
  /\ pauses' = pauses + 1
  /\ signals' = Workers
  /\ paused' = TRUE
  /\ UNCHANGED <<poolVars, lockVars, v, pc, jobVars, cpc, onHold, held>>

\* Before any pause it changes nothing.
Resume(c) ==
  /\ cpc[c] = "idle"
  /\ pauses > 0
  /\ onHold' = 0
  /\ paused' = FALSE
  /\ UNCHANGED <<poolVars, lockVars, v, pc, jobVars, cpc, signals, held, pauses>>

\* The handler interrupts the worker wherever it is; SIGUSR1 is masked
\* while the handler runs.
EnterHold(w) ==
  /\ w \in signals
  /\ w \notin held
  /\ pc[w] # "exit"
  /\ signals' = signals \ {w}
  /\ held' = held \cup {w}
  /\ onHold' = 1
  /\ UNCHANGED <<poolVars, lockVars, v, pc, jobVars, cpc, pauses, paused>>

\* Mutant of LeaveHold: the thread released puts the flag up again.
LeaveHoldRearmed(w) ==
  /\ w \in held
  /\ onHold = 0
  /\ held' = held \ {w}
  /\ onHold' = 1
  /\ UNCHANGED <<poolVars, lockVars, v, pc, jobVars, cpc, signals, pauses, paused>>

LeaveHold(w) ==
  /\ w \in held
  /\ onHold = 0
  /\ held' = held \ {w}
  /\ UNCHANGED <<poolVars, lockVars, v, pc, jobVars, cpc, onHold, signals, pauses, paused>>

-----------------------------------------------------------------------------
WorkerStep(w) ==
  \/ MarkAlive(w) \/ LoopTest(w) \/ BsemTake(w) \/ BsemSleep(w)
  \/ CheckAlive(w) \/ IncWorking(w)
  \/ PullNothing(w) \/ PullLast(w) \/ PullFront(w) \/ PullPost(w)
  \/ RunJob(w) \/ DecWorking(w) \/ Die(w) \/ Unlock(w)

HandlerStep(w) == EnterHold(w) \/ LeaveHold(w)

\* What a client inside a call does next; it cannot decide to stop there.
ContinueCall(c) == AddWorkPost(c) \/ WaitTest(c)

OwnerStep == \/ CreateThread \/ AllCreated \/ InitReturn
             \/ DestroyPoll \/ DestroyPostAll \/ DestroyFree

\* A client starts a call; it may as well never do so.
NewCall(c) == AddWork(c) \/ CallWait(c) \/ Pause(c) \/ Resume(c)

\* The pool is gone, and so are its threads or else nobody can resume them.
Terminated ==
  /\ freed
  /\ \A w \in Workers : pc[w] = "exit" \/ (w \in held /\ onHold = 1)
  /\ UNCHANGED vars

Next ==
  \/ \E w \in Workers : WorkerStep(w) \/ HandlerStep(w)
  \/ \E c \in Clients : ContinueCall(c) \/ NewCall(c)
  \/ OwnerStep
  \/ CallDestroy
  \/ SpuriousWakeup
  \/ Terminated

Spec == Init /\ [][Next]_vars

\* The operating system runs every thread that can run, jobs terminate, and
\* pending signals are delivered.  Nothing is assumed of which blocked
\* thread a mutex or a condition variable favours.
Fairness ==
  /\ \A w \in Workers : WF_vars(WorkerStep(w)) /\ WF_vars(HandlerStep(w))
  /\ \A c \in Clients : WF_vars(ContinueCall(c))
  /\ WF_vars(OwnerStep)

FairSpec == Spec /\ Fairness

-----------------------------------------------------------------------------
(* Properties.                                                             *)

InWorkSection(w) == pc[w] \in {"pull", "pullpost", "run", "dec"}
Living(w) == pc[w] \notin {"none", "start", "unlock", "exit"}

\* The two counters that thpool_wait and thpool_destroy rely on count the
\* threads they are about: num_threads_working those between its increment
\* and its decrement, num_threads_alive those that entered the loop of
\* thread_do and have not left it.
CountersExact ==
  /\ working = Cardinality({w \in Workers : InWorkSection(w)})
  /\ alive = Cardinality({w \in Workers : Living(w)})

\* A queued job is never forgotten: while the pool serves, either the binary
\* semaphore is up, or someone that will pull or post is on its way to do it.
\* (A binary semaphore absorbs posts, so the post of jobqueue_pull must make
\* up for the absorbed ones.)
NoLostJob ==
  keepalive = 1 /\ queue # <<>> =>
    \/ v = 1
    \/ \E w \in Workers : pc[w] \in {"check", "inc", "pull", "pullpost"}
    \/ \E c \in Clients : cpc[c] = "post"

\* No lost wakeup in bsem_wait: the semaphore is not left up with a thread
\* asleep on it unless a thread that is awake is about to test it.
SomeoneAwake ==
  v = 1 => \/ \A w \in Workers : pc[w] # "bwait"
           \/ \E w \in Workers : pc[w] = "bsem"

\* The caller of thpool_wait sleeps only while there is something to wait
\* for, when it is the only one that waits.
WaiterHasReason ==
  \A c \in Clients : cpc[c] = "cond" => queue # <<>> \/ working # 0

\* thpool_destroy tears the queue down when no thread can touch it any more.
ClearAlone ==
  cpc[Owner] = "clear" \/ freed =>
    /\ rwmutex = NoThread
    /\ \A w \in Workers : pc[w] \in {"unlock", "exit"}

\* thpool_destroy "will wait for the currently active threads to finish" and
\* then frees the pool: when the memory is gone no thread is inside it.
FreedAfterThreadsLeft == freed => \A w \in Workers : pc[w] = "exit"

\* The pool is the abstract one: submission order is start order, each job
\* runs once, thpool_wait returns only when nothing is queued or running,
\* and the pool is closed only when nothing is running.
Abstract == INSTANCE JobPool WITH
  pending  <- queue,
  running  <- {job[w] : w \in Workers} \ {NoJob},
  finished <- done,
  waiting  <- {c \in Clients : cpc[c] \in {"wait", "cond"}},
  phase    <- IF freed THEN "closed" ELSE IF keepalive = 0 THEN "closing" ELSE "open"

ImplementsJobPool == Abstract!Spec

\* Every job is executed, unless the pool is destroyed or paused first.
EveryJobRuns ==
  \A j \in Jobs : (nextJob > j) ~> (j \in done \/ keepalive = 0 \/ paused \/ held # {})

\* thpool_wait returns, unless the pool is paused.
WaitReturns ==
  \A c \in Clients : (cpc[c] \in {"wait", "cond"}) ~> (cpc[c] = "idle" \/ paused \/ held # {})

\* thpool_destroy returns, unless threads are paused.
DestroyReturns == (keepalive = 0) ~> (freed \/ paused \/ held # {})

\* Once every thread has taken its SIGUSR1, a resume releases all of them.
ResumeReleasesHeld ==
  (pauses = MaxPauses /\ ~paused /\ onHold = 0 /\ signals = {}) ~> held = {}
==============================================================================
