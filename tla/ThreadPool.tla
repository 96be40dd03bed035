----------------------------- MODULE ThreadPool -----------------------------
(***************************************************************************)
(* utils::ThreadPool (src/utils/threadpool.cpp, threadpool.hpp): a deque   *)
(* of callbacks, its worker threads and the destructor's drain, stop and   *)
(* join, all of them waiting on one condition variable, job_queue_var.     *)
(*                                                                         *)
(* A wait with a predicate is a loop: lock, test, and when the test fails  *)
(* go to sleep with the mutex released.  The test and the sleep are two    *)
(* steps here ("blocking" is between them, with job_queue_mut held),       *)
(* because stop() stores and notifies without taking the mutex.            *)
(*                                                                         *)
(* schedule() may be called by any thread (OpenCL callbacks do) until the  *)
(* destructor's drain returns; calling a member of the pool later would be *)
(* a use of a destroyed object by its owner, which is not modelled.        *)
(***************************************************************************)
EXTENDS Integers, Sequences, FiniteSets

CONSTANTS
    PoolWorkers, \* the threads of the pool
    Owner,       \* the thread that destroys the pool
    MaxJobs      \* bound: how many callbacks are ever scheduled

ASSUME ThreadPoolAssumption ==
    /\ IsFiniteSet(PoolWorkers)
    /\ Owner \notin PoolWorkers
    /\ MaxJobs \in Nat

Threads == PoolWorkers \cup {Owner}

VARIABLES
    job_queue,  \* the callbacks waiting, numbered in the order of schedule()
    active,     \* cleared by stop()
    pc,         \* where each thread is
    running,    \* the callback each worker runs or ran last
    scheduled,  \* how many callbacks were scheduled
    finished    \* history: the callbacks that have returned

poolVars == <<job_queue, active, pc, running, scheduled, finished>>

PoolInit ==
    /\ job_queue = <<>>
    /\ active = TRUE
    /\ pc = [t \in Threads |-> IF t = Owner THEN "use" ELSE "lock"]
    /\ running = [w \in PoolWorkers |-> 0]
    /\ scheduled = 0
    /\ finished = {}

-----------------------------------------------------------------------------
(* The mutex and the condition variable.                                   *)

MutexFree == \A t \in Threads : pc[t] # "blocking"

Waiting == {t \in Threads : pc[t] = "waiting"}

\* notify_one wakes any one waiter, or does nothing; a woken thread has to
\* lock the mutex again and repeats its test.
NotifyOne ==
    IF Waiting = {} THEN pc' = pc
    ELSE \E t \in Waiting : pc' = [pc EXCEPT ![t] = "lock"]

NotifyAll(t, next) ==
    pc' = [u \in Threads |-> IF u = t THEN next
                             ELSE IF u \in Waiting THEN "lock" ELSE pc[u]]

\* The second half of a wait: the mutex is released and the thread sleeps.
Block(t) ==
    /\ pc[t] = "blocking"
    /\ pc' = [pc EXCEPT ![t] = "waiting"]
    /\ UNCHANGED <<job_queue, active, running, scheduled, finished>>

\* A condition variable may wake a waiter for no reason.
PoolSpuriousWake(t) ==
    /\ pc[t] = "waiting"
    /\ pc' = [pc EXCEPT ![t] = "lock"]
    /\ UNCHANGED <<job_queue, active, running, scheduled, finished>>

-----------------------------------------------------------------------------

\* Mutant: the callback is queued and nobody is told.
ScheduleSilent ==
    /\ pc[Owner] \in {"use", "lock", "waiting"}
    /\ MutexFree
    /\ scheduled < MaxJobs
    /\ scheduled' = scheduled + 1
    /\ job_queue' = Append(job_queue, scheduled + 1)
    /\ UNCHANGED <<active, pc, running, finished>>

\* Mutant: a waiter is woken only when the queue was empty before.
ScheduleWakeFirst ==
    /\ pc[Owner] \in {"use", "lock", "waiting"}
    /\ MutexFree
    /\ scheduled < MaxJobs
    /\ scheduled' = scheduled + 1
    /\ job_queue' = Append(job_queue, scheduled + 1)
    /\ IF job_queue = <<>> THEN NotifyOne ELSE pc' = pc
    /\ UNCHANGED <<active, running, finished>>

PoolSchedule ==
    /\ pc[Owner] \in {"use", "lock", "waiting"}
    /\ MutexFree
    /\ scheduled < MaxJobs
    /\ scheduled' = scheduled + 1
    /\ job_queue' = Append(job_queue, scheduled + 1)
    /\ NotifyOne
    /\ UNCHANGED <<active, running, finished>>

-----------------------------------------------------------------------------
(* threadCallback.                                                         *)

\* Mutant: the callback is copied from the front and the back is popped.
WorkerTakePopBack(w) ==
    /\ pc[w] = "lock"
    /\ MutexFree
    /\ job_queue # <<>>
    /\ running' = [running EXCEPT ![w] = Head(job_queue)]
    /\ job_queue' = SubSeq(job_queue, 1, Len(job_queue) - 1)
    /\ pc' = [pc EXCEPT ![w] = "run"]
    /\ UNCHANGED <<active, scheduled, finished>>

\* Mutant: the test is not repeated after a wake-up; what front() yields on an
\* empty deque is shown as callback 0.
WorkerTakeUntested(w) ==
    /\ pc[w] = "lock"
    /\ MutexFree
    /\ running' = [running EXCEPT ![w] = IF job_queue = <<>> THEN 0 ELSE Head(job_queue)]
    /\ job_queue' = IF job_queue = <<>> THEN <<>> ELSE Tail(job_queue)
    /\ pc' = [pc EXCEPT ![w] = "run"]
    /\ UNCHANGED <<active, scheduled, finished>>

WorkerTake(w) ==
    /\ pc[w] = "lock"
    /\ MutexFree
    /\ job_queue # <<>>
    /\ running' = [running EXCEPT ![w] = Head(job_queue)]
    /\ job_queue' = Tail(job_queue)
    /\ pc' = [pc EXCEPT ![w] = "run"]
    /\ UNCHANGED <<active, scheduled, finished>>

WorkerSleep(w) ==
    /\ pc[w] = "lock"
    /\ MutexFree
    /\ job_queue = <<>>
    /\ active
    /\ pc' = [pc EXCEPT ![w] = "blocking"]
    /\ UNCHANGED <<job_queue, active, running, scheduled, finished>>

WorkerExit(w) ==
    /\ pc[w] = "lock"
    /\ MutexFree
    /\ job_queue = <<>>
    /\ ~ active
    /\ pc' = [pc EXCEPT ![w] = "exited"]
    /\ UNCHANGED <<job_queue, active, running, scheduled, finished>>

\* The callback returns, and the worker starts its loop again.
WorkerRun(w) ==
    /\ pc[w] = "run"
    /\ finished' = finished \cup {running[w]}
    /\ pc' = [pc EXCEPT ![w] = "lock"]
    /\ UNCHANGED <<job_queue, active, running, scheduled>>

-----------------------------------------------------------------------------
(* The destructor: drain, stop (in two steps, without the mutex), join.    *)

Destroy ==
    /\ pc[Owner] = "use"
    /\ pc' = [pc EXCEPT ![Owner] = "lock"]
    /\ UNCHANGED <<job_queue, active, running, scheduled, finished>>

DrainReturn ==
    /\ pc[Owner] = "lock"
    /\ MutexFree
    /\ job_queue = <<>>
    /\ pc' = [pc EXCEPT ![Owner] = "stop"]
    /\ UNCHANGED <<job_queue, active, running, scheduled, finished>>

DrainSleep ==
    /\ pc[Owner] = "lock"
    /\ MutexFree
    /\ job_queue # <<>>
    /\ pc' = [pc EXCEPT ![Owner] = "blocking"]
    /\ UNCHANGED <<job_queue, active, running, scheduled, finished>>

StopStore ==
    /\ pc[Owner] = "stop"
    /\ active' = FALSE
    /\ pc' = [pc EXCEPT ![Owner] = "notify"]
    /\ UNCHANGED <<job_queue, running, scheduled, finished>>

StopNotify ==
    /\ pc[Owner] = "notify"
    /\ NotifyAll(Owner, "join")
    /\ UNCHANGED <<job_queue, active, running, scheduled, finished>>

\* Mutant: the threads are detached.
JoinDetach ==
    /\ pc[Owner] = "join"
    /\ pc' = [pc EXCEPT ![Owner] = "gone"]
    /\ UNCHANGED <<job_queue, active, running, scheduled, finished>>

Join ==
    /\ pc[Owner] = "join"
    /\ \A w \in PoolWorkers : pc[w] = "exited"
    /\ pc' = [pc EXCEPT ![Owner] = "gone"]
    /\ UNCHANGED <<job_queue, active, running, scheduled, finished>>

-----------------------------------------------------------------------------

PoolStep(w) ==
    WorkerTake(w) \/ WorkerSleep(w) \/ WorkerExit(w) \/ WorkerRun(w)

OwnerStep == DrainReturn \/ DrainSleep \/ StopStore \/ StopNotify \/ Join

PoolNext ==
    \/ PoolSchedule
    \/ \E w \in PoolWorkers : PoolStep(w)
    \/ \E t \in Threads : Block(t) \/ PoolSpuriousWake(t)
    \/ Destroy
    \/ OwnerStep

PoolSpec == PoolInit /\ [][PoolNext]_poolVars

(***************************************************************************)
(* Fairness: a runnable thread runs, a mutex that is free again and again  *)
(* is given to each thread that wants it, a callback returns (it encodes   *)
(* one image).  Nobody has to call schedule() or destroy the pool, and no  *)
(* wake-up is promised without a notify.                                   *)
(***************************************************************************)
PoolFairSpec ==
    /\ PoolSpec
    /\ \A w \in PoolWorkers : SF_poolVars(PoolStep(w))
    /\ \A t \in Threads : WF_poolVars(Block(t))
    /\ SF_poolVars(OwnerStep)

-----------------------------------------------------------------------------
(* Properties.                                                             *)

\* Types of all variables.
PoolTypeOK ==
    /\ job_queue \in Seq(1 .. MaxJobs)
    /\ active \in BOOLEAN
    /\ pc \in [Threads -> {"use", "lock", "blocking", "waiting", "run", "exited",
                           "stop", "notify", "join", "gone"}]
    /\ running \in [PoolWorkers -> 0 .. MaxJobs]
    /\ scheduled \in 0 .. MaxJobs
    /\ finished \subseteq 1 .. MaxJobs

Running == {running[w] : w \in {v \in PoolWorkers : pc[v] = "run"}}

\* Every callback given to schedule() waits in the deque in the order it came,
\* or was started, once, by one worker: none is dropped, repeated or overtaken.
JobsStartedOnceInOrder ==
    LET started == scheduled - Len(job_queue)
    IN  /\ \A i \in 1 .. Len(job_queue) : job_queue[i] = started + i
        /\ Running \cup finished = 1 .. started
        /\ Running \cap finished = {}
        /\ \A v, w \in PoolWorkers :
            pc[v] = "run" /\ pc[w] = "run" /\ running[v] = running[w] => v = w

\* No worker sleeps while work waits that the awake workers do not cover: the
\* one notify_one of each schedule() is enough, whatever the order in which the
\* woken workers get the mutex.
WorkConserving ==
    pc[Owner] = "use" /\ Waiting # {} =>
        Cardinality({w \in PoolWorkers : pc[w] = "lock"}) >= Len(job_queue)

\* When the destructor has returned, every callback has returned, and no worker
\* is left to touch the destroyed pool (threadpool.hpp: "Drain the threadpool
\* then stop all threads", "Halt until all threads on the threadpool finish").
GoneMeansDone ==
    pc[Owner] = "gone" =>
        /\ finished = 1 .. scheduled
        /\ \A w \in PoolWorkers : pc[w] = "exited"

\* Every scheduled callback runs and returns in the end, as long as the pool is
\* in use: whatever was scheduled so far, there comes a time when all of it has
\* returned (callers schedule no more than MaxJobs).
JobsRun == []<>(finished = 1 .. scheduled \/ pc[Owner] # "use")

\* A destructor that has been entered returns in the end (threadpool.hpp: drain
\* will "Complete all jobs in the current job queue").
DestructorReturns == (pc[Owner] # "use") ~> (pc[Owner] = "gone")

=============================================================================
