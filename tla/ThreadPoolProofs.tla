-------------------------- MODULE ThreadPoolProofs --------------------------
(***************************************************************************)
(* Proofs about ThreadPool, for every number of workers and callbacks: its *)
(* variables keep their types, every callback is started once and in order,*)
(* no worker sleeps through work, and a destructor that has returned leaves*)
(* nothing running.                                                        *)
(***************************************************************************)
EXTENDS ThreadPool, FiniteSetTheorems, TLAPS

\* Where the two kinds of threads can be.
Places ==
    /\ pc[Owner] \in {"use", "lock", "blocking", "waiting", "stop", "notify", "join", "gone"}
    /\ \A w \in PoolWorkers : pc[w] \in {"lock", "blocking", "waiting", "run", "exited"}

\* Once drain has returned the deque stays empty, and join has seen every
\* worker leave.
Phases ==
    /\ pc[Owner] \in {"stop", "notify", "join", "gone"} => job_queue = <<>>
    /\ pc[Owner] = "gone" => \A w \in PoolWorkers : pc[w] = "exited"

IndInv == PoolTypeOK /\ Places /\ Phases /\ JobsStartedOnceInOrder

\* The invariant holds when the pool has been constructed.
LEMMA InitInv == PoolInit => IndInv
<1> SUFFICES ASSUME PoolInit PROVE IndInv
  OBVIOUS
<1>1. PoolTypeOK
  BY ThreadPoolAssumption DEF PoolInit, PoolTypeOK, Threads
<1>2. Places /\ Phases
  BY ThreadPoolAssumption DEF PoolInit, Places, Phases, Threads
<1>3. Running = {}
  BY ThreadPoolAssumption DEF PoolInit, Running, Threads
<1>4. Len(job_queue) = 0 /\ scheduled = 0 /\ finished = {}
  BY DEF PoolInit
<1>5. \A v \in PoolWorkers : pc[v] # "run"
  BY ThreadPoolAssumption DEF PoolInit, Threads
<1>6. JobsStartedOnceInOrder
  BY <1>3, <1>4, <1>5 DEF JobsStartedOnceInOrder
<1>7. QED
  BY <1>1, <1>2, <1>6 DEF IndInv

\* A step that starts and ends no callback keeps their account.
LEMMA AccountKept ==
    ASSUME JobsStartedOnceInOrder,
           UNCHANGED <<job_queue, running, scheduled, finished>>,
           \A w \in PoolWorkers : (pc'[w] = "run") <=> (pc[w] = "run")
    PROVE  JobsStartedOnceInOrder'
<1>1. Running' = Running
  BY DEF Running
<1>2. QED
  BY <1>1 DEF JobsStartedOnceInOrder

\* schedule(): the new callback is the last in the deque.
LEMMA ScheduleInv == ASSUME IndInv, PoolSchedule PROVE IndInv'
<1> USE ThreadPoolAssumption
<1>1. /\ PoolTypeOK /\ Places /\ Phases /\ JobsStartedOnceInOrder
      /\ pc[Owner] \in {"use", "lock", "waiting"}
      /\ scheduled < MaxJobs
      /\ scheduled' = scheduled + 1
      /\ job_queue' = Append(job_queue, scheduled + 1)
      /\ UNCHANGED <<active, running, finished>>
  BY DEF IndInv, PoolSchedule
<1>2. \/ pc' = pc
      \/ \E t \in Threads : pc[t] = "waiting" /\ pc' = [pc EXCEPT ![t] = "lock"]
  BY DEF PoolSchedule, NotifyOne, Waiting
<1>3. pc' \in [Threads -> {"use", "lock", "blocking", "waiting", "run", "exited",
                           "stop", "notify", "join", "gone"}]
  BY <1>1, <1>2 DEF PoolTypeOK
<1>4. /\ job_queue' \in Seq(1 .. MaxJobs)
      /\ Len(job_queue') = Len(job_queue) + 1
      /\ scheduled' \in 0 .. MaxJobs
  BY <1>1 DEF PoolTypeOK
<1>5. PoolTypeOK'
  BY <1>1, <1>3, <1>4 DEF PoolTypeOK
<1>6. Places'
  BY <1>1, <1>2 DEF Places, PoolTypeOK, Threads
<1>7. Phases'
  BY <1>1, <1>2 DEF Phases, Places, PoolTypeOK, Threads
<1>8. \A w \in PoolWorkers : (pc'[w] = "run") <=> (pc[w] = "run")
  BY <1>1, <1>2 DEF PoolTypeOK, Threads
<1>9. Running' = Running
  BY <1>1, <1>8 DEF Running
<1>10. scheduled' - Len(job_queue') = scheduled - Len(job_queue)
  BY <1>1, <1>4 DEF PoolTypeOK
<1>11. \A i \in 1 .. Len(job_queue') :
           job_queue'[i] = scheduled' - Len(job_queue') + i
  <2> SUFFICES ASSUME NEW i \in 1 .. Len(job_queue')
               PROVE  job_queue'[i] = scheduled' - Len(job_queue') + i
    OBVIOUS
  <2>1. job_queue \in Seq(1 .. MaxJobs) /\ scheduled \in Nat /\ Len(job_queue) \in Nat
    BY <1>1 DEF PoolTypeOK
  <2>2. CASE i = Len(job_queue) + 1
    BY <1>1, <1>4, <2>1, <2>2
  <2>3. CASE i \in 1 .. Len(job_queue)
    <3>1. job_queue'[i] = job_queue[i]
      BY <1>1, <2>1, <2>3
    <3>2. job_queue[i] = scheduled - Len(job_queue) + i
      BY <1>1, <2>3 DEF JobsStartedOnceInOrder
    <3>3. QED
      BY <1>10, <3>1, <3>2
  <2>4. QED
    BY <1>4, <2>1, <2>2, <2>3
<1>12. JobsStartedOnceInOrder'
  BY <1>1, <1>8, <1>9, <1>10, <1>11 DEF JobsStartedOnceInOrder
<1>13. QED
  BY <1>5, <1>6, <1>7, <1>12 DEF IndInv

\* A worker takes the front of the deque: the callback next in order, which no
\* worker has started before.
LEMMA WorkerTakeInv == ASSUME IndInv, NEW w \in PoolWorkers, WorkerTake(w) PROVE IndInv'
<1> USE ThreadPoolAssumption
<1> DEFINE started == scheduled - Len(job_queue)
<1>1. /\ PoolTypeOK /\ Places /\ Phases /\ JobsStartedOnceInOrder
      /\ pc[w] = "lock"
      /\ job_queue # <<>>
      /\ running' = [running EXCEPT ![w] = Head(job_queue)]
      /\ job_queue' = Tail(job_queue)
      /\ pc' = [pc EXCEPT ![w] = "run"]
      /\ UNCHANGED <<active, scheduled, finished>>
  BY DEF IndInv, WorkerTake
<1>2. /\ Len(job_queue) \in Nat \ {0}
      /\ Len(job_queue') = Len(job_queue) - 1
      /\ job_queue' \in Seq(1 .. MaxJobs)
      /\ Head(job_queue) = job_queue[1]
      /\ Head(job_queue) \in 1 .. MaxJobs
      /\ \A i \in 1 .. Len(job_queue') : job_queue'[i] = job_queue[i + 1]
  BY <1>1 DEF PoolTypeOK
<1>3. Head(job_queue) = started + 1
  BY <1>1, <1>2 DEF JobsStartedOnceInOrder
<1>4. w \in Threads /\ w # Owner
  BY DEF Threads
<1>5. PoolTypeOK'
  BY <1>1, <1>2, <1>4 DEF PoolTypeOK
<1>6. Places'
  BY <1>1, <1>4 DEF Places, PoolTypeOK, Threads
<1>7. Phases'
  BY <1>1, <1>2, <1>4 DEF Phases, PoolTypeOK, Threads
<1>8. started \in Int /\ scheduled' - Len(job_queue') = started + 1
  BY <1>1, <1>2 DEF PoolTypeOK
<1>9. Running' = Running \cup {started + 1}
  <2>1. \A v \in PoolWorkers : pc'[v] = "run" <=> (v = w \/ pc[v] = "run")
    BY <1>1, <1>4 DEF PoolTypeOK, Threads
  <2>2. running'[w] = started + 1
    BY <1>1, <1>3 DEF PoolTypeOK
  <2>3. \A v \in PoolWorkers : v # w => running'[v] = running[v]
    BY <1>1 DEF PoolTypeOK
  <2>4. pc[w] # "run"
    BY <1>1
  <2> HIDE DEF started
  <2>5. QED
    BY <2>1, <2>2, <2>3, <2>4 DEF Running
<1>10. Running \cup finished = 1 .. started
  BY <1>1 DEF JobsStartedOnceInOrder
<1>11. Running \cap finished = {}
  BY <1>1 DEF JobsStartedOnceInOrder
<1>12. started >= 0
  <2>1. Len(job_queue) <= scheduled
    <3>1. started + 1 >= 1
      BY <1>2, <1>3
    <3>2. QED
      BY <1>1, <1>2, <3>1 DEF PoolTypeOK
  <2>2. QED
    BY <1>1, <1>2, <2>1 DEF PoolTypeOK
<1>13. started + 1 \notin Running \cup finished
  BY <1>8, <1>10
<1>14. Running' \cup finished' = 1 .. (started + 1)
  <2>1. 1 .. (started + 1) = (1 .. started) \cup {started + 1}
    BY <1>8, <1>12
  <2>2. QED
    BY <1>1, <1>9, <1>10, <2>1
<1>15. Running' \cap finished' = {}
  BY <1>1, <1>9, <1>11, <1>13
<1>16. \A i \in 1 .. Len(job_queue') : job_queue'[i] = started + 1 + i
  BY <1>1, <1>2, <1>8 DEF JobsStartedOnceInOrder
<1>17. \A u, v \in PoolWorkers :
           pc'[u] = "run" /\ pc'[v] = "run" /\ running'[u] = running'[v] => u = v
  <2> SUFFICES ASSUME NEW u \in PoolWorkers, NEW v \in PoolWorkers,
                      pc'[u] = "run", pc'[v] = "run", running'[u] = running'[v], u # v
               PROVE  FALSE
    OBVIOUS
  <2>1. CASE u = w
    <3>1. pc[v] = "run" /\ running[v] = started + 1
      BY <1>1, <1>3, <2>1 DEF PoolTypeOK, Threads
    <3>2. running[v] \in Running
      BY <3>1 DEF Running
    <3>3. QED
      BY <1>13, <3>1, <3>2
  <2>2. CASE v = w
    <3>1. pc[u] = "run" /\ running[u] = started + 1
      BY <1>1, <1>3, <2>2 DEF PoolTypeOK, Threads
    <3>2. running[u] \in Running
      BY <3>1 DEF Running
    <3>3. QED
      BY <1>13, <3>1, <3>2
  <2>3. CASE u # w /\ v # w
    BY <1>1, <2>3 DEF JobsStartedOnceInOrder, PoolTypeOK, Threads
  <2>4. QED
    BY <2>1, <2>2, <2>3
<1>18. JobsStartedOnceInOrder'
  BY <1>8, <1>14, <1>15, <1>16, <1>17 DEF JobsStartedOnceInOrder
<1>19. QED
  BY <1>5, <1>6, <1>7, <1>18 DEF IndInv

\* A callback returns: it moves from the running to the finished.
LEMMA WorkerRunInv == ASSUME IndInv, NEW w \in PoolWorkers, WorkerRun(w) PROVE IndInv'
<1> USE ThreadPoolAssumption
<1>1. /\ PoolTypeOK /\ Places /\ Phases /\ JobsStartedOnceInOrder
      /\ pc[w] = "run"
      /\ finished' = finished \cup {running[w]}
      /\ pc' = [pc EXCEPT ![w] = "lock"]
      /\ UNCHANGED <<job_queue, active, running, scheduled>>
  BY DEF IndInv, WorkerRun
<1>2. w \in Threads /\ w # Owner
  BY DEF Threads
<1>3. running[w] \in Running
  BY <1>1 DEF Running
<1>4. running[w] \in 1 .. MaxJobs
  <2>1. running[w] \in 1 .. (scheduled - Len(job_queue))
    BY <1>1, <1>3 DEF JobsStartedOnceInOrder
  <2>2. QED
    BY <1>1, <2>1 DEF PoolTypeOK
<1>5. PoolTypeOK'
  BY <1>1, <1>2, <1>4 DEF PoolTypeOK
<1>6. Places'
  BY <1>1, <1>2 DEF Places, PoolTypeOK, Threads
<1>7. Phases'
  BY <1>1, <1>2 DEF Phases, PoolTypeOK, Threads
<1>8. \A v \in PoolWorkers : pc'[v] = "run" <=> (v # w /\ pc[v] = "run")
  BY <1>1, <1>2 DEF PoolTypeOK, Threads
<1>9. Running' = Running \ {running[w]}
  <2>1. \A v \in PoolWorkers : pc[v] = "run" /\ running[v] = running[w] => v = w
    BY <1>1 DEF JobsStartedOnceInOrder
  <2>2. QED
    BY <1>1, <1>8, <2>1 DEF Running
<1>10. /\ Running' \cup finished' = Running \cup finished
       /\ Running' \cap finished' = {}
  BY <1>1, <1>3, <1>9 DEF JobsStartedOnceInOrder
<1>11. JobsStartedOnceInOrder'
  BY <1>1, <1>8, <1>10 DEF JobsStartedOnceInOrder
<1>12. QED
  BY <1>5, <1>6, <1>7, <1>11 DEF IndInv

\* Every other step of a worker, and sleeping and waking, only moves the
\* thread; so do the steps of the destructor.
LEMMA MoveInv ==
    ASSUME IndInv,
           \/ \E w \in PoolWorkers : WorkerSleep(w) \/ WorkerExit(w)
           \/ \E t \in Threads : Block(t) \/ PoolSpuriousWake(t)
           \/ Destroy
           \/ OwnerStep
    PROVE  IndInv'
<1> USE ThreadPoolAssumption
<1>1. PoolTypeOK /\ Places /\ Phases /\ JobsStartedOnceInOrder
  BY DEF IndInv
<1>2. UNCHANGED <<job_queue, running, scheduled, finished>> /\ active' \in BOOLEAN
  BY <1>1 DEF PoolTypeOK, WorkerSleep, WorkerExit, Block, PoolSpuriousWake, Destroy, OwnerStep,
              DrainReturn, DrainSleep, StopStore, StopNotify, Join
<1> DEFINE Inv == /\ pc' \in [Threads -> {"use", "lock", "blocking", "waiting", "run",
                                          "exited", "stop", "notify", "join", "gone"}]
                  /\ Places'
                  /\ Phases'
                  /\ \A w \in PoolWorkers : (pc'[w] = "run") <=> (pc[w] = "run")
<1>3. ASSUME NEW w \in PoolWorkers, WorkerSleep(w) \/ WorkerExit(w) PROVE Inv
  BY <1>1, <1>2, <1>3 DEF PoolTypeOK, Places, Phases, Threads, WorkerSleep, WorkerExit
<1>4. ASSUME NEW t \in Threads, Block(t) \/ PoolSpuriousWake(t) PROVE Inv
  BY <1>1, <1>2, <1>4 DEF PoolTypeOK, Places, Phases, Threads, Block, PoolSpuriousWake
<1>5. ASSUME Destroy \/ DrainReturn \/ DrainSleep \/ StopStore \/ Join PROVE Inv
  BY <1>1, <1>2, <1>5 DEF PoolTypeOK, Places, Phases, Threads, Destroy, DrainReturn, DrainSleep,
                          StopStore, Join
<1>6. ASSUME StopNotify PROVE Inv
  BY <1>1, <1>2, <1>6 DEF PoolTypeOK, Places, Phases, Threads, StopNotify, NotifyAll, Waiting
<1>7. Inv
  BY <1>3, <1>4, <1>5, <1>6 DEF OwnerStep
<1>8. PoolTypeOK'
  BY <1>1, <1>2, <1>7 DEF PoolTypeOK
<1>9. JobsStartedOnceInOrder'
  BY <1>1, <1>2, <1>7, AccountKept
<1>10. QED
  BY <1>7, <1>8, <1>9 DEF IndInv

\* Every step of every thread keeps the invariant.
LEMMA NextInv == IndInv /\ [PoolNext]_poolVars => IndInv'
<1> SUFFICES ASSUME IndInv, [PoolNext]_poolVars PROVE IndInv'
  OBVIOUS
<1>1. CASE PoolSchedule
  BY <1>1, ScheduleInv
<1>2. ASSUME NEW w \in PoolWorkers, WorkerTake(w) PROVE IndInv'
  BY <1>2, WorkerTakeInv
<1>3. ASSUME NEW w \in PoolWorkers, WorkerRun(w) PROVE IndInv'
  BY <1>3, WorkerRunInv
<1>4. CASE \/ \E w \in PoolWorkers : WorkerSleep(w) \/ WorkerExit(w)
           \/ \E t \in Threads : Block(t) \/ PoolSpuriousWake(t)
           \/ Destroy
           \/ OwnerStep
  BY <1>4, MoveInv
<1>5. CASE UNCHANGED poolVars
  <2>1. Running' = Running
    BY <1>5 DEF poolVars, Running
  <2>2. QED
    BY <1>5, <2>1 DEF poolVars, IndInv, PoolTypeOK, Places, Phases, JobsStartedOnceInOrder
<1>6. QED
  BY <1>1, <1>2, <1>3, <1>4, <1>5 DEF PoolNext, PoolStep

\* So it holds of the pool for as long as it lives.
LEMMA Invariance == PoolSpec => []IndInv
  BY InitInv, NextInv, PTL DEF PoolSpec

-----------------------------------------------------------------------------

\* The pool's variables keep their types.
THEOREM TypeCorrect == PoolSpec => []PoolTypeOK
<1>1. IndInv => PoolTypeOK
  BY DEF IndInv
<1>2. QED
  BY <1>1, Invariance, PTL

\* However many threads schedule and however many workers take, every callback
\* waits in order or was started, once, by one worker.
THEOREM StartedOnceInOrder == PoolSpec => []JobsStartedOnceInOrder
<1>1. IndInv => JobsStartedOnceInOrder
  BY DEF IndInv
<1>2. QED
  BY <1>1, Invariance, PTL

\* ~ThreadPool returns only when every callback has returned and every worker
\* has left its loop.
THEOREM DestroyedIsDone == PoolSpec => []GoneMeansDone
<1>1. IndInv => GoneMeansDone
  <2> SUFFICES ASSUME IndInv, pc[Owner] = "gone"
               PROVE  finished = 1 .. scheduled /\ \A w \in PoolWorkers : pc[w] = "exited"
    BY DEF GoneMeansDone
  <2>1. /\ job_queue = <<>>
        /\ \A w \in PoolWorkers : pc[w] = "exited"
        /\ JobsStartedOnceInOrder
        /\ scheduled \in Nat
    BY ThreadPoolAssumption DEF IndInv, Phases, PoolTypeOK
  <2>2. Running = {}
    BY <2>1 DEF Running
  <2>3. scheduled - Len(job_queue) = scheduled
    BY <2>1
  <2>4. QED
    BY <2>1, <2>2, <2>3 DEF JobsStartedOnceInOrder
<1>2. QED
  BY <1>1, Invariance, PTL

-----------------------------------------------------------------------------
(* Work conservation.                                                      *)

Awake == {w \in PoolWorkers : pc[w] = "lock"}

\* While the pool is in use a worker goes to sleep only with the deque empty,
\* and it holds the mutex from the test until it sleeps.
BlockingIsIdle ==
    pc[Owner] = "use" => \A w \in PoolWorkers : pc[w] = "blocking" => job_queue = <<>>

WakeInv == BlockingIsIdle /\ WorkConserving

\* The number of awake workers is a number, and moves with them.
LEMMA AwakeCount ==
    /\ Cardinality(Awake) \in Nat
    /\ \A w \in PoolWorkers \ Awake : Awake' = Awake \cup {w} =>
           Cardinality(Awake') = Cardinality(Awake) + 1
    /\ \A w \in Awake : Awake' = Awake \ {w} =>
           Cardinality(Awake') = Cardinality(Awake) - 1
<1>1. IsFiniteSet(Awake)
  BY ThreadPoolAssumption, FS_Subset DEF Awake
<1>2. Cardinality(Awake) \in Nat
  BY <1>1, FS_CardinalityType
<1>3. ASSUME NEW w \in PoolWorkers \ Awake, Awake' = Awake \cup {w}
      PROVE  Cardinality(Awake') = Cardinality(Awake) + 1
  <2>1. w \notin Awake
    BY <1>3
  <2>2. Cardinality(Awake \cup {w}) = Cardinality(Awake) + 1
    BY <1>1, <2>1, FS_AddElement
  <2> QED BY <1>3, <2>2
<1>4. ASSUME NEW w \in Awake, Awake' = Awake \ {w}
      PROVE  Cardinality(Awake') = Cardinality(Awake) - 1
  <2>1. Cardinality(Awake \ {w}) = Cardinality(Awake) - 1
    BY <1>1, <1>4, FS_RemoveElement
  <2> QED BY <1>4, <2>1
<1> QED BY <1>2, <1>3, <1>4

\* A thread goes to sleep with nothing to do; a callback that comes in wakes
\* one sleeper, if there is one; and a callback goes with the worker that takes
\* it.
LEMMA WakeStep == ASSUME IndInv, WakeInv, [PoolNext]_poolVars PROVE WakeInv'
<1> USE ThreadPoolAssumption
<1>1. PoolTypeOK /\ Places
  BY DEF IndInv
<1>2. Len(job_queue) \in Nat
  BY <1>1 DEF PoolTypeOK
<1> DEFINE n == Cardinality(Awake)
<1>3. n \in Nat
  BY AwakeCount
<1>4. Owner \in Threads /\ PoolWorkers \subseteq Threads /\ Owner \notin PoolWorkers
  BY DEF Threads
<1>5. pc[Owner] = "use" => Waiting \subseteq PoolWorkers
  BY DEF Waiting, Threads
<1> SUFFICES ASSUME pc'[Owner] = "use" PROVE WakeInv'
  BY DEF WakeInv, BlockingIsIdle, WorkConserving
<1>6. WorkConserving <=> (pc[Owner] = "use" /\ Waiting # {} => n >= Len(job_queue))
  BY DEF WorkConserving, Awake
<1>7. WorkConserving' <=> (Waiting' # {} => Cardinality(Awake') >= Len(job_queue'))
  BY DEF WorkConserving, Awake
<1>8. BlockingIsIdle' <=> \A w \in PoolWorkers : pc'[w] = "blocking" => job_queue' = <<>>
  BY DEF BlockingIsIdle
<1> HIDE DEF n
<1>10. CASE PoolSchedule
  <2>1. /\ \A t \in Threads : pc[t] # "blocking"
        /\ Len(job_queue') = Len(job_queue) + 1
    BY <1>1, <1>10 DEF PoolSchedule, MutexFree, PoolTypeOK
  <2>2. CASE Waiting = {}
    <3>1. pc' = pc
      BY <1>10, <2>2 DEF PoolSchedule, NotifyOne
    <3>2. Waiting' = {}
      BY <2>2, <3>1 DEF Waiting
    <3> QED BY <1>4, <1>7, <1>8, <2>1, <3>1, <3>2 DEF WakeInv
  <2>3. CASE Waiting # {}
    <3>1. PICK t \in Waiting : pc' = [pc EXCEPT ![t] = "lock"]
      BY <1>10, <2>3 DEF PoolSchedule, NotifyOne
    <3>2. pc[t] = "waiting" /\ t \in Threads
      BY <3>1 DEF Waiting
    <3>3. pc[Owner] = "use" /\ t \in PoolWorkers
      BY <1>1, <1>4, <3>1, <3>2 DEF PoolTypeOK, Threads
    <3>4. t \in PoolWorkers \ Awake /\ Awake' = Awake \cup {t}
      BY <1>1, <1>4, <3>1, <3>2, <3>3 DEF Awake, PoolTypeOK
    <3>5. Cardinality(Awake') = n + 1
      BY <3>4, AwakeCount DEF n
    <3>6. n >= Len(job_queue)
      BY <1>6, <2>3, <3>3 DEF WakeInv
    <3>7. \A w \in PoolWorkers : pc'[w] # "blocking"
      BY <1>1, <1>4, <2>1, <3>1 DEF PoolTypeOK
    <3> QED BY <1>2, <1>3, <1>7, <1>8, <2>1, <3>5, <3>6, <3>7 DEF WakeInv
  <2> QED BY <2>2, <2>3
<1>11. ASSUME NEW w \in PoolWorkers, WorkerTake(w) PROVE WakeInv'
  <2>1. /\ pc[w] = "lock"
        /\ \A t \in Threads : pc[t] # "blocking"
        /\ Len(job_queue') = Len(job_queue) - 1
        /\ pc' = [pc EXCEPT ![w] = "run"]
    BY <1>1, <1>11 DEF WorkerTake, MutexFree, PoolTypeOK
  <2>2. w \in Awake /\ Awake' = Awake \ {w}
    BY <1>1, <1>4, <2>1 DEF Awake, PoolTypeOK
  <2>3. Cardinality(Awake') = n - 1
    BY <2>2, AwakeCount DEF n
  <2>4. Waiting' = Waiting /\ pc[Owner] = "use"
    BY <1>1, <1>4, <2>1 DEF Waiting, PoolTypeOK
  <2>5. \A v \in PoolWorkers : pc'[v] # "blocking"
    BY <1>1, <1>4, <2>1 DEF PoolTypeOK
  <2> QED BY <1>2, <1>3, <1>6, <1>7, <1>8, <2>1, <2>3, <2>4, <2>5 DEF WakeInv
<1>12. ASSUME NEW w \in PoolWorkers, WorkerSleep(w) \/ WorkerExit(w) \/ Block(w) PROVE WakeInv'
  <2>1. pc[Owner] = "use" /\ job_queue = <<>> /\ job_queue' = <<>>
    BY <1>1, <1>4, <1>12 DEF WorkerSleep, WorkerExit, Block, PoolTypeOK, WakeInv, BlockingIsIdle
  <2>2. Len(job_queue') = 0
    BY <2>1
  <2>3. Cardinality(Awake') \in Nat
    <3>1. IsFiniteSet(Awake')
      BY FS_Subset DEF Awake
    <3> QED BY <3>1, FS_CardinalityType
  <2> QED BY <1>7, <1>8, <2>1, <2>2, <2>3 DEF WakeInv
<1>13. ASSUME NEW w \in PoolWorkers, WorkerRun(w) \/ PoolSpuriousWake(w) PROVE WakeInv'
  <2>1. /\ pc[w] \in {"run", "waiting"}
        /\ pc' = [pc EXCEPT ![w] = "lock"]
        /\ job_queue' = job_queue
    BY <1>13 DEF WorkerRun, PoolSpuriousWake
  <2>2. w \in PoolWorkers \ Awake /\ Awake' = Awake \cup {w}
    BY <1>1, <1>4, <2>1 DEF Awake, PoolTypeOK
  <2>3. Cardinality(Awake') = n + 1
    BY <2>2, AwakeCount DEF n
  <2>4. Waiting' \subseteq Waiting /\ pc[Owner] = "use"
    BY <1>1, <1>4, <2>1 DEF Waiting, PoolTypeOK
  <2>5. \A v \in PoolWorkers : pc'[v] = "blocking" => pc[v] = "blocking"
    BY <1>1, <1>4, <2>1 DEF PoolTypeOK
  <2> QED BY <1>2, <1>3, <1>6, <1>7, <1>8, <2>1, <2>3, <2>4, <2>5 DEF WakeInv, BlockingIsIdle
<1>14. ASSUME Destroy \/ OwnerStep \/ Block(Owner) \/ PoolSpuriousWake(Owner) PROVE FALSE
  BY <1>1, <1>4, <1>14 DEF PoolTypeOK, Destroy, OwnerStep, DrainReturn, DrainSleep, StopStore,
     StopNotify, NotifyAll, Join, Block, PoolSpuriousWake
<1>15. CASE UNCHANGED poolVars
  <2>1. Waiting' = Waiting /\ Awake' = Awake /\ pc' = pc /\ job_queue' = job_queue
    BY <1>15 DEF poolVars, Waiting, Awake
  <2> QED BY <1>6, <1>7, <1>8, <2>1 DEF WakeInv, BlockingIsIdle, n
<1> QED BY <1>10, <1>11, <1>12, <1>13, <1>14, <1>15 DEF PoolNext, PoolStep, Threads

\* With one notify_one for each schedule(), no worker sleeps while work waits
\* that the awake workers do not cover: however many workers there are, and in
\* whatever order they get the mutex.
THEOREM NoWorkWaitsForSleepers == PoolSpec => []WorkConserving
<1>1. PoolInit => WakeInv
  <2> SUFFICES ASSUME PoolInit PROVE WakeInv
    OBVIOUS
  <2>1. Waiting = {} /\ job_queue = <<>>
    BY DEF PoolInit, Waiting
  <2> QED BY <2>1 DEF WakeInv, BlockingIsIdle, WorkConserving
<1>2. IndInv /\ WakeInv /\ [PoolNext]_poolVars => WakeInv'
  BY WakeStep
<1>3. WakeInv => WorkConserving
  BY DEF WakeInv
<1>4. QED
  BY <1>1, <1>2, <1>3, Invariance, PTL DEF PoolSpec

=============================================================================
