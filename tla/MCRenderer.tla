----------------------------- MODULE MCRenderer -----------------------------
(***************************************************************************)
(* Instances for TLC of Renderer and of the ThreadPool it encodes with.    *)
(* Renderer keeps of the pool what it needs (a queue and the jobs being    *)
(* run), ThreadPool has its locks and its destructor.  They share no       *)
(* state: a behaviour picks one `part` and takes its steps, the other      *)
(* rests in its initial state.                                             *)
(***************************************************************************)
EXTENDS Renderer, ThreadPool

VARIABLE part   \* the module whose steps this behaviour takes

allVars == <<part, vars, poolVars>>

\* A task with more frames than slots, then one with fewer.
TwoTasks == <<5, 1>>

OfRenderer(A) == part = "renderer" /\ A /\ UNCHANGED <<part, poolVars>>
OfPool(A) == part = "pool" /\ A /\ UNCHANGED <<part, vars>>

MCInit == part \in {"renderer", "pool"} /\ Init /\ PoolInit

MCNext == OfRenderer(Next) \/ OfPool(PoolNext)

\* The fairness of FairSpec, and no more of PoolFairSpec than JobsRun needs: the
\* mutex goes to some worker again and again, and a callback returns.
MCSpec ==
    /\ MCInit /\ [][MCNext]_allVars
    /\ WF_allVars(OfRenderer(MainStep))
    /\ WF_allVars(OfRenderer(CallbackStep))
    /\ \A d \in Devices : WF_allVars(OfRenderer(DeviceCompletes(d) \/ DeviceFails(d)))
    /\ \A w \in Workers : WF_allVars(OfRenderer(WorkerStep(w)))
    /\ SF_allVars(OfPool(\E w \in PoolWorkers : PoolStep(w)))
    /\ \A w \in PoolWorkers : WF_allVars(OfPool(WorkerRun(w)))
    /\ \A t \in Threads : WF_allVars(OfPool(Block(t)))

=============================================================================
