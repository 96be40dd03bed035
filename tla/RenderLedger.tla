---------------------------- MODULE RenderLedger ----------------------------
(***************************************************************************)
(* What the server promises its users, without queues, threads or clients: *)
(* a job is offered with a number of frames, each of its frames is counted *)
(* once, in any order, and the job is closed, once, when all are counted.  *)
(***************************************************************************)
EXTENDS Integers

CONSTANTS Jobs, FrameCounts

VARIABLES
    offered,    \* the jobs offered so far
    total,      \* the number of frames of each job
    rendered,   \* the frames counted for each job
    count,      \* how many frames the server says are rendered
    closed      \* the jobs called finished

ledger == <<offered, total, rendered, count, closed>>

Init ==
    /\ offered = {}
    /\ total = [j \in Jobs |-> 0]
    /\ rendered = [j \in Jobs |-> {}]
    /\ count = [j \in Jobs |-> 0]
    /\ closed = {}

Offer(j, n) ==
    /\ j \notin offered
    /\ offered' = offered \cup {j}
    /\ total' = [total EXCEPT ![j] = n]
    /\ UNCHANGED <<rendered, count, closed>>

Render(j, f) ==
    /\ j \in offered \ closed
    /\ f \notin rendered[j]
    /\ rendered' = [rendered EXCEPT ![j] = @ \cup {f}]
    /\ count' = [count EXCEPT ![j] = @ + 1]
    /\ UNCHANGED <<offered, total, closed>>

Close(j) ==
    /\ j \in offered \ closed
    /\ rendered[j] = 0 .. total[j] - 1
    /\ closed' = closed \cup {j}
    /\ UNCHANGED <<offered, total, rendered, count>>

Next ==
    \E j \in Jobs :
        \/ \E n \in FrameCounts : Offer(j, n)
        \/ \E f \in 0 .. total[j] - 1 : Render(j, f)
        \/ Close(j)

Spec == Init /\ [][Next]_ledger

=============================================================================
