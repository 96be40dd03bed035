------------------------------ MODULE JobQueue ------------------------------
(***************************************************************************)
(* The server's job queue: JobQueue (src/server/jobqueue.cpp), the Job it  *)
(* stores (job.cpp, job.hpp) and ClientManager::notifyUpdate, the path on  *)
(* which a rendered frame is counted and a complete job is finished.       *)
(*                                                                         *)
(* Threads: one distribution thread calls getJobs; the response threads    *)
(* of the client handlers (Reporters) call notifyUpdate; the CLI thread    *)
(* calls addJob and getStatus; any thread that loses a client calls        *)
(* addTasks.  A step is a critical section, or an access to a Job between  *)
(* two critical sections.                                                  *)
(*                                                                         *)
(* The users of the queue are modelled by the contract the queue relies    *)
(* on: a task handed out by getJobs is reported once or handed back once.  *)
(* Module Dispatch models the real users.                                  *)
(***************************************************************************)
EXTENDS Integers, Sequences, FiniteSets, Functions

CONSTANTS
    MaxJobs,        \* bound: how many jobs are ever submitted
    FrameCounts,    \* the frame counts a submitted job may ask for
    Capabilities,   \* the values getJobs is called with
    Reporters,      \* the response threads
    MaxReturns      \* bound: how often tasks are handed back

ASSUME JobQueueAssumption ==
    /\ MaxJobs \in Nat \ {0}
    /\ FrameCounts \subseteq Nat
    /\ Capabilities \subseteq Nat \ {0}
    /\ MaxReturns \in Nat

JobId == 0 .. MaxJobs - 1
Task == [job : JobId, frame : Nat]
Job == [total_frames : Nat, frames_submitted : Nat, frames_rendered : Nat]
JobStatus == [job_id : JobId, frames_rendered : Nat, frames_total : Nat]

VARIABLES
    job_offset,     \* the next job id
    jobs,           \* the ids in the job map; the others' Job is not allocated
    job,            \* the Job behind an id (kept after delete, for the properties)
    job_queue,      \* ids of the jobs that still have frames to hand out
    task_queue,     \* tasks handed back, served first
    finished_jobs   \* finished and not yet reported to a CLI

VARIABLES
    dist,           \* getJobs: "idle", or the loop it is in, holding job_mutex
    max_jobs,       \* the argument of getJobs
    results,        \* the tasks collected so far
    report,         \* per reporter: where it is in notifyUpdate
    task,           \* per reporter: the (job, frame) it reports
    total_rendered, \* per reporter: the count its increment returned
    status,         \* getStatus: "idle", or "jobs" between its two sections
    listing         \* the JobStatus entries being built, or the last ones built

VARIABLES
    out,            \* tasks handed out and neither reported nor handed back
    done,           \* history: the frames counted for each job
    told,           \* history: the jobs a status list has called finished
    returns         \* how often tasks were handed back

queueVars == <<job_offset, jobs, job, job_queue, task_queue, finished_jobs>>
distVars == <<dist, max_jobs, results>>
reportVars == <<report, task, total_rendered>>
statusVars == <<status, listing>>
vars == <<queueVars, distVars, reportVars, statusVars, out, done, told, returns>>

NoJob == [total_frames |-> 0, frames_submitted |-> 0, frames_rendered |-> 0]

Init ==
    /\ job_offset = 0
    /\ jobs = {}
    /\ job = [j \in JobId |-> NoJob]
    /\ job_queue = <<>>
    /\ task_queue = <<>>
    /\ finished_jobs = <<>>
    /\ dist = "idle"
    /\ max_jobs = 1
    /\ results = <<>>
    /\ report = [r \in Reporters |-> "idle"]
    /\ task = [r \in Reporters |-> [job |-> 0, frame |-> 0]]
    /\ total_rendered = [r \in Reporters |-> 0]
    /\ status = "idle"
    /\ listing = {}
    /\ out = {}
    /\ done = [j \in JobId |-> {}]
    /\ told = {}
    /\ returns = 0

-----------------------------------------------------------------------------
(* Submission and hand-back: both hold job_mutex, which only getJobs holds  *)
(* over several steps.                                                      *)

JobMutexFree == dist = "idle"

\* Mutant: a new job goes to the front of the queue.
AddJobPushFront(frames) ==
    /\ JobMutexFree
    /\ status = "idle"
    /\ job_offset < MaxJobs
    /\ job_offset' = job_offset + 1
    /\ jobs' = jobs \cup {job_offset}
    /\ job' = [job EXCEPT ![job_offset] = [NoJob EXCEPT !.total_frames = frames]]
    /\ job_queue' = <<job_offset>> \o job_queue
    /\ UNCHANGED <<task_queue, finished_jobs, distVars, reportVars, statusVars,
                   out, done, told, returns>>

AddJob(frames) ==
    /\ JobMutexFree
    /\ status = "idle"
    /\ job_offset < MaxJobs
    /\ job_offset' = job_offset + 1
    /\ jobs' = jobs \cup {job_offset}
    /\ job' = [job EXCEPT ![job_offset] = [NoJob EXCEPT !.total_frames = frames]]
    /\ job_queue' = Append(job_queue, job_offset)
    /\ UNCHANGED <<task_queue, finished_jobs, distVars, reportVars, statusVars,
                   out, done, told, returns>>

\* Mutant: the handed-back tasks replace those waiting.
AddTasksAssign(tasks) ==
    /\ JobMutexFree
    /\ returns < MaxReturns
    /\ returns' = returns + 1
    /\ task_queue' = tasks
    /\ out' = out \ Range(tasks)
    /\ UNCHANGED <<job_offset, jobs, job, job_queue, finished_jobs, distVars,
                   reportVars, statusVars, done, told>>

AddTasks(tasks) ==
    /\ JobMutexFree
    /\ returns < MaxReturns
    /\ returns' = returns + 1
    /\ task_queue' = task_queue \o tasks
    /\ out' = out \ Range(tasks)
    /\ UNCHANGED <<job_offset, jobs, job, job_queue, finished_jobs, distVars,
                   reportVars, statusVars, done, told>>

\* The vectors of distinct tasks that hold exactly the tasks of S.
Vectors(S) == {v \in [1 .. Cardinality(S) -> S] : IsInjective(v) /\ Range(v) = S}

-----------------------------------------------------------------------------
(* getJobs, the distribution thread.  It sleeps until there is work, then   *)
(* empties the task queue and walks the job queue with job_mutex held; the  *)
(* job map is locked anew for each job, so jobs may finish in between.      *)

Smaller(a, b) == IF a <= b THEN a ELSE b

hasTasks(j) == job[j].frames_submitted < job[j].total_frames

GetJobsWait(max) ==
    /\ dist = "idle"
    /\ job_queue # <<>> \/ task_queue # <<>>
    /\ dist' = "priority"
    /\ max_jobs' = max
    /\ results' = <<>>
    /\ UNCHANGED <<queueVars, reportVars, statusVars, out, done, told, returns>>

\* Mutant: the tasks are copied and not popped.
GetJobsPriorityNoPop ==
    /\ dist = "priority"
    /\ results' = SubSeq(task_queue, 1, Smaller(Len(task_queue), max_jobs))
    /\ dist' = "regular"
    /\ UNCHANGED <<queueVars, max_jobs, reportVars, statusVars, out, done, told, returns>>

\* Mutant: the whole task queue is cleared, whatever fitted.
GetJobsPriorityClear ==
    /\ dist = "priority"
    /\ results' = SubSeq(task_queue, 1, Smaller(Len(task_queue), max_jobs))
    /\ task_queue' = <<>>
    /\ dist' = "regular"
    /\ UNCHANGED <<job_offset, jobs, job, job_queue, finished_jobs, max_jobs,
                   reportVars, statusVars, out, done, told, returns>>

GetJobsPriority ==
    /\ dist = "priority"
    /\ LET n == Smaller(Len(task_queue), max_jobs)
       IN  /\ results' = SubSeq(task_queue, 1, n)
           /\ task_queue' = SubSeq(task_queue, n + 1, Len(task_queue))
    /\ dist' = "regular"
    /\ UNCHANGED <<job_offset, jobs, job, job_queue, finished_jobs, max_jobs,
                   reportVars, statusVars, out, done, told, returns>>

\* getNextTask, n times in a row on job j.
NextTasks(j, n) ==
    [i \in 1 .. n |-> [job |-> j, frame |-> job[j].frames_submitted + i - 1]]

\* Mutant: an exhausted job stays in the job queue.
GetJobsRegularNoPop ==
    /\ dist = "regular"
    /\ job_queue # <<>>
    /\ Len(results) < max_jobs
    /\ LET j == Head(job_queue)
           left == job[j].total_frames - job[j].frames_submitted
           n == Smaller(left, max_jobs - Len(results))
       IN  /\ results' = results \o NextTasks(j, n)
           /\ job' = [job EXCEPT ![j].frames_submitted = @ + n]
    /\ UNCHANGED <<job_offset, jobs, job_queue, task_queue, finished_jobs, dist,
                   max_jobs, reportVars, statusVars, out, done, told, returns>>

GetJobsRegular ==
    /\ dist = "regular"
    /\ job_queue # <<>>
    /\ Len(results) < max_jobs
    /\ LET j == Head(job_queue)
           left == job[j].total_frames - job[j].frames_submitted
           n == Smaller(left, max_jobs - Len(results))
       IN  /\ results' = results \o NextTasks(j, n)
           /\ job' = [job EXCEPT ![j].frames_submitted = @ + n]
           /\ job_queue' = IF n = left THEN Tail(job_queue) ELSE job_queue
    /\ UNCHANGED <<job_offset, jobs, task_queue, finished_jobs, dist, max_jobs,
                   reportVars, statusVars, out, done, told, returns>>

GetJobsReturn ==
    /\ dist = "regular"
    /\ job_queue = <<>> \/ Len(results) >= max_jobs
    /\ dist' = "idle"
    /\ results' = <<>>
    /\ out' = out \cup Range(results)
    /\ UNCHANGED <<queueVars, max_jobs, reportVars, statusVars, done, told, returns>>

-----------------------------------------------------------------------------
(* notifyUpdate, a response thread: findJob under the map lock, then the    *)
(* atomic increment and the comparison on the Job with no lock held, then   *)
(* finishJob in two critical sections.                                      *)

FindJob(r, t) ==
    /\ report[r] = "idle"
    /\ report' = [report EXCEPT ![r] = IF t.job \in jobs THEN "found" ELSE "idle"]
    /\ task' = [task EXCEPT ![r] = t]
    /\ out' = out \ {t}
    /\ UNCHANGED <<queueVars, distVars, total_rendered, statusVars, done, told, returns>>

FrameRendered(r) ==
    LET j == task[r].job
    IN  /\ report[r] = "found"
        /\ job' = [job EXCEPT ![j].frames_rendered = @ + 1]
        /\ total_rendered' = [total_rendered EXCEPT ![r] = job[j].frames_rendered + 1]
        /\ done' = [done EXCEPT ![j] = @ \cup {task[r].frame}]
        /\ report' = [report EXCEPT ![r] = "counted"]
        /\ UNCHANGED <<job_offset, jobs, job_queue, task_queue, finished_jobs,
                       distVars, task, statusVars, out, told, returns>>

\* Mutant: the comparison is off by one, as if the count were post-incremented.
CompareTotalEarly(r) ==
    LET j == task[r].job
    IN  /\ report[r] = "counted"
        /\ \E equal \in IF j \in jobs
                        THEN {total_rendered[r] + 1 = job[j].total_frames}
                        ELSE BOOLEAN :
               report' = [report EXCEPT ![r] = IF equal THEN "finish" ELSE "idle"]
        /\ UNCHANGED <<queueVars, distVars, task, total_rendered, statusVars,
                       out, done, told, returns>>

\* total_frames is read after the increment: the thread that counted the last
\* frame may have deleted the Job by then, and the freed memory may hold anything.
CompareTotal(r) ==
    LET j == task[r].job
    IN  /\ report[r] = "counted"
        /\ \E equal \in IF j \in jobs
                        THEN {total_rendered[r] = job[j].total_frames}
                        ELSE BOOLEAN :
               report' = [report EXCEPT ![r] = IF equal THEN "finish" ELSE "idle"]
        /\ UNCHANGED <<queueVars, distVars, task, total_rendered, statusVars,
                       out, done, told, returns>>

\* Mutant: finishJob does not check that the job is still in the map.
FinishJobEraseUnchecked(r) ==
    /\ report[r] = "finish"
    /\ jobs' = jobs \ {task[r].job}
    /\ report' = [report EXCEPT ![r] = "erased"]
    /\ UNCHANGED <<job_offset, job, job_queue, task_queue, finished_jobs,
                   distVars, task, total_rendered, statusVars, out, done,
                   told, returns>>

\* Mutant: finishJob forgets to erase the job.
FinishJobNoErase(r) ==
    /\ report[r] = "finish"
    /\ report' = [report EXCEPT ![r] = "erased"]
    /\ UNCHANGED <<queueVars, distVars, task, total_rendered, statusVars, out,
                   done, told, returns>>

FinishJobErase(r) ==
    LET j == task[r].job
    IN  /\ report[r] = "finish"
        /\ jobs' = jobs \ {j}
        /\ report' = [report EXCEPT ![r] = IF j \in jobs THEN "erased" ELSE "idle"]
        /\ UNCHANGED <<job_offset, job, job_queue, task_queue, finished_jobs,
                       distVars, task, total_rendered, statusVars, out, done,
                       told, returns>>

FinishJobPush(r) ==
    /\ report[r] = "erased"
    /\ finished_jobs' = Append(finished_jobs, task[r].job)
    /\ report' = [report EXCEPT ![r] = "idle"]
    /\ UNCHANGED <<job_offset, jobs, job, job_queue, task_queue, distVars, task,
                   total_rendered, statusVars, out, done, told, returns>>

-----------------------------------------------------------------------------
(* getStatus, the CLI thread: the finished list under finished_mutex, then  *)
(* the job map under its own lock.  A finished job is listed with no frames. *)

Finished(j) == [job_id |-> j, frames_rendered |-> 0, frames_total |-> 0]

Running(j) == [job_id |-> j, frames_rendered |-> job[j].frames_rendered,
               frames_total |-> job[j].total_frames]

StatusFinished ==
    /\ status = "idle"
    /\ status' = "jobs"
    /\ listing' = {Finished(j) : j \in Range(finished_jobs)}
    /\ finished_jobs' = <<>>
    /\ told' = told \cup Range(finished_jobs)
    /\ UNCHANGED <<job_offset, jobs, job, job_queue, task_queue, distVars,
                   reportVars, out, done, returns>>

StatusRunning ==
    /\ status = "jobs"
    /\ status' = "idle"
    /\ listing' = listing \cup {Running(j) : j \in jobs}
    /\ UNCHANGED <<queueVars, distVars, reportVars, out, done, told, returns>>

-----------------------------------------------------------------------------

Next ==
    \/ \E frames \in FrameCounts : AddJob(frames)
    \/ \E S \in (SUBSET out) \ {{}} : \E tasks \in Vectors(S) : AddTasks(tasks)
    \/ \E max \in Capabilities : GetJobsWait(max)
    \/ GetJobsPriority
    \/ GetJobsRegular
    \/ GetJobsReturn
    \/ \E r \in Reporters :
        \/ \E t \in out : FindJob(r, t)
        \/ FrameRendered(r)
        \/ CompareTotal(r)
        \/ FinishJobErase(r)
        \/ FinishJobPush(r)
    \/ StatusFinished
    \/ StatusRunning

Spec == Init /\ [][Next]_vars

(***************************************************************************)
(* Fairness: the distribution thread comes back to getJobs as long as some *)
(* client asks for work, started calls run on, the clients that hold tasks *)
(* report them, and a user keeps asking for the status.                    *)
(***************************************************************************)
Fairness ==
    /\ WF_vars(\E max \in Capabilities : GetJobsWait(max))
    /\ WF_vars(GetJobsPriority \/ GetJobsRegular \/ GetJobsReturn)
    /\ WF_vars(\E r \in Reporters : \E t \in out : FindJob(r, t))
    /\ \A r \in Reporters : WF_vars(FrameRendered(r) \/ CompareTotal(r) \/
                                     FinishJobErase(r) \/ FinishJobPush(r))
    /\ WF_vars(StatusFinished)
    /\ WF_vars(StatusRunning)

FairSpec == Spec /\ Fairness

-----------------------------------------------------------------------------
(* Properties.                                                             *)

Submitted == 0 .. job_offset - 1

\* Types of all variables.
TypeOK ==
    /\ job_offset \in 0 .. MaxJobs
    /\ jobs \subseteq Submitted
    /\ job \in [JobId -> Job]
    /\ job_queue \in Seq(JobId)
    /\ task_queue \in Seq(Task)
    /\ finished_jobs \in Seq(JobId)
    /\ dist \in {"idle", "priority", "regular"}
    /\ max_jobs \in Nat \ {0}
    /\ results \in Seq(Task)
    /\ report \in [Reporters -> {"idle", "found", "counted", "finish", "erased"}]
    /\ task \in [Reporters -> Task]
    /\ total_rendered \in [Reporters -> Nat]
    /\ status \in {"idle", "jobs"}
    /\ listing \subseteq JobStatus
    /\ out \subseteq Task /\ IsFiniteSet(out)
    /\ done \in [JobId -> SUBSET Nat]
    /\ told \subseteq JobId
    /\ returns \in 0 .. MaxReturns

\* A job leaves the job map only when every one of its frames has been
\* rendered (job.hpp: "argument is called when all frames have finished").
FinishedIsComplete ==
    \A j \in Submitted \ jobs : done[j] = 0 .. job[j].total_frames - 1

\* The tasks a response thread has taken off the wire and not yet counted, the
\* ones counted, and all those getNextTask has ever made.
Held == {task[r] : r \in {q \in Reporters : report[q] = "found"}}

Counted == UNION {{[job |-> j, frame |-> f] : f \in done[j]} : j \in JobId}

Made == UNION {{[job |-> j, frame |-> f] : f \in 0 .. job[j].frames_submitted - 1} :
               j \in JobId}

\* No frame is lost or rendered twice on the queue's account: every frame made
\* by getNextTask is in exactly one place, once - handed back, being collected,
\* with a client, being reported, or counted.
FramesConserved ==
    /\ Made = Range(task_queue) \cup Range(results) \cup out \cup Held \cup Counted
    /\ IsInjective(task_queue)
    /\ IsInjective(results)
    /\ \A r, q \in Reporters :
        report[r] = "found" /\ report[q] = "found" /\ task[r] = task[q] => r = q
    /\ Range(task_queue) \cap (Range(results) \cup out \cup Held \cup Counted) = {}
    /\ Range(results) \cap (out \cup Held \cup Counted) = {}
    /\ out \cap (Held \cup Counted) = {}
    /\ Held \cap Counted = {}

\* getJobs never meets an id whose Job was deleted: jobs[job_id] would insert a
\* null pointer and dereference it.
QueuedJobsAreLive == Range(job_queue) \subseteq jobs

\* frameRendered is never called on a Job that another thread has deleted since
\* findJob returned it.
CountedJobIsLive == \A r \in Reporters : report[r] = "found" => task[r].job \in jobs

\* Every job is, in exactly one way, live, about to be listed as finished, or
\* told: no finished job is lost on its way to the CLI, and none is told twice.
FinishedToldOnce ==
    LET pushing == {r \in Reporters : report[r] = "erased"}
    IN  /\ Submitted = jobs \cup {task[r].job : r \in pushing}
                            \cup Range(finished_jobs) \cup told
        /\ IsInjective(finished_jobs)
        /\ \A r, q \in pushing : task[r].job = task[q].job => r = q
        /\ \A r \in pushing : task[r].job \notin jobs \cup Range(finished_jobs) \cup told
        /\ jobs \cap (Range(finished_jobs) \cup told) = {}
        /\ Range(finished_jobs) \cap told = {}

\* One status list never shows a job both finished and running, shows no more
\* frames than the job has, and uses the 0/0 entry the CLI prints as "finished"
\* only for a finished job (or one submitted with no frames at all).
ListingConsistent ==
    /\ \A a, b \in listing : a.job_id = b.job_id => a = b
    /\ \A a \in listing :
        /\ a.frames_rendered <= a.frames_total
        /\ a.frames_total = 0 => a.job_id \in told \/ job[a.job_id].total_frames = 0

\* Jobs are served first come first served: a frame of a later job is handed
\* out only after every frame of the earlier ones.
FirstComeFirstServed ==
    \A i, j \in Submitted :
        i < j /\ job[j].frames_submitted > 0 => ~ hasTasks(i)

\* Every job with at least one frame is finished and shown finished in the end.
JobsFinish ==
    \A j \in JobId : (j < job_offset /\ job[j].total_frames > 0) ~> (j \in told)

\* The queue keeps the server's promise: its counted frames and finished jobs
\* are the steps of a ledger that counts each frame once and closes complete
\* jobs only.
Ledger == INSTANCE RenderLedger WITH
    Jobs <- JobId,
    offered <- Submitted,
    total <- [j \in JobId |-> job[j].total_frames],
    rendered <- done,
    count <- [j \in JobId |-> job[j].frames_rendered],
    closed <- Submitted \ jobs

LedgerSpec == Ledger!Spec

=============================================================================
