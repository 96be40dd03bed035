--------------------------- MODULE JobQueueLedger ---------------------------
(***************************************************************************)
(* Proofs that JobQueue keeps the promise of RenderLedger, that every      *)
(* finished job is told to the user once, and that the status lists are    *)
(* consistent.                                                             *)
(***************************************************************************)
EXTENDS JobQueueProofs

-----------------------------------------------------------------------------
(* Finished jobs on their way to the CLI.                                  *)

Pushing == {r \in Reporters : report[r] = "erased"}

PushedJobs == {task[r].job : r \in Pushing}

LEMMA ToldParts ==
    FinishedToldOnce <=>
        /\ Submitted = jobs \cup PushedJobs \cup Range(finished_jobs) \cup told
        /\ IsInjective(finished_jobs)
        /\ \A r, q \in Pushing : task[r].job = task[q].job => r = q
        /\ \A r \in Pushing : task[r].job \notin jobs \cup Range(finished_jobs) \cup told
        /\ jobs \cap (Range(finished_jobs) \cup told) = {}
        /\ Range(finished_jobs) \cap told = {}
BY DEF FinishedToldOnce, Pushing, PushedJobs

\* Steps that finish no job and tell none.
LEMMA ToldKept ==
    ASSUME FinishedToldOnce,
           UNCHANGED <<job_offset, jobs, finished_jobs, told>>,
           Pushing' = Pushing, \A r \in Pushing : task'[r] = task[r]
    PROVE  FinishedToldOnce'
<1>1. Submitted' = Submitted
  BY DEF Submitted
<1>2. PushedJobs' = PushedJobs
  BY DEF PushedJobs
<1> QED BY <1>1, <1>2 DEF FinishedToldOnce, Pushing, PushedJobs

LEMMA ToldInit == Init => FinishedToldOnce
<1> SUFFICES ASSUME Init PROVE FinishedToldOnce
  OBVIOUS
<1>1. {r \in Reporters : report[r] = "erased"} = {}
  BY DEF Init
<1>2. Submitted = {} /\ Range(finished_jobs) = {} /\ IsInjective(finished_jobs)
  BY DEF Init, Submitted, Range, IsInjective
<1> QED BY <1>1, <1>2 DEF Init, FinishedToldOnce

\* A report that does not end in "erased" leaves the pushing threads as they are.
LEMMA PushingKept ==
    ASSUME TypeOK, NEW r \in Reporters, report[r] # "erased", NEW v, v # "erased",
           report' = [report EXCEPT ![r] = v]
    PROVE  Pushing' = Pushing /\ r \notin Pushing
<1>1. report \in [Reporters -> {"idle", "found", "counted", "finish", "erased"}]
  BY DEF TypeOK
<1>2. report'[r] # "erased" /\ \A q \in Reporters : q # r => report'[q] = report[q]
  BY <1>1
<1> QED BY <1>2 DEF Pushing

LEMMA ToldNext == TypeInv /\ FinishedToldOnce /\ [Next]_vars => FinishedToldOnce'
<1> SUFFICES ASSUME TypeInv, FinishedToldOnce, [Next]_vars PROVE FinishedToldOnce'
  OBVIOUS
<1>0. TypeOK
  BY DEF TypeInv
<1>a. /\ report \in [Reporters -> {"idle", "found", "counted", "finish", "erased"}]
      /\ task \in [Reporters -> Task]
      /\ finished_jobs \in Seq(JobId)
  BY <1>0 DEF TypeOK
<1>1. ASSUME NEW frames \in FrameCounts, AddJob(frames) PROVE FinishedToldOnce'
  <2>1. /\ UNCHANGED <<report, task, finished_jobs, told>>
        /\ jobs' = jobs \cup {job_offset} /\ job_offset' = job_offset + 1
    BY <1>1 DEF AddJob, reportVars
  <2>2. Submitted' = Submitted \cup {job_offset} /\ job_offset \notin Submitted
    BY <1>0, <2>1 DEF Submitted, TypeOK
  <2>3. Pushing' = Pushing /\ PushedJobs' = PushedJobs
    BY <2>1 DEF Pushing, PushedJobs
  <2>4. job_offset \notin PushedJobs \cup Range(finished_jobs) \cup told
    BY <2>2, ToldParts
  <2>5. \A r \in Pushing : task[r].job \in PushedJobs
    BY DEF PushedJobs
  <2> QED BY <2>1, <2>2, <2>3, <2>4, <2>5 DEF FinishedToldOnce, Pushing, PushedJobs
<1>2. ASSUME NEW r \in Reporters, NEW t \in out, FindJob(r, t) PROVE FinishedToldOnce'
  <2>1. /\ UNCHANGED <<job_offset, jobs, finished_jobs, told>>
        /\ report[r] = "idle"
        /\ report' = [report EXCEPT ![r] = IF t.job \in jobs THEN "found" ELSE "idle"]
        /\ task' = [task EXCEPT ![r] = t]
    BY <1>2 DEF FindJob, queueVars
  <2>2. (IF t.job \in jobs THEN "found" ELSE "idle") # "erased"
    OBVIOUS
  <2>3. Pushing' = Pushing /\ r \notin Pushing
    BY <1>0, <2>1, <2>2, PushingKept
  <2>4. \A q \in Pushing : task'[q] = task[q]
    BY <2>1, <2>3, <1>a DEF Pushing
  <2> QED BY <2>1, <2>3, <2>4, ToldKept
<1>3. ASSUME NEW r \in Reporters, FrameRendered(r) PROVE FinishedToldOnce'
  <2>1. /\ UNCHANGED <<job_offset, jobs, finished_jobs, told, task>>
        /\ report[r] = "found"
        /\ report' = [report EXCEPT ![r] = "counted"]
    BY <1>3 DEF FrameRendered
  <2>2. Pushing' = Pushing
    BY <1>0, <2>1, PushingKept
  <2> QED BY <2>1, <2>2, ToldKept
<1>4. ASSUME NEW r \in Reporters, CompareTotal(r) PROVE FinishedToldOnce'
  <2>1. /\ UNCHANGED <<job_offset, jobs, finished_jobs, told, task>>
        /\ report[r] = "counted"
    BY <1>4 DEF CompareTotal, queueVars
  <2>2. PICK equal : report' = [report EXCEPT ![r] = IF equal THEN "finish" ELSE "idle"]
    BY <1>4 DEF CompareTotal
  <2>3. (IF equal THEN "finish" ELSE "idle") # "erased"
    OBVIOUS
  <2>4. Pushing' = Pushing
    BY <1>0, <2>1, <2>2, <2>3, PushingKept
  <2> QED BY <2>1, <2>4, ToldKept
<1>5. ASSUME NEW r \in Reporters, FinishJobErase(r) PROVE FinishedToldOnce'
  <2> DEFINE j == task[r].job
  <2>1. /\ UNCHANGED <<job_offset, finished_jobs, told, task>>
        /\ report[r] = "finish"
        /\ jobs' = jobs \ {j}
        /\ report' = [report EXCEPT ![r] = IF j \in jobs THEN "erased" ELSE "idle"]
    BY <1>5 DEF FinishJobErase
  <2>2. CASE j \notin jobs
    <3>1. Pushing' = Pushing
      BY <1>0, <2>1, <2>2, PushingKept
    <3>2. jobs' = jobs
      BY <2>1, <2>2
    <3> QED BY <2>1, <3>1, <3>2, ToldKept
  <2>3. CASE j \in jobs
    <3>1. report'[r] = "erased" /\ \A q \in Reporters : q # r => report'[q] = report[q]
      BY <2>1, <2>3, <1>a
    <3>2. Pushing' = Pushing \cup {r} /\ r \notin Pushing
      BY <2>1, <3>1 DEF Pushing
    <3>3. PushedJobs' = PushedJobs \cup {j}
      BY <2>1, <3>2 DEF PushedJobs
    <3>4. Submitted' = Submitted
      BY <2>1 DEF Submitted
    <3>5. \A q \in Pushing : task[q].job # j
      BY <2>3, ToldParts
    <3>6. Submitted = jobs' \cup (PushedJobs \cup {j}) \cup Range(finished_jobs) \cup told
      BY <2>1, <2>3, ToldParts
    <3>7. /\ \A p, q \in Pushing' : task'[p].job = task'[q].job => p = q
          /\ \A q \in Pushing' :
               task'[q].job \notin jobs' \cup Range(finished_jobs) \cup told
      BY <2>1, <2>3, <3>2, <3>5, ToldParts
    <3>8. IsInjective(finished_jobs) /\ jobs' \cap (Range(finished_jobs) \cup told) = {}
          /\ Range(finished_jobs) \cap told = {}
      BY <2>1, ToldParts
    <3> HIDE DEF j
    <3> QED BY <2>1, <3>3, <3>4, <3>6, <3>7, <3>8 DEF FinishedToldOnce, Pushing, PushedJobs
  <2> QED BY <2>2, <2>3
<1>6. ASSUME NEW r \in Reporters, FinishJobPush(r) PROVE FinishedToldOnce'
  <2> DEFINE j == task[r].job
  <2>1. /\ UNCHANGED <<job_offset, jobs, told, task>>
        /\ report[r] = "erased"
        /\ report' = [report EXCEPT ![r] = "idle"]
        /\ finished_jobs' = Append(finished_jobs, j)
    BY <1>6 DEF FinishJobPush
  <2>2. report'[r] = "idle" /\ \A q \in Reporters : q # r => report'[q] = report[q]
    BY <2>1, <1>a
  <2>3. Pushing' = Pushing \ {r} /\ r \in Pushing
    BY <2>1, <2>2 DEF Pushing
  <2>4. /\ \A q \in Pushing : task[q].job = j => q = r
        /\ j \notin jobs \cup Range(finished_jobs) \cup told
    BY <2>3, ToldParts
  <2>5. PushedJobs' = PushedJobs \ {j} /\ j \in PushedJobs
    BY <2>1, <2>3, <2>4 DEF PushedJobs
  <2>6. j \in JobId
    BY <1>a DEF Task
  <2>7. Range(finished_jobs') = Range(finished_jobs) \cup {j} /\ IsInjective(finished_jobs')
    <3> DEFINE last == <<j>>
    <3>1. finished_jobs' = finished_jobs \o last /\ last \in Seq(JobId)
      BY <2>1, <2>6, <1>a
    <3>2. Range(last) = {j} /\ IsInjective(last)
      BY DEF Range, IsInjective
    <3>3. IsInjective(finished_jobs) /\ Range(finished_jobs) \cap Range(last) = {}
      BY <2>4, <3>2, ToldParts
    <3> HIDE DEF last
    <3> QED BY <3>1, <3>2, <3>3, <1>a, ConcatRange
  <2>8. Submitted' = Submitted
    BY <2>1 DEF Submitted
  <2>9. Submitted = jobs \cup PushedJobs' \cup Range(finished_jobs') \cup told
    BY <2>5, <2>7, ToldParts
  <2>10. /\ \A p, q \in Pushing' : task'[p].job = task'[q].job => p = q
         /\ \A q \in Pushing' : task'[q].job \notin jobs \cup Range(finished_jobs') \cup told
    BY <2>1, <2>3, <2>4, <2>7, ToldParts
  <2>11. /\ jobs \cap (Range(finished_jobs') \cup told) = {}
         /\ Range(finished_jobs') \cap told = {}
    BY <2>4, <2>7, ToldParts
  <2> QED BY <2>1, <2>7, <2>8, <2>9, <2>10, <2>11 DEF FinishedToldOnce, Pushing, PushedJobs
<1>7. CASE StatusFinished
  <2>1. /\ UNCHANGED <<job_offset, jobs, report, task>>
        /\ finished_jobs' = <<>>
        /\ told' = told \cup Range(finished_jobs)
    BY <1>7 DEF StatusFinished, reportVars
  <2>2. Range(finished_jobs') = {} /\ IsInjective(finished_jobs')
    BY <2>1 DEF Range, IsInjective
  <2>3. Submitted' = Submitted
    BY <2>1 DEF Submitted
  <2> QED BY <2>1, <2>2, <2>3 DEF FinishedToldOnce
<1>8. ASSUME UNCHANGED <<job_offset, jobs, finished_jobs, told, report, task>>
      PROVE  FinishedToldOnce'
  <2>1. Pushing' = Pushing
    BY <1>8 DEF Pushing
  <2> QED BY <1>8, <2>1, ToldKept
<1>9. ASSUME NEW S \in (SUBSET out) \ {{}}, NEW tasks \in Vectors(S), AddTasks(tasks)
      PROVE  FinishedToldOnce'
  BY <1>8, <1>9 DEF AddTasks, reportVars
<1>10. ASSUME NEW max \in Capabilities, GetJobsWait(max) PROVE FinishedToldOnce'
  BY <1>8, <1>10 DEF GetJobsWait, queueVars, reportVars
<1>11. CASE GetJobsPriority \/ GetJobsRegular \/ GetJobsReturn \/ StatusRunning
  BY <1>8, <1>11 DEF GetJobsPriority, GetJobsRegular, GetJobsReturn, StatusRunning,
                     queueVars, reportVars
<1>12. CASE UNCHANGED vars
  BY <1>8, <1>12 DEF vars, queueVars, reportVars
<1> QED BY <1>1, <1>2, <1>3, <1>4, <1>5, <1>6, <1>7, <1>9, <1>10, <1>11, <1>12 DEF Next

\* Every finished job is handed to the CLI once and none is lost on the way.
THEOREM ToldOnce == Spec => []FinishedToldOnce
<1>1. Init => TypeInv /\ FinishedToldOnce
  BY InitTypeInv, ToldInit
<1>2. TypeInv /\ FinishedToldOnce /\ [Next]_vars => (TypeInv /\ FinishedToldOnce)'
  BY NextTypeInv, ToldNext
<1> QED BY <1>1, <1>2, PTL DEF Spec


-----------------------------------------------------------------------------
(* The status lists.                                                       *)

\* Between the two sections of getStatus the list has the finished jobs only.
ListingInv ==
    /\ ListingConsistent
    /\ \A a \in listing : a.job_id \in Submitted
    /\ status = "jobs" => \A a \in listing : a.job_id \in told /\ a = Finished(a.job_id)

\* No job shows more frames than it has.
LEMMA RenderedBound ==
    ASSUME IndInv, NEW j \in JobId
    PROVE  job[j].frames_rendered <= job[j].total_frames
<1>1. job[j].total_frames \in Nat /\ job[j].frames_rendered \in Nat
  BY DEF IndInv, TypeInv, TypeOK, Job
<1> SUFFICES ASSUME job[j].frames_rendered > job[j].total_frames PROVE FALSE
  BY <1>1
<1>2. done[j] = 0 .. job[j].total_frames - 1
  BY <1>1, FullCount DEF IndInv, FramesConserved
<1>3. Cardinality(done[j]) = job[j].total_frames
  <2> DEFINE top == job[j].total_frames - 1
  <2>1. top \in Int /\ 0 \in Int
    BY <1>1
  <2>2. Cardinality(0 .. top) = IF 0 > top THEN 0 ELSE top - 0 + 1
    <3> HIDE DEF top
    <3> QED BY <2>1, FS_Interval
  <2> QED BY <1>1, <1>2, <2>2
<1> QED BY <1>1, <1>3 DEF IndInv, CountsExact

\* A step that leaves the list alone keeps it consistent.
LEMMA ListingKept ==
    ASSUME ListingInv, UNCHANGED <<status, listing>>,
           Submitted \subseteq Submitted', told \subseteq told',
           \A j \in Submitted : job'[j].total_frames = job[j].total_frames
    PROVE  ListingInv'
BY DEF ListingInv, ListingConsistent, Finished

LEMMA ListingNext ==
    IndInv /\ FinishedToldOnce /\ ListingInv /\ [Next]_vars => ListingInv'
<1> SUFFICES ASSUME IndInv, FinishedToldOnce, ListingInv, [Next]_vars PROVE ListingInv'
  OBVIOUS
<1>0. /\ TypeInv /\ TypeOK
      /\ Submitted \subseteq JobId
  BY JobQueueAssumption DEF IndInv, TypeInv, TypeOK, Submitted, JobId
<1>1. CASE StatusFinished
  <2>1. /\ UNCHANGED <<job_offset, job>> /\ status' = "jobs"
        /\ listing' = {Finished(j) : j \in Range(finished_jobs)}
        /\ told' = told \cup Range(finished_jobs)
    BY <1>1 DEF StatusFinished
  <2>2. Range(finished_jobs) \subseteq Submitted /\ Submitted' = Submitted
    BY <2>1 DEF FinishedToldOnce, Submitted
  <2>3. \A a \in listing' : /\ a.job_id \in Range(finished_jobs) /\ a = Finished(a.job_id)
                            /\ a.frames_rendered = 0 /\ a.frames_total = 0
    BY <2>1 DEF Finished
  <2> QED BY <2>1, <2>2, <2>3 DEF ListingInv, ListingConsistent, Finished
<1>2. CASE StatusRunning
  <2>1. /\ UNCHANGED <<job_offset, job, told>> /\ status = "jobs" /\ status' = "idle"
        /\ listing' = listing \cup {Running(j) : j \in jobs}
    BY <1>2 DEF StatusRunning, queueVars
  <2>2. jobs \subseteq Submitted /\ jobs \cap told = {} /\ Submitted' = Submitted
    BY <2>1, <1>0 DEF FinishedToldOnce, Submitted, TypeOK
  <2>3. \A a \in listing : /\ a.job_id \in told /\ a.job_id \in Submitted
                           /\ a = Finished(a.job_id)
                           /\ a.frames_rendered = 0 /\ a.frames_total = 0
    BY <2>1 DEF ListingInv, Finished
  <2>4. \A a \in {Running(j) : j \in jobs} :
          /\ a.job_id \in jobs /\ a = Running(a.job_id)
          /\ a.frames_rendered = job[a.job_id].frames_rendered
          /\ a.frames_total = job[a.job_id].total_frames
    BY DEF Running
  <2>5. \A j \in jobs : job[j].frames_rendered <= job[j].total_frames
    BY <1>0, <2>2, RenderedBound
  <2>6. \A a, b \in listing' : a.job_id = b.job_id => a = b
    BY <2>1, <2>2, <2>3, <2>4
  <2>7. \A a \in listing' :
          /\ a.frames_rendered <= a.frames_total
          /\ a.frames_total = 0 => a.job_id \in told' \/ job'[a.job_id].total_frames = 0
          /\ a.job_id \in Submitted'
    BY <2>1, <2>2, <2>3, <2>4, <2>5
  <2> QED BY <2>1, <2>6, <2>7 DEF ListingInv, ListingConsistent
<1>3. ASSUME NEW frames \in FrameCounts, AddJob(frames) PROVE ListingInv'
  <2>1. UNCHANGED <<status, listing, told>> /\ job_offset' = job_offset + 1
    BY <1>3 DEF AddJob, statusVars
  <2>2. \A j \in Submitted : job'[j].total_frames = job[j].total_frames
    <3>1. \A j \in JobId : j # job_offset => job'[j] = job[j]
      BY <1>0, <1>3, AddJobStep
    <3>2. job_offset \notin Submitted
      BY <1>0 DEF Submitted, TypeOK
    <3> QED BY <1>0, <3>1, <3>2
  <2>3. Submitted \subseteq Submitted'
    BY <1>0, <2>1 DEF Submitted, TypeOK
  <2> QED BY <2>1, <2>2, <2>3, ListingKept
<1>4. CASE GetJobsRegular
  <2>1. UNCHANGED <<status, listing, told, job_offset>>
    BY <1>4 DEF GetJobsRegular, statusVars
  <2>2. \A j \in JobId : job'[j].total_frames = job[j].total_frames
    BY <1>0, <1>4, RegularStep
  <2> QED BY <1>0, <2>1, <2>2, ListingKept DEF Submitted
<1>5. ASSUME NEW r \in Reporters, FrameRendered(r) PROVE ListingInv'
  <2>1. UNCHANGED <<status, listing, told, job_offset>>
    BY <1>5 DEF FrameRendered, statusVars
  <2>2. \A j \in JobId : job'[j].total_frames = job[j].total_frames
    BY <1>0, <1>5, RenderedStep
  <2> QED BY <1>0, <2>1, <2>2, ListingKept DEF Submitted
<1>6. ASSUME UNCHANGED <<status, listing, told, job_offset, job>> PROVE ListingInv'
  BY <1>6, ListingKept DEF Submitted
<1>7. ASSUME NEW S \in (SUBSET out) \ {{}}, NEW tasks \in Vectors(S), AddTasks(tasks)
      PROVE  ListingInv'
  BY <1>6, <1>7 DEF AddTasks, statusVars
<1>8. ASSUME NEW max \in Capabilities, GetJobsWait(max) PROVE ListingInv'
  BY <1>6, <1>8 DEF GetJobsWait, queueVars, statusVars
<1>9. CASE GetJobsPriority \/ GetJobsReturn
  BY <1>6, <1>9 DEF GetJobsPriority, GetJobsReturn, queueVars, statusVars
<1>10. ASSUME NEW r \in Reporters, NEW t \in out, FindJob(r, t) PROVE ListingInv'
  BY <1>6, <1>10 DEF FindJob, queueVars, statusVars
<1>11. ASSUME NEW r \in Reporters, CompareTotal(r) \/ FinishJobErase(r) \/ FinishJobPush(r)
       PROVE  ListingInv'
  BY <1>6, <1>11 DEF CompareTotal, FinishJobErase, FinishJobPush, queueVars, statusVars
<1>12. CASE UNCHANGED vars
  BY <1>6, <1>12 DEF vars, queueVars, statusVars
<1> QED BY <1>1, <1>2, <1>3, <1>4, <1>5, <1>7, <1>8, <1>9, <1>10, <1>11, <1>12 DEF Next

\* A status list never contradicts itself, and shows 0/0 only for a job that is
\* finished or was submitted without frames.
THEOREM StatusConsistent == Spec => []ListingConsistent
<1>1. Init => ListingInv
  BY DEF Init, ListingInv, ListingConsistent
<1>2. ListingInv => ListingConsistent
  BY DEF ListingInv
<1> QED BY <1>1, <1>2, ListingNext, Invariant, ToldOnce, PTL DEF Spec


-----------------------------------------------------------------------------
(* JobQueue implements RenderLedger.                                       *)

Totals == [j \in JobId |-> job[j].total_frames]

Counts == [j \in JobId |-> job[j].frames_rendered]

LEMMA LedgerInit == Init => Ledger!Init
<1> SUFFICES ASSUME Init PROVE Ledger!Init
  OBVIOUS
<1>1. Submitted = {}
  BY DEF Init, Submitted
<1>2. \A j \in JobId : job[j].total_frames = 0 /\ job[j].frames_rendered = 0
  BY DEF Init, NoJob
<1> QED BY <1>1, <1>2 DEF Init, Ledger!Init

\* Steps that count no frame, submit and finish no job.
LEMMA LedgerStutter ==
    ASSUME UNCHANGED <<job_offset, jobs, done>>,
           \A j \in JobId : /\ job'[j].total_frames = job[j].total_frames
                            /\ job'[j].frames_rendered = job[j].frames_rendered
    PROVE  UNCHANGED Ledger!ledger
<1>1. Submitted' = Submitted
  BY DEF Submitted
<1>2. Totals' = Totals /\ Counts' = Counts
  BY DEF Totals, Counts
<1> QED BY <1>1, <1>2 DEF Ledger!ledger, Totals, Counts

LEMMA LedgerRender ==
    ASSUME NEW j \in JobId, NEW f \in 0 .. job[j].total_frames - 1, Ledger!Render(j, f)
    PROVE  Ledger!Next
<1>1. f \in 0 .. Totals[j] - 1
  BY DEF Totals
<1> QED BY <1>1 DEF Ledger!Next, Totals

LEMMA LedgerNext == IndInv /\ IndInv' /\ [Next]_vars => [Ledger!Next]_(Ledger!ledger)
<1> SUFFICES ASSUME IndInv, IndInv', [Next]_vars
             PROVE  Ledger!Next \/ UNCHANGED Ledger!ledger
  OBVIOUS
<1>0. /\ TypeInv /\ TypeOK
      /\ Submitted \subseteq JobId
      /\ jobs \subseteq Submitted
  <2>1. TypeInv /\ TypeOK
    BY DEF IndInv, TypeInv
  <2>2. Submitted \subseteq JobId
    BY <2>1, JobQueueAssumption DEF TypeOK, Submitted, JobId
  <2> QED BY <2>1, <2>2 DEF TypeOK
<1>1. ASSUME NEW frames \in FrameCounts, AddJob(frames) PROVE Ledger!Next
  <2>1. /\ job_offset \in JobId
        /\ \A k \in JobId : k # job_offset => job'[k] = job[k]
        /\ job'[job_offset].total_frames = frames
        /\ job'[job_offset].frames_rendered = 0
    BY <1>0, <1>1, AddJobStep
  <2>2. /\ UNCHANGED done
        /\ job_offset' = job_offset + 1
        /\ jobs' = jobs \cup {job_offset}
    BY <1>1 DEF AddJob
  <2>3. Submitted' = Submitted \cup {job_offset} /\ job_offset \notin Submitted
    BY <1>0, <2>2 DEF Submitted, TypeOK
  <2>4. Submitted' \ jobs' = Submitted \ jobs
    BY <2>2, <2>3
  <2>5. job[job_offset].frames_rendered = 0
    <3>1. IndInv /\ IndInv' /\ done' = done
      BY <2>2
    <3> QED BY <2>1, <3>1 DEF IndInv, CountsExact
  <2>6. Totals' = [Totals EXCEPT ![job_offset] = frames]
    BY <2>1 DEF Totals
  <2>7. Counts' = Counts
    BY <2>1, <2>5 DEF Counts
  <2>8. Ledger!Offer(job_offset, frames)
    BY <2>2, <2>3, <2>4, <2>6, <2>7 DEF Ledger!Offer, Totals, Counts
  <2> QED BY <2>1, <2>8 DEF Ledger!Next
<1>2. ASSUME NEW r \in Reporters, FrameRendered(r) PROVE Ledger!Next
  <2>0. PICK j \in JobId, f \in Nat : task[r].job = j /\ task[r].frame = f
    BY <1>0 DEF TypeOK, Task
  <2>1. /\ \A k \in JobId : k # j => job'[k] = job[k]
        /\ job'[j].total_frames = job[j].total_frames
        /\ job'[j].frames_rendered = job[j].frames_rendered + 1
    BY <1>0, <1>2, <2>0, RenderedStep
  <2>2. /\ UNCHANGED <<job_offset, jobs>>
        /\ report[r] = "found"
        /\ done' = [done EXCEPT ![j] = @ \cup {f}]
    BY <1>2, <2>0 DEF FrameRendered
  <2>3. task[r] \in Held
    BY <2>2 DEF Held
  <2>4. j \in jobs /\ task[r] \in Task /\ task[r] \notin Counted /\ task[r] \in Made
    BY <2>0, <2>3, OpenTaskLive DEF IndInv, FramesConserved
  <2>5. f \notin done[j] /\ f \in 0 .. job[j].total_frames - 1
    <3>1. f \notin done[j] /\ f < job[j].frames_submitted
      BY <1>0, <2>0, <2>4, Members DEF MadeIn, CountedIn
    <3>2. job[j] \in Job /\ job[j].frames_submitted <= job[j].total_frames
      BY <1>0, <2>1 DEF TypeInv, TypeOK, SubmittedBound
    <3> QED BY <2>1, <3>1, <3>2 DEF Job
  <2>6. Submitted' = Submitted
    BY <2>2 DEF Submitted
  <2>7. Totals' = Totals /\ Counts' = [Counts EXCEPT ![j] = @ + 1]
    BY <2>1 DEF Totals, Counts
  <2>8. Ledger!Render(j, f)
    BY <1>0, <2>2, <2>4, <2>5, <2>6, <2>7 DEF Ledger!Render, Totals, Counts
  <2> QED BY <2>5, <2>8, LedgerRender
<1>3. ASSUME NEW r \in Reporters, FinishJobErase(r)
      PROVE  Ledger!Next \/ UNCHANGED Ledger!ledger
  <2> DEFINE j == task[r].job
  <2>1. /\ UNCHANGED <<job_offset, job, done>>
        /\ report[r] = "finish"
        /\ jobs' = jobs \ {j}
    BY <1>3 DEF FinishJobErase
  <2>2. CASE j \notin jobs
    <3>1. jobs' = jobs
      BY <2>1, <2>2
    <3> QED BY <2>1, <3>1, LedgerStutter
  <2>3. CASE j \in jobs
    <3>1. Complete(j)
      BY <2>1, <2>3 DEF IndInv, ReportsKnown
    <3>2. Submitted' = Submitted /\ Totals' = Totals /\ Counts' = Counts
      BY <2>1 DEF Submitted, Totals, Counts
    <3>3. Submitted' \ jobs' = (Submitted \ jobs) \cup {j}
      BY <1>0, <2>1, <2>3, <3>2
    <3>4. j \in JobId /\ done[j] = 0 .. Totals[j] - 1
      BY <1>0, <2>3, <3>1 DEF Totals, Complete
    <3> HIDE DEF j
    <3>5. Ledger!Close(j)
      BY <1>0, <2>1, <2>3, <3>2, <3>3, <3>4 DEF Ledger!Close, Totals, Counts
    <3> QED BY <3>4, <3>5 DEF Ledger!Next
  <2> QED BY <2>2, <2>3
<1>4. CASE GetJobsRegular
  <2>1. UNCHANGED <<job_offset, jobs, done>>
    BY <1>4 DEF GetJobsRegular
  <2>2. \A j \in JobId : /\ job'[j].total_frames = job[j].total_frames
                         /\ job'[j].frames_rendered = job[j].frames_rendered
    BY <1>0, <1>4, RegularStep
  <2> QED BY <2>1, <2>2, LedgerStutter
<1>5. ASSUME UNCHANGED <<job_offset, jobs, job, done>> PROVE UNCHANGED Ledger!ledger
  BY <1>5, LedgerStutter
<1>6. ASSUME NEW S \in (SUBSET out) \ {{}}, NEW tasks \in Vectors(S), AddTasks(tasks)
      PROVE  UNCHANGED Ledger!ledger
  BY <1>5, <1>6 DEF AddTasks
<1>7. ASSUME NEW max \in Capabilities, GetJobsWait(max) PROVE UNCHANGED Ledger!ledger
  BY <1>5, <1>7 DEF GetJobsWait, queueVars
<1>8. CASE GetJobsPriority \/ GetJobsReturn \/ StatusFinished \/ StatusRunning
  BY <1>5, <1>8 DEF GetJobsPriority, GetJobsReturn, StatusFinished, StatusRunning, queueVars
<1>9. ASSUME NEW r \in Reporters, NEW t \in out, FindJob(r, t) PROVE UNCHANGED Ledger!ledger
  BY <1>5, <1>9 DEF FindJob, queueVars
<1>10. ASSUME NEW r \in Reporters, CompareTotal(r) \/ FinishJobPush(r)
       PROVE  UNCHANGED Ledger!ledger
  BY <1>5, <1>10 DEF CompareTotal, FinishJobPush, queueVars
<1>11. CASE UNCHANGED vars
  BY <1>5, <1>11 DEF vars, queueVars
<1> QED BY <1>1, <1>2, <1>3, <1>4, <1>6, <1>7, <1>8, <1>9, <1>10, <1>11 DEF Next

\* The queue with its threads implements the ledger: frames are counted once
\* each, and a job is closed once, when all of them are.
THEOREM ImplementsLedger == Spec => LedgerSpec
BY LedgerInit, LedgerNext, Invariant, PTL DEF Spec, LedgerSpec, Ledger!Spec

=============================================================================
