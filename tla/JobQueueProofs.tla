--------------------------- MODULE JobQueueProofs ---------------------------
(***************************************************************************)
(* Proofs about JobQueue.                                                  *)
(***************************************************************************)
EXTENDS JobQueue, SequenceTheorems, FiniteSetTheorems, TLAPS

-----------------------------------------------------------------------------
(* Sequences as the queues use them.                                       *)

\* The range of a sequence, by its indices.
LEMMA RangeDef ==
    ASSUME NEW S, NEW s \in Seq(S)
    PROVE  /\ DOMAIN s = 1 .. Len(s)
           /\ Len(s) \in Nat
           /\ \A x : x \in Range(s) <=> \E i \in 1 .. Len(s) : x = s[i]
           /\ Range(s) \subseteq S
BY DEF Range

\* Concatenation joins the ranges, and repeats nothing if they are disjoint.
LEMMA ConcatRange ==
    ASSUME NEW S, NEW s \in Seq(S), NEW t \in Seq(S)
    PROVE  /\ s \o t \in Seq(S)
           /\ Range(s \o t) = Range(s) \cup Range(t)
           /\ IsInjective(s) /\ IsInjective(t) /\ Range(s) \cap Range(t) = {}
                => IsInjective(s \o t)
<1>1. s \o t \in Seq(S) /\ Len(s \o t) = Len(s) + Len(t)
  OBVIOUS
<1>2. \A i \in 1 .. Len(s \o t) : (s \o t)[i] = IF i <= Len(s) THEN s[i] ELSE t[i - Len(s)]
  OBVIOUS
<1>3. Range(s \o t) \subseteq Range(s) \cup Range(t)
  <2>1. SUFFICES ASSUME NEW i \in 1 .. Len(s \o t)
                 PROVE  (s \o t)[i] \in Range(s) \cup Range(t)
    <3>1. DOMAIN (s \o t) = 1 .. Len(s \o t)
      BY <1>1
    <3> QED BY <3>1 DEF Range
  <2>2. CASE i <= Len(s)
    BY <2>2, <1>2, RangeDef
  <2>3. CASE i > Len(s)
    <3>1. i - Len(s) \in 1 .. Len(t) /\ (s \o t)[i] = t[i - Len(s)]
      BY <2>3, <1>1, <1>2, RangeDef
    <3> QED BY <3>1, RangeDef
  <2> QED BY <2>2, <2>3, RangeDef
<1>4. Range(s) \subseteq Range(s \o t)
  <2>1. SUFFICES ASSUME NEW i \in 1 .. Len(s) PROVE s[i] \in Range(s \o t)
    BY RangeDef
  <2>2. i \in 1 .. Len(s \o t) /\ (s \o t)[i] = s[i]
    BY <1>1, <1>2, RangeDef
  <2> QED BY <2>2, <1>1, RangeDef
<1>5. Range(t) \subseteq Range(s \o t)
  <2>1. SUFFICES ASSUME NEW i \in 1 .. Len(t) PROVE t[i] \in Range(s \o t)
    BY RangeDef
  <2>2. i + Len(s) \in 1 .. Len(s \o t) /\ (s \o t)[i + Len(s)] = t[i]
    BY <1>1, <1>2, RangeDef
  <2> QED BY <2>2, <1>1, RangeDef
<1>6. ASSUME IsInjective(s), IsInjective(t), Range(s) \cap Range(t) = {}
      PROVE  IsInjective(s \o t)
  <2>1. SUFFICES ASSUME NEW a \in 1 .. Len(s \o t), NEW b \in 1 .. Len(s \o t),
                        (s \o t)[a] = (s \o t)[b]
                 PROVE  a = b
    BY <1>1, RangeDef DEF IsInjective
  <2>2. \A i \in 1 .. Len(s), k \in 1 .. Len(t) : s[i] # t[k]
    BY <1>6, RangeDef
  <2>3. \A i, k \in 1 .. Len(s) : s[i] = s[k] => i = k
    BY <1>6, RangeDef DEF IsInjective
  <2>4. \A i, k \in 1 .. Len(t) : t[i] = t[k] => i = k
    BY <1>6, RangeDef DEF IsInjective
  <2> QED BY <1>1, <1>2, <2>1, <2>2, <2>3, <2>4, RangeDef
<1> QED BY <1>1, <1>3, <1>4, <1>5, <1>6

\* Taking the first n elements of a duplicate-free sequence splits its range.
LEMMA SplitRange ==
    ASSUME NEW S, NEW s \in Seq(S), IsInjective(s), NEW n \in 0 .. Len(s)
    PROVE  LET a == SubSeq(s, 1, n)
               b == SubSeq(s, n + 1, Len(s))
           IN  /\ a \in Seq(S) /\ b \in Seq(S)
               /\ Range(a) \cup Range(b) = Range(s)
               /\ Range(a) \cap Range(b) = {}
               /\ IsInjective(a) /\ IsInjective(b)
<1> DEFINE a == SubSeq(s, 1, n)
           b == SubSeq(s, n + 1, Len(s))
<1>1. a \in Seq(S) /\ Len(a) = n /\ \A i \in 1 .. n : a[i] = s[i]
  OBVIOUS
<1>2. b \in Seq(S) /\ Len(b) = Len(s) - n /\ \A i \in 1 .. Len(s) - n : b[i] = s[i + n]
  OBVIOUS
<1>3. \A i, k \in 1 .. Len(s) : s[i] = s[k] => i = k
  BY RangeDef DEF IsInjective
<1> HIDE DEF a, b
<1>4. IsInjective(a) /\ IsInjective(b)
  <2>1. DOMAIN a = 1 .. n /\ DOMAIN b = 1 .. Len(s) - n /\ Len(s) \in Nat
    BY <1>1, <1>2, RangeDef
  <2>2. \A i, k \in 1 .. n : a[i] = a[k] => i = k
    BY <1>1, <1>3, <2>1
  <2>3. \A i, k \in 1 .. Len(s) - n : b[i] = b[k] => i = k
    BY <1>2, <1>3, <2>1
  <2> QED BY <2>1, <2>2, <2>3 DEF IsInjective
<1>5. Range(a) \cup Range(b) \subseteq Range(s)
  <2>1. ASSUME NEW i \in 1 .. n PROVE a[i] \in Range(s)
    BY <1>1, RangeDef
  <2>2. ASSUME NEW i \in 1 .. Len(s) - n PROVE b[i] \in Range(s)
    <3>1. i + n \in 1 .. Len(s) /\ b[i] = s[i + n]
      BY <1>2, RangeDef
    <3> QED BY <3>1, RangeDef
  <2>3. DOMAIN a = 1 .. n /\ DOMAIN b = 1 .. Len(s) - n
    BY <1>1, <1>2
  <2>4. Range(a) \subseteq Range(s)
    BY <2>1, <2>3 DEF Range
  <2>5. Range(b) \subseteq Range(s)
    BY <2>2, <2>3 DEF Range
  <2> QED BY <2>4, <2>5
<1>6. Range(s) \subseteq Range(a) \cup Range(b)
  <2>1. SUFFICES ASSUME NEW i \in 1 .. Len(s) PROVE s[i] \in Range(a) \cup Range(b)
    BY RangeDef
  <2>2. CASE i <= n
    BY <2>2, <1>1, RangeDef
  <2>3. CASE i > n
    <3>1. i - n \in 1 .. Len(b) /\ b[i - n] = s[i]
      BY <2>3, <1>2, RangeDef
    <3> QED BY <3>1, <1>2, RangeDef
  <2> QED BY <2>2, <2>3, RangeDef
<1>7. Range(a) \cap Range(b) = {}
  <2>1. \A i \in 1 .. n, k \in 1 .. Len(s) - n : a[i] # b[k]
    BY <1>1, <1>2, <1>3, RangeDef
  <2> QED BY <2>1, <1>1, <1>2, RangeDef
<1> QED BY <1>1, <1>2, <1>4, <1>5, <1>6, <1>7 DEF a, b


\* The range of a sequence is finite.
LEMMA RangeFinite ==
    ASSUME NEW S, NEW s \in Seq(S)
    PROVE  IsFiniteSet(Range(s))
<1>1. DOMAIN s = 1 .. Len(s) /\ Len(s) \in Nat
  BY RangeDef
<1>2. s \in Surjection(1 .. Len(s), Range(s))
  BY <1>1 DEF Surjection, Range
<1>3. IsFiniteSet(1 .. Len(s))
  BY <1>1, FS_Interval
<1> QED BY <1>2, <1>3, FS_Surjection

-----------------------------------------------------------------------------
(* Types.  getNextTask is called only behind hasTasks, so the count of      *)
(* submitted frames stays below the total; the types need that too.        *)

SubmittedBound == \A j \in JobId : job[j].frames_submitted <= job[j].total_frames

TypeInv == TypeOK /\ SubmittedBound

\* The tasks that n calls of getNextTask make are n distinct tasks of the job.
LEMMA NextTasksType ==
    ASSUME TypeOK, NEW j \in JobId, NEW n \in Nat
    PROVE  /\ NextTasks(j, n) \in Seq(Task)
           /\ Len(NextTasks(j, n)) = n
           /\ \A i \in 1 .. n : NextTasks(j, n)[i] =
                 [job |-> j, frame |-> job[j].frames_submitted + i - 1]
<1>1. job[j].frames_submitted \in Nat
  BY DEF TypeOK, Job
<1>2. \A i \in 1 .. n : [job |-> j, frame |-> job[j].frames_submitted + i - 1] \in Task
  BY <1>1 DEF Task
<1> QED BY <1>2 DEF NextTasks

\* How much getJobs takes off the front job in one round of its loop.
LEMMA RegularAmount ==
    ASSUME TypeInv, job_queue # <<>>, Len(results) < max_jobs
    PROVE  LET j == Head(job_queue)
               left == job[j].total_frames - job[j].frames_submitted
               n == Smaller(left, max_jobs - Len(results))
           IN  /\ j \in JobId
               /\ left \in Nat
               /\ n \in 0 .. left
               /\ n < left => n > 0
               /\ job[j] \in Job
<1>1. Head(job_queue) \in JobId
  BY DEF TypeInv, TypeOK
<1>2. Len(results) \in Nat /\ max_jobs \in Nat
  BY DEF TypeInv, TypeOK
<1>3. job[Head(job_queue)] \in Job
  BY <1>1 DEF TypeInv, TypeOK
<1>4. job[Head(job_queue)].frames_submitted <= job[Head(job_queue)].total_frames
  BY <1>1 DEF TypeInv, SubmittedBound
<1> QED BY <1>1, <1>2, <1>3, <1>4 DEF Smaller, Job

\* Replacing one Job of the map.
LEMMA JobReplaced ==
    ASSUME NEW f \in [JobId -> Job], NEW j \in JobId, NEW e \in Job
    PROVE  LET g == [f EXCEPT ![j] = e]
           IN  /\ g \in [JobId -> Job]
               /\ g[j] = e
               /\ \A k \in JobId : k # j => g[k] = f[k]
OBVIOUS

\* What the steps that update a Job leave behind: addJob, ...
LEMMA AddJobStep ==
    ASSUME TypeOK, NEW frames \in FrameCounts, AddJob(frames)
    PROVE  /\ job_offset \in JobId
           /\ job' \in [JobId -> Job]
           /\ \A k \in JobId : k # job_offset => job'[k] = job[k]
           /\ job'[job_offset].total_frames = frames
           /\ job'[job_offset].frames_submitted = 0
           /\ job'[job_offset].frames_rendered = 0
<1> DEFINE e == [total_frames |-> frames, frames_submitted |-> 0, frames_rendered |-> 0]
<1>1. [NoJob EXCEPT !.total_frames = frames] = e
  BY DEF NoJob
<1>2. e \in Job /\ e.total_frames = frames /\ e.frames_submitted = 0 /\ e.frames_rendered = 0
  BY JobQueueAssumption DEF Job
<1> HIDE DEF e
<1>3. job_offset \in JobId /\ job \in [JobId -> Job]
  BY JobQueueAssumption DEF AddJob, TypeOK, JobId
<1>4. job' = [job EXCEPT ![job_offset] = e]
  BY <1>1 DEF AddJob
<1> QED BY <1>2, <1>3, <1>4, JobReplaced

\* ... getJobs, which makes n tasks of the front job and pops it if none is left, ...
LEMMA RegularStep ==
    ASSUME TypeInv, GetJobsRegular
    PROVE  LET j == Head(job_queue)
           IN  /\ job_queue # <<>> /\ j \in JobId
               /\ \E n \in Nat :
                    /\ results' = results \o NextTasks(j, n)
                    /\ job[j].frames_submitted + n <= job[j].total_frames
                    /\ job' \in [JobId -> Job]
                    /\ \A k \in JobId : k # j => job'[k] = job[k]
                    /\ job'[j].total_frames = job[j].total_frames
                    /\ job'[j].frames_submitted = job[j].frames_submitted + n
                    /\ job'[j].frames_rendered = job[j].frames_rendered
                    /\ job_queue' = IF job[j].frames_submitted + n = job[j].total_frames
                                    THEN Tail(job_queue) ELSE job_queue
<1> DEFINE j == Head(job_queue)
           left == job[j].total_frames - job[j].frames_submitted
           n == Smaller(left, max_jobs - Len(results))
           e == [total_frames |-> job[j].total_frames,
                 frames_submitted |-> job[j].frames_submitted + n,
                 frames_rendered |-> job[j].frames_rendered]
<1>1. /\ results' = results \o NextTasks(j, n)
      /\ job' = [job EXCEPT ![j].frames_submitted = @ + n]
      /\ job_queue' = IF n = left THEN Tail(job_queue) ELSE job_queue
      /\ job_queue # <<>> /\ Len(results) < max_jobs
  BY DEF GetJobsRegular
<1>2. j \in JobId /\ left \in Nat /\ n \in 0 .. left /\ job[j] \in Job
  BY <1>1, RegularAmount
<1>3. job[j].frames_submitted + n <= job[j].total_frames
      /\ (n = left <=> job[j].frames_submitted + n = job[j].total_frames)
  BY <1>2 DEF Job
<1> HIDE DEF j, n, left
<1>4. [job[j] EXCEPT !.frames_submitted = @ + n] = e
  BY <1>2 DEF Job
<1>5. e \in Job
  BY <1>2 DEF Job
<1>6. /\ e.total_frames = job[j].total_frames
      /\ e.frames_submitted = job[j].frames_submitted + n
      /\ e.frames_rendered = job[j].frames_rendered
  OBVIOUS
<1> HIDE DEF e
<1>7. job \in [JobId -> Job]
  BY DEF TypeInv, TypeOK
<1>8. job' = [job EXCEPT ![j] = e]
  BY <1>1, <1>4
<1>9. job' \in [JobId -> Job] /\ job'[j] = e /\ \A k \in JobId : k # j => job'[k] = job[k]
  BY <1>2, <1>5, <1>7, <1>8, JobReplaced
<1>10. n \in Nat
  BY <1>2
<1>11. j = Head(job_queue)
  BY DEF j
<1> QED BY <1>1, <1>2, <1>3, <1>6, <1>9, <1>10, <1>11

\* ... and frameRendered.
LEMMA RenderedStep ==
    ASSUME TypeOK, NEW r \in Reporters, FrameRendered(r)
    PROVE  LET j == task[r].job
           IN  /\ j \in JobId
               /\ task[r].frame \in Nat
               /\ job' \in [JobId -> Job]
               /\ \A k \in JobId : k # j => job'[k] = job[k]
               /\ job'[j].total_frames = job[j].total_frames
               /\ job'[j].frames_submitted = job[j].frames_submitted
               /\ job'[j].frames_rendered = job[j].frames_rendered + 1
<1> DEFINE j == task[r].job
           e == [total_frames |-> job[j].total_frames,
                 frames_submitted |-> job[j].frames_submitted,
                 frames_rendered |-> job[j].frames_rendered + 1]
<1>1. j \in JobId /\ task[r].frame \in Nat /\ job \in [JobId -> Job]
  BY DEF TypeOK, Task
<1>2. job' = [job EXCEPT ![j].frames_rendered = @ + 1]
  BY DEF FrameRendered
<1> HIDE DEF j
<1>3. [job[j] EXCEPT !.frames_rendered = @ + 1] = e
  BY <1>1 DEF Job
<1>4. e \in Job
  BY <1>1 DEF Job
<1>5. /\ e.total_frames = job[j].total_frames
      /\ e.frames_submitted = job[j].frames_submitted
      /\ e.frames_rendered = job[j].frames_rendered + 1
  OBVIOUS
<1> HIDE DEF e
<1>6. job' = [job EXCEPT ![j] = e]
  BY <1>2, <1>3
<1>7. job' \in [JobId -> Job] /\ job'[j] = e /\ \A k \in JobId : k # j => job'[k] = job[k]
  BY <1>1, <1>4, <1>6, JobReplaced
<1> QED BY <1>1, <1>5, <1>7 DEF j

LEMMA InitTypeInv == Init => TypeInv
<1> SUFFICES ASSUME Init PROVE TypeInv
  OBVIOUS
<1>1. [job |-> 0, frame |-> 0] \in Task
  BY JobQueueAssumption DEF Task, JobId
<1>2. TypeOK
  BY <1>1, JobQueueAssumption, FS_EmptySet
     DEF Init, TypeOK, JobId, Job, NoJob, Submitted
<1>3. SubmittedBound
  BY DEF Init, SubmittedBound, NoJob
<1> QED BY <1>2, <1>3 DEF TypeInv

LEMMA NextTypeInv == TypeInv /\ [Next]_vars => TypeInv'
<1> SUFFICES ASSUME TypeInv, [Next]_vars PROVE TypeInv'
  OBVIOUS
<1> USE JobQueueAssumption
<1>0. TypeOK /\ SubmittedBound
  BY DEF TypeInv
<1>1. ASSUME NEW frames \in FrameCounts, AddJob(frames)
      PROVE  TypeInv'
  <2>1. job_offset \in JobId /\ job_offset' \in 0 .. MaxJobs
    BY <1>0, <1>1 DEF AddJob, TypeOK, JobId
  <2>2. jobs' \subseteq Submitted'
    BY <1>0, <1>1, <2>1 DEF AddJob, TypeOK, Submitted, JobId
  <2>3. job' \in [JobId -> Job] /\ SubmittedBound'
    BY <1>0, <1>1, AddJobStep DEF SubmittedBound
  <2>4. job_queue' \in Seq(JobId)
    BY <1>0, <1>1, <2>1 DEF AddJob, TypeOK
  <2> QED BY <1>0, <1>1, <2>1, <2>2, <2>3, <2>4
          DEF AddJob, TypeInv, TypeOK, distVars, reportVars, statusVars
<1>2. ASSUME NEW S \in (SUBSET out) \ {{}}, NEW tasks \in Vectors(S), AddTasks(tasks)
      PROVE  TypeInv'
  <2>1. S \subseteq Task /\ IsFiniteSet(S)
    BY <1>0, FS_Subset DEF TypeOK
  <2>2. Cardinality(S) \in Nat
    BY <2>1, FS_CardinalityType
  <2>3. tasks \in Seq(Task)
    BY <2>1, <2>2 DEF Vectors
  <2>4. out' \subseteq Task /\ IsFiniteSet(out')
    BY <1>0, <1>2, FS_Difference DEF AddTasks, TypeOK
  <2>5. returns' \in 0 .. MaxReturns /\ task_queue' \in Seq(Task)
    BY <1>0, <1>2, <2>3 DEF AddTasks, TypeOK
  <2> QED BY <1>0, <1>2, <2>4, <2>5
          DEF AddTasks, TypeInv, TypeOK, SubmittedBound, Submitted,
              distVars, reportVars, statusVars
<1>3. ASSUME NEW max \in Capabilities, GetJobsWait(max)
      PROVE  TypeInv'
  BY <1>0, <1>3 DEF GetJobsWait, TypeInv, TypeOK, SubmittedBound, Submitted,
                    queueVars, reportVars, statusVars
<1>4. CASE GetJobsPriority
  <2> DEFINE n == Smaller(Len(task_queue), max_jobs)
  <2>1. n \in 0 .. Len(task_queue)
    BY <1>0 DEF TypeOK, Smaller
  <2>2. SubSeq(task_queue, 1, n) \in Seq(Task)
        /\ SubSeq(task_queue, n + 1, Len(task_queue)) \in Seq(Task)
    BY <1>0, <2>1 DEF TypeOK
  <2> QED BY <1>0, <1>4, <2>2
          DEF GetJobsPriority, TypeInv, TypeOK, SubmittedBound, Submitted,
              reportVars, statusVars
<1>5. CASE GetJobsRegular
  <2> DEFINE j == Head(job_queue)
  <2>1. PICK n \in Nat :
          /\ results' = results \o NextTasks(j, n)
          /\ job[j].frames_submitted + n <= job[j].total_frames
          /\ job' \in [JobId -> Job]
          /\ \A k \in JobId : k # j => job'[k] = job[k]
          /\ job'[j].total_frames = job[j].total_frames
          /\ job'[j].frames_submitted = job[j].frames_submitted + n
          /\ job_queue' = IF job[j].frames_submitted + n = job[j].total_frames
                          THEN Tail(job_queue) ELSE job_queue
    BY <1>5, RegularStep
  <2>2. j \in JobId /\ job_queue # <<>>
    BY <1>5, RegularStep
  <2>3. results' \in Seq(Task)
    <3>1. NextTasks(j, n) \in Seq(Task)
      BY <1>0, <2>2, NextTasksType
    <3>2. results \in Seq(Task)
      BY <1>0 DEF TypeOK
    <3> QED BY <3>1, <3>2, <2>1, ConcatRange
  <2>4. job_queue' \in Seq(JobId)
    BY <1>0, <2>1, <2>2 DEF TypeOK
  <2>5. SubmittedBound'
    BY <1>0, <2>1, <2>2 DEF SubmittedBound
  <2> QED BY <1>0, <1>5, <2>1, <2>3, <2>4, <2>5
          DEF GetJobsRegular, TypeInv, TypeOK, Submitted, reportVars, statusVars
<1>6. CASE GetJobsReturn
  <2>1. out' \subseteq Task /\ IsFiniteSet(out')
    BY <1>0, <1>6, RangeDef, RangeFinite, FS_Union DEF GetJobsReturn, TypeOK
  <2> QED BY <1>0, <1>6, <2>1
          DEF GetJobsReturn, TypeInv, TypeOK, SubmittedBound, Submitted,
              queueVars, reportVars, statusVars
<1>7. ASSUME NEW r \in Reporters, NEW t \in out, FindJob(r, t)
      PROVE  TypeInv'
  <2>1. out' \subseteq Task /\ IsFiniteSet(out') /\ t \in Task
    BY <1>0, <1>7, FS_Difference DEF FindJob, TypeOK
  <2> QED BY <1>0, <1>7, <2>1
          DEF FindJob, TypeInv, TypeOK, SubmittedBound, Submitted,
              queueVars, distVars, statusVars
<1>8. ASSUME NEW r \in Reporters, FrameRendered(r)
      PROVE  TypeInv'
  <2>1. task[r].job \in JobId /\ task[r].frame \in Nat
    BY <1>0 DEF TypeOK, Task
  <2>2. job' \in [JobId -> Job] /\ SubmittedBound' /\ total_rendered' \in [Reporters -> Nat]
    <3>1. job' \in [JobId -> Job] /\ SubmittedBound'
      BY <1>0, <1>8, RenderedStep DEF SubmittedBound
    <3>2. job[task[r].job].frames_rendered + 1 \in Nat
      BY <1>0, <2>1 DEF TypeOK, Job
    <3> QED BY <3>1, <3>2, <1>0, <1>8 DEF FrameRendered, TypeOK
  <2>3. done' \in [JobId -> SUBSET Nat]
    BY <1>0, <1>8, <2>1 DEF FrameRendered, TypeOK
  <2>4. report' \in [Reporters -> {"idle", "found", "counted", "finish", "erased"}]
    BY <1>0, <1>8 DEF FrameRendered, TypeOK
  <2> QED BY <1>0, <1>8, <2>2, <2>3, <2>4
          DEF FrameRendered, TypeInv, TypeOK, Submitted, distVars, statusVars
<1>9. ASSUME NEW r \in Reporters, CompareTotal(r)
      PROVE  TypeInv'
  <2>1. report' \in [Reporters -> {"idle", "found", "counted", "finish", "erased"}]
    BY <1>0, <1>9 DEF CompareTotal, TypeOK
  <2> QED BY <1>0, <1>9, <2>1
          DEF CompareTotal, TypeInv, TypeOK, SubmittedBound, Submitted,
              queueVars, distVars, statusVars
<1>10. ASSUME NEW r \in Reporters, FinishJobErase(r)
       PROVE  TypeInv'
  BY <1>0, <1>10 DEF FinishJobErase, TypeInv, TypeOK, SubmittedBound, Submitted,
                     distVars, statusVars
<1>11. ASSUME NEW r \in Reporters, FinishJobPush(r)
       PROVE  TypeInv'
  <2>1. task[r].job \in JobId
    BY <1>0 DEF TypeOK, Task
  <2>2. finished_jobs' \in Seq(JobId)
    BY <1>0, <1>11, <2>1 DEF FinishJobPush, TypeOK
  <2> QED BY <1>0, <1>11, <2>2
          DEF FinishJobPush, TypeInv, TypeOK, SubmittedBound, Submitted,
              distVars, statusVars
<1>12. CASE StatusFinished
  <2>1. Range(finished_jobs) \subseteq JobId
    BY <1>0, RangeDef DEF TypeOK
  <2>2. listing' \subseteq JobStatus /\ told' \subseteq JobId
    BY <1>0, <1>12, <2>1 DEF StatusFinished, TypeOK, JobStatus, Finished
  <2> QED BY <1>0, <1>12, <2>2
          DEF StatusFinished, TypeInv, TypeOK, SubmittedBound, Submitted,
              distVars, reportVars
<1>13. CASE StatusRunning
  <2>1. jobs \subseteq JobId
    BY <1>0 DEF TypeOK, Submitted, JobId
  <2>2. listing' \subseteq JobStatus
    BY <1>0, <1>13, <2>1 DEF StatusRunning, TypeOK, JobStatus, Running, Job
  <2> QED BY <1>0, <1>13, <2>2
          DEF StatusRunning, TypeInv, TypeOK, SubmittedBound, Submitted,
              queueVars, distVars, reportVars
<1>14. CASE UNCHANGED vars
  BY <1>0, <1>14 DEF vars, queueVars, distVars, reportVars, statusVars,
                     TypeInv, TypeOK, SubmittedBound, Submitted
<1> QED BY <1>1, <1>2, <1>3, <1>4, <1>5, <1>6, <1>7, <1>8, <1>9, <1>10, <1>11,
           <1>12, <1>13, <1>14 DEF Next

\* The variables of the job queue keep their types, for every number of jobs,
\* frames, response threads and hand-backs.
THEOREM TypeCorrect == Spec => []TypeOK
<1>1. TypeInv => TypeOK
  BY DEF TypeInv
<1> QED BY InitTypeInv, NextTypeInv, <1>1, PTL DEF Spec


-----------------------------------------------------------------------------
(* The inductive invariant.  That a finished job is complete rests on the   *)
(* conservation of frames: the count of a job is the number of its distinct *)
(* counted frames only because no frame is ever in two places.             *)

Complete(j) ==
    /\ job[j].total_frames > 0
    /\ done[j] = 0 .. job[j].total_frames - 1

\* The count is the number of frames counted; ids not given out have no frames.
CountsExact ==
    \A j \in JobId :
        /\ IsFiniteSet(done[j])
        /\ job[j].frames_rendered = Cardinality(done[j])
        /\ j >= job_offset => job[j].frames_submitted = 0

\* Only complete jobs are gone, or about to be.
GoneIsComplete == \A j \in Submitted \ jobs : Complete(j)

ReportsKnown ==
    \A r \in Reporters :
        /\ report[r] # "idle" => task[r].job \in Submitted
        /\ report[r] = "counted" =>
              total_rendered[r] \in 1 .. job[task[r].job].frames_rendered
        /\ report[r] = "finish" /\ task[r].job \in jobs => Complete(task[r].job)

\* getJobs' vector is empty outside its loop.
ResultsEmpty == dist # "regular" => results = <<>>

\* The job queue holds the last ids given out, in order; the jobs before its
\* front are exhausted, those behind it untouched.
FrontId == job_offset - Len(job_queue)

QueueOrder ==
    /\ FrontId >= 0
    /\ \A i \in 1 .. Len(job_queue) : job_queue[i] = FrontId + i - 1
    /\ \A j \in Submitted :
        /\ j < FrontId => ~ hasTasks(j)
        /\ j >= FrontId => hasTasks(j) \/ job[j].total_frames = 0
        /\ j > FrontId => job[j].frames_submitted = 0

IndInv ==
    /\ TypeInv
    /\ FramesConserved
    /\ CountsExact
    /\ GoneIsComplete
    /\ ReportsKnown
    /\ ResultsEmpty
    /\ QueueOrder

-----------------------------------------------------------------------------
(* What the invariant gives.                                               *)

MadeIn(f) == {t \in Task : t.frame < f[t.job].frames_submitted}

CountedIn(d) == {t \in Task : t.frame \in d[t.job]}

\* The same sets, by their members; stated for any map, so that it can be used
\* of the next state too.
LEMMA MadeMembers ==
    ASSUME NEW f \in [JobId -> Job]
    PROVE  UNION {{[job |-> j, frame |-> x] : x \in 0 .. f[j].frames_submitted - 1} :
                  j \in JobId} = MadeIn(f)
<1> DEFINE M == UNION {{[job |-> j, frame |-> x] : x \in 0 .. f[j].frames_submitted - 1} :
                       j \in JobId}
<1>1. \A j \in JobId : f[j].frames_submitted \in Nat
  BY DEF Job
<1>2. ASSUME NEW t \in M PROVE t \in MadeIn(f)
  <2>1. PICK j \in JobId : \E x \in 0 .. f[j].frames_submitted - 1 :
                             t = [job |-> j, frame |-> x]
    BY <1>2
  <2>2. PICK x \in 0 .. f[j].frames_submitted - 1 : t = [job |-> j, frame |-> x]
    BY <2>1
  <2>3. x \in Nat /\ x < f[j].frames_submitted
    BY <1>1
  <2> QED BY <2>2, <2>3 DEF MadeIn, Task
<1>3. ASSUME NEW t \in MadeIn(f) PROVE t \in M
  <2>1. t = [job |-> t.job, frame |-> t.frame] /\ t.job \in JobId /\ t.frame \in Nat
    BY DEF MadeIn, Task
  <2>2. t.frame \in 0 .. f[t.job].frames_submitted - 1
    BY <1>1, <2>1 DEF MadeIn
  <2> QED BY <2>1, <2>2
<1> QED BY <1>2, <1>3

LEMMA CountedMembers ==
    ASSUME NEW d \in [JobId -> SUBSET Nat]
    PROVE  UNION {{[job |-> j, frame |-> x] : x \in d[j]} : j \in JobId} = CountedIn(d)
<1> DEFINE C == UNION {{[job |-> j, frame |-> x] : x \in d[j]} : j \in JobId}
<1>1. ASSUME NEW t \in C PROVE t \in CountedIn(d)
  <2>1. PICK j \in JobId : \E x \in d[j] : t = [job |-> j, frame |-> x]
    BY <1>1
  <2>2. PICK x \in d[j] : t = [job |-> j, frame |-> x]
    BY <2>1
  <2> QED BY <2>2 DEF CountedIn, Task
<1>2. ASSUME NEW t \in CountedIn(d) PROVE t \in C
  <2>1. t = [job |-> t.job, frame |-> t.frame] /\ t.job \in JobId /\ t.frame \in d[t.job]
    BY DEF CountedIn, Task
  <2> QED BY <2>1
<1> QED BY <1>1, <1>2

LEMMA Members ==
    ASSUME TypeOK
    PROVE  Made = MadeIn(job) /\ Counted = CountedIn(done)
<1>1. job \in [JobId -> Job] /\ done \in [JobId -> SUBSET Nat]
  BY DEF TypeOK
<1> QED BY <1>1, MadeMembers, CountedMembers, Zenon DEF Made, Counted

LEMMA MembersNext ==
    ASSUME TypeOK'
    PROVE  Made' = MadeIn(job') /\ Counted' = CountedIn(done')
<1>1. job' \in [JobId -> Job] /\ done' \in [JobId -> SUBSET Nat]
  BY DEF TypeOK
<1> QED BY <1>1, MadeMembers, CountedMembers, Zenon DEF Made, Counted

\* A counted frame was handed out, so it is a frame of its job.
LEMMA DoneBound ==
    ASSUME TypeInv, Counted \subseteq Made, NEW j \in JobId
    PROVE  /\ done[j] \subseteq 0 .. job[j].frames_submitted - 1
           /\ done[j] \subseteq 0 .. job[j].total_frames - 1
<1>1. SUFFICES ASSUME NEW f \in done[j]
               PROVE  f \in Nat /\ f < job[j].frames_submitted
  BY DEF TypeInv, TypeOK, Job, SubmittedBound
<1>2. f \in Nat
  BY DEF TypeInv, TypeOK
<1>3. [job |-> j, frame |-> f] \in Task
  BY <1>2 DEF Task
<1>4. [job |-> j, frame |-> f] \in Made
  BY <1>3, Members DEF TypeInv, CountedIn
<1> QED BY <1>2, <1>4, Members DEF TypeInv, MadeIn

\* A job whose count has reached its total is complete.
LEMMA FullCount ==
    ASSUME TypeInv, Counted \subseteq Made, CountsExact, NEW j \in JobId,
           job[j].frames_rendered >= job[j].total_frames
    PROVE  done[j] = 0 .. job[j].total_frames - 1
<1>1. job[j].total_frames \in Nat /\ job[j].frames_rendered \in Nat
  BY DEF TypeInv, TypeOK, Job
<1> DEFINE top == job[j].total_frames - 1
           all == 0 .. top
<1>2. IsFiniteSet(all) /\ Cardinality(all) = job[j].total_frames
  <2>1. top \in Int /\ 0 \in Int
    BY <1>1
  <2>2. IsFiniteSet(all) /\ Cardinality(all) = IF 0 > top THEN 0 ELSE top - 0 + 1
    <3> HIDE DEF top
    <3> QED BY <2>1, FS_Interval
  <2> QED BY <2>2, <1>1
<1>3. done[j] \in SUBSET all
  BY DoneBound
<1>4. Cardinality(done[j]) = job[j].frames_rendered
  BY DEF CountsExact
<1> HIDE DEF all
<1>5. /\ Cardinality(done[j]) <= Cardinality(all)
      /\ Cardinality(all) = Cardinality(done[j]) => all = done[j]
  BY <1>2, <1>3, FS_Subset
<1>6. Cardinality(done[j]) = Cardinality(all)
  BY <1>1, <1>2, <1>4, <1>5
<1> QED BY <1>5, <1>6 DEF all

\* A task that is out or held is a frame of a live job.
LEMMA OpenTaskLive ==
    ASSUME IndInv, NEW t \in out \cup Held
    PROVE  t.job \in jobs /\ t \in Task /\ t \notin Counted
<1>1. t \in Made /\ t \notin Counted
  BY DEF IndInv, FramesConserved
<1>2. t \in Task /\ t.job \in JobId /\ t.frame \in Nat
      /\ t.frame < job[t.job].frames_submitted
  BY <1>1, Members DEF IndInv, TypeInv, Task, MadeIn
<1>3. job[t.job] \in Job /\ job[t.job].frames_submitted <= job[t.job].total_frames
  BY <1>2 DEF IndInv, TypeInv, TypeOK, SubmittedBound
<1>4. t.job \in Submitted
  <2>1. job_offset \in Nat /\ t.job \in Nat
    BY <1>2, JobQueueAssumption DEF IndInv, TypeInv, TypeOK, JobId
  <2>2. ~ (t.job >= job_offset)
    BY <1>2, <1>3 DEF IndInv, CountsExact, Job
  <2> QED BY <2>1, <2>2 DEF Submitted
<1>5. t.frame \in 0 .. job[t.job].total_frames - 1
  BY <1>2, <1>3 DEF Job
<1>6. t.frame \notin done[t.job]
  BY <1>1, <1>2, Members DEF IndInv, TypeInv, CountedIn
<1> QED BY <1>1, <1>2, <1>4, <1>5, <1>6 DEF IndInv, GoneIsComplete, Complete

LEMMA IndInvSafe ==
    IndInv => /\ FinishedIsComplete
              /\ QueuedJobsAreLive
              /\ CountedJobIsLive
              /\ FirstComeFirstServed
<1> SUFFICES ASSUME IndInv
             PROVE  /\ FinishedIsComplete
                    /\ QueuedJobsAreLive
                    /\ CountedJobIsLive
                    /\ FirstComeFirstServed
  OBVIOUS
<1>0. TypeInv /\ TypeOK /\ Counted \subseteq Made
  BY DEF IndInv, TypeInv, FramesConserved
<1>1. FinishedIsComplete
  BY DEF IndInv, GoneIsComplete, Complete, FinishedIsComplete
<1>2. CountedJobIsLive
  <2>1. ASSUME NEW r \in Reporters, report[r] = "found" PROVE task[r] \in Held
    BY <2>1 DEF Held
  <2> QED BY <2>1, OpenTaskLive DEF CountedJobIsLive
<1>3. QueuedJobsAreLive
  <2>1. SUFFICES ASSUME NEW i \in 1 .. Len(job_queue) PROVE job_queue[i] \in jobs
    BY <1>0, RangeDef DEF QueuedJobsAreLive, TypeOK
  <2> DEFINE j == job_queue[i]
  <2>2. job_queue \in Seq(JobId) /\ Len(job_queue) \in Nat /\ job_offset \in Nat /\ j \in JobId
    BY <1>0 DEF TypeOK
  <2>3. j = FrontId + i - 1 /\ FrontId >= 0
    BY DEF IndInv, QueueOrder
  <2>4. j \in Submitted /\ j >= FrontId
    BY <2>2, <2>3 DEF Submitted, FrontId
  <2>5. hasTasks(j) \/ job[j].total_frames = 0
    BY <2>4 DEF IndInv, QueueOrder
  <2>6. done[j] \subseteq 0 .. job[j].frames_submitted - 1 /\ job[j] \in Job
    BY <1>0, <2>2, DoneBound DEF TypeOK
  <2>7. SUFFICES ASSUME Complete(j) PROVE FALSE
    BY <2>4 DEF IndInv, GoneIsComplete
  <2> HIDE DEF j
  <2>8. job[j].total_frames - 1 \in done[j]
    BY <2>6, <2>7 DEF Complete, Job
  <2> QED BY <2>5, <2>6, <2>7, <2>8 DEF Complete, hasTasks, Job
<1>4. FirstComeFirstServed
  <2>1. SUFFICES ASSUME NEW i \in Submitted, NEW k \in Submitted, i < k,
                        job[k].frames_submitted > 0
                 PROVE  ~ hasTasks(i)
    BY DEF FirstComeFirstServed
  <2>2. FrontId \in Int /\ i \in Int /\ k \in Int
    BY <1>0 DEF FrontId, TypeOK, Submitted
  <2>3. k <= FrontId
    BY <2>1, <2>2 DEF IndInv, QueueOrder
  <2> QED BY <2>1, <2>2, <2>3 DEF IndInv, QueueOrder
<1> QED BY <1>1, <1>2, <1>3, <1>4


-----------------------------------------------------------------------------
(* The invariant is inductive.                                             *)

LEMMA InitIndInv == Init => IndInv
<1> SUFFICES ASSUME Init PROVE IndInv
  OBVIOUS
<1>1. TypeInv
  BY InitTypeInv
<1>2. Range(task_queue) = {} /\ Range(results) = {} /\ Held = {}
  BY DEF Init, Range, Held
<1>3. Made = {} /\ Counted = {}
  <2>1. \A j \in JobId : job[j].frames_submitted = 0 /\ done[j] = {}
    BY DEF Init, NoJob
  <2>2. MadeIn(job) = {} /\ CountedIn(done) = {}
    BY <2>1 DEF MadeIn, CountedIn, Task
  <2> QED BY <1>1, <2>2, Members DEF TypeInv
<1>4. FramesConserved
  BY <1>2, <1>3 DEF Init, FramesConserved, IsInjective
<1>5. CountsExact /\ GoneIsComplete /\ ReportsKnown /\ ResultsEmpty
  BY FS_EmptySet, JobQueueAssumption
     DEF Init, CountsExact, GoneIsComplete, ReportsKnown, ResultsEmpty, NoJob, Submitted
<1>6. QueueOrder
  BY DEF Init, QueueOrder, FrontId, Submitted
<1> QED BY <1>1, <1>4, <1>5, <1>6 DEF IndInv

\* The steps that only move tasks keep the accounts as they are.
LEMMA AccountsKept ==
    ASSUME IndInv,
           UNCHANGED <<job_offset, jobs, job, job_queue, report, task,
                       total_rendered, done>>
    PROVE  /\ CountsExact' /\ GoneIsComplete' /\ ReportsKnown' /\ QueueOrder'
           /\ Made' = Made /\ Counted' = Counted /\ Held' = Held
BY DEF IndInv, CountsExact, GoneIsComplete, Complete, ReportsKnown, QueueOrder,
       FrontId, hasTasks, Submitted, Made, Counted, Held

\* Handing tasks back moves them from the clients to the task queue.
LEMMA AddTasksInv ==
    ASSUME IndInv, TypeInv', NEW S \in (SUBSET out) \ {{}}, NEW tasks \in Vectors(S),
           AddTasks(tasks)
    PROVE  IndInv'
<1>1. UNCHANGED <<job_offset, jobs, job, job_queue, report, task, total_rendered, done>>
      /\ UNCHANGED <<dist, results>>
  BY DEF AddTasks, distVars, reportVars
<1>2. task_queue' = task_queue \o tasks /\ out' = out \ S /\ Range(tasks) = S
      /\ IsInjective(tasks)
  BY DEF AddTasks, Vectors
<1>3. task_queue \in Seq(Task) /\ tasks \in Seq(Task)
  <2>1. S \subseteq Task /\ IsFiniteSet(S)
    BY FS_Subset DEF IndInv, TypeInv, TypeOK
  <2>2. Cardinality(S) \in Nat
    BY <2>1, FS_CardinalityType
  <2>3. tasks \in [1 .. Cardinality(S) -> S]
    BY DEF Vectors
  <2>4. tasks \in Seq(Task)
    BY <2>1, <2>2, <2>3
  <2> QED BY <2>4 DEF IndInv, TypeInv, TypeOK
<1>4. Range(task_queue') = Range(task_queue) \cup S /\ IsInjective(task_queue')
  <2>1. Range(task_queue) \cap Range(tasks) = {} /\ IsInjective(task_queue)
    BY <1>2 DEF IndInv, FramesConserved
  <2> QED BY <1>2, <1>3, <2>1, ConcatRange
<1>5. FramesConserved'
  <2>1. Range(results') = Range(results)
    BY <1>1
  <2>2. Made' = Made /\ Counted' = Counted /\ Held' = Held
    BY <1>1, AccountsKept
  <2> QED BY <1>1, <1>2, <1>4, <2>1, <2>2 DEF IndInv, FramesConserved
<1>6. ResultsEmpty'
  BY <1>1 DEF IndInv, ResultsEmpty
<1> QED BY <1>1, <1>5, <1>6, AccountsKept DEF IndInv

\* The first loop of getJobs splits the task queue.
LEMMA PriorityInv ==
    ASSUME IndInv, TypeInv', GetJobsPriority
    PROVE  IndInv'
<1>1. UNCHANGED <<job_offset, jobs, job, job_queue, report, task, total_rendered, done>>
      /\ UNCHANGED out /\ dist = "priority" /\ dist' = "regular"
  BY DEF GetJobsPriority, reportVars
<1> DEFINE n == Smaller(Len(task_queue), max_jobs)
<1>2. results' = SubSeq(task_queue, 1, n)
      /\ task_queue' = SubSeq(task_queue, n + 1, Len(task_queue))
  BY DEF GetJobsPriority
<1>3. task_queue \in Seq(Task) /\ IsInjective(task_queue) /\ n \in 0 .. Len(task_queue)
  BY DEF IndInv, TypeInv, TypeOK, FramesConserved, Smaller
<1> HIDE DEF n
<1>4. /\ Range(results') \cup Range(task_queue') = Range(task_queue)
      /\ Range(results') \cap Range(task_queue') = {}
      /\ IsInjective(results') /\ IsInjective(task_queue')
  BY <1>2, <1>3, SplitRange
<1>5. Range(results) = {}
  BY <1>1 DEF IndInv, ResultsEmpty, Range
<1>6. FramesConserved'
  <2>1. Made' = Made /\ Counted' = Counted /\ Held' = Held
    BY <1>1, AccountsKept
  <2> QED BY <1>1, <1>4, <1>5, <2>1 DEF IndInv, FramesConserved
<1>7. ResultsEmpty'
  BY <1>1 DEF ResultsEmpty
<1> QED BY <1>1, <1>6, <1>7, AccountsKept DEF IndInv

\* The end of getJobs hands its vector out.
LEMMA ReturnInv ==
    ASSUME IndInv, TypeInv', GetJobsReturn
    PROVE  IndInv'
<1>1. UNCHANGED <<job_offset, jobs, job, job_queue, report, task, total_rendered, done>>
      /\ UNCHANGED task_queue /\ results' = <<>> /\ out' = out \cup Range(results)
  BY DEF GetJobsReturn, queueVars, reportVars
<1>2. Range(results') = {} /\ IsInjective(results')
  BY <1>1 DEF Range, IsInjective
<1>3. FramesConserved'
  <2>1. Made' = Made /\ Counted' = Counted /\ Held' = Held
    BY <1>1, AccountsKept
  <2>2. Range(task_queue') = Range(task_queue)
    BY <1>1
  <2> QED BY <1>1, <1>2, <2>1, <2>2 DEF IndInv, FramesConserved
<1>4. ResultsEmpty'
  BY <1>1 DEF ResultsEmpty
<1> QED BY <1>1, <1>3, <1>4, AccountsKept DEF IndInv

\* Steps that touch neither tasks nor accounts.
LEMMA IdleInv ==
    ASSUME IndInv, TypeInv', ResultsEmpty',
           Range(results') = Range(results), IsInjective(results'),
           UNCHANGED <<job_offset, jobs, job, job_queue, report, task,
                       total_rendered, done, task_queue, out>>
    PROVE  IndInv'
<1>1. Made' = Made /\ Counted' = Counted /\ Held' = Held
  BY AccountsKept
<1>2. Range(task_queue') = Range(task_queue)
  OBVIOUS
<1>3. FramesConserved'
  BY <1>1, <1>2 DEF IndInv, FramesConserved
<1> QED BY <1>3, AccountsKept DEF IndInv


\* addJob: a fresh id, which no task, report or queue entry mentions yet.
LEMMA AddJobInv ==
    ASSUME IndInv, TypeInv', NEW frames \in FrameCounts, AddJob(frames)
    PROVE  IndInv'
<1>1. /\ job_offset \in JobId
      /\ \A k \in JobId : k # job_offset => job'[k] = job[k]
      /\ job'[job_offset].total_frames = frames
      /\ job'[job_offset].frames_submitted = 0
      /\ job'[job_offset].frames_rendered = 0
  BY AddJobStep DEF IndInv, TypeInv
<1>2. /\ UNCHANGED <<task_queue, dist, results, report, task, total_rendered, out, done>>
      /\ job_offset' = job_offset + 1
      /\ jobs' = jobs \cup {job_offset}
      /\ job_queue' = Append(job_queue, job_offset)
  BY DEF AddJob, distVars, reportVars
<1>3. job_offset \in Nat /\ job_queue \in Seq(JobId) /\ Len(job_queue) \in Nat /\ frames \in Nat
      /\ \A j \in JobId : j \in Nat
  BY JobQueueAssumption DEF IndInv, TypeInv, TypeOK, JobId
<1>4. \A k \in JobId : job'[k].frames_submitted = job[k].frames_submitted
  BY <1>1, <1>3 DEF IndInv, CountsExact
<1>5. Made' = Made /\ Counted' = Counted /\ Held' = Held
  <2>1. MadeIn(job') = MadeIn(job)
    BY <1>4 DEF MadeIn, Task
  <2> QED BY <1>2, <2>1, Members, MembersNext DEF IndInv, TypeInv, Counted, Held
<1>6. FramesConserved'
  <2>1. Range(task_queue') = Range(task_queue) /\ Range(results') = Range(results)
    BY <1>2
  <2> QED BY <1>2, <1>5, <2>1 DEF IndInv, FramesConserved
<1>7. done[job_offset] = {}
  <2>1. done[job_offset] \subseteq 0 .. job[job_offset].frames_submitted - 1
    BY <1>1, DoneBound DEF IndInv, FramesConserved
  <2>2. job[job_offset].frames_submitted = 0
    BY <1>1, <1>3 DEF IndInv, CountsExact
  <2> QED BY <2>1, <2>2
<1>8. CountsExact'
  <2>1. Cardinality({}) = 0
    BY FS_EmptySet
  <2>2. ASSUME NEW k \in JobId
        PROVE  /\ IsFiniteSet(done'[k])
               /\ job'[k].frames_rendered = Cardinality(done'[k])
               /\ k >= job_offset' => job'[k].frames_submitted = 0
    <3>1. IsFiniteSet(done[k]) /\ job[k].frames_rendered = Cardinality(done[k])
          /\ (k >= job_offset => job[k].frames_submitted = 0)
      BY DEF IndInv, CountsExact
    <3>2. CASE k = job_offset
      BY <3>1, <3>2, <1>1, <1>2, <1>7, <2>1
    <3>3. CASE k # job_offset
      BY <3>1, <3>3, <1>1, <1>2, <1>3
    <3> QED BY <3>2, <3>3
  <2> QED BY <2>2 DEF CountsExact
<1>9. Submitted' = Submitted \cup {job_offset} /\ job_offset \notin Submitted
      /\ Submitted \subseteq JobId
  BY <1>1, <1>2, <1>3, JobQueueAssumption DEF Submitted, JobId
<1>10. GoneIsComplete'
  BY <1>1, <1>2, <1>9 DEF IndInv, GoneIsComplete, Complete
<1>11. ReportsKnown'
  BY <1>1, <1>2, <1>9 DEF IndInv, ReportsKnown, Complete
<1>12. QueueOrder'
  <2>1. /\ Len(job_queue') = Len(job_queue) + 1
        /\ \A i \in 1 .. Len(job_queue) : job_queue'[i] = job_queue[i]
        /\ job_queue'[Len(job_queue) + 1] = job_offset
    BY <1>2, <1>3
  <2>2. FrontId' = FrontId /\ FrontId \in Int /\ FrontId <= job_offset
    BY <1>2, <1>3, <2>1 DEF FrontId
  <2>3. FrontId' >= 0 /\ \A i \in 1 .. Len(job_queue') : job_queue'[i] = FrontId' + i - 1
    <3>1. FrontId >= 0 /\ \A i \in 1 .. Len(job_queue) : job_queue[i] = FrontId + i - 1
      BY DEF IndInv, QueueOrder
    <3>2. job_offset = FrontId + (Len(job_queue) + 1) - 1
      BY <1>3 DEF FrontId
    <3>3. ASSUME NEW i \in 1 .. Len(job_queue') PROVE job_queue'[i] = FrontId' + i - 1
      <4>1. CASE i = Len(job_queue) + 1
        <5>1. job_queue'[i] = job_offset
          BY <4>1, <2>1
        <5>2. FrontId + i - 1 = job_offset
          BY <4>1, <3>2, <2>2, <1>3
        <5> QED BY <5>1, <5>2, <2>2
      <4>2. CASE i # Len(job_queue) + 1
        <5>1. i \in 1 .. Len(job_queue)
          BY <4>2, <2>1, <1>3
        <5> QED BY <5>1, <3>1, <2>1, <2>2
      <4> QED BY <4>1, <4>2
    <3> QED BY <3>1, <3>3, <2>2
  <2>4. \A j \in Submitted :
          /\ j < FrontId' => ~ (job'[j].frames_submitted < job'[j].total_frames)
          /\ j >= FrontId' => \/ job'[j].frames_submitted < job'[j].total_frames
                              \/ job'[j].total_frames = 0
          /\ j > FrontId' => job'[j].frames_submitted = 0
    BY <1>1, <1>9, <2>2 DEF IndInv, QueueOrder, hasTasks
  <2>5. /\ ~ (job_offset < FrontId')
        /\ 0 < frames \/ frames = 0
    BY <1>3, <2>2
  <2> QED BY <1>1, <1>9, <2>3, <2>4, <2>5 DEF QueueOrder, hasTasks
<1>13. ResultsEmpty'
  BY <1>2 DEF IndInv, ResultsEmpty
<1> QED BY <1>6, <1>8, <1>10, <1>11, <1>12, <1>13 DEF IndInv

\* The second loop of getJobs makes new tasks of the front job.
LEMMA RegularInv ==
    ASSUME IndInv, TypeInv', GetJobsRegular
    PROVE  IndInv'
<1> DEFINE j == Head(job_queue)
<1>1. PICK n \in Nat :
        /\ results' = results \o NextTasks(j, n)
        /\ job[j].frames_submitted + n <= job[j].total_frames
        /\ \A k \in JobId : k # j => job'[k] = job[k]
        /\ job'[j].total_frames = job[j].total_frames
        /\ job'[j].frames_submitted = job[j].frames_submitted + n
        /\ job'[j].frames_rendered = job[j].frames_rendered
        /\ job_queue' = IF job[j].frames_submitted + n = job[j].total_frames
                        THEN Tail(job_queue) ELSE job_queue
  BY RegularStep DEF IndInv
<1>2. j \in JobId /\ job_queue # <<>>
  BY RegularStep DEF IndInv
<1>3. /\ UNCHANGED <<job_offset, jobs, task_queue, dist, report, task, total_rendered,
                     out, done>>
      /\ dist = "regular"
  BY DEF GetJobsRegular, reportVars
<1>4. /\ job_queue \in Seq(JobId) /\ Len(job_queue) \in Nat /\ job_offset \in Nat
      /\ results \in Seq(Task)
      /\ \A k \in JobId : /\ k \in Nat
                          /\ job[k].frames_submitted \in Nat
                          /\ job[k].total_frames \in Nat
                          /\ job[k].frames_rendered \in Nat
  <2>1. job \in [JobId -> Job] /\ job_queue \in Seq(JobId) /\ results \in Seq(Task)
        /\ job_offset \in Nat
    BY DEF IndInv, TypeInv, TypeOK
  <2>2. \A k \in JobId : k \in Nat
    BY JobQueueAssumption DEF JobId
  <2> QED BY <2>1, <2>2 DEF Job
<1>5. j = FrontId /\ FrontId \in Int /\ j \in Submitted /\ Len(job_queue) > 0
  <2>1. j = job_queue[1] /\ Len(job_queue) > 0
    BY <1>2, <1>4
  <2>2. j = FrontId
    BY <2>1, <1>4 DEF IndInv, QueueOrder, FrontId
  <2> QED BY <2>1, <2>2, <1>2, <1>4 DEF FrontId, Submitted
<1> DEFINE new == NextTasks(j, n)
<1>6. /\ new \in Seq(Task)
      /\ Len(new) = n
      /\ \A i \in 1 .. n : new[i] = [job |-> j, frame |-> job[j].frames_submitted + i - 1]
  BY <1>2, NextTasksType DEF IndInv, TypeInv
<1> HIDE DEF j, new
<1> DEFINE base == job[j].frames_submitted
<1>a. /\ base \in Nat /\ base + n <= job[j].total_frames
      /\ job'[j].total_frames = job[j].total_frames
      /\ job'[j].frames_submitted = base + n
      /\ \A k \in JobId : k # j => job'[k] = job[k]
  BY <1>1, <1>2, <1>4
<1>7. \A i \in 1 .. n : new[i].job = j /\ new[i].frame = job[j].frames_submitted + i - 1
  BY <1>6
<1>8. IsInjective(new)
  <2>1. ASSUME NEW i \in 1 .. n, NEW k \in 1 .. n, new[i] = new[k] PROVE i = k
    <3>1. base + i - 1 = base + k - 1
      BY <1>7, <2>1
    <3> QED BY <3>1, <1>a
  <2> QED BY <1>6, <2>1, RangeDef DEF IsInjective
<1>9. Range(new) \cap Made = {}
  <2>1. ASSUME NEW i \in 1 .. n PROVE new[i] \notin Made
    <3>1. ~ (new[i].frame < job[new[i].job].frames_submitted)
      BY <1>2, <1>4, <1>7
    <3> QED BY <3>1, Members DEF IndInv, TypeInv, MadeIn
  <2> QED BY <1>6, <2>1, RangeDef
<1>10. Made' = Made \cup Range(new)
  <2>1. ASSUME NEW t \in Made' PROVE t \in Made \cup Range(new)
    <3>1. t \in Task /\ t.frame < job'[t.job].frames_submitted
      BY MembersNext DEF TypeInv, MadeIn
    <3>2. t.job \in JobId /\ t.frame \in Nat /\ t = [job |-> t.job, frame |-> t.frame]
      BY <3>1 DEF Task
    <3>3. CASE t.frame < job[t.job].frames_submitted
      BY <3>1, <3>3, Members DEF IndInv, TypeInv, MadeIn
    <3>4. CASE ~ (t.frame < job[t.job].frames_submitted)
      <4>1. t.job = j /\ t.frame < job[j].frames_submitted + n
            /\ t.frame >= job[j].frames_submitted
        BY <1>1, <1>4, <3>1, <3>2, <3>4
      <4> DEFINE i == t.frame - job[j].frames_submitted + 1
      <4>2. i \in 1 .. n /\ t.frame = job[j].frames_submitted + i - 1
        BY <1>2, <1>4, <3>2, <4>1
      <4>3. t = new[i]
        BY <1>6, <3>2, <4>1, <4>2
      <4> QED BY <1>6, <4>2, <4>3, RangeDef
    <3> QED BY <3>3, <3>4
  <2>2. ASSUME NEW t \in Made PROVE t \in Made'
    <3>1. t \in Task /\ t.frame < job[t.job].frames_submitted
      BY Members DEF IndInv, TypeInv, MadeIn
    <3>2. t.job \in JobId /\ t.frame \in Nat
      BY <3>1 DEF Task
    <3>3. t.frame < job'[t.job].frames_submitted
      <4>1. CASE t.job = j
        BY <4>1, <1>a, <3>1, <3>2
      <4>2. CASE t.job # j
        BY <4>2, <1>a, <3>1, <3>2
      <4> QED BY <4>1, <4>2
    <3> QED BY <3>1, <3>3, MembersNext DEF TypeInv, MadeIn
  <2>3. ASSUME NEW i \in 1 .. n PROVE new[i] \in Made'
    <3>1. new[i] \in Task
      BY <1>6
    <3>2. new[i].frame < job'[new[i].job].frames_submitted
      BY <1>a, <1>7
    <3> QED BY <3>1, <3>2, MembersNext DEF TypeInv, MadeIn
  <2> QED BY <1>6, <2>1, <2>2, <2>3, RangeDef
<1>11. FramesConserved'
  <2>1. Counted' = Counted /\ Held' = Held /\ Range(task_queue') = Range(task_queue)
    BY <1>3 DEF Counted, Held
  <2>2. Range(results) \subseteq Made /\ IsInjective(results)
    BY DEF IndInv, FramesConserved
  <2>3. Range(results') = Range(results) \cup Range(new) /\ IsInjective(results')
    <3>1. Range(results) \cap Range(new) = {}
      BY <1>9, <2>2
    <3> QED BY <1>1, <1>4, <1>6, <1>8, <2>2, <3>1, ConcatRange DEF new
  <2>4. Made = Range(task_queue) \cup Range(results) \cup out \cup Held \cup Counted
    BY DEF IndInv, FramesConserved
  <2> QED BY <1>3, <1>9, <1>10, <2>1, <2>3, <2>4 DEF IndInv, FramesConserved
<1>12. CountsExact'
  <2>1. ASSUME NEW k \in JobId
        PROVE  /\ IsFiniteSet(done'[k])
               /\ job'[k].frames_rendered = Cardinality(done'[k])
               /\ k >= job_offset' => job'[k].frames_submitted = 0
    <3>1. IsFiniteSet(done[k]) /\ job[k].frames_rendered = Cardinality(done[k])
          /\ (k >= job_offset => job[k].frames_submitted = 0)
      BY DEF IndInv, CountsExact
    <3>2. ~ (j >= job_offset)
      BY <1>4, <1>5 DEF Submitted
    <3> QED BY <3>1, <3>2, <1>1, <1>3
  <2> QED BY <2>1 DEF CountsExact
<1>13. Submitted' = Submitted /\ Submitted \subseteq JobId
  BY <1>3, JobQueueAssumption DEF Submitted, JobId, IndInv, TypeInv, TypeOK
<1>14. \A k \in JobId : /\ job'[k].total_frames = job[k].total_frames
                        /\ job'[k].frames_rendered = job[k].frames_rendered
  BY <1>1
<1>15. GoneIsComplete'
  BY <1>3, <1>13, <1>14 DEF IndInv, GoneIsComplete, Complete
<1>16. ReportsKnown'
  BY <1>3, <1>13, <1>14 DEF IndInv, ReportsKnown, Complete
<1>17. QueueOrder'
  <2>1. CASE job[j].frames_submitted + n = job[j].total_frames
    <3>1. job_queue' = Tail(job_queue)
      BY <1>1, <2>1
    <3>2. Len(job_queue') = Len(job_queue) - 1
          /\ \A i \in 1 .. Len(job_queue) - 1 : job_queue'[i] = job_queue[i + 1]
      BY <1>2, <1>4, <3>1
    <3>3. FrontId' = FrontId + 1
      BY <1>3, <1>4, <3>2 DEF FrontId
    <3>4. FrontId' >= 0 /\ \A i \in 1 .. Len(job_queue') : job_queue'[i] = FrontId' + i - 1
      BY <1>4, <1>5, <3>2, <3>3 DEF IndInv, QueueOrder
    <3>5. \A k \in Submitted :
            /\ k < FrontId' => ~ (job'[k].frames_submitted < job'[k].total_frames)
            /\ k >= FrontId' => \/ job'[k].frames_submitted < job'[k].total_frames
                                \/ job'[k].total_frames = 0
            /\ k > FrontId' => job'[k].frames_submitted = 0
      <4> SUFFICES ASSUME NEW k \in Submitted
                   PROVE  /\ k < FrontId' => ~ (job'[k].frames_submitted < job'[k].total_frames)
                          /\ k >= FrontId' => \/ job'[k].frames_submitted < job'[k].total_frames
                                              \/ job'[k].total_frames = 0
                          /\ k > FrontId' => job'[k].frames_submitted = 0
        OBVIOUS
      <4>1. /\ k < FrontId => ~ (job[k].frames_submitted < job[k].total_frames)
            /\ k >= FrontId => \/ job[k].frames_submitted < job[k].total_frames
                               \/ job[k].total_frames = 0
            /\ k > FrontId => job[k].frames_submitted = 0
        BY DEF IndInv, QueueOrder, hasTasks
      <4>2. k \in Nat /\ job[k].frames_submitted \in Nat /\ job[k].total_frames \in Nat
        BY <1>4, <1>13
      <4>3. CASE k = j
        BY <4>1, <4>2, <4>3, <1>a, <1>5, <2>1, <3>3
      <4>4. CASE k # j
        BY <4>1, <4>2, <4>4, <1>a, <1>5, <1>13, <2>1, <3>3
      <4> QED BY <4>3, <4>4
    <3> QED BY <3>4, <3>5, <1>13 DEF QueueOrder, hasTasks
  <2>2. CASE job[j].frames_submitted + n # job[j].total_frames
    <3>1. job_queue' = job_queue /\ FrontId' = FrontId
      BY <1>1, <1>3, <2>2 DEF FrontId
    <3>2. \A k \in Submitted :
            /\ k < FrontId' => ~ (job'[k].frames_submitted < job'[k].total_frames)
            /\ k >= FrontId' => \/ job'[k].frames_submitted < job'[k].total_frames
                                \/ job'[k].total_frames = 0
            /\ k > FrontId' => job'[k].frames_submitted = 0
      <4> SUFFICES ASSUME NEW k \in Submitted
                   PROVE  /\ k < FrontId' => ~ (job'[k].frames_submitted < job'[k].total_frames)
                          /\ k >= FrontId' => \/ job'[k].frames_submitted < job'[k].total_frames
                                              \/ job'[k].total_frames = 0
                          /\ k > FrontId' => job'[k].frames_submitted = 0
        OBVIOUS
      <4>1. /\ k < FrontId => ~ (job[k].frames_submitted < job[k].total_frames)
            /\ k >= FrontId => \/ job[k].frames_submitted < job[k].total_frames
                               \/ job[k].total_frames = 0
            /\ k > FrontId => job[k].frames_submitted = 0
        BY DEF IndInv, QueueOrder, hasTasks
      <4>2. k \in Nat /\ job[k].frames_submitted \in Nat /\ job[k].total_frames \in Nat
        BY <1>4, <1>13
      <4>3. CASE k = j
        BY <4>1, <4>2, <4>3, <1>a, <1>5, <2>2, <3>1
      <4>4. CASE k # j
        BY <4>1, <4>2, <4>4, <1>a, <1>5, <1>13, <2>2, <3>1
      <4> QED BY <4>3, <4>4
    <3> QED BY <3>1, <3>2, <1>13 DEF IndInv, QueueOrder, hasTasks
  <2> QED BY <2>1, <2>2
<1>18. ResultsEmpty'
  BY <1>3 DEF ResultsEmpty
<1> QED BY <1>11, <1>12, <1>15, <1>16, <1>17, <1>18 DEF IndInv


\* findJob finds the job of every task a client reports: the task moves from the
\* clients to the response thread.
LEMMA FindJobInv ==
    ASSUME IndInv, TypeInv', NEW r \in Reporters, NEW t \in out, FindJob(r, t)
    PROVE  IndInv'
<1>1. t.job \in jobs /\ t.job \in Submitted
  BY OpenTaskLive DEF IndInv, TypeInv, TypeOK
<1>2. /\ UNCHANGED <<job_offset, jobs, job, job_queue, task_queue, dist, results,
                     total_rendered, done>>
      /\ report[r] = "idle"
      /\ report' = [report EXCEPT ![r] = "found"]
      /\ task' = [task EXCEPT ![r] = t]
      /\ out' = out \ {t}
  BY <1>1 DEF FindJob, queueVars, distVars
<1>3. report \in [Reporters -> {"idle", "found", "counted", "finish", "erased"}]
      /\ task \in [Reporters -> Task]
  BY DEF IndInv, TypeInv, TypeOK
<1>4. /\ report'[r] = "found" /\ task'[r] = t
      /\ \A q \in Reporters : q # r => report'[q] = report[q] /\ task'[q] = task[q]
  BY <1>2, <1>3
<1>5. Held' = Held \cup {t} /\ t \notin Held
  <2>1. t \notin Held
    BY DEF IndInv, FramesConserved
  <2>2. \A x \in Held' : x \in Held \cup {t}
    BY <1>4 DEF Held
  <2>3. t \in Held'
    BY <1>4 DEF Held
  <2>4. \A x \in Held : x \in Held'
    BY <1>2, <1>4 DEF Held
  <2> QED BY <2>1, <2>2, <2>3, <2>4
<1>6. FramesConserved'
  <2>1. Made' = Made /\ Counted' = Counted /\ Range(task_queue') = Range(task_queue)
        /\ Range(results') = Range(results)
    BY <1>2 DEF Made, Counted
  <2>2. \A q \in Reporters : report[q] = "found" => task[q] # t
    BY <1>5 DEF Held
  <2>3. \A p, q \in Reporters :
          report'[p] = "found" /\ report'[q] = "found" /\ task'[p] = task'[q] => p = q
    BY <1>4, <2>2 DEF IndInv, FramesConserved
  <2> QED BY <1>2, <1>5, <2>1, <2>3 DEF IndInv, FramesConserved
<1>7. CountsExact' /\ GoneIsComplete' /\ QueueOrder' /\ ResultsEmpty'
  BY <1>2 DEF IndInv, CountsExact, GoneIsComplete, Complete, QueueOrder, FrontId,
              hasTasks, Submitted, ResultsEmpty
<1>8. ReportsKnown'
  BY <1>1, <1>2, <1>4 DEF IndInv, ReportsKnown, Complete, Submitted
<1> QED BY <1>6, <1>7, <1>8 DEF IndInv

\* frameRendered counts the frame: it moves from the response thread to the
\* counted ones, where it was not before.
LEMMA FrameRenderedInv ==
    ASSUME IndInv, TypeInv', NEW r \in Reporters, FrameRendered(r)
    PROVE  IndInv'
<1> DEFINE t == task[r]
           j == task[r].job
<1>1. /\ UNCHANGED <<job_offset, jobs, job_queue, task_queue, dist, results, task, out>>
      /\ report[r] = "found"
      /\ report' = [report EXCEPT ![r] = "counted"]
      /\ total_rendered' = [total_rendered EXCEPT ![r] = job[j].frames_rendered + 1]
      /\ done' = [done EXCEPT ![j] = @ \cup {t.frame}]
  BY DEF FrameRendered, distVars
<1>2. /\ j \in JobId /\ t.frame \in Nat /\ t \in Task
      /\ \A k \in JobId : k # j => job'[k] = job[k]
      /\ job'[j].total_frames = job[j].total_frames
      /\ job'[j].frames_submitted = job[j].frames_submitted
      /\ job'[j].frames_rendered = job[j].frames_rendered + 1
  BY RenderedStep DEF IndInv, TypeInv, TypeOK
<1>3. /\ report \in [Reporters -> {"idle", "found", "counted", "finish", "erased"}]
      /\ total_rendered \in [Reporters -> Nat]
      /\ done \in [JobId -> SUBSET Nat]
      /\ \A k \in JobId : job[k].frames_rendered \in Nat
  BY DEF IndInv, TypeInv, TypeOK, Job
<1>4. /\ report'[r] = "counted" /\ total_rendered'[r] = job[j].frames_rendered + 1
      /\ \A q \in Reporters : q # r => /\ report'[q] = report[q]
                                       /\ total_rendered'[q] = total_rendered[q]
      /\ done'[j] = done[j] \cup {t.frame}
      /\ \A k \in JobId : k # j => done'[k] = done[k]
  BY <1>1, <1>2, <1>3
<1>5. t \in Held /\ t \notin Counted /\ t.frame \notin done[j] /\ j \in jobs
  <2>1. t \in Held
    BY <1>1 DEF Held
  <2>2. t \notin Counted /\ j \in jobs
    BY <2>1, OpenTaskLive
  <2> QED BY <2>1, <2>2, <1>2, Members DEF IndInv, TypeInv, CountedIn
<1>6. Counted' = Counted \cup {t}
  <2>1. CountedIn(done') = CountedIn(done) \cup {t}
    <3>1. ASSUME NEW x \in CountedIn(done') PROVE x \in CountedIn(done) \cup {t}
      <4>1. x \in Task /\ x.job \in JobId /\ x.frame \in done'[x.job]
            /\ x = [job |-> x.job, frame |-> x.frame]
        BY DEF CountedIn, Task
      <4>2. t = [job |-> j, frame |-> t.frame]
        BY <1>2 DEF Task
      <4>3. CASE x.frame \in done[x.job]
        BY <4>1, <4>3 DEF CountedIn
      <4>4. CASE x.frame \notin done[x.job]
        <5>1. x.job = j /\ x.frame = t.frame
          BY <4>1, <4>4, <1>4
        <5> QED BY <5>1, <4>1, <4>2
      <4> QED BY <4>3, <4>4
    <3>2. ASSUME NEW x \in CountedIn(done) PROVE x \in CountedIn(done')
      BY <1>4 DEF CountedIn, Task
    <3>3. t \in CountedIn(done')
      BY <1>2, <1>4 DEF CountedIn
    <3> QED BY <3>1, <3>2, <3>3
  <2> QED BY <2>1, Members, MembersNext DEF IndInv, TypeInv
<1>7. Made' = Made
  <2>1. \A k \in JobId : job'[k].frames_submitted = job[k].frames_submitted
    BY <1>2
  <2>2. MadeIn(job') = MadeIn(job)
    BY <2>1 DEF MadeIn, Task
  <2> QED BY <2>2, Members, MembersNext DEF IndInv, TypeInv
<1>8. Held' = Held \ {t}
  <2>1. \A q \in Reporters : report[q] = "found" /\ task[q] = t => q = r
    BY <1>1 DEF IndInv, FramesConserved
  <2> QED BY <2>1, <1>1, <1>4 DEF Held
<1>9. FramesConserved'
  <2>1. Range(task_queue') = Range(task_queue) /\ Range(results') = Range(results)
    BY <1>1
  <2>2. \A p, q \in Reporters :
          report'[p] = "found" /\ report'[q] = "found" /\ task'[p] = task'[q] => p = q
    BY <1>1, <1>4 DEF IndInv, FramesConserved
  <2> QED BY <1>1, <1>5, <1>6, <1>7, <1>8, <2>1, <2>2 DEF IndInv, FramesConserved
<1> HIDE DEF j
<1>10. CountsExact'
  <2>1. ASSUME NEW k \in JobId
        PROVE  /\ IsFiniteSet(done'[k])
               /\ job'[k].frames_rendered = Cardinality(done'[k])
               /\ k >= job_offset' => job'[k].frames_submitted = 0
    <3>1. IsFiniteSet(done[k]) /\ job[k].frames_rendered = Cardinality(done[k])
          /\ (k >= job_offset => job[k].frames_submitted = 0)
      BY DEF IndInv, CountsExact
    <3>2. CASE k = j
      <4>1. IsFiniteSet(done[k] \cup {t.frame})
            /\ Cardinality(done[k] \cup {t.frame}) = Cardinality(done[k]) + 1
        BY <3>1, <3>2, <1>5, FS_AddElement
      <4> QED BY <4>1, <3>1, <3>2, <1>1, <1>2, <1>4
    <3>3. CASE k # j
      BY <3>1, <3>3, <1>1, <1>2, <1>4
    <3> QED BY <3>2, <3>3
  <2> QED BY <2>1 DEF CountsExact
<1>11. Submitted' = Submitted /\ Submitted \subseteq JobId
  BY <1>1, JobQueueAssumption DEF Submitted, JobId, IndInv, TypeInv, TypeOK
<1>12. \A k \in JobId : /\ job'[k].total_frames = job[k].total_frames
                        /\ job'[k].frames_submitted = job[k].frames_submitted
  BY <1>2
<1>13. GoneIsComplete'
  BY <1>1, <1>4, <1>5, <1>11, <1>12 DEF IndInv, GoneIsComplete, Complete
<1>14. ReportsKnown'
  <2>1. ASSUME NEW q \in Reporters
        PROVE  /\ report'[q] # "idle" => task'[q].job \in Submitted'
               /\ report'[q] = "counted" =>
                    total_rendered'[q] \in 1 .. job'[task'[q].job].frames_rendered
               /\ report'[q] = "finish" /\ task'[q].job \in jobs' => Complete(task[q].job)'
    <3>1. /\ report[q] # "idle" => task[q].job \in Submitted
          /\ report[q] = "counted" =>
               total_rendered[q] \in 1 .. job[task[q].job].frames_rendered
          /\ report[q] = "finish" /\ task[q].job \in jobs => Complete(task[q].job)
      BY DEF IndInv, ReportsKnown
    <3>2. task[q].job \in JobId /\ j = task[r].job
      BY DEF IndInv, TypeInv, TypeOK, Task, j
    <3>3. CASE q = r
      BY <3>1, <3>2, <3>3, <1>1, <1>2, <1>3, <1>4, <1>11
    <3>4. CASE q # r
      <4>1. report'[q] = report[q] /\ total_rendered'[q] = total_rendered[q]
            /\ task'[q] = task[q]
        BY <3>4, <1>1, <1>4
      <4>2. job[task[q].job].frames_rendered <= job'[task[q].job].frames_rendered
            /\ job'[task[q].job].frames_rendered \in Nat
        BY <3>2, <1>2, <1>3
      <4>3. Complete(task[q].job) => Complete(task[q].job)'
        <5>1. SUFFICES ASSUME Complete(task[q].job)
                       PROVE  /\ job'[task[q].job].total_frames > 0
                              /\ done'[task[q].job] = 0 .. job'[task[q].job].total_frames - 1
          BY <4>1 DEF Complete
        <5>2. done'[task[q].job] \subseteq 0 .. job'[task[q].job].total_frames - 1
          <6>1. Counted' \subseteq Made' /\ TypeInv'
            BY <1>9 DEF FramesConserved
          <6>2. done' \in [JobId -> SUBSET Nat] /\ job' \in [JobId -> Job]
                /\ SubmittedBound'
            BY DEF TypeInv, TypeOK
          <6>3. ASSUME NEW f \in done'[task[q].job]
                PROVE  f \in Nat /\ f < job'[task[q].job].frames_submitted
            <7>1. f \in Nat
              BY <3>2, <6>2
            <7>2. [job |-> task[q].job, frame |-> f] \in CountedIn(done')
              BY <3>2, <7>1 DEF CountedIn, Task
            <7>3. [job |-> task[q].job, frame |-> f] \in MadeIn(job')
              BY <7>2, <6>1, MembersNext DEF TypeInv
            <7> QED BY <7>1, <7>3 DEF MadeIn
          <6>4. /\ job'[task[q].job].frames_submitted <= job'[task[q].job].total_frames
                /\ job'[task[q].job] \in Job
            BY <3>2, <6>2 DEF SubmittedBound
          <6> QED BY <6>3, <6>4 DEF Job
        <5>3. done[task[q].job] \subseteq done'[task[q].job]
          BY <3>2, <1>4
        <5> QED BY <5>1, <5>2, <5>3, <3>2, <1>12 DEF Complete
      <4> QED BY <4>1, <4>2, <4>3, <3>1, <1>1, <1>3, <1>11
    <3> QED BY <3>3, <3>4
  <2> QED BY <2>1 DEF ReportsKnown
<1>15. QueueOrder'
  BY <1>1, <1>11, <1>12 DEF IndInv, QueueOrder, FrontId, hasTasks
<1>16. ResultsEmpty'
  BY <1>1 DEF IndInv, ResultsEmpty
<1> QED BY <1>9, <1>10, <1>13, <1>14, <1>15, <1>16 DEF IndInv


\* Steps of a response thread that holds no task move none.
LEMMA ReportConserved ==
    ASSUME IndInv, NEW r \in Reporters, report[r] # "found", NEW v, v # "found",
           report' = [report EXCEPT ![r] = v],
           UNCHANGED <<job, task_queue, results, task, out, done>>
    PROVE  FramesConserved'
<1>1. report \in [Reporters -> {"idle", "found", "counted", "finish", "erased"}]
  BY DEF IndInv, TypeInv, TypeOK
<1>2. report'[r] # "found" /\ \A q \in Reporters : q # r => report'[q] = report[q]
  BY <1>1
<1>3. Held' = Held
  BY <1>2 DEF Held
<1>4. Made' = Made /\ Counted' = Counted
  BY DEF Made, Counted
<1>5. Range(task_queue') = Range(task_queue) /\ Range(results') = Range(results)
  OBVIOUS
<1>6. \A p, q \in Reporters :
        report'[p] = "found" /\ report'[q] = "found" /\ task'[p] = task'[q] => p = q
  BY <1>2 DEF IndInv, FramesConserved
<1> QED BY <1>3, <1>4, <1>5, <1>6 DEF IndInv, FramesConserved

\* The comparison with the total: it sends a live job to finishJob only when
\* the count has reached the total, and then the job is complete.
LEMMA CompareTotalInv ==
    ASSUME IndInv, TypeInv', NEW r \in Reporters, CompareTotal(r)
    PROVE  IndInv'
<1> DEFINE j == task[r].job
<1>1. /\ UNCHANGED <<job_offset, jobs, job, job_queue, task_queue, dist, results, task,
                     total_rendered, out, done>>
      /\ report[r] = "counted"
  BY DEF CompareTotal, queueVars, distVars
<1>2. PICK equal \in BOOLEAN :
        /\ report' = [report EXCEPT ![r] = IF equal THEN "finish" ELSE "idle"]
        /\ j \in jobs => equal = (total_rendered[r] = job[j].total_frames)
  <2>1. PICK equal \in IF j \in jobs THEN {total_rendered[r] = job[j].total_frames}
                                     ELSE BOOLEAN :
          report' = [report EXCEPT ![r] = IF equal THEN "finish" ELSE "idle"]
    BY DEF CompareTotal
  <2>2. equal \in BOOLEAN /\ (j \in jobs => equal = (total_rendered[r] = job[j].total_frames))
    BY <2>1
  <2> QED BY <2>1, <2>2
<1>3. report \in [Reporters -> {"idle", "found", "counted", "finish", "erased"}]
      /\ j \in JobId /\ job \in [JobId -> Job] /\ total_rendered[r] \in Nat
  BY DEF IndInv, TypeInv, TypeOK, Task
<1>4. /\ report'[r] = IF equal THEN "finish" ELSE "idle"
      /\ \A q \in Reporters : q # r => report'[q] = report[q]
  BY <1>2, <1>3
<1>5. FramesConserved'
  <2>1. (IF equal THEN "finish" ELSE "idle") # "found"
    OBVIOUS
  <2> QED BY <1>1, <1>2, <2>1, ReportConserved
<1>6. CountsExact' /\ GoneIsComplete' /\ QueueOrder' /\ ResultsEmpty'
  BY <1>1 DEF IndInv, CountsExact, GoneIsComplete, Complete, QueueOrder, FrontId,
              hasTasks, Submitted, ResultsEmpty
<1>7. j \in Submitted /\ total_rendered[r] \in 1 .. job[j].frames_rendered
  BY <1>1 DEF IndInv, ReportsKnown
<1>8. ASSUME equal, j \in jobs PROVE Complete(j)
  <2>1. job[j].total_frames = total_rendered[r]
    BY <1>2, <1>8
  <2>2. job[j].frames_rendered >= job[j].total_frames /\ job[j].total_frames > 0
    BY <1>3, <1>7, <2>1 DEF Job
  <2>3. done[j] = 0 .. job[j].total_frames - 1
    BY <1>3, <2>2, FullCount DEF IndInv, FramesConserved
  <2> QED BY <2>2, <2>3 DEF Complete
<1>9. ReportsKnown'
  BY <1>1, <1>4, <1>7, <1>8 DEF IndInv, ReportsKnown, Complete, Submitted
<1> QED BY <1>5, <1>6, <1>9 DEF IndInv

\* finishJob deletes a complete job, or finds it gone.
LEMMA FinishJobEraseInv ==
    ASSUME IndInv, TypeInv', NEW r \in Reporters, FinishJobErase(r)
    PROVE  IndInv'
<1> DEFINE j == task[r].job
           v == IF j \in jobs THEN "erased" ELSE "idle"
<1>1. /\ UNCHANGED <<job_offset, job, job_queue, task_queue, dist, results, task,
                     total_rendered, out, done>>
      /\ report[r] = "finish"
      /\ jobs' = jobs \ {j}
      /\ report' = [report EXCEPT ![r] = v]
  BY DEF FinishJobErase, distVars
<1>2. report \in [Reporters -> {"idle", "found", "counted", "finish", "erased"}]
  BY DEF IndInv, TypeInv, TypeOK
<1>3. v # "found" /\ v # "counted" /\ v # "finish"
  OBVIOUS
<1>4. j \in Submitted /\ (j \in jobs => Complete(j))
  BY <1>1 DEF IndInv, ReportsKnown
<1> HIDE DEF v
<1>5. FramesConserved'
  BY <1>1, <1>3, ReportConserved
<1>6. report'[r] = v /\ \A q \in Reporters : q # r => report'[q] = report[q]
  BY <1>1, <1>2
<1>7. CountsExact' /\ QueueOrder' /\ ResultsEmpty'
  BY <1>1 DEF IndInv, CountsExact, QueueOrder, FrontId, hasTasks, Submitted, ResultsEmpty
<1>8. GoneIsComplete'
  BY <1>1, <1>4 DEF IndInv, GoneIsComplete, Complete, Submitted
<1>9. ReportsKnown'
  BY <1>1, <1>3, <1>4, <1>6 DEF IndInv, ReportsKnown, Complete, Submitted
<1> QED BY <1>5, <1>7, <1>8, <1>9 DEF IndInv

\* The end of finishJob.
LEMMA FinishJobPushInv ==
    ASSUME IndInv, TypeInv', NEW r \in Reporters, FinishJobPush(r)
    PROVE  IndInv'
<1>1. /\ UNCHANGED <<job_offset, jobs, job, job_queue, task_queue, dist, results, task,
                     total_rendered, out, done>>
      /\ report[r] = "erased"
      /\ report' = [report EXCEPT ![r] = "idle"]
  BY DEF FinishJobPush, distVars
<1>2. FramesConserved'
  BY <1>1, ReportConserved
<1>3. report \in [Reporters -> {"idle", "found", "counted", "finish", "erased"}]
  BY DEF IndInv, TypeInv, TypeOK
<1>4. report'[r] = "idle" /\ \A q \in Reporters : q # r => report'[q] = report[q]
  BY <1>1, <1>3
<1>5. CountsExact' /\ GoneIsComplete' /\ QueueOrder' /\ ResultsEmpty'
  BY <1>1 DEF IndInv, CountsExact, GoneIsComplete, Complete, QueueOrder, FrontId,
              hasTasks, Submitted, ResultsEmpty
<1>6. ReportsKnown'
  BY <1>1, <1>4 DEF IndInv, ReportsKnown, Complete, Submitted
<1> QED BY <1>2, <1>5, <1>6 DEF IndInv

LEMMA NextIndInv == IndInv /\ [Next]_vars => IndInv'
<1> SUFFICES ASSUME IndInv, [Next]_vars PROVE IndInv'
  OBVIOUS
<1>0. TypeInv'
  BY NextTypeInv DEF IndInv
<1>1. ASSUME NEW frames \in FrameCounts, AddJob(frames) PROVE IndInv'
  BY <1>0, <1>1, AddJobInv
<1>2. ASSUME NEW S \in (SUBSET out) \ {{}}, NEW tasks \in Vectors(S), AddTasks(tasks)
      PROVE  IndInv'
  BY <1>0, <1>2, AddTasksInv
<1>3. ASSUME NEW max \in Capabilities, GetJobsWait(max) PROVE IndInv'
  <2>1. /\ UNCHANGED <<job_offset, jobs, job, job_queue, report, task,
                       total_rendered, done, task_queue, out>>
        /\ dist = "idle" /\ results' = <<>>
    BY <1>3 DEF GetJobsWait, queueVars, reportVars
  <2>2. results = <<>>
    BY <2>1 DEF IndInv, ResultsEmpty
  <2>3. Range(results') = Range(results) /\ IsInjective(results')
    BY <2>1, <2>2 DEF IsInjective
  <2>4. ResultsEmpty'
    BY <2>1 DEF ResultsEmpty
  <2> QED BY <1>0, <2>1, <2>3, <2>4, IdleInv
<1>4. CASE GetJobsPriority
  BY <1>0, <1>4, PriorityInv
<1>5. CASE GetJobsRegular
  BY <1>0, <1>5, RegularInv
<1>6. CASE GetJobsReturn
  BY <1>0, <1>6, ReturnInv
<1>7. ASSUME NEW r \in Reporters, NEW t \in out, FindJob(r, t) PROVE IndInv'
  BY <1>0, <1>7, FindJobInv
<1>8. ASSUME NEW r \in Reporters, FrameRendered(r) PROVE IndInv'
  BY <1>0, <1>8, FrameRenderedInv
<1>9. ASSUME NEW r \in Reporters, CompareTotal(r) PROVE IndInv'
  BY <1>0, <1>9, CompareTotalInv
<1>10. ASSUME NEW r \in Reporters, FinishJobErase(r) PROVE IndInv'
  BY <1>0, <1>10, FinishJobEraseInv
<1>11. ASSUME NEW r \in Reporters, FinishJobPush(r) PROVE IndInv'
  BY <1>0, <1>11, FinishJobPushInv
<1>12. ASSUME UNCHANGED <<job_offset, jobs, job, job_queue, report, task,
                          total_rendered, done, task_queue, out, dist, results>>
       PROVE  IndInv'
  <2>1. IsInjective(results') /\ Range(results') = Range(results)
    BY <1>12 DEF IndInv, FramesConserved
  <2>2. ResultsEmpty'
    BY <1>12 DEF IndInv, ResultsEmpty
  <2> QED BY <1>0, <1>12, <2>1, <2>2, IdleInv
<1>13. CASE StatusFinished
  BY <1>12, <1>13 DEF StatusFinished, distVars, reportVars
<1>14. CASE StatusRunning
  BY <1>12, <1>14 DEF StatusRunning, queueVars, distVars, reportVars
<1>15. CASE UNCHANGED vars
  BY <1>12, <1>15 DEF vars, queueVars, distVars, reportVars
<1> QED BY <1>1, <1>2, <1>3, <1>4, <1>5, <1>6, <1>7, <1>8, <1>9, <1>10, <1>11,
           <1>13, <1>14, <1>15 DEF Next

LEMMA Invariant == Spec => []IndInv
BY InitIndInv, NextIndInv, PTL DEF Spec

\* No frame is lost or duplicated between getNextTask and frameRendered.
THEOREM Conservation == Spec => []FramesConserved
<1>1. IndInv => FramesConserved
  BY DEF IndInv
<1> QED BY <1>1, Invariant, PTL

\* A job is finished and deleted only when all its frames have been rendered.
THEOREM FinishedComplete == Spec => []FinishedIsComplete
BY IndInvSafe, Invariant, PTL

\* getJobs never dereferences the Job of an id that has been deleted.
THEOREM QueueLive == Spec => []QueuedJobsAreLive
BY IndInvSafe, Invariant, PTL

\* A response thread never counts a frame on a Job that has been deleted.
THEOREM CountLive == Spec => []CountedJobIsLive
BY IndInvSafe, Invariant, PTL

\* Jobs are served in the order of their ids.
THEOREM ServedInOrder == Spec => []FirstComeFirstServed
BY IndInvSafe, Invariant, PTL

=============================================================================
