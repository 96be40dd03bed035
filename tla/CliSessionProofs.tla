-------------------------- MODULE CliSessionProofs --------------------------
(***************************************************************************)
(* Proofs about CliSession, for every number of clis, whatever they ask    *)
(* for, and however many go away.                                          *)
(*                                                                         *)
(* The inductive invariant IndInv has one part per argument: each cli is   *)
(* served once, in its turn (TurnInv); a job is made only when all of its  *)
(* request has arrived (RequestInv); an id, and what is said of a job,     *)
(* stay right on their way to the cli (MineInv, TrueInv); a job that left  *)
(* the map is rendered (JobsInv); and the notice of a finished job is in   *)
(* one place at a time (OnceInv).                                          *)
(***************************************************************************)
EXTENDS CliSession, FiniteSetTheorems, SequenceTheorems, TLAPS


\* The places of a cli and of the server's thread.
CliPlaces == {"start", "connected", "done", "gone"}
ServerPlaces == {"accept", "command", "UPLOAD", "shader", "STATUS", "running", "reply",
                 "ended"}
Lines == [job : Nat, finished : BOOLEAN, rendered : Nat, total : Nat]
JobRecords == [by : Clis, total : FrameCounts, rendered : Nat,
               state : {"listed", "erased", "noticed"}]

\* What TypeOK says, and that no job has more frames rendered than it has.
Types ==
    /\ cli \in [Clis -> CliPlaces]
    /\ request \in [Clis -> Requests]
    /\ sent \in [Clis -> 0 .. 3]
    /\ answer \in [Clis -> Seq(Seq(Status))]
    /\ \A c \in Clis : Len(answer[c]) <= 1
    /\ DOMAIN output = Clis
    /\ \A c \in Clis : output[c] \subseteq Lines
    /\ backlog \in Seq(Clis)
    /\ session \in Clis \cup {NoCli}
    /\ server \in ServerPlaces
    /\ (session = NoCli) = (server \in {"accept", "ended"})
    /\ reply \in Seq(Status)
    /\ jobs \in Seq(JobRecords)
    /\ notices \in Seq(Nat)

Uploads(c) == request[c].command = "UPLOAD"
NoJobOf(c) == \A j \in JobIds : Job(j).by # c

\* A cli that waits to be served has no answer and no job yet.
Waits(c) == answer[c] = <<>> /\ output[c] = {} /\ NoJobOf(c)

\* Every cli is served once: it is at its start, in the backlog, the session, or
\* past all of them.
TurnInv ==
    /\ \A c \in Clis : cli[c] = "start" =>
            Waits(c) /\ session # c /\ \A k \in DOMAIN backlog : backlog[k] # c
    /\ \A k \in DOMAIN backlog : /\ cli[backlog[k]] \in {"connected", "gone"}
                                 /\ Waits(backlog[k])
                                 /\ session # backlog[k]
    /\ \A j, k \in DOMAIN backlog : backlog[j] = backlog[k] => j = k
    /\ session # NoCli =>
            /\ cli[session] \in {"connected", "gone"}
            /\ answer[session] = <<>>
            /\ (server = "reply" /\ Uploads(session)) \/ NoJobOf(session)
    /\ \A c \in Clis : cli[c] # "done" => output[c] = {}

\* The server's place goes with the request it reads, all of which arrives.
RequestInv ==
    /\ server \in {"UPLOAD", "shader"} => Uploads(session)
    /\ server \in {"STATUS", "running"} => ~ Uploads(session)
    /\ \A c \in Clis : sent[c] <= Parts(request[c])
    /\ NoPartialUpload

\* The status s answers the upload of c.
IsMine(c, s) ==
    /\ s.job \in JobIds
    /\ Job(s.job).by = c
    /\ Job(s.job).total = request[c].frames

\* On its way to the cli that asked for it, the id of a job stays right.
MineInv ==
    /\ server = "reply" /\ Uploads(session) =>
            \A k \in DOMAIN reply : IsMine(session, reply[k])
    /\ \A c \in Clis : Uploads(c) =>
            /\ \A a \in DOMAIN answer[c] : \A k \in DOMAIN answer[c][a] :
                    IsMine(c, answer[c][a][k])
            /\ \A l \in output[c] : IsMine(c, l)

\* A job that is no longer listed is rendered, and so is one with a notice.
JobsInv ==
    /\ \A j \in JobIds : /\ Job(j).rendered <= Job(j).total
                         /\ Job(j).state # "listed" =>
                                Job(j).rendered = Job(j).total /\ Job(j).total > 0
    /\ \A k \in DOMAIN notices : /\ notices[k] \in JobIds
                                 /\ Job(notices[k]).state = "noticed"
    /\ \A j, k \in DOMAIN notices : notices[j] = notices[k] => j = k

ShowsFinished(s) == s.rendered = 0 /\ s.total = 0

\* What is said of a job was true when it was read, and stays true.
IsTrue(s) ==
    /\ s.job \in JobIds
    /\ IF ShowsFinished(s) THEN Job(s.job).rendered = Job(s.job).total
       ELSE s.rendered \in 0 .. Job(s.job).rendered /\ s.total = Job(s.job).total

TrueInv ==
    /\ server \in {"running", "reply"} /\ ~ Uploads(session) =>
            \A k \in DOMAIN reply : IsTrue(reply[k])
    /\ \A c \in Clis : ~ Uploads(c) =>
            /\ \A a \in DOMAIN answer[c] : \A k \in DOMAIN answer[c][a] :
                    IsTrue(answer[c][a][k])
            /\ \A l \in output[c] : IsTrue(l) /\ l.finished = ShowsFinished(l)

\* The status s says that the job j, which had frames, is finished.
Reports(s, j) == s.job = j /\ ShowsFinished(s) /\ j \in JobIds /\ Job(j).total > 0

InNotices(j) == j \in JobIds /\ Job(j).total > 0 /\ \E k \in DOMAIN notices : notices[k] = j
InReply(j) ==
    /\ server \in {"running", "reply"}
    /\ ~ Uploads(session)
    /\ \E k \in DOMAIN reply : Reports(reply[k], j)
Told(c, j) ==
    /\ ~ Uploads(c)
    /\ \/ \E a \in DOMAIN answer[c] : \E k \in DOMAIN answer[c][a] : Reports(answer[c][a][k], j)
       \/ \E l \in output[c] : Reports(l, j)

\* The notice of a job moves: it is in the list, in the reply, or with one cli.
OnceInv ==
    /\ \A j \in JobIds : InNotices(j) => ~ InReply(j)
    /\ \A c \in Clis : \A j \in JobIds : Told(c, j) => ~ InNotices(j) /\ ~ InReply(j)
    /\ \A b, c \in Clis : \A j \in JobIds : Told(b, j) /\ Told(c, j) => b = c
    /\ \A j \in JobIds : InReply(j) => Job(j).state = "noticed"
    /\ \A c \in Clis : \A j \in JobIds : Told(c, j) => Job(j).state = "noticed"


\* Every step is one of the named actions, or stutters.
LEMMA Actions ==
    ASSUME [Next]_vars
    PROVE  \/ \E c \in Clis : \/ Refuse(c) \/ Connect(c) \/ SendPart(c) \/ Finish(c)
                              \/ GoAway(c)
           \/ \E j \in JobIds : FrameRendered(j) \/ FinishJobErase(j) \/ FinishJobPush(j)
           \/ Accept \/ RecvCommand \/ RecvNumbers \/ HandleUpload \/ RecvFails
           \/ StatusFinished \/ StatusRunning \/ SendReply
           \/ UNCHANGED vars
  BY DEF Next, CliStep, ServerStep

\* Jobs are numbered from 0 and kept from 1.
LEMMA JobFacts ==
    ASSUME Types
    PROVE  /\ Len(jobs) \in Nat
           /\ DOMAIN jobs = 1 .. Len(jobs)
           /\ \A j \in JobIds : /\ j \in Nat
                                /\ j + 1 \in DOMAIN jobs
                                /\ Job(j) \in JobRecords
                                /\ Job(j).by \in Clis
                                /\ Job(j).total \in Nat
                                /\ Job(j).rendered \in Nat
<1>1. jobs \in Seq(JobRecords)
  BY DEF Types
<1>2. Len(jobs) \in Nat /\ DOMAIN jobs = 1 .. Len(jobs)
  BY <1>1
<1>3. ASSUME NEW j \in JobIds
      PROVE  j \in Nat /\ j + 1 \in DOMAIN jobs
  BY <1>2 DEF JobIds
<1>4. ASSUME NEW j \in JobIds
      PROVE  Job(j) \in JobRecords
  BY <1>1, <1>3 DEF Job
<1>5. \A r \in JobRecords : r.by \in Clis /\ r.total \in Nat /\ r.rendered \in Nat
  BY CliAssumption DEF JobRecords
<1> QED BY <1>2, <1>3, <1>4, <1>5

\* A job whose record is replaced.
LEMMA JobReplaced ==
    ASSUME Types, NEW j \in JobIds, NEW r \in JobRecords, jobs' = [jobs EXCEPT ![j + 1] = r]
    PROVE  /\ jobs' \in Seq(JobRecords)
           /\ JobIds' = JobIds
           /\ Job(j)' = r
           /\ \A i \in JobIds : i # j => Job(i)' = Job(i)
<1>1. jobs \in Seq(JobRecords) /\ j + 1 \in 1 .. Len(jobs) /\ Len(jobs) \in Nat
  BY JobFacts DEF Types
<1>2. jobs' \in Seq(JobRecords) /\ Len(jobs') = Len(jobs) /\ DOMAIN jobs' = DOMAIN jobs
  BY <1>1
<1>3. JobIds' = JobIds
  BY <1>2 DEF JobIds
<1>4. ASSUME NEW i \in JobIds, i # j
      PROVE  jobs'[i + 1] = jobs[i + 1]
  <2>1. i + 1 # j + 1 /\ i + 1 \in DOMAIN jobs
    BY <1>4, JobFacts
  <2> QED BY <2>1
<1>5. jobs'[j + 1] = r
  BY <1>1, JobFacts
<1> QED BY <1>2, <1>3, <1>4, <1>5 DEF Job

\* A frame counted: only that number changes.
LEMMA FrameRenderedFacts ==
    ASSUME Types, NEW j \in JobIds, FrameRendered(j)
    PROVE  /\ jobs' \in Seq(JobRecords)
           /\ JobIds' = JobIds
           /\ Job(j).rendered < Job(j).total
           /\ Job(j)' = [Job(j) EXCEPT !.rendered = Job(j).rendered + 1]
           /\ Job(j)'.by = Job(j).by
           /\ Job(j)'.total = Job(j).total
           /\ Job(j)'.state = Job(j).state
           /\ Job(j)'.rendered = Job(j).rendered + 1
           /\ \A i \in JobIds : i # j => Job(i)' = Job(i)
<1> DEFINE r == [Job(j) EXCEPT !.rendered = Job(j).rendered + 1]
<1>1. Job(j) \in JobRecords /\ Job(j).rendered \in Nat
  BY JobFacts
<1>2. /\ r \in JobRecords
      /\ r.by = Job(j).by /\ r.total = Job(j).total /\ r.state = Job(j).state
      /\ r.rendered = Job(j).rendered + 1
  BY <1>1 DEF JobRecords
<1>3. jobs' = [jobs EXCEPT ![j + 1] = r] /\ Job(j).rendered < Job(j).total
  BY DEF FrameRendered, Job
<1> HIDE DEF r
<1>4. PICK x \in JobRecords : x = r
  BY <1>2
<1>5. jobs' = [jobs EXCEPT ![j + 1] = x]
  BY <1>3, <1>4
<1>6. /\ jobs' \in Seq(JobRecords) /\ JobIds' = JobIds /\ Job(j)' = x
      /\ \A i \in JobIds : i # j => Job(i)' = Job(i)
  BY <1>5, JobReplaced
<1> QED BY <1>2, <1>3, <1>4, <1>6 DEF r


\* A job erased from the map.
LEMMA EraseFacts ==
    ASSUME Types, NEW j \in JobIds, FinishJobErase(j)
    PROVE  /\ jobs' \in Seq(JobRecords)
           /\ JobIds' = JobIds
           /\ Job(j).state = "listed"
           /\ Job(j)'.by = Job(j).by
           /\ Job(j)'.total = Job(j).total
           /\ Job(j)'.state = "erased"
           /\ Job(j)'.rendered = Job(j).rendered
           /\ \A i \in JobIds : i # j => Job(i)' = Job(i)
<1> DEFINE r == [Job(j) EXCEPT !.state = "erased"]
<1>1. Job(j) \in JobRecords
  BY JobFacts
<1>2. /\ r \in JobRecords
      /\ r.by = Job(j).by /\ r.total = Job(j).total /\ r.rendered = Job(j).rendered
      /\ r.state = "erased"
  BY <1>1 DEF JobRecords
<1>3. jobs' = [jobs EXCEPT ![j + 1] = r] /\ Job(j).state = "listed"
  BY DEF FinishJobErase, Job
<1> HIDE DEF r
<1>4. PICK x \in JobRecords : x = r
  BY <1>2
<1>5. jobs' = [jobs EXCEPT ![j + 1] = x]
  BY <1>3, <1>4
<1>6. /\ jobs' \in Seq(JobRecords) /\ JobIds' = JobIds /\ Job(j)' = x
      /\ \A i \in JobIds : i # j => Job(i)' = Job(i)
  BY <1>5, JobReplaced
<1> QED BY <1>2, <1>3, <1>4, <1>6


\* A job whose notice is added.
LEMMA PushFacts ==
    ASSUME Types, NEW j \in JobIds, FinishJobPush(j)
    PROVE  /\ jobs' \in Seq(JobRecords)
           /\ JobIds' = JobIds
           /\ Job(j).state = "erased"
           /\ Job(j)'.by = Job(j).by
           /\ Job(j)'.total = Job(j).total
           /\ Job(j)'.state = "noticed"
           /\ Job(j)'.rendered = Job(j).rendered
           /\ \A i \in JobIds : i # j => Job(i)' = Job(i)
<1> DEFINE r == [Job(j) EXCEPT !.state = "noticed"]
<1>1. Job(j) \in JobRecords
  BY JobFacts
<1>2. /\ r \in JobRecords
      /\ r.by = Job(j).by /\ r.total = Job(j).total /\ r.rendered = Job(j).rendered
      /\ r.state = "noticed"
  BY <1>1 DEF JobRecords
<1>3. jobs' = [jobs EXCEPT ![j + 1] = r] /\ Job(j).state = "erased"
  BY DEF FinishJobPush, Job
<1> HIDE DEF r
<1>4. PICK x \in JobRecords : x = r
  BY <1>2
<1>5. jobs' = [jobs EXCEPT ![j + 1] = x]
  BY <1>3, <1>4
<1>6. /\ jobs' \in Seq(JobRecords) /\ JobIds' = JobIds /\ Job(j)' = x
      /\ \A i \in JobIds : i # j => Job(i)' = Job(i)
  BY <1>5, JobReplaced
<1> QED BY <1>2, <1>3, <1>4, <1>6


\* The job an upload adds.
LEMMA UploadFacts ==
    ASSUME Types, RequestInv, HandleUpload
    PROVE  /\ jobs' \in Seq(JobRecords)
           /\ session \in Clis
           /\ Len(jobs) \in Nat
           /\ Len(jobs) \notin JobIds
           /\ JobIds' = JobIds \cup {Len(jobs)}
           /\ \A i \in JobIds : Job(i)' = Job(i)
           /\ jobs'[Len(jobs) + 1] =
                [by |-> session, total |-> request[session].frames, rendered |-> 0,
                 state |-> "listed"]
<1> DEFINE r == [by |-> session, total |-> request[session].frames, rendered |-> 0,
                 state |-> "listed"]
<1>1. session \in Clis /\ request[session] \in Requests /\ jobs \in Seq(JobRecords)
  BY DEF Types, HandleUpload
<1>2. request[session].frames \in FrameCounts
  <2>1. request[session].command = "UPLOAD"
    BY DEF RequestInv, Uploads, HandleUpload
  <2> QED BY <1>1, <2>1 DEF Requests
<1>3. r \in JobRecords
  BY <1>1, <1>2 DEF JobRecords
<1>4. jobs' = Append(jobs, r)
  BY DEF HandleUpload
<1> HIDE DEF r
<1>5. /\ jobs' \in Seq(JobRecords)
      /\ Len(jobs) \in Nat
      /\ DOMAIN jobs = 1 .. Len(jobs)
      /\ Len(jobs') = Len(jobs) + 1
      /\ jobs'[Len(jobs) + 1] = r
  BY <1>1, <1>3, <1>4
<1>6. \A k \in DOMAIN jobs : jobs'[k] = jobs[k]
  BY <1>1, <1>3, <1>4
<1>7. JobIds' = JobIds \cup {Len(jobs)} /\ Len(jobs) \notin JobIds
  BY <1>5 DEF JobIds
<1> QED BY <1>1, <1>5, <1>6, <1>7, JobFacts DEF Job, r


\* A job keeps who submitted it and its frames; the frames rendered only grow, and a
\* notice is not taken back.
LEMMA JobsGrow ==
    ASSUME Types, RequestInv, [Next]_vars
    PROVE  /\ \A i \in JobIds :
                /\ i \in JobIds'
                /\ Job(i)'.by = Job(i).by
                /\ Job(i)'.total = Job(i).total
                /\ Job(i)'.rendered \in Nat /\ Job(i)'.rendered >= Job(i).rendered
                /\ Job(i).rendered = Job(i).total => Job(i)'.rendered = Job(i).rendered
                /\ Job(i).state = "noticed" => Job(i)'.state = "noticed"
           /\ \A i \in JobIds' : i \in JobIds \/ (HandleUpload /\ i = Len(jobs))
<1> DEFINE Kept == \A i \in JobIds :
                     /\ i \in JobIds'
                     /\ Job(i)'.by = Job(i).by
                     /\ Job(i)'.total = Job(i).total
                     /\ Job(i)'.rendered \in Nat /\ Job(i)'.rendered >= Job(i).rendered
                     /\ Job(i).rendered = Job(i).total => Job(i)'.rendered = Job(i).rendered
                     /\ Job(i).state = "noticed" => Job(i)'.state = "noticed"
<1>1. ASSUME NEW j \in JobIds, FrameRendered(j) PROVE Kept /\ JobIds' = JobIds
  <2>1. \A i \in JobIds : Job(i).rendered \in Nat /\ Job(i).total \in Nat
    BY JobFacts
  <2> QED BY <1>1, <2>1, FrameRenderedFacts
<1>2. ASSUME NEW j \in JobIds, FinishJobErase(j) PROVE Kept /\ JobIds' = JobIds
  BY <1>2, EraseFacts, JobFacts
<1>3. ASSUME NEW j \in JobIds, FinishJobPush(j) PROVE Kept /\ JobIds' = JobIds
  BY <1>3, PushFacts, JobFacts
<1>4. ASSUME HandleUpload PROVE Kept /\ JobIds' = JobIds \cup {Len(jobs)}
  BY <1>4, UploadFacts, JobFacts
<1>5. ASSUME UNCHANGED jobs PROVE Kept /\ JobIds' = JobIds
  BY <1>5, JobFacts DEF JobIds, Job
<1> HIDE DEF Kept
<1>6. \/ \E j \in JobIds : FrameRendered(j) \/ FinishJobErase(j) \/ FinishJobPush(j)
      \/ HandleUpload
      \/ UNCHANGED jobs
  BY Actions
     DEF Refuse, Connect, SendPart, Finish, GoAway, Accept, RecvCommand, RecvNumbers,
         RecvFails, StatusFinished, StatusRunning, SendReply, vars, queueVars
<1>7. Kept /\ \/ JobIds' = JobIds
              \/ HandleUpload /\ JobIds' = JobIds \cup {Len(jobs)}
  BY <1>1, <1>2, <1>3, <1>4, <1>5, <1>6, Zenon
<1>8. \A i \in JobIds' : i \in JobIds \/ (HandleUpload /\ i = Len(jobs))
  BY <1>7, Zenon
<1> QED BY <1>7, <1>8, Zenon DEF Kept

\* What is said of a job stays right.
LEMMA SaidStays ==
    ASSUME Types, RequestInv, [Next]_vars
    PROVE  /\ request' = request
           /\ \A c : Uploads(c)' = Uploads(c)
           /\ \A c, s : IsMine(c, s) => IsMine(c, s)'
<1>1. request' = request
  BY Actions
     DEF Refuse, Connect, SendPart, Finish, GoAway, Accept, RecvCommand, RecvNumbers,
         HandleUpload, RecvFails, StatusFinished, StatusRunning, SendReply, FrameRendered,
         FinishJobErase, FinishJobPush, vars, cliVars
<1>2. \A c : Uploads(c)' = Uploads(c)
  BY <1>1 DEF Uploads
<1>3. ASSUME NEW c, NEW s, IsMine(c, s) PROVE IsMine(c, s)'
  BY <1>1, <1>3, JobsGrow DEF IsMine
<1> QED BY <1>1, <1>2, <1>3

\* A status that is true stays true.
LEMMA TrueStays ==
    ASSUME Types, RequestInv, [Next]_vars
    PROVE  \A s : IsTrue(s) => IsTrue(s)'
<1> SUFFICES ASSUME NEW s, IsTrue(s) PROVE IsTrue(s)'
  OBVIOUS
<1>1. /\ s.job \in JobIds /\ s.job \in JobIds'
      /\ Job(s.job).rendered \in Nat
      /\ Job(s.job)'.rendered \in Nat
      /\ Job(s.job)'.rendered >= Job(s.job).rendered
      /\ Job(s.job)'.total = Job(s.job).total
      /\ Job(s.job).rendered = Job(s.job).total => Job(s.job)'.rendered = Job(s.job).rendered
  BY JobsGrow, JobFacts DEF IsTrue
<1>2. CASE ShowsFinished(s)
  BY <1>1, <1>2 DEF IsTrue, ShowsFinished
<1>3. CASE ~ ShowsFinished(s)
  <2>1. s.rendered \in 0 .. Job(s.job).rendered /\ s.total = Job(s.job).total
    BY <1>3 DEF IsTrue
  <2>2. s.rendered \in 0 .. Job(s.job)'.rendered
    BY <1>1, <2>1
  <2> QED BY <1>1, <1>3, <2>1, <2>2 DEF IsTrue, ShowsFinished
<1> QED BY <1>2, <1>3


\* A sequence that is not empty has an element.
LEMMA NotEmpty ==
    ASSUME NEW S, NEW s \in Seq(S), s # <<>>
    PROVE  Len(s) \in Nat /\ Len(s) > 0
  OBVIOUS

\* A sequence with one element.
LEMMA OneElement ==
    ASSUME NEW S, NEW s \in Seq(S), s # <<>>, Len(s) <= 1
    PROVE  DOMAIN s = {1}
<1>1. Len(s) \in Nat /\ Len(s) > 0
  BY NotEmpty
<1> DEFINE n == Len(s)
<1>2. n \in Nat /\ n > 0 /\ n <= 1 /\ DOMAIN s = 1 .. n
  BY <1>1
<1> HIDE DEF n
<1> QED BY <1>2

\* What an answer and a reply consist of.
LEMMA AnswerFacts ==
    ASSUME Types
    PROVE  /\ \A c \in Clis : /\ answer[c] \in Seq(Seq(Status))
                              /\ answer[c] # <<>> => DOMAIN answer[c] = {1}
                              /\ answer[c] = <<>> => DOMAIN answer[c] = {}
                              /\ \A a \in DOMAIN answer[c] : answer[c][a] \in Seq(Status)
                              /\ \A a \in DOMAIN answer[c] : \A k \in DOMAIN answer[c][a] :
                                    answer[c][a][k] \in Status
           /\ \A k \in DOMAIN reply : reply[k] \in Status
           /\ \A s \in Status : s.job \in Nat /\ s.rendered \in Nat /\ s.total \in Nat
<1>1. ASSUME NEW c \in Clis
      PROVE  /\ answer[c] \in Seq(Seq(Status))
             /\ answer[c] # <<>> => DOMAIN answer[c] = {1}
             /\ answer[c] = <<>> => DOMAIN answer[c] = {}
             /\ \A a \in DOMAIN answer[c] : answer[c][a] \in Seq(Status)
  <2>1. answer[c] \in Seq(Seq(Status)) /\ Len(answer[c]) <= 1
    BY DEF Types
  <2>2. Len(answer[c]) \in Nat /\ DOMAIN answer[c] = 1 .. Len(answer[c])
    BY <2>1
  <2>3. ASSUME answer[c] # <<>> PROVE DOMAIN answer[c] = {1}
    BY <2>1, <2>3, OneElement
  <2>4. \A a \in DOMAIN answer[c] : answer[c][a] \in Seq(Status)
    BY <2>1
  <2> QED BY <2>1, <2>2, <2>3, <2>4
<1>2. ASSUME NEW c \in Clis, NEW a \in DOMAIN answer[c], NEW k \in DOMAIN answer[c][a]
      PROVE  answer[c][a][k] \in Status
  <2>1. answer[c][a] \in Seq(Status)
    BY <1>1
  <2> QED BY <2>1
<1>3. \A k \in DOMAIN reply : reply[k] \in Status
  BY DEF Types
<1>4. \A s \in Status : s.job \in Nat /\ s.rendered \in Nat /\ s.total \in Nat
  BY DEF Status
<1> QED BY <1>1, <1>2, <1>3, <1>4

\* What a cli prints: a line for each status of its answer.
LEMMA FinishFacts ==
    ASSUME Types, NEW c \in Clis, Finish(c)
    PROVE  /\ answer[c] # <<>>
           /\ 1 \in DOMAIN answer[c]
           /\ answer'[c] = <<>>
           /\ \A b \in Clis : b # c => answer'[b] = answer[b] /\ output'[b] = output[b]
           /\ \A l \in output'[c] : \E k \in DOMAIN answer[c][1] :
                /\ l = Line(answer[c][1][k])
                /\ l \in Lines
                /\ l.job = answer[c][1][k].job
                /\ l.rendered = answer[c][1][k].rendered
                /\ l.total = answer[c][1][k].total
                /\ l.finished = ShowsFinished(answer[c][1][k])
                /\ ShowsFinished(l) = ShowsFinished(answer[c][1][k])
<1>1. answer[c] # <<>> /\ 1 \in DOMAIN answer[c]
  BY AnswerFacts DEF Finish
<1>2. /\ answer'[c] = <<>>
      /\ \A b \in Clis : b # c => answer'[b] = answer[b] /\ output'[b] = output[b]
      /\ output'[c] = {Line(s) : s \in Range(answer[c][1])}
  BY DEF Finish, Types
<1>3. ASSUME NEW k \in DOMAIN answer[c][1]
      PROVE  LET s == answer[c][1][k]
                 l == Line(s)
             IN  /\ l \in Lines
                 /\ l.job = s.job /\ l.rendered = s.rendered /\ l.total = s.total
                 /\ l.finished = ShowsFinished(s)
                 /\ ShowsFinished(l) = ShowsFinished(s)
  <2>1. answer[c][1][k] \in Status
    BY <1>1, AnswerFacts
  <2> QED BY <2>1 DEF Line, Lines, ShowsFinished, Status
<1>4. ASSUME NEW l \in output'[c]
      PROVE  \E k \in DOMAIN answer[c][1] : l = Line(answer[c][1][k])
  BY <1>2, <1>4 DEF Range
<1> QED BY <1>1, <1>2, <1>3, <1>4

\* The list made of the notices.
LEMMA NoticedFacts ==
    ASSUME Types, StatusFinished
    PROVE  /\ reply' \in Seq(Status)
           /\ DOMAIN reply' = DOMAIN notices
           /\ \A k \in DOMAIN notices : /\ reply'[k].job = notices[k]
                                        /\ ShowsFinished(reply'[k])
           /\ notices' = <<>>
<1>1. notices \in Seq(Nat)
  BY DEF Types
<1>2. Len(notices) \in Nat /\ DOMAIN notices = 1 .. Len(notices)
      /\ \A k \in DOMAIN notices : notices[k] \in Nat
  BY <1>1
<1>3. reply' = [k \in DOMAIN notices |-> [job |-> notices[k], rendered |-> 0, total |-> 0]]
      /\ notices' = <<>>
  BY DEF StatusFinished
<1>4. \A k \in DOMAIN notices : [job |-> notices[k], rendered |-> 0, total |-> 0] \in Status
  BY <1>2 DEF Status
<1>5. reply' \in [1 .. Len(notices) -> Status]
  BY <1>2, <1>3, <1>4
<1>6. reply' \in Seq(Status)
  BY <1>2, <1>5
<1> QED BY <1>3, <1>6 DEF ShowsFinished

\* The rest of the list: each job still in the map, after the finished ones.
LEMMA RunningFacts ==
    ASSUME Types, StatusRunning
    PROVE  /\ reply' \in Seq(Status)
           /\ \A k \in DOMAIN reply' :
                \/ k \in DOMAIN reply /\ reply'[k] = reply[k]
                \/ \E j \in JobIds : /\ Job(j).state = "listed"
                                     /\ reply'[k].job = j
                                     /\ reply'[k].rendered = Job(j).rendered
                                     /\ reply'[k].total = Job(j).total
<1> DEFINE entry(j) == [job |-> j, rendered |-> Job(j).rendered, total |-> Job(j).total]
<1> DEFINE n == Cardinality(Running)
<1>1. PICK order \in [1 .. n -> Running] :
          reply' = reply \o [i \in DOMAIN order |-> entry(order[i])]
  BY DEF StatusRunning
<1> DEFINE rest == [i \in DOMAIN order |-> entry(order[i])]
<1>2. n \in Nat
  <2>1. IsFiniteSet(0 .. Len(jobs) - 1)
    BY JobFacts, FS_Interval
  <2>2. Running \subseteq 0 .. Len(jobs) - 1
    BY DEF Running, JobIds
  <2>3. IsFiniteSet(Running)
    BY <2>1, <2>2, FS_Subset
  <2> QED BY <2>3, FS_CardinalityType
<1>3. \A j \in Running : j \in JobIds /\ Job(j).state = "listed" /\ entry(j) \in Status
  BY JobFacts DEF Running, Status
<1>4. rest \in Seq(Status) /\ DOMAIN rest = 1 .. n /\ Len(rest) = n
  BY <1>2, <1>3
<1>5. \A i \in 1 .. n : order[i] \in Running /\ rest[i] = entry(order[i])
  OBVIOUS
<1>6. reply \in Seq(Status) /\ Len(reply) \in Nat /\ DOMAIN reply = 1 .. Len(reply)
  BY DEF Types
<1>7. reply' = reply \o rest
  BY <1>1
<1> HIDE DEF rest, n, entry
<1>8. /\ reply' \in Seq(Status)
      /\ Len(reply') = Len(reply) + n
      /\ \A k \in 1 .. Len(reply) + n :
            reply'[k] = IF k <= Len(reply) THEN reply[k] ELSE rest[k - Len(reply)]
  BY <1>4, <1>6, <1>7, ConcatProperties
<1>9. DOMAIN reply' = 1 .. Len(reply) + n
  BY <1>2, <1>6, <1>8
<1>10. ASSUME NEW k \in DOMAIN reply', k > Len(reply)
       PROVE  \E j \in JobIds : /\ Job(j).state = "listed"
                                /\ reply'[k].job = j
                                /\ reply'[k].rendered = Job(j).rendered
                                /\ reply'[k].total = Job(j).total
  <2>1. k - Len(reply) \in 1 .. n /\ reply'[k] = rest[k - Len(reply)]
    BY <1>2, <1>6, <1>8, <1>9, <1>10
  <2>2. PICK j \in Running : reply'[k] = entry(j)
    BY <1>5, <2>1
  <2> QED BY <1>3, <2>2 DEF entry
<1>11. ASSUME NEW k \in DOMAIN reply', ~ (k > Len(reply))
       PROVE  k \in DOMAIN reply /\ reply'[k] = reply[k]
  BY <1>2, <1>6, <1>8, <1>9, <1>11
<1> QED BY <1>8, <1>10, <1>11

\* The types are kept.
LEMMA TypesStep ==
    ASSUME Types, RequestInv, [Next]_vars
    PROVE  Types'
<1> USE CliAssumption DEF Types, CliPlaces, ServerPlaces
<1>1. ASSUME NEW c \in Clis, Refuse(c) PROVE Types'
  BY <1>1 DEF Refuse, cliVars, queueVars
<1>2. ASSUME NEW c \in Clis, Connect(c) PROVE Types'
  BY <1>2 DEF Connect, cliVars, queueVars
<1>3. ASSUME NEW c \in Clis, SendPart(c) PROVE Types'
  <2>1. sent[c] \in 0 .. 3 /\ sent[c] < 3
    BY <1>3 DEF SendPart, Parts
  <2>2. sent' \in [Clis -> 0 .. 3]
    BY <1>3, <2>1 DEF SendPart
  <2> QED BY <1>3, <2>2 DEF SendPart, queueVars
<1>4. ASSUME NEW c \in Clis, Finish(c) PROVE Types'
  <2>1. output'[c] \subseteq Lines
    BY <1>4, FinishFacts
  <2>2. \A b \in Clis : output'[b] \subseteq Lines
    BY <1>4, <2>1, FinishFacts
  <2>3. answer' \in [Clis -> Seq(Seq(Status))] /\ \A b \in Clis : Len(answer'[b]) <= 1
    BY <1>4, FinishFacts DEF Finish
  <2> QED BY <1>4, <2>2, <2>3 DEF Finish, queueVars
<1>5. ASSUME NEW c \in Clis, GoAway(c) PROVE Types'
  BY <1>5 DEF GoAway, cliVars, queueVars
<1>6. ASSUME NEW j \in JobIds, FrameRendered(j) PROVE Types'
  BY <1>6, FrameRenderedFacts DEF FrameRendered, cliVars
<1>7. ASSUME NEW j \in JobIds, FinishJobErase(j) PROVE Types'
  BY <1>7, EraseFacts DEF FinishJobErase, cliVars
<1>8. ASSUME NEW j \in JobIds, FinishJobPush(j) PROVE Types'
  <2>1. notices' \in Seq(Nat)
    BY <1>8, JobFacts DEF FinishJobPush
  <2> QED BY <1>8, <2>1, PushFacts DEF FinishJobPush, cliVars
<1>9. CASE Accept
  BY <1>9 DEF Accept, cliVars, queueVars
<1>10. CASE RecvCommand
  <2>1. session \in Clis /\ request[session] \in Requests
    BY <1>10 DEF RecvCommand
  <2>2. request[session].command \in {"UPLOAD", "STATUS"}
    BY <2>1 DEF Requests
  <2> QED BY <1>10, <2>2 DEF RecvCommand, cliVars, queueVars
<1>11. CASE RecvNumbers
  BY <1>11 DEF RecvNumbers, cliVars, queueVars
<1>12. CASE HandleUpload
  <2>1. reply' \in Seq(Status)
    <3>1. [job |-> Len(jobs), rendered |-> 0, total |-> 0] \in Status
      BY JobFacts DEF Status
    <3> QED BY <1>12, <3>1 DEF HandleUpload
  <2> QED BY <1>12, <2>1, UploadFacts DEF HandleUpload, cliVars
<1>13. CASE RecvFails
  BY <1>13 DEF RecvFails, cliVars, queueVars
<1>14. CASE StatusFinished
  <2>1. notices' \in Seq(Nat)
    <3>1. notices' = <<>>
      BY <1>14, NoticedFacts
    <3> QED BY <3>1
  <2>2. reply' \in Seq(Status)
    BY <1>14, NoticedFacts
  <2> QED BY <1>14, <2>1, <2>2 DEF StatusFinished, cliVars
<1>15. CASE StatusRunning
  <2>1. /\ server' = "reply" /\ server = "running"
        /\ UNCHANGED <<cli, request, sent, output, answer, backlog, session, jobs, notices>>
    BY <1>15 DEF StatusRunning, cliVars, queueVars
  <2>2. reply' \in Seq(Status)
    BY <1>15, RunningFacts
  <2> QED BY <2>1, <2>2
<1>16. CASE SendReply
  BY <1>16 DEF SendReply, cliVars, queueVars
<1>17. CASE UNCHANGED vars
  BY <1>17 DEF vars, cliVars, queueVars
<1> QED BY Actions, <1>1, <1>2, <1>3, <1>4, <1>5, <1>6, <1>7, <1>8, <1>9, <1>10,
    <1>11, <1>12, <1>13, <1>14, <1>15, <1>16, <1>17


\* Only an upload gives a cli a job.
LEMMA NoJobStays ==
    ASSUME Types, RequestInv, [Next]_vars, NEW c, NoJobOf(c), ~ (HandleUpload /\ c = session)
    PROVE  NoJobOf(c)'
<1> SUFFICES ASSUME NEW i \in JobIds' PROVE Job(i)'.by # c
  BY DEF NoJobOf
<1>1. CASE i \in JobIds
  BY <1>1, JobsGrow DEF NoJobOf
<1>2. CASE HandleUpload /\ i = Len(jobs)
  <2>1. jobs'[i + 1] = [by |-> session, total |-> request[session].frames, rendered |-> 0,
                        state |-> "listed"]
    BY <1>2, UploadFacts
  <2>2. Job(i)'.by = session
    BY <2>1 DEF Job
  <2> QED BY <1>2, <2>2
<1> QED BY <1>1, <1>2, JobsGrow

\* The connection of a cli waits behind the others.
LEMMA ConnectFacts ==
    ASSUME Types, NEW c \in Clis, Connect(c)
    PROVE  \A k \in DOMAIN backlog' :
                \/ k \in DOMAIN backlog /\ backlog'[k] = backlog[k]
                \/ k = Len(backlog) + 1 /\ backlog'[k] = c
<1>1. backlog \in Seq(Clis) /\ backlog' = Append(backlog, c)
  BY DEF Types, Connect
<1>2. Len(backlog) \in Nat /\ DOMAIN backlog = 1 .. Len(backlog)
      /\ DOMAIN backlog' = 1 .. Len(backlog) + 1 /\ backlog'[Len(backlog) + 1] = c
  BY <1>1
<1>3. \A k \in DOMAIN backlog : backlog'[k] = backlog[k]
  BY <1>1
<1> QED BY <1>2, <1>3

\* The first connection becomes the session, the others move up.
LEMMA AcceptFacts ==
    ASSUME Types, Accept
    PROVE  /\ 1 \in DOMAIN backlog
           /\ session' = backlog[1]
           /\ session' \in Clis
           /\ \A k \in DOMAIN backlog' : /\ k \in Nat /\ k > 0
                                         /\ k + 1 \in DOMAIN backlog
                                         /\ backlog'[k] = backlog[k + 1]
<1>1. backlog \in Seq(Clis) /\ backlog # <<>> /\ backlog' = Tail(backlog)
      /\ session' = Head(backlog)
  BY DEF Types, Accept
<1>2. Len(backlog) \in Nat /\ Len(backlog) > 0 /\ DOMAIN backlog = 1 .. Len(backlog)
  BY <1>1, NotEmpty
<1>3. DOMAIN backlog' = 1 .. Len(backlog) - 1 /\ session' = backlog[1] /\ session' \in Clis
  BY <1>1, <1>2
<1>4. \A k \in DOMAIN backlog' : backlog'[k] = backlog[k + 1]
  BY <1>1, <1>2, <1>3
<1> QED BY <1>2, <1>3, <1>4

\* Waiting goes on while nothing is sent to the cli and no job made for it.
LEMMA WaitsStays ==
    ASSUME Types, RequestInv, [Next]_vars, NEW c, Waits(c),
           ~ (HandleUpload /\ c = session), answer'[c] = answer[c], output'[c] = output[c]
    PROVE  Waits(c)'
  BY NoJobStays DEF Waits

\* TurnInv is kept.
LEMMA TurnStep ==
    ASSUME Types, TurnInv, RequestInv, [Next]_vars
    PROVE  TurnInv'
<1> USE DEF TurnInv
<1>1. ASSUME NEW c \in Clis, Refuse(c) PROVE TurnInv'
  BY <1>1 DEF Refuse, cliVars, queueVars, Waits, NoJobOf, JobIds, Job, Types,
    CliPlaces, ServerPlaces, Uploads
<1>2. ASSUME NEW c \in Clis, Connect(c) PROVE TurnInv'
  <2>1. /\ cli[c] = "start" /\ cli'[c] = "connected"
        /\ \A b \in Clis : b # c => cli'[b] = cli[b]
        /\ UNCHANGED <<request, answer, output, session, server, jobs>>
    BY <1>2 DEF Connect, Types, queueVars
  <2>2. \A b : (Waits(b)' = Waits(b)) /\ (NoJobOf(b)' = NoJobOf(b)) /\ (Uploads(b)' = Uploads(b))
    BY <2>1 DEF Waits, NoJobOf, JobIds, Job, Uploads
  <2>3. \A k \in DOMAIN backlog : backlog[k] \in Clis
    BY DEF Types
  <2>4. session = NoCli \/ session \in Clis
    BY DEF Types
  <2> QED BY <1>2, <2>1, <2>2, <2>3, <2>4, ConnectFacts
<1>3. ASSUME NEW c \in Clis, SendPart(c) PROVE TurnInv'
  BY <1>3 DEF SendPart, cliVars, queueVars, Waits, NoJobOf, JobIds, Job, Types,
    CliPlaces, ServerPlaces, Uploads
<1>4. ASSUME NEW c \in Clis, Finish(c) PROVE TurnInv'
  BY <1>4 DEF Finish, cliVars, queueVars, Waits, NoJobOf, JobIds, Job, Types,
    CliPlaces, ServerPlaces, Uploads
<1>5. ASSUME NEW c \in Clis, GoAway(c) PROVE TurnInv'
  BY <1>5 DEF GoAway, cliVars, queueVars, Waits, NoJobOf, JobIds, Job, Types,
    CliPlaces, ServerPlaces, Uploads
<1>6. ASSUME NEW j \in JobIds, FrameRendered(j) PROVE TurnInv'
  <2>1. UNCHANGED <<cli, answer, output, backlog, session, server>>
    BY <1>6 DEF FrameRendered, cliVars
  <2>2. \A b : NoJobOf(b) => NoJobOf(b)'
    BY <1>6, JobFacts, FrameRenderedFacts DEF NoJobOf
  <2>3. \A b : Waits(b) => Waits(b)'
    BY <2>1, <2>2 DEF Waits
  <2>4. request' = request
    BY <1>6 DEF FrameRendered, cliVars
  <2>5. \A b : Uploads(b)' = Uploads(b)
    BY <2>4 DEF Uploads
  <2> QED BY <2>1, <2>2, <2>3, <2>5
<1>7. ASSUME NEW j \in JobIds, FinishJobErase(j) PROVE TurnInv'
  <2>1. UNCHANGED <<cli, answer, output, backlog, session, server>>
    BY <1>7 DEF FinishJobErase, cliVars
  <2>2. \A b : NoJobOf(b) => NoJobOf(b)'
    BY <1>7, JobFacts, EraseFacts DEF NoJobOf
  <2>3. \A b : Waits(b) => Waits(b)'
    BY <2>1, <2>2 DEF Waits
  <2>4. request' = request
    BY <1>7 DEF FinishJobErase, cliVars
  <2>5. \A b : Uploads(b)' = Uploads(b)
    BY <2>4 DEF Uploads
  <2> QED BY <2>1, <2>2, <2>3, <2>5
<1>8. ASSUME NEW j \in JobIds, FinishJobPush(j) PROVE TurnInv'
  <2>1. UNCHANGED <<cli, answer, output, backlog, session, server>>
    BY <1>8 DEF FinishJobPush, cliVars
  <2>2. \A b : NoJobOf(b) => NoJobOf(b)'
    BY <1>8, JobFacts, PushFacts DEF NoJobOf
  <2>3. \A b : Waits(b) => Waits(b)'
    BY <2>1, <2>2 DEF Waits
  <2>4. request' = request
    BY <1>8 DEF FinishJobPush, cliVars
  <2>5. \A b : Uploads(b)' = Uploads(b)
    BY <2>4 DEF Uploads
  <2> QED BY <2>1, <2>2, <2>3, <2>5
<1>9. CASE Accept
  <2>1. /\ server = "accept" /\ server' = "command" /\ session = NoCli
        /\ UNCHANGED <<cli, request, answer, output, jobs>>
    BY <1>9 DEF Accept, Types, cliVars, queueVars
  <2>2. \A b : (Waits(b)' = Waits(b)) /\ (NoJobOf(b)' = NoJobOf(b)) /\ (Uploads(b)' = Uploads(b))
    BY <2>1 DEF Waits, NoJobOf, JobIds, Job, Uploads
  <2>3. \A k \in DOMAIN backlog : backlog[k] \in Clis
    BY DEF Types
  <2>4. Waits(session') /\ cli[session'] \in {"connected", "gone"}
    BY <1>9, AcceptFacts
  <2>5. \A k \in DOMAIN backlog' : backlog'[k] # session'
    BY <1>9, AcceptFacts
  <2>6. /\ \A c \in Clis : cli'[c] = "start" =>
                Waits(c)' /\ session' # c /\ \A k \in DOMAIN backlog' : backlog'[k] # c
        /\ \A k \in DOMAIN backlog' : /\ cli'[backlog'[k]] \in {"connected", "gone"}
                                      /\ Waits(backlog[k + 1])
                                      /\ session' # backlog'[k]
    BY <1>9, <2>1, <2>2, <2>4, <2>5, AcceptFacts
  <2>7. \A i, k \in DOMAIN backlog' : backlog'[i] = backlog'[k] => i = k
    BY <1>9, AcceptFacts
  <2>8. answer'[session'] = <<>> /\ NoJobOf(session)'
    BY <2>1, <2>4 DEF Waits, NoJobOf, JobIds, Job
  <2>9. \A k \in DOMAIN backlog' : Waits(backlog[k])'
    BY <1>9, <2>1, <2>6, AcceptFacts DEF Waits, NoJobOf, JobIds, Job
  <2> QED BY <2>1, <2>4, <2>6, <2>7, <2>8, <2>9
<1>10. CASE RecvCommand
  BY <1>10 DEF RecvCommand, cliVars, queueVars, Waits, NoJobOf, JobIds, Job, Types,
    CliPlaces, ServerPlaces, Uploads
<1>11. CASE RecvNumbers
  BY <1>11 DEF RecvNumbers, cliVars, queueVars, Waits, NoJobOf, JobIds, Job, Types,
    CliPlaces, ServerPlaces, Uploads
<1>12. CASE HandleUpload
  <2>1. /\ server' = "reply" /\ session \in Clis
        /\ UNCHANGED <<cli, request, answer, output, backlog, session>>
    BY <1>12 DEF HandleUpload, Types, cliVars
  <2>2. Uploads(session)'
    BY <1>12, <2>1 DEF RequestInv, HandleUpload, Uploads
  <2>3. \A b : Waits(b) /\ b # session => Waits(b)'
    BY <1>12, <2>1, WaitsStays
  <2> QED BY <2>1, <2>2, <2>3
<1>13. CASE RecvFails
  <2>1. /\ session' = NoCli
        /\ UNCHANGED <<cli, request, answer, output, backlog, jobs>>
    BY <1>13 DEF RecvFails, cliVars, queueVars
  <2>2. \A b : (Waits(b)' = Waits(b)) /\ (NoJobOf(b)' = NoJobOf(b))
    BY <2>1 DEF Waits, NoJobOf, JobIds, Job
  <2>3. \A k \in DOMAIN backlog : backlog[k] \in Clis
    BY DEF Types
  <2> QED BY <2>1, <2>2, <2>3, CliAssumption
<1>14. CASE StatusFinished
  BY <1>14 DEF StatusFinished, cliVars, queueVars, Waits, NoJobOf, JobIds, Job,
    Types, CliPlaces, ServerPlaces, Uploads
<1>15. CASE StatusRunning
  BY <1>15 DEF StatusRunning, cliVars, queueVars, Waits, NoJobOf, JobIds, Job, Types,
    CliPlaces, ServerPlaces, Uploads
<1>16. CASE SendReply
  <2>1. /\ session' = NoCli /\ session \in Clis
        /\ \A b \in Clis : b # session => answer'[b] = answer[b]
        /\ UNCHANGED <<cli, request, output, backlog, jobs>>
    BY <1>16 DEF SendReply, cliVars, queueVars, Types
  <2>2. \A b \in Clis : b # session => Waits(b)' = Waits(b)
    BY <2>1 DEF Waits, NoJobOf, JobIds, Job
  <2>3. \A k \in DOMAIN backlog : backlog[k] \in Clis
    BY DEF Types
  <2> QED BY <2>1, <2>2, <2>3, CliAssumption
<1>17. CASE UNCHANGED vars
  BY <1>17 DEF vars, cliVars, queueVars, Waits, NoJobOf, JobIds, Job, Types,
    CliPlaces, ServerPlaces, Uploads
<1> QED BY Actions, <1>1, <1>2, <1>3, <1>4, <1>5, <1>6, <1>7, <1>8, <1>9, <1>10,
    <1>11, <1>12, <1>13, <1>14, <1>15, <1>16, <1>17

\* RequestInv is kept.
LEMMA RequestStep ==
    ASSUME Types, TurnInv, RequestInv, [Next]_vars
    PROVE  RequestInv'
<1> USE DEF RequestInv
<1>1. ASSUME NEW c \in Clis, Refuse(c) PROVE RequestInv'
  BY <1>1 DEF Refuse, cliVars, queueVars, Uploads, NoPartialUpload, JobIds, Job,
    Types, CliPlaces, ServerPlaces
<1>2. ASSUME NEW c \in Clis, Connect(c) PROVE RequestInv'
  BY <1>2 DEF Connect, cliVars, queueVars, Uploads, NoPartialUpload, JobIds, Job,
    Types, CliPlaces, ServerPlaces
<1>3. ASSUME NEW c \in Clis, SendPart(c) PROVE RequestInv'
  <2>1. /\ UNCHANGED <<cli, request, session, server, jobs>>
        /\ sent[c] < Parts(request[c])
        /\ sent'[c] = sent[c] + 1
        /\ \A b \in Clis : b # c => sent'[b] = sent[b]
    BY <1>3 DEF SendPart, queueVars, Types
  <2>6. sent[c] \in Nat
    <3>1. sent[c] \in 0 .. 3
      BY DEF Types
    <3> QED BY <3>1
  <2>5. \A b \in Clis : Parts(request[b]) \in Nat
    BY DEF Parts
  <2>2. \A i \in JobIds : Job(i).by \in Clis /\ Job(i).by # c
    BY <2>1, <2>5, <2>6, JobFacts DEF NoPartialUpload
  <2>3. NoPartialUpload'
    BY <2>1, <2>2 DEF NoPartialUpload, JobIds, Job
  <2>4. \A b \in Clis : sent'[b] <= Parts(request[b])
    BY <2>1, <2>5, <2>6
  <2> QED BY <2>1, <2>3, <2>4 DEF Uploads
<1>4. ASSUME NEW c \in Clis, Finish(c) PROVE RequestInv'
  BY <1>4 DEF Finish, cliVars, queueVars, Uploads, NoPartialUpload, JobIds, Job,
    Types, CliPlaces, ServerPlaces
<1>5. ASSUME NEW c \in Clis, GoAway(c) PROVE RequestInv'
  BY <1>5 DEF GoAway, cliVars, queueVars, Uploads, NoPartialUpload, JobIds, Job,
    Types, CliPlaces, ServerPlaces
<1>6. ASSUME NEW j \in JobIds, FrameRendered(j) PROVE RequestInv'
  <2>1. UNCHANGED <<request, sent, session, server>>
    BY <1>6 DEF FrameRendered, cliVars
  <2>2. NoPartialUpload'
    BY <1>6, <2>1, FrameRenderedFacts DEF NoPartialUpload
  <2> QED BY <2>1, <2>2 DEF Uploads, Parts
<1>7. ASSUME NEW j \in JobIds, FinishJobErase(j) PROVE RequestInv'
  <2>1. UNCHANGED <<request, sent, session, server>>
    BY <1>7 DEF FinishJobErase, cliVars
  <2>2. NoPartialUpload'
    BY <1>7, <2>1, EraseFacts DEF NoPartialUpload
  <2> QED BY <2>1, <2>2 DEF Uploads, Parts
<1>8. ASSUME NEW j \in JobIds, FinishJobPush(j) PROVE RequestInv'
  <2>1. UNCHANGED <<request, sent, session, server>>
    BY <1>8 DEF FinishJobPush, cliVars
  <2>2. NoPartialUpload'
    BY <1>8, <2>1, PushFacts DEF NoPartialUpload
  <2> QED BY <2>1, <2>2 DEF Uploads, Parts
<1>9. CASE Accept
  BY <1>9 DEF Accept, cliVars, queueVars, Uploads, NoPartialUpload, JobIds, Job,
    Types, CliPlaces, ServerPlaces
<1>10. CASE RecvCommand
  <2>1. session \in Clis /\ request[session] \in Requests
    BY <1>10 DEF RecvCommand, Types
  <2>2. request[session].command \in {"UPLOAD", "STATUS"}
    BY <2>1 DEF Requests
  <2>3. /\ server' = request[session].command
        /\ UNCHANGED <<cli, request, sent, answer, output, session, reply, jobs>>
    BY <1>10 DEF RecvCommand, cliVars, queueVars
  <2> QED BY <2>2, <2>3 DEF Uploads, NoPartialUpload, JobIds, Job
<1>11. CASE RecvNumbers
  BY <1>11 DEF RecvNumbers, cliVars, queueVars, Uploads, NoPartialUpload, JobIds,
    Job, Types, CliPlaces, ServerPlaces
<1>12. CASE HandleUpload
  <2>1. /\ UNCHANGED <<request, sent, session>> /\ server' = "reply"
        /\ session \in Clis /\ sent[session] >= 3 /\ sent[session] \in 0 .. 3
        /\ Uploads(session)
    BY <1>12 DEF HandleUpload, cliVars, Types
  <2>2. sent[session] = Parts(request[session])
    BY <2>1 DEF Parts, Uploads
  <2>3. NoJobOf(session)
    BY <1>12 DEF HandleUpload, TurnInv, Types
  <2>4. /\ JobIds' = JobIds \cup {Len(jobs)} /\ Len(jobs) \notin JobIds
        /\ \A i \in JobIds : jobs'[i + 1].by = Job(i).by
        /\ jobs'[Len(jobs) + 1].by = session
    BY <1>12, UploadFacts DEF Job
  <2>5. NoPartialUpload'
    BY <2>1, <2>2, <2>3, <2>4 DEF NoPartialUpload, NoJobOf, Job
  <2> QED BY <2>1, <2>5 DEF Uploads
<1>13. CASE RecvFails
  BY <1>13 DEF RecvFails, cliVars, queueVars, Uploads, NoPartialUpload, JobIds, Job,
    Types, CliPlaces, ServerPlaces
<1>14. CASE StatusFinished
  BY <1>14 DEF StatusFinished, cliVars, queueVars, Uploads, NoPartialUpload, JobIds,
    Job, Types, CliPlaces, ServerPlaces
<1>15. CASE StatusRunning
  BY <1>15 DEF StatusRunning, cliVars, queueVars, Uploads, NoPartialUpload, JobIds,
    Job, Types, CliPlaces, ServerPlaces
<1>16. CASE SendReply
  BY <1>16 DEF SendReply, cliVars, queueVars, Uploads, NoPartialUpload, JobIds, Job,
    Types, CliPlaces, ServerPlaces
<1>17. CASE UNCHANGED vars
  BY <1>17 DEF vars, cliVars, queueVars, Uploads, NoPartialUpload, JobIds, Job,
    Types, CliPlaces, ServerPlaces
<1> QED BY Actions, <1>1, <1>2, <1>3, <1>4, <1>5, <1>6, <1>7, <1>8, <1>9, <1>10,
    <1>11, <1>12, <1>13, <1>14, <1>15, <1>16, <1>17

\* MineInv is kept.
LEMMA MineStep ==
    ASSUME Types, TurnInv, RequestInv, MineInv, [Next]_vars
    PROVE  MineInv'
<1> USE SaidStays DEF MineInv
<1>1. ASSUME NEW c \in Clis, Refuse(c) PROVE MineInv'
  BY <1>1 DEF Refuse, cliVars, queueVars, Types, CliPlaces, ServerPlaces
<1>2. ASSUME NEW c \in Clis, Connect(c) PROVE MineInv'
  BY <1>2 DEF Connect, cliVars, queueVars, Types, CliPlaces, ServerPlaces
<1>3. ASSUME NEW c \in Clis, SendPart(c) PROVE MineInv'
  BY <1>3 DEF SendPart, cliVars, queueVars, Types, CliPlaces, ServerPlaces
<1>4. ASSUME NEW c \in Clis, Finish(c) PROVE MineInv'
  <2>1. UNCHANGED <<session, server, reply>>
    BY <1>4 DEF Finish
  <2>2. Uploads(c) => \A l \in output'[c] : IsMine(c, l)
    BY <1>4, FinishFacts DEF IsMine
  <2>3. DOMAIN answer'[c] = {}
    BY <1>4, FinishFacts
  <2> QED BY <1>4, <2>1, <2>2, <2>3, SaidStays, FinishFacts
<1>5. ASSUME NEW c \in Clis, GoAway(c) PROVE MineInv'
  BY <1>5 DEF GoAway, cliVars, queueVars, Types, CliPlaces, ServerPlaces
<1>6. ASSUME NEW j \in JobIds, FrameRendered(j) PROVE MineInv'
  BY <1>6 DEF FrameRendered, cliVars, queueVars, Types, CliPlaces, ServerPlaces
<1>7. ASSUME NEW j \in JobIds, FinishJobErase(j) PROVE MineInv'
  BY <1>7 DEF FinishJobErase, cliVars, queueVars, Types, CliPlaces, ServerPlaces
<1>8. ASSUME NEW j \in JobIds, FinishJobPush(j) PROVE MineInv'
  BY <1>8 DEF FinishJobPush, cliVars, queueVars, Types, CliPlaces, ServerPlaces
<1>9. CASE Accept
  BY <1>9 DEF Accept, cliVars, queueVars, Types, CliPlaces, ServerPlaces
<1>10. CASE RecvCommand
  <2>1. session \in Clis /\ request[session] \in Requests
    BY <1>10 DEF RecvCommand, Types
  <2>2. request[session].command \in {"UPLOAD", "STATUS"}
    BY <2>1 DEF Requests
  <2>3. /\ server' = request[session].command
        /\ UNCHANGED <<cli, request, sent, answer, output, session, reply, jobs>>
    BY <1>10 DEF RecvCommand, cliVars, queueVars
  <2> QED BY <2>2, <2>3, SaidStays
<1>11. CASE RecvNumbers
  BY <1>11 DEF RecvNumbers, cliVars, queueVars, Types, CliPlaces, ServerPlaces
<1>12. CASE HandleUpload
  <2>1. /\ UNCHANGED <<request, answer, output, session>> /\ server' = "reply"
        /\ reply' = <<[job |-> Len(jobs), rendered |-> 0, total |-> 0]>>
    BY <1>12 DEF HandleUpload, cliVars
  <2>2. /\ DOMAIN reply' = {1} /\ reply'[1].job = Len(jobs)
    BY <2>1
  <2>3. /\ Len(jobs) \in JobIds'
        /\ jobs'[Len(jobs) + 1].by = session
        /\ jobs'[Len(jobs) + 1].total = request[session].frames
    BY <1>12, UploadFacts
  <2>4. IsMine(session, reply[1])'
    BY <2>1, <2>2, <2>3 DEF IsMine, Job
  <2> QED BY <2>1, <2>2, <2>4, SaidStays
<1>13. CASE RecvFails
  BY <1>13 DEF RecvFails, cliVars, queueVars, Types, CliPlaces, ServerPlaces
<1>14. CASE StatusFinished
  BY <1>14 DEF StatusFinished, cliVars, queueVars, Types, CliPlaces, ServerPlaces
<1>15. CASE StatusRunning
  <2>1. server = "running" /\ UNCHANGED <<answer, output, session>>
    BY <1>15 DEF StatusRunning, cliVars
  <2>2. ~ Uploads(session)
    BY <2>1 DEF RequestInv
  <2> QED BY <2>1, <2>2, SaidStays
<1>16. CASE SendReply
  <2>1. /\ session \in Clis /\ server = "reply" /\ server' = "accept"
        /\ \A b \in Clis : b # session => answer'[b] = answer[b]
        /\ answer'[session] = answer[session] \/ answer'[session] = <<reply>>
        /\ UNCHANGED output
    BY <1>16 DEF SendReply, cliVars, Types
  <2>2. Uploads(session) => \A a \in DOMAIN answer'[session] :
            \A k \in DOMAIN answer'[session][a] : IsMine(session, answer'[session][a][k])
    BY <2>1
  <2> QED BY <2>1, <2>2, SaidStays
<1>17. CASE UNCHANGED vars
  BY <1>17 DEF vars, cliVars, queueVars, Types, CliPlaces, ServerPlaces
<1> QED BY Actions, <1>1, <1>2, <1>3, <1>4, <1>5, <1>6, <1>7, <1>8, <1>9, <1>10,
    <1>11, <1>12, <1>13, <1>14, <1>15, <1>16, <1>17

\* JobsInv is kept.
LEMMA JobsStep ==
    ASSUME Types, RequestInv, JobsInv, [Next]_vars
    PROVE  JobsInv'
<1> USE DEF JobsInv
<1>1. ASSUME NEW c \in Clis, Refuse(c) PROVE JobsInv'
  BY <1>1 DEF Refuse, cliVars, queueVars, JobIds, Job
<1>2. ASSUME NEW c \in Clis, Connect(c) PROVE JobsInv'
  BY <1>2 DEF Connect, cliVars, queueVars, JobIds, Job
<1>3. ASSUME NEW c \in Clis, SendPart(c) PROVE JobsInv'
  BY <1>3 DEF SendPart, cliVars, queueVars, JobIds, Job
<1>4. ASSUME NEW c \in Clis, Finish(c) PROVE JobsInv'
  BY <1>4 DEF Finish, cliVars, queueVars, JobIds, Job
<1>5. ASSUME NEW c \in Clis, GoAway(c) PROVE JobsInv'
  BY <1>5 DEF GoAway, cliVars, queueVars, JobIds, Job
<1>6. ASSUME NEW j \in JobIds, FrameRendered(j) PROVE JobsInv'
  <2>1. notices' = notices
    BY <1>6 DEF FrameRendered
  <2> QED BY <1>6, <2>1, JobFacts, FrameRenderedFacts
<1>7. ASSUME NEW j \in JobIds, FinishJobErase(j) PROVE JobsInv'
  <2>1. /\ notices' = notices /\ Job(j).total > 0 /\ Job(j).rendered = Job(j).total
    BY <1>7 DEF FinishJobErase
  <2>2. /\ JobIds' = JobIds /\ \A k \in DOMAIN notices : notices[k] # j
        /\ \A i \in JobIds : i # j => Job(i)' = Job(i)
        /\ Job(j)'.total = Job(j).total /\ Job(j)'.rendered = Job(j).rendered
    BY <1>7, EraseFacts
  <2>3. \A i \in JobIds : Job(i)'.rendered <= Job(i)'.total
    BY <2>2
  <2>4. \A i \in JobIds : Job(i)'.state # "listed" =>
            Job(i)'.rendered = Job(i)'.total /\ Job(i)'.total > 0
    BY <2>1, <2>2
  <2> QED BY <2>1, <2>2, <2>3, <2>4
<1>8. ASSUME NEW j \in JobIds, FinishJobPush(j) PROVE JobsInv'
  <2>1. notices \in Seq(Nat) /\ j \in Nat /\ notices' = Append(notices, j)
    BY <1>8, JobFacts DEF FinishJobPush, Types
  <2>2. Len(notices) \in Nat /\ DOMAIN notices = 1 .. Len(notices)
        /\ DOMAIN notices' = 1 .. Len(notices) + 1 /\ notices'[Len(notices) + 1] = j
    BY <2>1
  <2>3. \A k \in DOMAIN notices : notices'[k] = notices[k]
    BY <2>1
  <2>4. \A k \in DOMAIN notices' : k \in DOMAIN notices \/ k = Len(notices) + 1
    BY <2>2
  <2>5. \A k \in DOMAIN notices : notices[k] # j
    BY <1>8, PushFacts
  <2> QED BY <1>8, <2>2, <2>3, <2>4, <2>5, PushFacts
<1>9. CASE Accept
  BY <1>9 DEF Accept, cliVars, queueVars, JobIds, Job
<1>10. CASE RecvCommand
  BY <1>10 DEF RecvCommand, cliVars, queueVars, JobIds, Job
<1>11. CASE RecvNumbers
  BY <1>11 DEF RecvNumbers, cliVars, queueVars, JobIds, Job
<1>12. CASE HandleUpload
  <2>1. notices' = notices
    BY <1>12 DEF HandleUpload
  <2>2. /\ JobIds' = JobIds \cup {Len(jobs)}
        /\ \A i \in JobIds : jobs'[i + 1] = Job(i)
        /\ jobs'[Len(jobs) + 1].rendered = 0
        /\ jobs'[Len(jobs) + 1].state = "listed"
        /\ jobs'[Len(jobs) + 1].total \in Nat
    <3>1. request[session].frames \in Nat
      BY <1>12, CliAssumption DEF HandleUpload, RequestInv, Uploads, Types, Requests
    <3> QED BY <1>12, <3>1, UploadFacts DEF Job
  <2> QED BY <2>1, <2>2 DEF Job
<1>13. CASE RecvFails
  BY <1>13 DEF RecvFails, cliVars, queueVars, JobIds, Job
<1>14. CASE StatusFinished
  BY <1>14 DEF StatusFinished, cliVars, queueVars, JobIds, Job
<1>15. CASE StatusRunning
  BY <1>15 DEF StatusRunning, cliVars, queueVars, JobIds, Job
<1>16. CASE SendReply
  BY <1>16 DEF SendReply, cliVars, queueVars, JobIds, Job
<1>17. CASE UNCHANGED vars
  BY <1>17 DEF vars, cliVars, queueVars, JobIds, Job
<1> QED BY Actions, <1>1, <1>2, <1>3, <1>4, <1>5, <1>6, <1>7, <1>8, <1>9, <1>10,
    <1>11, <1>12, <1>13, <1>14, <1>15, <1>16, <1>17

\* TrueInv is kept.
LEMMA TrueStep ==
    ASSUME Types, RequestInv, JobsInv, TrueInv, [Next]_vars
    PROVE  TrueInv'
<1> USE SaidStays, TrueStays DEF TrueInv
<1>1. ASSUME NEW c \in Clis, Refuse(c) PROVE TrueInv'
  BY <1>1 DEF Refuse, cliVars, queueVars, Types, CliPlaces, ServerPlaces
<1>2. ASSUME NEW c \in Clis, Connect(c) PROVE TrueInv'
  BY <1>2 DEF Connect, cliVars, queueVars, Types, CliPlaces, ServerPlaces
<1>3. ASSUME NEW c \in Clis, SendPart(c) PROVE TrueInv'
  BY <1>3 DEF SendPart, cliVars, queueVars, Types, CliPlaces, ServerPlaces
<1>4. ASSUME NEW c \in Clis, Finish(c) PROVE TrueInv'
  <2>1. UNCHANGED <<session, server, reply>>
    BY <1>4 DEF Finish
  <2>2. ~ Uploads(c) => \A l \in output'[c] : IsTrue(l) /\ l.finished = ShowsFinished(l)
    BY <1>4, FinishFacts DEF IsTrue
  <2>3. DOMAIN answer'[c] = {}
    BY <1>4, FinishFacts
  <2>4. \A l : ShowsFinished(l)' = ShowsFinished(l)
    BY DEF ShowsFinished
  <2> QED BY <1>4, <2>1, <2>2, <2>3, <2>4, SaidStays, TrueStays, FinishFacts
<1>5. ASSUME NEW c \in Clis, GoAway(c) PROVE TrueInv'
  BY <1>5 DEF GoAway, cliVars, queueVars, Types, CliPlaces, ServerPlaces
<1>6. ASSUME NEW j \in JobIds, FrameRendered(j) PROVE TrueInv'
  BY <1>6 DEF FrameRendered, cliVars, queueVars, Types, CliPlaces, ServerPlaces
<1>7. ASSUME NEW j \in JobIds, FinishJobErase(j) PROVE TrueInv'
  BY <1>7 DEF FinishJobErase, cliVars, queueVars, Types, CliPlaces, ServerPlaces
<1>8. ASSUME NEW j \in JobIds, FinishJobPush(j) PROVE TrueInv'
  BY <1>8 DEF FinishJobPush, cliVars, queueVars, Types, CliPlaces, ServerPlaces
<1>9. CASE Accept
  BY <1>9 DEF Accept, cliVars, queueVars, Types, CliPlaces, ServerPlaces
<1>10. CASE RecvCommand
  <2>1. session \in Clis /\ request[session] \in Requests
    BY <1>10 DEF RecvCommand, Types
  <2>2. request[session].command \in {"UPLOAD", "STATUS"}
    BY <2>1 DEF Requests
  <2>3. /\ server' = request[session].command
        /\ UNCHANGED <<cli, request, sent, answer, output, session, reply, jobs>>
    BY <1>10 DEF RecvCommand, cliVars, queueVars
  <2> QED BY <2>2, <2>3, SaidStays, TrueStays
<1>11. CASE RecvNumbers
  BY <1>11 DEF RecvNumbers, cliVars, queueVars, Types, CliPlaces, ServerPlaces
<1>12. CASE HandleUpload
  <2>1. UNCHANGED <<answer, output, session>> /\ Uploads(session)
    BY <1>12 DEF HandleUpload, cliVars, RequestInv
  <2> QED BY <2>1, SaidStays, TrueStays DEF ShowsFinished
<1>13. CASE RecvFails
  BY <1>13 DEF RecvFails, cliVars, queueVars, Types, CliPlaces, ServerPlaces
<1>14. CASE StatusFinished
  <2>1. UNCHANGED <<answer, output, session, jobs>>
    BY <1>14 DEF StatusFinished, cliVars
  <2>2. \A k \in DOMAIN notices : /\ notices[k] \in JobIds
                                  /\ Job(notices[k]).rendered = Job(notices[k]).total
    BY DEF JobsInv
  <2>3. \A k \in DOMAIN reply' : IsTrue(reply'[k])
    BY <1>14, <2>2, NoticedFacts DEF IsTrue
  <2> QED BY <2>1, <2>3, SaidStays, TrueStays DEF ShowsFinished
<1>15. CASE StatusRunning
  <2>1. UNCHANGED <<answer, output, session, jobs>> /\ server = "running"
    BY <1>15 DEF StatusRunning, cliVars, queueVars
  <2>2. ASSUME NEW k \in DOMAIN reply', NEW i \in JobIds, reply'[k].job = i,
               reply'[k].rendered = Job(i).rendered, reply'[k].total = Job(i).total
        PROVE  IsTrue(reply'[k])
    <3>1. Job(i).rendered \in Nat
      BY JobFacts
    <3> QED BY <2>2, <3>1 DEF IsTrue, ShowsFinished
  <2>3. ~ Uploads(session) => \A k \in DOMAIN reply' : IsTrue(reply'[k])
    BY <1>15, <2>1, <2>2, RunningFacts
  <2> QED BY <2>1, <2>3, SaidStays, TrueStays DEF ShowsFinished
<1>16. CASE SendReply
  <2>1. /\ session \in Clis /\ server = "reply" /\ server' = "accept"
        /\ \A b \in Clis : b # session => answer'[b] = answer[b]
        /\ answer'[session] = answer[session] \/ answer'[session] = <<reply>>
        /\ UNCHANGED output
    BY <1>16 DEF SendReply, cliVars, Types
  <2>2. ~ Uploads(session) => \A a \in DOMAIN answer'[session] :
            \A k \in DOMAIN answer'[session][a] : IsTrue(answer'[session][a][k])
    BY <2>1
  <2> QED BY <2>1, <2>2, SaidStays, TrueStays DEF ShowsFinished
<1>17. CASE UNCHANGED vars
  BY <1>17 DEF vars, cliVars, queueVars, Types, CliPlaces, ServerPlaces
<1> QED BY Actions, <1>1, <1>2, <1>3, <1>4, <1>5, <1>6, <1>7, <1>8, <1>9, <1>10,
    <1>11, <1>12, <1>13, <1>14, <1>15, <1>16, <1>17


\* A report of a job that was known before was one before.
LEMMA ReportsBack ==
    ASSUME Types, RequestInv, [Next]_vars
    PROVE  \A s, j : Reports(s, j)' /\ s.job \in JobIds => Reports(s, j)
  BY JobsGrow DEF Reports, ShowsFinished

\* Nothing is told to a cli whose socket and output do not change.
LEMMA ToldBack ==
    ASSUME Types, RequestInv, TrueInv, [Next]_vars, NEW c \in Clis, NEW j,
           answer'[c] = answer[c], output'[c] = output[c], Told(c, j)'
    PROVE  Told(c, j)
<1>1. ~ Uploads(c)
  BY SaidStays DEF Told
<1>2. CASE \E a \in DOMAIN answer[c] : \E k \in DOMAIN answer[c][a] :
                Reports(answer[c][a][k], j)'
  <2>5. PICK a \in DOMAIN answer[c] : \E k \in DOMAIN answer[c][a] : Reports(answer[c][a][k], j)'
    BY <1>2
  <2>1. PICK k \in DOMAIN answer[c][a] : Reports(answer[c][a][k], j)'
    BY <2>5
  <2>2. answer[c][a][k].job \in JobIds
    BY <1>1 DEF TrueInv, IsTrue
  <2>3. answer'[c][a][k] = answer[c][a][k]
    OBVIOUS
  <2>4. Reports(answer[c][a][k], j)
    BY <2>1, <2>2, <2>3, JobsGrow DEF Reports, ShowsFinished
  <2> QED BY <1>1, <2>4 DEF Told
<1>3. CASE \E l \in output'[c] : Reports(l, j)'
  <2>1. PICK l \in output[c] : Reports(l, j)'
    BY <1>3
  <2>2. l.job \in JobIds
    BY <1>1 DEF TrueInv, IsTrue
  <2> QED BY <1>1, <2>1, <2>2, ReportsBack DEF Told
<1> QED BY <1>2, <1>3 DEF Told

\* Nor does the reply report more while it does not change.
LEMMA InReplyBack ==
    ASSUME Types, RequestInv, TrueInv, [Next]_vars, NEW j,
           UNCHANGED <<reply, session, server>>, InReply(j)'
    PROVE  InReply(j)
<1>1. server \in {"running", "reply"} /\ ~ Uploads(session)
  BY SaidStays DEF InReply
<1>2. PICK k \in DOMAIN reply : Reports(reply[k], j)'
  BY DEF InReply
<1>3. reply[k].job \in JobIds
  BY <1>1 DEF TrueInv, IsTrue
<1>4. Reports(reply[k], j)
  BY <1>2, <1>3, JobsGrow DEF Reports, ShowsFinished
<1> QED BY <1>1, <1>4 DEF InReply

\* And the list of notices only by finishJob.
LEMMA InNoticesBack ==
    ASSUME Types, RequestInv, JobsInv, [Next]_vars, NEW j, notices' = notices, InNotices(j)'
    PROVE  InNotices(j)
  BY JobsGrow DEF InNotices, JobsInv

\* A step that reports nothing new keeps OnceInv.
LEMMA NothingNew ==
    ASSUME Types, RequestInv, OnceInv, [Next]_vars,
           \A j : InNotices(j)' => InNotices(j),
           \A j : InReply(j)' => InReply(j),
           \A c \in Clis : \A j : Told(c, j)' => Told(c, j)
    PROVE  OnceInv'
<1>1. /\ \A j : InNotices(j) => j \in JobIds
      /\ \A j : InReply(j) => j \in JobIds
      /\ \A c, j : Told(c, j) => j \in JobIds
  BY DEF InNotices, InReply, Told, Reports
<1>2. \A j \in JobIds : Job(j).state = "noticed" => Job(j)'.state = "noticed"
  BY JobsGrow
<1> QED BY <1>1, <1>2 DEF OnceInv

\* OnceInv is kept: a report moves, it is not copied.
LEMMA OnceStep ==
    ASSUME Types, RequestInv, JobsInv, TrueInv, OnceInv, [Next]_vars
    PROVE  OnceInv'
<1> USE DEF OnceInv
<1>1. ASSUME NEW c \in Clis, Refuse(c) PROVE OnceInv'
  <2>1. UNCHANGED <<answer, output, reply, session, server, notices>>
    BY <1>1 DEF Refuse, cliVars, queueVars
  <2>2. \A b \in Clis : \A i : Told(b, i)' => Told(b, i)
    BY <2>1, ToldBack
  <2>3. \A i : InReply(i)' => InReply(i)
    BY <2>1, InReplyBack
  <2>4. \A i : InNotices(i)' => InNotices(i)
    BY <2>1, InNoticesBack
  <2> QED BY <2>2, <2>3, <2>4, NothingNew
<1>2. ASSUME NEW c \in Clis, Connect(c) PROVE OnceInv'
  <2>1. UNCHANGED <<answer, output, reply, session, server, notices>>
    BY <1>2 DEF Connect, cliVars, queueVars
  <2>2. \A b \in Clis : \A i : Told(b, i)' => Told(b, i)
    BY <2>1, ToldBack
  <2>3. \A i : InReply(i)' => InReply(i)
    BY <2>1, InReplyBack
  <2>4. \A i : InNotices(i)' => InNotices(i)
    BY <2>1, InNoticesBack
  <2> QED BY <2>2, <2>3, <2>4, NothingNew
<1>3. ASSUME NEW c \in Clis, SendPart(c) PROVE OnceInv'
  <2>1. UNCHANGED <<answer, output, reply, session, server, notices>>
    BY <1>3 DEF SendPart, cliVars, queueVars
  <2>2. \A b \in Clis : \A i : Told(b, i)' => Told(b, i)
    BY <2>1, ToldBack
  <2>3. \A i : InReply(i)' => InReply(i)
    BY <2>1, InReplyBack
  <2>4. \A i : InNotices(i)' => InNotices(i)
    BY <2>1, InNoticesBack
  <2> QED BY <2>2, <2>3, <2>4, NothingNew
<1>4. ASSUME NEW c \in Clis, Finish(c) PROVE OnceInv'
  <2>1. UNCHANGED <<reply, session, server, notices>>
    BY <1>4 DEF Finish, queueVars
  <2>2. ASSUME NEW i, Told(c, i)' PROVE Told(c, i)
    <3>1. ~ Uploads(c) /\ DOMAIN answer'[c] = {}
      BY <1>4, <2>2, FinishFacts, SaidStays DEF Told
    <3>2. PICK l \in output'[c] : Reports(l, i)'
      BY <2>2, <3>1 DEF Told
    <3>3. PICK k \in DOMAIN answer[c][1] :
            /\ l.job = answer[c][1][k].job
            /\ ShowsFinished(l) = ShowsFinished(answer[c][1][k])
      BY <1>4, FinishFacts
    <3>4. 1 \in DOMAIN answer[c] /\ answer[c][1][k].job \in JobIds
      BY <1>4, <3>1, FinishFacts DEF TrueInv, IsTrue
    <3>5. Reports(l, i)
      BY <3>2, <3>3, <3>4, ReportsBack
    <3>6. Reports(answer[c][1][k], i)
      BY <3>3, <3>5 DEF Reports
    <3> QED BY <3>1, <3>4, <3>6 DEF Told
  <2>3. \A b \in Clis : b # c => \A i : Told(b, i)' => Told(b, i)
    BY <1>4, FinishFacts, ToldBack
  <2>4. \A i : InReply(i)' => InReply(i)
    BY <2>1, InReplyBack
  <2>5. \A i : InNotices(i)' => InNotices(i)
    BY <2>1, InNoticesBack
  <2>6. \A b \in Clis : \A i : Told(b, i)' => Told(b, i)
    BY <2>2, <2>3
  <2> QED BY <2>4, <2>5, <2>6, NothingNew
<1>5. ASSUME NEW c \in Clis, GoAway(c) PROVE OnceInv'
  <2>1. UNCHANGED <<answer, output, reply, session, server, notices>>
    BY <1>5 DEF GoAway, cliVars, queueVars
  <2>2. \A b \in Clis : \A i : Told(b, i)' => Told(b, i)
    BY <2>1, ToldBack
  <2>3. \A i : InReply(i)' => InReply(i)
    BY <2>1, InReplyBack
  <2>4. \A i : InNotices(i)' => InNotices(i)
    BY <2>1, InNoticesBack
  <2> QED BY <2>2, <2>3, <2>4, NothingNew
<1>6. ASSUME NEW j \in JobIds, FrameRendered(j) PROVE OnceInv'
  <2>1. UNCHANGED <<answer, output, reply, session, server, notices>>
    BY <1>6 DEF FrameRendered, cliVars, queueVars
  <2>2. \A b \in Clis : \A i : Told(b, i)' => Told(b, i)
    BY <2>1, ToldBack
  <2>3. \A i : InReply(i)' => InReply(i)
    BY <2>1, InReplyBack
  <2>4. \A i : InNotices(i)' => InNotices(i)
    BY <2>1, InNoticesBack
  <2> QED BY <2>2, <2>3, <2>4, NothingNew
<1>7. ASSUME NEW j \in JobIds, FinishJobErase(j) PROVE OnceInv'
  <2>1. UNCHANGED <<answer, output, reply, session, server, notices>>
    BY <1>7 DEF FinishJobErase, cliVars, queueVars
  <2>2. \A b \in Clis : \A i : Told(b, i)' => Told(b, i)
    BY <2>1, ToldBack
  <2>3. \A i : InReply(i)' => InReply(i)
    BY <2>1, InReplyBack
  <2>4. \A i : InNotices(i)' => InNotices(i)
    BY <2>1, InNoticesBack
  <2> QED BY <2>2, <2>3, <2>4, NothingNew
<1>8. ASSUME NEW j \in JobIds, FinishJobPush(j) PROVE OnceInv'
  <2>1. UNCHANGED <<answer, output, reply, session, server>> /\ notices' = Append(notices, j)
    BY <1>8 DEF FinishJobPush, cliVars
  <2>2. \A b \in Clis : \A i : Told(b, i)' => Told(b, i)
    BY <2>1, ToldBack
  <2>3. \A i : InReply(i)' => InReply(i)
    BY <2>1, InReplyBack
  <2>4. ASSUME NEW i, InNotices(i)', i # j PROVE InNotices(i)
    <3>1. /\ JobIds' = JobIds /\ Job(i)' = Job(i) /\ i \in JobIds
      BY <1>8, <2>4, PushFacts DEF InNotices
    <3>2. notices \in Seq(Nat) /\ j \in Nat
      BY JobFacts DEF Types
    <3>3. PICK k \in DOMAIN notices' : notices'[k] = i
      BY <2>4 DEF InNotices
    <3>4. DOMAIN notices = 1 .. Len(notices) /\ Len(notices) \in Nat
          /\ DOMAIN notices' = 1 .. Len(notices) + 1 /\ notices'[Len(notices) + 1] = j
      BY <2>1, <3>2
    <3>5. k \in DOMAIN notices
      BY <2>4, <3>3, <3>4
    <3>6. notices[k] = i
      BY <2>1, <3>2, <3>3, <3>5
    <3> QED BY <2>4, <3>1, <3>5, <3>6 DEF InNotices
  <2>5. /\ JobIds' = JobIds /\ Job(j).state = "erased" /\ Job(j)'.state = "noticed"
        /\ \A i \in JobIds : i # j => Job(i)' = Job(i)
    BY <1>8, PushFacts
  <2>6. /\ ~ InReply(j) /\ \A b \in Clis : ~ Told(b, j)
    BY <2>5
  <2> QED BY <2>2, <2>3, <2>4, <2>5, <2>6
<1>9. CASE Accept
  <2>1. UNCHANGED <<answer, output, notices>> /\ server' = "command"
    BY <1>9 DEF Accept, cliVars, queueVars
  <2>2. \A b \in Clis : \A i : Told(b, i)' => Told(b, i)
    BY <2>1, ToldBack
  <2>3. \A i : InReply(i)' => InReply(i)
    BY <2>1 DEF InReply
  <2>4. \A i : InNotices(i)' => InNotices(i)
    BY <2>1, InNoticesBack
  <2> QED BY <2>2, <2>3, <2>4, NothingNew
<1>10. CASE RecvCommand
  <2>1. UNCHANGED <<answer, output, notices>> /\ server' = request[session].command
    BY <1>10 DEF RecvCommand, cliVars, queueVars
  <2>2. \A b \in Clis : \A i : Told(b, i)' => Told(b, i)
    BY <2>1, ToldBack
  <2>3. request[session].command \in {"UPLOAD", "STATUS"}
    <3>1. session \in Clis /\ request[session] \in Requests
      BY <1>10 DEF RecvCommand, Types
    <3> QED BY <3>1 DEF Requests
  <2>4. \A i : ~ InReply(i)'
    BY <2>1, <2>3 DEF InReply
  <2>5. \A i : InNotices(i)' => InNotices(i)
    BY <2>1, InNoticesBack
  <2> QED BY <2>2, <2>4, <2>5, NothingNew
<1>11. CASE RecvNumbers
  <2>1. UNCHANGED <<answer, output, notices>> /\ server' = "shader"
    BY <1>11 DEF RecvNumbers, cliVars, queueVars
  <2>2. \A b \in Clis : \A i : Told(b, i)' => Told(b, i)
    BY <2>1, ToldBack
  <2>3. \A i : InReply(i)' => InReply(i)
    BY <2>1 DEF InReply
  <2>4. \A i : InNotices(i)' => InNotices(i)
    BY <2>1, InNoticesBack
  <2> QED BY <2>2, <2>3, <2>4, NothingNew
<1>12. CASE HandleUpload
  <2>1. UNCHANGED <<answer, output, session, notices>> /\ Uploads(session)
    BY <1>12 DEF HandleUpload, cliVars, RequestInv
  <2>2. \A b \in Clis : \A i : Told(b, i)' => Told(b, i)
    BY <2>1, ToldBack
  <2>3. \A i : ~ InReply(i)'
    BY <2>1, SaidStays DEF InReply
  <2>4. \A i : InNotices(i)' => InNotices(i)
    BY <2>1, InNoticesBack
  <2> QED BY <2>2, <2>3, <2>4, NothingNew
<1>13. CASE RecvFails
  <2>1. UNCHANGED <<answer, output, notices>> /\ server' = "accept"
    BY <1>13 DEF RecvFails, cliVars, queueVars
  <2>2. \A b \in Clis : \A i : Told(b, i)' => Told(b, i)
    BY <2>1, ToldBack
  <2>3. \A i : InReply(i)' => InReply(i)
    BY <2>1 DEF InReply
  <2>4. \A i : InNotices(i)' => InNotices(i)
    BY <2>1, InNoticesBack
  <2> QED BY <2>2, <2>3, <2>4, NothingNew
<1>14. CASE StatusFinished
  <2>1. /\ UNCHANGED <<answer, output, session, jobs>> /\ server = "STATUS"
        /\ server' = "running" /\ notices' = <<>>
    BY <1>14 DEF StatusFinished, cliVars
  <2>2. \A b \in Clis : \A i : Told(b, i)' => Told(b, i)
    BY <2>1, ToldBack
  <2>3. \A i : ~ InNotices(i)'
    BY <2>1 DEF InNotices
  <2>4. ASSUME NEW i, InReply(i)' PROVE InNotices(i)
    <3>1. PICK k \in DOMAIN reply' : Reports(reply'[k], i)
      BY <2>1, <2>4 DEF InReply, Reports, ShowsFinished, JobIds, Job
    <3>2. k \in DOMAIN notices /\ notices[k] = i
      BY <1>14, <3>1, NoticedFacts DEF Reports
    <3> QED BY <3>1, <3>2 DEF InNotices, Reports
  <2>5. \A i : InNotices(i) => i \in JobIds /\ Job(i).state = "noticed"
    BY DEF InNotices, JobsInv
  <2>6. JobIds' = JobIds /\ \A i : Job(i)' = Job(i)
    BY <2>1 DEF JobIds, Job
  <2> QED BY <2>2, <2>3, <2>4, <2>5, <2>6
<1>15. CASE StatusRunning
  <2>1. UNCHANGED <<answer, output, session, jobs, notices>> /\ server = "running"
    BY <1>15 DEF StatusRunning, cliVars, queueVars
  <2>2. \A b \in Clis : \A i : Told(b, i)' => Told(b, i)
    BY <2>1, ToldBack
  <2>3. ASSUME NEW i, InReply(i)' PROVE InReply(i)
    <3>1. ~ Uploads(session)
      BY <2>1 DEF RequestInv
    <3>2. PICK k \in DOMAIN reply' : Reports(reply'[k], i)
      BY <2>1, <2>3 DEF InReply, Reports, ShowsFinished, JobIds, Job
    <3>3. CASE k \in DOMAIN reply /\ reply'[k] = reply[k]
      BY <2>1, <3>1, <3>2, <3>3 DEF InReply
    <3>4. ASSUME NEW n \in JobIds, reply'[k].job = n, reply'[k].total = Job(n).total
          PROVE  FALSE
      BY <3>2, <3>4 DEF Reports, ShowsFinished
    <3> QED BY <1>15, <3>3, <3>4, RunningFacts
  <2>4. \A i : InNotices(i)' => InNotices(i)
    BY <2>1, InNoticesBack
  <2> QED BY <2>2, <2>3, <2>4, NothingNew
<1>16. CASE SendReply
  <2>1. /\ session \in Clis /\ server = "reply" /\ server' = "accept"
        /\ \A b \in Clis : b # session => answer'[b] = answer[b]
        /\ answer'[session] = answer[session] \/ answer'[session] = <<reply>>
        /\ UNCHANGED <<output, jobs, notices, request>>
    BY <1>16 DEF SendReply, cliVars, queueVars, Types
  <2>2. \A b \in Clis : b # session => \A i : Told(b, i)' => Told(b, i)
    BY <2>1, ToldBack
  <2>3. ASSUME NEW b \in Clis, b = session, NEW i, Told(b, i)' PROVE Told(b, i) \/ InReply(i)
    <3>1. CASE answer'[b] = answer[b]
      BY <2>1, <2>3, <3>1, ToldBack
    <3>2. CASE answer'[b] = <<reply>>
      <4>1. DOMAIN answer'[b] = {1} /\ answer'[b][1] = reply
        BY <3>2
      <4>2. ~ Uploads(b) /\ JobIds' = JobIds /\ \A n : Job(n)' = Job(n)
        BY <2>1, <2>3 DEF Told, Uploads, JobIds, Job
      <4>3. \/ \E k \in DOMAIN reply : Reports(reply[k], i)
            \/ \E l \in output[b] : Reports(l, i)
        BY <2>1, <2>3, <4>1, <4>2 DEF Told, Reports, ShowsFinished
      <4> QED BY <2>1, <2>3, <4>2, <4>3 DEF Told, InReply
    <3> QED BY <2>1, <2>3, <3>1, <3>2
  <2>4. \A i : ~ InReply(i)'
    BY <2>1 DEF InReply
  <2>5. \A i : InNotices(i)' => InNotices(i)
    BY <2>1, InNoticesBack
  <2>6. JobIds' = JobIds /\ \A i : Job(i)' = Job(i)
    BY <2>1 DEF JobIds, Job
  <2>7. \A b \in Clis : \A i : Told(b, i)' => Told(b, i) \/ (b = session /\ InReply(i))
    BY <2>2, <2>3
  <2> QED BY <2>4, <2>5, <2>6, <2>7
<1>17. CASE UNCHANGED vars
  <2>1. UNCHANGED <<answer, output, reply, session, server, notices>>
    BY <1>17 DEF vars
  <2>2. \A b \in Clis : \A i : Told(b, i)' => Told(b, i)
    BY <2>1, ToldBack
  <2>3. \A i : InReply(i)' => InReply(i)
    BY <2>1, InReplyBack
  <2>4. \A i : InNotices(i)' => InNotices(i)
    BY <2>1, InNoticesBack
  <2> QED BY <2>2, <2>3, <2>4, NothingNew
<1> QED BY Actions, <1>1, <1>2, <1>3, <1>4, <1>5, <1>6, <1>7, <1>8, <1>9, <1>10,
    <1>11, <1>12, <1>13, <1>14, <1>15, <1>16, <1>17


\* The inductive invariant.
IndInv ==
    Types /\ TurnInv /\ RequestInv /\ MineInv /\ JobsInv /\ TrueInv /\ OnceInv

\* It holds when the server starts.
LEMMA InitInv == Init => IndInv
<1> SUFFICES ASSUME Init PROVE IndInv
  OBVIOUS
<1> USE DEF Init
<1>1. Types
  BY CliAssumption DEF Types, CliPlaces, ServerPlaces
<1>2. /\ JobIds = {} /\ DOMAIN notices = {} /\ DOMAIN backlog = {} /\ DOMAIN reply = {}
      /\ \A c \in Clis : DOMAIN answer[c] = {} /\ output[c] = {}
  BY DEF JobIds
<1>3. TurnInv
  BY <1>2, CliAssumption DEF TurnInv, Waits, NoJobOf
<1>4. RequestInv
  BY <1>2 DEF RequestInv, NoPartialUpload, Parts
<1>5. MineInv /\ JobsInv /\ TrueInv /\ OnceInv
  BY <1>2 DEF MineInv, JobsInv, TrueInv, OnceInv
<1> QED BY <1>1, <1>3, <1>4, <1>5 DEF IndInv

\* IndInv is an invariant of the specification.
LEMMA Invariance == Spec => []IndInv
<1>1. IndInv /\ [Next]_vars => IndInv'
  BY TypesStep, TurnStep, RequestStep, MineStep, JobsStep, TrueStep, OnceStep DEF IndInv
<1> QED BY InitInv, <1>1, PTL DEF Spec

\* Every variable keeps its type: a socket holds at most one answer, the server has
\* a session exactly while it serves one, and notices are of jobs that exist.
THEOREM TypeCorrect == Spec => []TypeOK
<1>1. IndInv => TypeOK
  <2> SUFFICES ASSUME IndInv PROVE TypeOK
    OBVIOUS
  <2>1. Types /\ JobsInv
    BY DEF IndInv
  <2>2. notices \in Seq(JobIds)
    <3>1. notices \in Seq(Nat) /\ \A k \in DOMAIN notices : notices[k] \in JobIds
      BY <2>1 DEF Types, JobsInv
    <3>2. Len(notices) \in Nat /\ notices \in [1 .. Len(notices) -> JobIds]
      BY <3>1
    <3> QED BY <3>2
  <2> QED BY <2>1, <2>2 DEF Types, TypeOK, CliPlaces, ServerPlaces, Lines, JobRecords
<1> QED BY <1>1, Invariance, PTL

\* A job exists only if its whole request arrived, and each cli has at most one:
\* one that goes away in the middle of an upload leaves no job behind.
THEOREM NoJobFromPart == Spec => []NoPartialUpload
<1>1. IndInv => NoPartialUpload
  BY DEF IndInv, RequestInv
<1> QED BY <1>1, Invariance, PTL

\* The id that submit prints is that of the job the cli submitted.
THEOREM IdIsMine == Spec => []PrintedIdIsMine
<1>1. IndInv => PrintedIdIsMine
  BY DEF IndInv, MineInv, PrintedIdIsMine, Submitted, Uploads, IsMine
<1> QED BY <1>1, Invariance, PTL

\* What query prints is true, and stays true after it is printed.
THEOREM PrintedIsTrue == Spec => []ListIsTrue
<1>1. IndInv => ListIsTrue
  <2> SUFFICES ASSUME IndInv, NEW c \in Clis, Queried(c), NEW l \in output[c]
               PROVE  /\ l.job \in JobIds
                      /\ IF l.finished THEN Job(l.job).rendered = Job(l.job).total
                         ELSE /\ l.rendered <= Job(l.job).rendered
                              /\ l.total = Job(l.job).total
    BY DEF ListIsTrue
  <2>1. IsTrue(l) /\ l.finished = ShowsFinished(l) /\ l.job \in JobIds
    BY DEF IndInv, TrueInv, Queried, Uploads, IsTrue
  <2>2. Job(l.job).rendered \in Nat
    BY <2>1, JobFacts DEF IndInv
  <2> QED BY <2>1, <2>2 DEF IsTrue
<1> QED BY <1>1, Invariance, PTL

\* Of all the queries at most one shows a job that had frames as finished: its
\* notice is taken off the list by the query that reports it.
THEOREM FinishedOnce == Spec => []FinishedShownOnce
<1>1. IndInv => FinishedShownOnce
  <2> SUFFICES ASSUME IndInv, NEW b \in Clis, NEW c \in Clis, NEW k \in output[b],
                      NEW l \in output[c], Queried(b), Queried(c), k.finished, l.finished,
                      k.job = l.job, Job(k.job).total > 0
               PROVE  b = c
    BY DEF FinishedShownOnce
  <2>1. /\ ~ Uploads(b) /\ ~ Uploads(c)
        /\ ShowsFinished(k) /\ ShowsFinished(l) /\ k.job \in JobIds
    BY DEF IndInv, TrueInv, Queried, Uploads, IsTrue
  <2>2. Told(b, k.job) /\ Told(c, k.job)
    BY <2>1 DEF Told, Reports
  <2> QED BY <2>1, <2>2 DEF IndInv, OnceInv
<1> QED BY <1>1, Invariance, PTL


=============================================================================
