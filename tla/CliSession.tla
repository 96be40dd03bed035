----------------------------- MODULE CliSession -----------------------------
(***************************************************************************)
(* The users' side: runs of echidna-cli (cli/main.cpp), each with one      *)
(* request, and the server's CLIManager (server/climanager.cpp), whose one *)
(* thread serves one socket after the other, without a timeout.  A cli may *)
(* go away at any moment: its user stops it, or its kernel file is missing.*)
(*                                                                         *)
(* A request is sent in parts and may stop between any two: the command,   *)
(* and for an upload the five numbers and the shader.  The job queue is    *)
(* what JobQueue is shown to be: frames are counted one by one, finishJob  *)
(* erases the job and then adds its notice, getStatus has two sections.    *)
(***************************************************************************)
EXTENDS Integers, Sequences, FiniteSets, Functions

CONSTANTS
    Clis,           \* runs of echidna-cli
    FrameCounts,    \* the values of --frames
    MaxGone,        \* bound: how many clis go away before their answer
    NoCli           \* no session

ASSUME CliAssumption ==
    /\ IsFiniteSet(Clis)
    /\ FrameCounts \subseteq Nat
    /\ MaxGone \in Nat
    /\ NoCli \notin Clis

VARIABLES
    cli,        \* where each cli is
    request,    \* what it asks for
    sent,       \* how many parts of the request have arrived
    answer,     \* the answer in its socket, none or one
    output,     \* what it prints
    backlog,    \* connections the server has not accepted
    session,    \* the cli whose socket the server thread holds
    server,     \* where the server thread is
    reply,      \* the answer it is making
    jobs,       \* the jobs, by id
    notices     \* the queue's finished list

cliVars == <<cli, request, sent, output>>
queueVars == <<jobs, notices>>
vars == <<cli, request, sent, answer, output, backlog, session, server, reply, jobs,
          notices>>

\* --submit with its --frames, or --query.
Requests == [command : {"UPLOAD"}, frames : FrameCounts] \cup
            [command : {"STATUS"}, frames : {0}]
Parts(r) == IF r.command = "UPLOAD" THEN 3 ELSE 1

\* Job ids count from 0; a job keeps who submitted it (for the properties only).
JobIds == 0 .. Len(jobs) - 1
Job(j) == jobs[j + 1]

Init ==
    /\ cli = [c \in Clis |-> "start"]
    /\ request \in [Clis -> Requests]
    /\ sent = [c \in Clis |-> 0]
    /\ answer = [c \in Clis |-> <<>>]
    /\ output = [c \in Clis |-> {}]
    /\ backlog = <<>>
    /\ session = NoCli
    /\ server = "accept"
    /\ reply = <<>>
    /\ jobs = <<>>
    /\ notices = <<>>

-----------------------------------------------------------------------------
(* echidna-cli.                                                            *)

\* Arguments that are missing or wrong, or no server to connect to.
Refuse(c) ==
    /\ cli[c] = "start"
    /\ cli' = [cli EXCEPT ![c] = "done"]
    /\ UNCHANGED <<request, sent, answer, output, backlog, session, server, reply,
                   queueVars>>

Connect(c) ==
    /\ cli[c] = "start"
    /\ cli' = [cli EXCEPT ![c] = "connected"]
    /\ backlog' = Append(backlog, c)
    /\ UNCHANGED <<request, sent, answer, output, session, server, reply, queueVars>>

SendPart(c) ==
    /\ cli[c] = "connected"
    /\ sent[c] < Parts(request[c])
    /\ sent' = [sent EXCEPT ![c] = @ + 1]
    /\ UNCHANGED <<cli, request, answer, output, backlog, session, server, reply,
                   queueVars>>

\* Mutant: one zero is enough.
LineEither(s) == [job |-> s.job, finished |-> s.rendered = 0 \/ s.total = 0,
                  rendered |-> s.rendered, total |-> s.total]

\* query() prints "finished" for a job of 0 frames out of 0.
Line(s) == [job |-> s.job, finished |-> s.rendered = 0 /\ s.total = 0,
            rendered |-> s.rendered, total |-> s.total]

\* The answer is read and printed: the id of the job, or the list of jobs.
Finish(c) ==
    /\ cli[c] = "connected"
    /\ answer[c] # <<>>
    /\ output' = [output EXCEPT ![c] = {Line(s) : s \in Range(answer[c][1])}]
    /\ answer' = [answer EXCEPT ![c] = <<>>]
    /\ cli' = [cli EXCEPT ![c] = "done"]
    /\ UNCHANGED <<request, sent, backlog, session, server, reply, queueVars>>

Gone == {c \in Clis : cli[c] = "gone"}

\* The cli ends before its answer: stopped, or its kernel file cannot be opened.
GoAway(c) ==
    /\ cli[c] = "connected"
    /\ Cardinality(Gone) < MaxGone
    /\ cli' = [cli EXCEPT ![c] = "gone"]
    /\ UNCHANGED <<request, sent, answer, output, backlog, session, server, reply,
                   queueVars>>

-----------------------------------------------------------------------------
(* CLIManager::serverThread.                                               *)

Accept ==
    /\ server = "accept"
    /\ backlog # <<>>
    /\ session' = Head(backlog)
    /\ backlog' = Tail(backlog)
    /\ server' = "command"
    /\ UNCHANGED <<cliVars, answer, reply, queueVars>>

RecvCommand ==
    /\ server = "command"
    /\ sent[session] >= 1
    /\ server' = request[session].command
    /\ UNCHANGED <<cliVars, answer, backlog, session, reply, queueVars>>

RecvNumbers ==
    /\ server = "UPLOAD"
    /\ sent[session] >= 2
    /\ server' = "shader"
    /\ UNCHANGED <<cliVars, answer, backlog, session, reply, queueVars>>

\* Mutant: recvFully takes the end of the stream for the end of the data.
HandleUploadShort ==
    /\ server = "shader"
    /\ sent[session] >= 3 \/ cli[session] = "gone"
    /\ jobs' = Append(jobs, [by |-> session, total |-> request[session].frames,
                             rendered |-> 0, state |-> "listed"])
    /\ reply' = <<[job |-> Len(jobs), rendered |-> 0, total |-> 0]>>
    /\ server' = "reply"
    /\ UNCHANGED <<cliVars, answer, backlog, session, notices>>

\* Mutant: addJob returns the counter after it is increased.
HandleUploadNextId ==
    /\ server = "shader"
    /\ sent[session] >= 3
    /\ jobs' = Append(jobs, [by |-> session, total |-> request[session].frames,
                             rendered |-> 0, state |-> "listed"])
    /\ reply' = <<[job |-> Len(jobs) + 1, rendered |-> 0, total |-> 0]>>
    /\ server' = "reply"
    /\ UNCHANGED <<cliVars, answer, backlog, session, notices>>

\* The shader is complete: addJob, whose id is the answer.
HandleUpload ==
    /\ server = "shader"
    /\ sent[session] >= 3
    /\ jobs' = Append(jobs, [by |-> session, total |-> request[session].frames,
                             rendered |-> 0, state |-> "listed"])
    /\ reply' = <<[job |-> Len(jobs), rendered |-> 0, total |-> 0]>>
    /\ server' = "reply"
    /\ UNCHANGED <<cliVars, answer, backlog, session, notices>>

\* Mutant: the finished list is not emptied.
StatusFinishedKeep ==
    /\ server = "STATUS"
    /\ reply' = [i \in DOMAIN notices |->
                   [job |-> notices[i], rendered |-> 0, total |-> 0]]
    /\ server' = "running"
    /\ UNCHANGED <<cliVars, answer, backlog, session, queueVars>>

\* getStatus, first section: the finished jobs, as 0 of 0; the list is emptied.
StatusFinished ==
    /\ server = "STATUS"
    /\ reply' = [i \in DOMAIN notices |->
                   [job |-> notices[i], rendered |-> 0, total |-> 0]]
    /\ notices' = <<>>
    /\ server' = "running"
    /\ UNCHANGED <<cliVars, answer, backlog, session, jobs>>

\* Second section: the jobs still in the map, in the order of its iteration.
Running == {j \in JobIds : Job(j).state = "listed"}

StatusRunning ==
    /\ server = "running"
    /\ \E order \in [1 .. Cardinality(Running) -> Running] :
          /\ IsInjective(order)
          /\ reply' = reply \o [i \in DOMAIN order |->
                         [job |-> order[i], rendered |-> Job(order[i]).rendered,
                          total |-> Job(order[i]).total]]
    /\ server' = "reply"
    /\ UNCHANGED <<cliVars, answer, backlog, session, queueVars>>

\* sendFully to a cli that is gone is lost or throws; the loop goes on either way.
SendReply ==
    /\ server = "reply"
    /\ answer' = [answer EXCEPT ![session] =
                    IF cli[session] = "gone" THEN @ ELSE <<reply>>]
    /\ reply' = <<>>
    /\ session' = NoCli
    /\ server' = "accept"
    /\ UNCHANGED <<cliVars, backlog, queueVars>>

\* The part the server thread waits for.
Awaited == CASE server = "command" -> 1 [] server = "UPLOAD" -> 2 [] OTHER -> 3

\* Mutant: the exception ends the loop, as it does in ClientManager::handleClients.
RecvFailsLeave ==
    /\ server \in {"command", "UPLOAD", "shader"}
    /\ cli[session] = "gone"
    /\ sent[session] < Awaited
    /\ session' = NoCli
    /\ server' = "ended"
    /\ UNCHANGED <<cliVars, answer, backlog, reply, queueVars>>

\* The stream ends early: a NetworkException, caught inside the accept loop.
RecvFails ==
    /\ server \in {"command", "UPLOAD", "shader"}
    /\ cli[session] = "gone"
    /\ sent[session] < Awaited
    /\ session' = NoCli
    /\ server' = "accept"
    /\ UNCHANGED <<cliVars, answer, backlog, reply, queueVars>>

-----------------------------------------------------------------------------
(* The rest of the server, on the job queue.                               *)

FrameRendered(j) ==
    /\ Job(j).rendered < Job(j).total
    /\ jobs' = [jobs EXCEPT ![j + 1].rendered = @ + 1]
    /\ UNCHANGED <<cliVars, answer, backlog, session, server, reply, notices>>

\* finishJob: the job leaves the map, then its notice joins the list.
FinishJobErase(j) ==
    /\ Job(j).state = "listed"
    /\ Job(j).total > 0
    /\ Job(j).rendered = Job(j).total
    /\ jobs' = [jobs EXCEPT ![j + 1].state = "erased"]
    /\ UNCHANGED <<cliVars, answer, backlog, session, server, reply, notices>>

FinishJobPush(j) ==
    /\ Job(j).state = "erased"
    /\ jobs' = [jobs EXCEPT ![j + 1].state = "noticed"]
    /\ notices' = Append(notices, j)
    /\ UNCHANGED <<cliVars, answer, backlog, session, server, reply>>

-----------------------------------------------------------------------------

CliStep(c) == Refuse(c) \/ Connect(c) \/ SendPart(c) \/ Finish(c)

ServerStep ==
    \/ Accept \/ RecvCommand \/ RecvNumbers \/ HandleUpload \/ RecvFails
    \/ StatusFinished \/ StatusRunning \/ SendReply

Next ==
    \/ \E c \in Clis : CliStep(c) \/ GoAway(c)
    \/ ServerStep
    \/ \E j \in JobIds : FrameRendered(j) \/ FinishJobErase(j) \/ FinishJobPush(j)

Spec == Init /\ [][Next]_vars

(***************************************************************************)
(* Fairness: the server's thread runs on, and a cli that does not go away  *)
(* sends all of its request: submit_job and query_status send one buffer   *)
(* with sendFully and wait for nothing in between.                         *)
(***************************************************************************)
FairSpec ==
    /\ Spec
    /\ WF_vars(ServerStep)
    /\ \A c \in Clis : WF_vars(CliStep(c))

-----------------------------------------------------------------------------
(* Properties.                                                             *)

Status == [job : Nat, rendered : Nat, total : Nat]

\* Types of all variables.
TypeOK ==
    /\ cli \in [Clis -> {"start", "connected", "done", "gone"}]
    /\ request \in [Clis -> Requests]
    /\ sent \in [Clis -> 0 .. 3]
    /\ answer \in [Clis -> Seq(Seq(Status))]
    /\ \A c \in Clis : Len(answer[c]) <= 1
    /\ \A c \in Clis : output[c] \subseteq [job : Nat, finished : BOOLEAN,
                                            rendered : Nat, total : Nat]
    /\ backlog \in Seq(Clis)
    /\ session \in Clis \cup {NoCli}
    /\ server \in {"accept", "command", "UPLOAD", "shader", "STATUS", "running",
                   "reply", "ended"}
    /\ (session = NoCli) = (server \in {"accept", "ended"})
    /\ reply \in Seq(Status)
    /\ jobs \in Seq([by : Clis, total : FrameCounts, rendered : Nat,
                     state : {"listed", "erased", "noticed"}])
    /\ notices \in Seq(JobIds)

Submitted(c) == cli[c] = "done" /\ request[c].command = "UPLOAD"
Queried(c) == cli[c] = "done" /\ request[c].command = "STATUS"

\* The id echidna-cli prints is the id of the job it submitted, with its frames
\* (main.cpp: "Submit a job to the server. Returns the job id."), whatever other
\* clis did in between; so no two of them print the same id.
PrintedIdIsMine ==
    \A c \in Clis : Submitted(c) =>
        \A l \in output[c] : /\ l.job \in JobIds
                             /\ Job(l.job).by = c
                             /\ Job(l.job).total = request[c].frames

\* A job exists only if all of its request arrived, and once: a cli that went
\* away halfway through an upload leaves no job behind.
NoPartialUpload ==
    /\ \A j \in JobIds : sent[Job(j).by] = Parts(request[Job(j).by])
    /\ \A i, j \in JobIds : Job(i).by = Job(j).by => i = j

\* What a query prints is true: a finished job has all its frames rendered, and
\* a running one shows its own total and no more frames than are rendered.  The
\* code has no other sign of a finished job than the numbers 0 and 0.
ListIsTrue ==
    \A c \in Clis : Queried(c) =>
        \A l \in output[c] :
            /\ l.job \in JobIds
            /\ IF l.finished THEN Job(l.job).rendered = Job(l.job).total
               ELSE /\ l.rendered <= Job(l.job).rendered
                    /\ l.total = Job(l.job).total

\* Of all the queries, at most one shows a job that had frames as finished.
FinishedShownOnce ==
    \A b, c \in Clis : \A k \in output[b], l \in output[c] :
        /\ Queried(b) /\ Queried(c) /\ k.finished /\ l.finished /\ k.job = l.job
        /\ Job(k.job).total > 0
        => b = c

\* Every cli that does not go away gets its answer, whichever others go away in
\* the middle of their session: the server's only thread survives them.
CliAnswered == \A c \in Clis : <>(cli[c] \in {"done", "gone"})

=============================================================================
