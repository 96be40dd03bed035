------------------------------ MODULE Dispatch ------------------------------
(***************************************************************************)
(* The server's client side: ClientManager (clientmanager.cpp), one        *)
(* ClientHandler per connection (clienthandler.cpp), composed with the     *)
(* clients of RenderClient.                                                *)
(*                                                                         *)
(* Threads: the accept thread, the distribution thread, the keepalive      *)
(* thread, and a response and an issue thread per handler.                 *)
(*                                                                         *)
(* The job queue is taken as what JobQueue is shown to be, with atomic     *)
(* calls: fresh tasks in the order of submission, handed-back tasks first, *)
(* a counter per job and the map of unfinished jobs.                       *)
(*                                                                         *)
(* Locks: task_mutex of a handler is held by its issue thread while it     *)
(* sends; client_map_mutex is held shared by the distribution thread while *)
(* it submits and exclusively by removeClient.  The other places that name *)
(* client_map_mutex lock a temporary and hold it for no statement at all.  *)
(***************************************************************************)
EXTENDS RenderClient, Functions, FiniteSetsExt

CONSTANTS
    Frames,         \* the frame counts of the jobs, in the order of submission
    MIN_JOB_CAPABILITY,
    MAX_JOB_CAPABILITY,
    ESTIMATED_JOB_TIMEOUT,
    FrameTimes      \* the times per frame a client may report

ASSUME DispatchAssumption ==
    /\ Frames \in Seq(Nat \ {0})
    /\ MIN_JOB_CAPABILITY \in Nat \ {0}
    /\ MAX_JOB_CAPABILITY \in Nat
    /\ MIN_JOB_CAPABILITY <= MAX_JOB_CAPABILITY
    /\ ESTIMATED_JOB_TIMEOUT \in Nat
    /\ FrameTimes \subseteq Nat
    /\ FrameTimes # {}

JobId == 1 .. Len(Frames)
Task == UNION {[job : {j}, frame : 0 .. Frames[j] - 1] : j \in JobId}
Nobody == <<"nobody">>

VARIABLES
    submitted,      \* how many jobs were submitted
    fresh,          \* tasks never handed out
    task_queue,     \* tasks handed back
    jobs,           \* the unfinished jobs
    frames_rendered,\* the count of each job
    done            \* history: the frames behind that count

VARIABLES
    client_map,     \* the clients that have a handler
    map_owner,      \* who holds client_map_mutex exclusively
    free_clients,   \* clients waiting for work
    dist,           \* the distribution thread
    dist_client,    \* the client it serves
    max_jobs,       \* the batch size it read
    tasks,          \* the batch it holds
    keeper,         \* the keepalive thread
    kept            \* the client it is busy with

VARIABLES
    active,         \* the handler runs and its socket is open
    active_tasks,   \* the last batch accepted
    new_jobs,       \* it was not yet taken by the issue thread
    job_capability, \* the client's batch size
    has_received,   \* an update was received
    keepalive,      \* the last keepalive was answered
    response,       \* the response thread
    reported,       \* the frame it has read and not yet counted
    issue,          \* the issue thread
    requests        \* the packets it has yet to send

queueVars == <<submitted, fresh, task_queue, jobs, frames_rendered, done>>
managerVars == <<client_map, map_owner, free_clients, dist, dist_client, max_jobs,
                 tasks, keeper, kept>>
handlerVars == <<active, active_tasks, new_jobs, job_capability, has_received,
                 keepalive, response, reported, issue, requests>>
vars == <<clientVars, queueVars, managerVars, handlerVars>>

Init ==
    /\ ClientInit
    /\ submitted = 0
    /\ fresh = <<>>
    /\ task_queue = <<>>
    /\ jobs = {}
    /\ frames_rendered = [j \in JobId |-> 0]
    /\ done = [j \in JobId |-> {}]
    /\ client_map = {}
    /\ map_owner = Nobody
    /\ free_clients = <<>>
    /\ dist = "wait"
    /\ dist_client = Nobody
    /\ max_jobs = 0
    /\ tasks = <<>>
    /\ keeper = "idle"
    /\ kept = Nobody
    /\ active = [c \in Clients |-> FALSE]
    /\ active_tasks = [c \in Clients |-> <<>>]
    /\ new_jobs = [c \in Clients |-> FALSE]
    /\ job_capability = [c \in Clients |-> MIN_JOB_CAPABILITY]
    /\ has_received = [c \in Clients |-> FALSE]
    /\ keepalive = [c \in Clients |-> FALSE]
    /\ response = [c \in Clients |-> "none"]
    /\ reported = [c \in Clients |-> <<>>]
    /\ issue = [c \in Clients |-> "none"]
    /\ requests = [c \in Clients |-> <<>>]

-----------------------------------------------------------------------------
(* The job queue's operations.                                             *)

FramesOf(j) == [i \in 1 .. Frames[j] |-> [job |-> j, frame |-> i - 1]]

AddJob ==
    /\ submitted < Len(Frames)
    /\ submitted' = submitted + 1
    /\ fresh' = fresh \o FramesOf(submitted + 1)
    /\ jobs' = jobs \cup {submitted + 1}
    /\ UNCHANGED <<clientVars, task_queue, frames_rendered, done, managerVars, handlerVars>>

AddTasks(batch) ==
    /\ task_queue' = task_queue \o batch
    /\ UNCHANGED <<submitted, fresh, jobs, frames_rendered, done>>

\* Mutant: the count is compared before it is incremented.
NotifyUpdatePostIncrement(t) ==
    /\ UNCHANGED <<submitted, fresh, task_queue>>
    /\ IF t.job \in jobs
       THEN /\ frames_rendered' = [frames_rendered EXCEPT ![t.job] = @ + 1]
            /\ done' = [done EXCEPT ![t.job] = @ \cup {t.frame}]
            /\ jobs' = IF frames_rendered[t.job] = Frames[t.job]
                       THEN jobs \ {t.job} ELSE jobs
       ELSE UNCHANGED <<frames_rendered, done, jobs>>

\* notifyUpdate: a frame of a job that is no longer known is not counted.
NotifyUpdate(t) ==
    /\ UNCHANGED <<submitted, fresh, task_queue>>
    /\ IF t.job \in jobs
       THEN /\ frames_rendered' = [frames_rendered EXCEPT ![t.job] = @ + 1]
            /\ done' = [done EXCEPT ![t.job] = @ \cup {t.frame}]
            /\ jobs' = IF frames_rendered[t.job] + 1 = Frames[t.job]
                       THEN jobs \ {t.job} ELSE jobs
       ELSE UNCHANGED <<frames_rendered, done, jobs>>

-----------------------------------------------------------------------------
(* Locks.                                                                  *)

\* client_map_mutex can be locked shared, and exclusively.
MapShareable == map_owner = Nobody

\* Mutant: the distribution thread submits without the lock.
MapFreeUnread == MapShareable

MapFree == MapShareable /\ dist # "store"

TaskMutexFree(c) == issue[c] \notin {"send", "failed"}

-----------------------------------------------------------------------------
(* The accept thread: handleClient waits for client_map_mutex, and goes on *)
(* without it.                                                             *)

HandleClient(c) ==
    /\ MapFree
    /\ Start(c)
    /\ client_map' = client_map \cup {c}
    /\ active' = [active EXCEPT ![c] = TRUE]
    /\ response' = [response EXCEPT ![c] = "recv"]
    /\ issue' = [issue EXCEPT ![c] = "wait"]
    /\ UNCHANGED <<queueVars, map_owner, free_clients, dist, dist_client, max_jobs,
                   tasks, keeper, kept, active_tasks, new_jobs, job_capability,
                   has_received, keepalive, requests, reported>>

-----------------------------------------------------------------------------
(* The distribution thread.                                                *)

\* The loop starts again, with fresh locals.
DistAgain ==
    /\ dist' = "wait"
    /\ dist_client' = Nobody
    /\ max_jobs' = 0
    /\ tasks' = <<>>

DistWait ==
    /\ dist = "wait"
    /\ free_clients # <<>>
    /\ dist_client' = Head(free_clients)
    /\ free_clients' = Tail(free_clients)
    /\ dist' = "lookup"
    /\ UNCHANGED <<clientVars, queueVars, client_map, map_owner, max_jobs, tasks,
                   keeper, kept, handlerVars>>

DistLookup ==
    /\ dist = "lookup"
    /\ MapShareable
    /\ IF dist_client \in client_map
       THEN /\ max_jobs' = job_capability[dist_client]
            /\ dist' = "fetch"
            /\ UNCHANGED <<dist_client, tasks>>
       ELSE DistAgain
    /\ UNCHANGED <<clientVars, queueVars, client_map, map_owner, free_clients,
                   keeper, kept, handlerVars>>

\* getJobs: the handed-back tasks first, then fresh ones.  A fresh task of a
\* job that is no longer in the map is a null pointer to getJobs: the server
\* ends there.
DistFetch ==
    /\ dist = "fetch"
    /\ task_queue # <<>> \/ fresh # <<>>
    /\ LET back == SubSeq(task_queue, 1, Min({Len(task_queue), max_jobs}))
           new == SubSeq(fresh, 1, Min({Len(fresh), max_jobs - Len(back)}))
       IN  /\ \A i \in DOMAIN new : new[i].job \in jobs
           /\ tasks' = back \o new
           /\ task_queue' = SubSeq(task_queue, Len(back) + 1, Len(task_queue))
           /\ fresh' = SubSeq(fresh, Len(new) + 1, Len(fresh))
    /\ dist' = "submit"
    /\ UNCHANGED <<clientVars, submitted, jobs, frames_rendered, done, client_map,
                   map_owner, free_clients, dist_client, max_jobs, keeper, kept,
                   handlerVars>>

\* Mutant: the result of submitTasks is ignored.
DistRefusedDrop ==
    /\ dist = "submit"
    /\ MapShareable
    /\ dist_client \notin client_map \/ ~ active[dist_client]
    /\ DistAgain
    /\ UNCHANGED <<clientVars, queueVars, client_map, map_owner, free_clients, keeper,
                   kept, handlerVars>>

\* The client is gone, or its handler does not run: the batch is handed back.
DistRefused ==
    /\ dist = "submit"
    /\ MapShareable
    /\ dist_client \notin client_map \/ ~ active[dist_client]
    /\ AddTasks(tasks)
    /\ DistAgain
    /\ UNCHANGED <<clientVars, client_map, map_owner, free_clients, keeper, kept,
                   handlerVars>>

\* submitTasks has seen the handler active; the map is locked until DistStore.
DistSubmit ==
    /\ dist = "submit"
    /\ MapShareable
    /\ dist_client \in client_map
    /\ active[dist_client]
    /\ dist' = "store"
    /\ UNCHANGED <<clientVars, queueVars, client_map, map_owner, free_clients,
                   dist_client, max_jobs, tasks, keeper, kept, handlerVars>>

DistStore ==
    /\ dist = "store"
    /\ TaskMutexFree(dist_client)
    /\ active_tasks' = [active_tasks EXCEPT ![dist_client] = tasks]
    /\ new_jobs' = [new_jobs EXCEPT ![dist_client] = TRUE]
    /\ DistAgain
    /\ UNCHANGED <<clientVars, queueVars, client_map, map_owner, free_clients, keeper,
                   kept, active, job_capability, has_received, keepalive, response,
                   issue, requests, reported>>

-----------------------------------------------------------------------------
(* The response thread of a handler.                                       *)

Received(c, type) ==
    /\ response[c] = "recv"
    /\ active[c]
    /\ up[c] # <<>>
    /\ Head(up[c]).type = type

Consume(c) ==
    /\ up' = [up EXCEPT ![c] = Tail(@)]
    /\ UNCHANGED <<down, main, render_queue, current, send_queue, disconnects>>

NotifyFinish(c) == free_clients' = Append(free_clients, c)

HandleConnect(c) ==
    /\ Received(c, "CONNECT")
    /\ Consume(c)
    /\ NotifyFinish(c)
    /\ UNCHANGED <<queueVars, client_map, map_owner, dist, dist_client, max_jobs,
                   tasks, keeper, kept, handlerVars>>

HandleKeepAlive(c) ==
    /\ Received(c, "KEEPALIVE")
    /\ Consume(c)
    /\ keepalive' = [keepalive EXCEPT ![c] = TRUE]
    /\ UNCHANGED <<queueVars, managerVars, active, active_tasks, new_jobs,
                   job_capability, has_received, response, issue, requests, reported>>

\* One frame of an update is read; with its last frame the packet is consumed.
ReadUpdate(c) ==
    /\ Received(c, "UPDATE_JOB")
    /\ LET frames == Head(up[c]).tasks
       IN  /\ reported' = [reported EXCEPT ![c] = <<Head(frames)>>]
           /\ IF Len(frames) = 1
              THEN /\ Consume(c)
                   /\ has_received' = [has_received EXCEPT ![c] = TRUE]
              ELSE /\ up' = [up EXCEPT ![c][1].tasks = Tail(@)]
                   /\ UNCHANGED <<down, main, render_queue, current, send_queue,
                                  disconnects, has_received>>
    /\ response' = [response EXCEPT ![c] = "count"]
    /\ UNCHANGED <<queueVars, managerVars, active, active_tasks, new_jobs,
                   job_capability, keepalive, issue, requests>>

\* The frame is counted, even if the handler was stopped in between.
CountUpdate(c) ==
    /\ response[c] = "count"
    /\ NotifyUpdate(reported[c][1])
    /\ reported' = [reported EXCEPT ![c] = <<>>]
    /\ response' = [response EXCEPT ![c] = "recv"]
    /\ UNCHANGED <<clientVars, managerVars, active, active_tasks, new_jobs,
                   job_capability, has_received, keepalive, issue, requests>>

\* Mutant: the quotient is bounded from above only.
CapabilityNoMinimum(time_per_frame) ==
    LET frames == IF time_per_frame = 0 THEN MAX_JOB_CAPABILITY
                                        ELSE ESTIMATED_JOB_TIMEOUT \div time_per_frame
    IN  IF frames > MAX_JOB_CAPABILITY THEN MAX_JOB_CAPABILITY ELSE frames

\* The batch size of a client that needs this time for a frame.
Capability(time_per_frame) ==
    LET frames == IF time_per_frame = 0 THEN MAX_JOB_CAPABILITY
                                        ELSE ESTIMATED_JOB_TIMEOUT \div time_per_frame
    IN  IF frames > MAX_JOB_CAPABILITY THEN MAX_JOB_CAPABILITY
        ELSE IF frames < MIN_JOB_CAPABILITY THEN MIN_JOB_CAPABILITY
        ELSE frames

HandleFinish(c) ==
    /\ Received(c, "FINISH_JOB")
    /\ Consume(c)
    /\ NotifyFinish(c)
    /\ \E time \in FrameTimes : job_capability' =
        [job_capability EXCEPT ![c] = IF has_received[c] THEN Capability(time) ELSE @]
    /\ UNCHANGED <<queueVars, client_map, map_owner, dist, dist_client, max_jobs,
                   tasks, keeper, kept, active, active_tasks, new_jobs, has_received,
                   keepalive, response, issue, requests, reported>>

\* The connection is at its end, or another thread stopped the handler: the
\* response thread stops it (again).
ResponseEnd(c) ==
    /\ response[c] = "recv"
    /\ ~ active[c] \/ (main[c] = "gone" /\ up[c] = <<>>)
    /\ active' = [active EXCEPT ![c] = FALSE]
    /\ response' = [response EXCEPT ![c] = "stop"]
    /\ UNCHANGED <<clientVars, queueVars, managerVars, active_tasks, new_jobs,
                   job_capability, has_received, keepalive, issue, requests, reported>>

-----------------------------------------------------------------------------
(* removeClient, called by stop(): client_map_mutex, then task_mutex, then *)
(* the last batch is handed back.  The handler stays in the map.           *)

ResponseRemove(c) ==
    /\ response[c] = "stop"
    /\ MapFree
    /\ map_owner' = <<"response", c>>
    /\ response' = [response EXCEPT ![c] = "remove"]
    /\ UNCHANGED <<clientVars, queueVars, client_map, free_clients, dist, dist_client,
                   max_jobs, tasks, keeper, kept, active, active_tasks, new_jobs,
                   job_capability, has_received, keepalive, issue, requests, reported>>

ResponseReturn(c) ==
    /\ response[c] = "remove"
    /\ TaskMutexFree(c)
    /\ AddTasks(active_tasks[c])
    /\ map_owner' = Nobody
    /\ response' = [response EXCEPT ![c] = "exited"]
    /\ UNCHANGED <<clientVars, client_map, free_clients, dist, dist_client, max_jobs,
                   tasks, keeper, kept, active, active_tasks, new_jobs, job_capability,
                   has_received, keepalive, issue, requests, reported>>

-----------------------------------------------------------------------------
(* The issue thread of a handler.                                          *)

\* A finite set of numbers in ascending order.
Ascending(S) ==
    CHOOSE s \in [1 .. Cardinality(S) -> S] : \A i, k \in DOMAIN s : i < k => s[i] < s[k]

\* The batch, one packet for each job in it, in the order of the job ids.
Requests(batch) ==
    LET ids == Ascending({batch[i].job : i \in DOMAIN batch})
        places(j) == Ascending({i \in DOMAIN batch : batch[i].job = j})
    IN  [k \in DOMAIN ids |->
            Packet("ISSUE_JOB", [n \in DOMAIN places(ids[k]) |-> batch[places(ids[k])[n]]])]

IssueTake(c) ==
    /\ issue[c] = "wait"
    /\ new_jobs[c]
    /\ active[c]
    /\ new_jobs' = [new_jobs EXCEPT ![c] = FALSE]
    /\ requests' = [requests EXCEPT ![c] = Requests(active_tasks[c])]
    /\ issue' = [issue EXCEPT ![c] = "send"]
    /\ UNCHANGED <<clientVars, queueVars, managerVars, active, active_tasks,
                   job_capability, has_received, keepalive, response, reported>>

IssueSend(c) ==
    /\ issue[c] = "send"
    /\ active[c]
    /\ SendDown(c, Head(requests[c]))
    /\ requests' = [requests EXCEPT ![c] = Tail(@)]
    /\ issue' = [issue EXCEPT ![c] = IF Len(requests[c]) = 1 THEN "wait" ELSE "send"]
    /\ UNCHANGED <<up, main, render_queue, current, send_queue, disconnects, queueVars,
                   managerVars, active, active_tasks, new_jobs, job_capability,
                   has_received, keepalive, response, reported>>

\* The send fails: the batch is forgotten and stop() is called with task_mutex
\* held.  removeClient's getJobs then locks task_mutex a second time, so the
\* thread never gets further than IssueRemove.
IssueFail(c) ==
    /\ issue[c] = "send"
    /\ ~ active[c] \/ main[c] = "gone"
    /\ active_tasks' = [active_tasks EXCEPT ![c] = <<>>]
    /\ active' = [active EXCEPT ![c] = FALSE]
    /\ issue' = [issue EXCEPT ![c] = "failed"]
    /\ UNCHANGED <<clientVars, queueVars, managerVars, new_jobs, job_capability,
                   has_received, keepalive, response, requests, reported>>

IssueRemove(c) ==
    /\ issue[c] = "failed"
    /\ MapFree
    /\ map_owner' = <<"issue", c>>
    /\ UNCHANGED <<clientVars, queueVars, client_map, free_clients, dist, dist_client,
                   max_jobs, tasks, keeper, kept, handlerVars>>

IssueEnd(c) ==
    /\ issue[c] = "wait"
    /\ ~ active[c]
    /\ issue' = [issue EXCEPT ![c] = "exited"]
    /\ UNCHANGED <<clientVars, queueVars, managerVars, active, active_tasks, new_jobs,
                   job_capability, has_received, keepalive, response, requests, reported>>

-----------------------------------------------------------------------------
(* The keepalive thread: one client after the other.                       *)

TryKeepAlive(c) ==
    /\ keeper = "idle"
    /\ c \in client_map
    /\ active[c]
    /\ kept' = c
    /\ keeper' = "wait"
    /\ keepalive' = [keepalive EXCEPT ![c] = FALSE]
    /\ SendDown(c, Packet("KEEPALIVE", <<>>))
    /\ UNCHANGED <<up, main, render_queue, current, send_queue, disconnects, queueVars,
                   client_map, map_owner, free_clients, dist, dist_client, max_jobs,
                   tasks, active, active_tasks, new_jobs, job_capability, has_received,
                   response, issue, requests, reported>>

KeepAliveAnswered ==
    /\ keeper = "wait"
    /\ keepalive[kept]
    /\ keeper' = "idle"
    /\ kept' = Nobody
    /\ UNCHANGED <<clientVars, queueVars, client_map, map_owner, free_clients, dist,
                   dist_client, max_jobs, tasks, handlerVars>>

\* The send fails, or the handler stops before the answer comes: the keepalive
\* thread stops the handler (again).
KeepAliveFailed(c) ==
    /\ \/ /\ keeper = "idle"
          /\ c \in client_map
          /\ ~ active[c] \/ main[c] = "gone"
       \/ /\ keeper = "wait"
          /\ kept = c
          /\ ~ keepalive[c] /\ ~ active[c]
    /\ kept' = c
    /\ keeper' = "stop"
    /\ active' = [active EXCEPT ![c] = FALSE]
    /\ keepalive' = [keepalive EXCEPT ![c] = FALSE]
    /\ UNCHANGED <<clientVars, queueVars, client_map, map_owner, free_clients, dist,
                   dist_client, max_jobs, tasks, active_tasks, new_jobs, job_capability,
                   has_received, response, issue, requests, reported>>

KeeperRemove ==
    /\ keeper = "stop"
    /\ MapFree
    /\ map_owner' = <<"keeper", kept>>
    /\ keeper' = "remove"
    /\ UNCHANGED <<clientVars, queueVars, client_map, free_clients, dist, dist_client,
                   max_jobs, tasks, kept, handlerVars>>

KeeperReturn ==
    /\ keeper = "remove"
    /\ TaskMutexFree(kept)
    /\ AddTasks(active_tasks[kept])
    /\ map_owner' = Nobody
    /\ keeper' = "join"
    /\ UNCHANGED <<clientVars, client_map, free_clients, dist, dist_client, max_jobs,
                   tasks, kept, handlerVars>>

\* join(), then client_map_mutex is locked and released at once.
KeeperJoin ==
    /\ keeper = "join"
    /\ response[kept] = "exited"
    /\ issue[kept] = "exited"
    /\ MapFree
    /\ keeper' = "delete"
    /\ UNCHANGED <<clientVars, queueVars, client_map, map_owner, free_clients, dist,
                   dist_client, max_jobs, tasks, kept, handlerVars>>

\* The handler is deleted and leaves the map, with no lock held.
KeeperDelete ==
    /\ keeper = "delete"
    /\ client_map' = client_map \ {kept}
    /\ keeper' = "idle"
    /\ kept' = Nobody
    /\ UNCHANGED <<clientVars, queueVars, map_owner, free_clients, dist, dist_client,
                   max_jobs, tasks, handlerVars>>

-----------------------------------------------------------------------------

ClientStep(c) ==
    RecvKeepAlive(c) \/ RecvIssueJob(c) \/ GetTask(c) \/ RequestMoreJobs(c) \/
    UpdateServer(c) \/ SendUpdate(c) \/ Disconnect(c)

RemoteStep(c) == ClientStep(c) /\ UNCHANGED <<queueVars, managerVars, handlerVars>>

DistStep == DistWait \/ DistLookup \/ DistFetch \/ DistRefused \/ DistSubmit \/ DistStore

ResponseStep(c) ==
    HandleConnect(c) \/ HandleKeepAlive(c) \/ ReadUpdate(c) \/ CountUpdate(c) \/ HandleFinish(c) \/
    ResponseEnd(c) \/ ResponseRemove(c) \/ ResponseReturn(c)

IssueStep(c) ==
    IssueTake(c) \/ IssueSend(c) \/ IssueFail(c) \/ IssueRemove(c) \/ IssueEnd(c)

KeeperStep ==
    \/ \E c \in Clients : TryKeepAlive(c) \/ KeepAliveFailed(c)
    \/ KeepAliveAnswered \/ KeeperRemove \/ KeeperReturn \/ KeeperJoin \/ KeeperDelete

Next ==
    \/ AddJob
    \/ DistStep
    \/ KeeperStep
    \/ \E c \in Clients : HandleClient(c) \/ RemoteStep(c) \/ ResponseStep(c) \/ IssueStep(c)

Spec == Init /\ [][Next]_vars

(***************************************************************************)
(* Fairness: every thread of the server and of a client that is up runs    *)
(* on, and a client that is started connects unless the server keeps       *)
(* client_map_mutex from its accept thread for ever.  No client has to go  *)
(* away, and no job has to be submitted.                                   *)
(***************************************************************************)
Other(A) == A /\ UNCHANGED <<queueVars, managerVars, handlerVars>>

FairSpec ==
    /\ Spec
    /\ WF_vars(DistStep)
    /\ WF_vars(KeeperStep)
    /\ \A c \in Clients :
        /\ SF_vars(HandleClient(c))
        /\ WF_vars(ResponseStep(c))
        /\ WF_vars(IssueStep(c))
        /\ WF_vars(Other(RecvKeepAlive(c) \/ RecvIssueJob(c)))
        /\ WF_vars(Other(GetTask(c) \/ RequestMoreJobs(c) \/ UpdateServer(c)))
        /\ WF_vars(Other(SendUpdate(c)))

-----------------------------------------------------------------------------
(* Properties.                                                             *)

Batches == Seq(Task)
Packets(types) == Seq([type : types, tasks : Batches])

\* Types of all variables.
TypeOK ==
    /\ up \in [Clients -> Packets({"CONNECT", "KEEPALIVE", "UPDATE_JOB", "FINISH_JOB"})]
    /\ down \in [Clients -> Packets({"KEEPALIVE", "ISSUE_JOB"})]
    /\ main \in [Clients -> {"new", "get", "ask", "render", "gone"}]
    /\ render_queue \in [Clients -> Seq(Batches)]
    /\ current \in [Clients -> Batches]
    /\ send_queue \in [Clients -> Batches]
    /\ disconnects \in 0 .. Cardinality(Mortal)
    /\ submitted \in 0 .. Len(Frames)
    /\ fresh \in Batches
    /\ task_queue \in Batches
    /\ jobs \subseteq 1 .. submitted
    /\ frames_rendered \in [JobId -> Nat]
    /\ done \in [JobId -> SUBSET Nat]
    /\ client_map \subseteq Clients
    /\ map_owner \in {Nobody} \cup ({"response", "issue", "keeper"} \X Clients)
    /\ free_clients \in Seq(Clients)
    /\ dist \in {"wait", "lookup", "fetch", "submit", "store"}
    /\ dist_client \in Clients \cup {Nobody}
    /\ max_jobs \in {0} \cup (MIN_JOB_CAPABILITY .. MAX_JOB_CAPABILITY)
    /\ tasks \in Batches
    /\ Len(tasks) <= max_jobs
    /\ keeper \in {"idle", "wait", "stop", "remove", "join", "delete"}
    /\ kept \in Clients \cup {Nobody}
    /\ active \in [Clients -> BOOLEAN]
    /\ active_tasks \in [Clients -> Batches]
    /\ new_jobs \in [Clients -> BOOLEAN]
    /\ job_capability \in [Clients -> MIN_JOB_CAPABILITY .. MAX_JOB_CAPABILITY]
    /\ has_received \in [Clients -> BOOLEAN]
    /\ keepalive \in [Clients -> BOOLEAN]
    /\ response \in [Clients -> {"none", "recv", "count", "stop", "remove", "exited"}]
    /\ reported \in [Clients -> Batches]
    /\ issue \in [Clients -> {"none", "wait", "send", "failed", "exited"}]
    /\ requests \in [Clients -> Packets({"ISSUE_JOB"})]

\* The parts of the system that hold tasks, and the batches in each of them.
InServer == {"fresh", "task_queue", "tasks"}
WithClient == {"new_jobs", "requests", "down", "render_queue", "current", "send_queue",
               "up", "reported"}

TasksOf(packets) == [k \in DOMAIN packets |-> packets[k].tasks]

Held(part, c) ==
    CASE part = "fresh"        -> <<fresh>>
      [] part = "task_queue"   -> <<task_queue>>
      [] part = "tasks"        -> <<tasks>>
      [] part = "new_jobs"     -> IF new_jobs[c] THEN <<active_tasks[c]>> ELSE <<>>
      [] part = "requests"     -> TasksOf(requests[c])
      [] part = "down"         -> TasksOf(down[c])
      [] part = "render_queue" -> render_queue[c]
      [] part = "current"      -> <<current[c]>>
      [] part = "send_queue"   -> <<send_queue[c]>>
      [] part = "up"           -> TasksOf(up[c])
      [] part = "reported"     -> <<reported[c]>>

\* A place: the part and its client, the batch in it and the position in that.
PlacesIn(part, c) ==
    UNION {{<<part, c, k, i>> : i \in DOMAIN Held(part, c)[k]} : k \in DOMAIN Held(part, c)}

ServerPlaces == UNION {PlacesIn(part, Nobody) : part \in InServer}
ClientPlaces(c) == UNION {PlacesIn(part, c) : part \in WithClient}
Place == ServerPlaces \cup (UNION {ClientPlaces(c) : c \in Clients})

TaskAt(p) == Held(p[1], p[2])[p[3]][p[4]]

Counted == UNION {{[job |-> j, frame |-> f] : f \in done[j]} : j \in JobId}

Submitted == {t \in Task : t.job <= submitted}

\* From the submission to the count, across the queue, the handlers, the wire
\* and the clients, every frame is in exactly one place, once, as long as no
\* client goes away.
EachFrameOnce == disconnects = 0 =>
    /\ \A p, q \in Place : TaskAt(p) = TaskAt(q) => p = q
    /\ {TaskAt(p) : p \in Place} = Submitted \ Counted

Bit(b) == IF b THEN 1 ELSE 0
Occurrences(s, x) == Cardinality({i \in DOMAIN s : s[i] = x})
OfType(packets, types) == Cardinality({i \in DOMAIN packets : packets[i].type \in types})

\* What stands for a client's wish to work: its request on its way, its entry in
\* free_clients, or the batch that answers it, until the client takes that.
Tokens(c) ==
    OfType(up[c], {"CONNECT", "FINISH_JOB"}) + Occurrences(free_clients, c) +
    Bit(dist # "wait" /\ dist_client = c) + Bit(new_jobs[c]) + Len(requests[c]) +
    OfType(down[c], {"ISSUE_JOB"}) + Len(render_queue[c]) + Bit(main[c] = "ask")

\* A client's request for work and the batch that answers it are one token:
\* a client is never offered to the distribution thread twice, nor forgotten.
OneRequestPerClient == \A c \in Clients : Alive(c) => Tokens(c) = 1

\* Every submitted job is rendered and finished, as long as the clients stay.
JobsFinish ==
    [](disconnects = 0) => \A j \in JobId : (submitted >= j) ~> (j \notin jobs)

\* submitTasks accepts a batch only for a handler that will hand it back if it
\* stops: the handler is in the map and its response thread has not yet done so.
AcceptedBeforeRemoval ==
    dist = "store" => dist_client \in client_map /\ response[dist_client] # "exited"

\* Where a task is not lost: in the server, with a client that is up, or in the
\* batch its handler has still to hand back.
Safe ==
    {TaskAt(p) : p \in ServerPlaces} \cup
    (UNION {{TaskAt(p) : p \in ClientPlaces(c)} : c \in {d \in Clients : Alive(d)}}) \cup
    (UNION {Range(active_tasks[c]) :
            c \in {d \in Clients : response[d] \in {"recv", "count", "stop", "remove"}}})

\* A task is lost only with a client that went away: in the step in which it
\* does, or when the batch its handler remembers is replaced or forgotten.  The
\* server loses no task on its own, whatever it was doing with it.
LossOnlyByDisconnect ==
    [][\A t \in Safe \ (Safe' \cup Counted') :
        \/ t.job \notin jobs'
        \/ disconnects' > disconnects
        \/ \E c \in Clients : /\ main[c] = "gone"
                             /\ t \in Range(active_tasks[c])
                             /\ active_tasks'[c] # active_tasks[c]]_vars

\* A job is finished only when all of its frames are rendered (job.hpp:
\* "argument is called when all frames have finished").
FinishedIsRendered ==
    \A j \in 1 .. submitted : j \notin jobs => done[j] = 0 .. Frames[j] - 1

\* Every client that is started is connected in the end (README.md: "extra
\* clients can be connected at any moment").
ClientsConnect == \A c \in Clients : <>(main[c] # "new")

\* A batch accepted by submitTasks is not replaced before it is sent
\* (clienthandler.hpp: "Schedules a set of tasks to run on the client").
AcceptedIsSent ==
    [][\A c \in Clients : new_jobs[c] /\ new_jobs'[c] =>
        active_tasks'[c] = active_tasks[c]]_vars

=============================================================================
