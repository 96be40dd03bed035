---------------------------- MODULE ClientHandler ----------------------------
(***************************************************************************)
(* One ClientHandler (clienthandler.cpp) at the grain of its mutexes,      *)
(* condition variables and sends, where Dispatch has whole operations.     *)
(*                                                                         *)
(* Threads: the handler's response and issue threads, the manager's        *)
(* keepalive thread (tryKeepAlive, stop, join, delete), the manager's      *)
(* distribution thread (submitTasks), and the client at the other end.     *)
(*                                                                         *)
(* A condition variable's wait is three steps: the test under the mutex,   *)
(* the decision to sleep, and the sleep, which releases the mutex.  A      *)
(* notification between the first and the last is missed unless it is      *)
(* given under the same mutex; stop() gives its notifications without it.  *)
(*                                                                         *)
(* Bytes are parts: a keepalive is one part, a batch is Parts of them, and *)
(* each call of ::send moves one.  send_mutex is locked by a temporary     *)
(* that lives for no statement, so it is not in the model.                 *)
(*                                                                         *)
(* The lock before the deletion is such a temporary too: it waits for      *)
(* whoever holds client_map_mutex and protects nothing.  The handler is    *)
(* then deleted, and its entry erased, while the distribution thread may   *)
(* find it: what it reads and writes there afterwards is left open.        *)
(***************************************************************************)
EXTENDS Integers, Sequences, FiniteSets

CONSTANTS
    Parts,          \* the parts of the packet of a batch
    MaxBatches,     \* bound: how often the client asks for a batch
    MaxPings        \* bound: rounds of the keepalive thread

ASSUME HandlerAssumption ==
    /\ Parts \in Nat \ {0}
    /\ MaxBatches \in Nat
    /\ MaxPings \in Nat

Threads == {"keeper", "response", "issue"}
Free == "free"
Ping == <<0, 0>>

VARIABLES
    pc,             \* where the three threads are
    active,         \* the handler's flags
    keepalive,
    new_jobs,
    active_tasks,   \* the number of the last batch accepted, 0 for none
    open,           \* the socket is open on this side
    keepalive_mutex,\* who holds each mutex
    task_mutex,
    client_map_mutex,
    sending,        \* <<batch, part>>: what the issue thread sends next
    dist,           \* where the distribution thread is
    free_clients,   \* requests for work not yet served
    batches,        \* how many batches were fetched for the handler
    returned        \* the batches handed back to the queue

VARIABLES
    wire,           \* all parts ever sent to the client
    read,           \* how many of them it has read
    expected,       \* the part it reads next, Ping between two packets
    up,             \* its packets on their way to the server
    client,         \* "up", "confused" or "gone"
    asked,          \* how often it asked for work
    pings,          \* rounds of keepalives begun
    pongs           \* answers received

locks == <<keepalive_mutex, task_mutex, client_map_mutex>>
remoteVars == <<read, expected, client, asked>>
vars == <<pc, active, keepalive, new_jobs, active_tasks, open, locks, sending, dist,
          free_clients, batches, returned, wire, up, remoteVars, pings, pongs>>

\* ClientHandler::run, for a client that has connected and asked for work.
Init ==
    /\ pc = [keeper |-> "rest", response |-> "loop", issue |-> "loop"]
    /\ active = TRUE
    /\ keepalive = FALSE
    /\ new_jobs = FALSE
    /\ active_tasks = 0
    /\ open = TRUE
    /\ keepalive_mutex = Free
    /\ task_mutex = Free
    /\ client_map_mutex = Free
    /\ sending = Ping
    /\ dist = "wait"
    /\ free_clients = 0
    /\ batches = 0
    /\ returned = {}
    /\ wire = <<>>
    /\ read = 0
    /\ expected = Ping
    /\ up = <<"CONNECT">>
    /\ client = "up"
    /\ asked = 1
    /\ pings = 0
    /\ pongs = 0

Goto(t, from, to) == pc[t] = from /\ pc' = [pc EXCEPT ![t] = to]

-----------------------------------------------------------------------------
(* Socket and condition variables.                                         *)

\* Socket::send of one part to an open connection, and the failing call: the
\* socket is closed on this side, or the client is gone.
Send(part) ==
    /\ open
    /\ wire' = Append(wire, part)

SendFails == ~ open \/ client = "gone"

\* notify_all on job_update_cond and on keepalive_cond: a thread that sleeps
\* goes for its mutex, one that has only decided to sleep hears nothing.
Woken(p, ts) == [t \in Threads |-> IF t \in ts /\ p[t] = "asleep" THEN "lock" ELSE p[t]]

\* A condition variable may also wake up on its own.
SpuriousWakeUp(t) ==
    /\ pc[t] = "asleep"
    /\ pc' = Woken(pc, {t})
    /\ UNCHANGED <<active, keepalive, new_jobs, active_tasks, open, locks, sending, dist,
                   free_clients, batches, returned, wire, up, remoteVars, pings, pongs>>

-----------------------------------------------------------------------------
(* stop(), called by each of the three threads.                            *)

StopClear(t) ==
    /\ Goto(t, "stop", "close")
    /\ active' = FALSE
    /\ UNCHANGED <<keepalive, new_jobs, active_tasks, open, locks, sending, dist,
                   free_clients, batches, returned, wire, up, remoteVars, pings, pongs>>

StopClose(t) ==
    /\ Goto(t, "close", "notify")
    /\ open' = FALSE
    /\ UNCHANGED <<active, keepalive, new_jobs, active_tasks, locks, sending, dist,
                   free_clients, batches, returned, wire, up, remoteVars, pings, pongs>>

StopNotify(t) ==
    /\ pc[t] = "notify"
    /\ pc' = Woken([pc EXCEPT ![t] = "remove"], {"issue", "keeper"})
    /\ UNCHANGED <<active, keepalive, new_jobs, active_tasks, open, locks, sending, dist,
                   free_clients, batches, returned, wire, up, remoteVars, pings, pongs>>

\* client_map_mutex: the distribution thread has a shared lock in these places.
MapFree == client_map_mutex = Free /\ dist \notin {"capability", "submit", "store", "stray"}

\* removeClient: client_map_mutex exclusively, then getJobs under task_mutex.  The
\* issue thread comes here with task_mutex held and waits for itself.
RemoveLock(t) ==
    /\ Goto(t, "remove", "getJobs")
    /\ MapFree
    /\ client_map_mutex' = t
    /\ UNCHANGED <<active, keepalive, new_jobs, active_tasks, open, keepalive_mutex,
                   task_mutex, sending, dist, free_clients, batches, returned, wire, up,
                   remoteVars, pings, pongs>>

RemoveReturn(t) ==
    /\ Goto(t, "getJobs", IF t = "keeper" THEN "join" ELSE "exited")
    /\ task_mutex = Free
    /\ returned' = returned \cup ({active_tasks} \ {0})
    /\ client_map_mutex' = Free
    /\ UNCHANGED <<active, keepalive, new_jobs, active_tasks, open, keepalive_mutex,
                   task_mutex, sending, dist, free_clients, batches, wire, up, remoteVars,
                   pings, pongs>>

Stop(t) == StopClear(t) \/ StopClose(t) \/ StopNotify(t) \/ RemoveLock(t) \/ RemoveReturn(t)

-----------------------------------------------------------------------------
(* The keepalive thread: handleKeepAlive and tryKeepAlive.                 *)

\* Mutant: the answer to the last round is not forgotten.
KeeperClearNot ==
    /\ Goto("keeper", "rest", "ping")
    /\ pings < MaxPings
    /\ pings' = pings + 1
    /\ UNCHANGED <<active, keepalive, new_jobs, active_tasks, open, locks, sending, dist,
                   free_clients, batches, returned, wire, up, remoteVars, pongs>>

KeeperClear ==
    /\ Goto("keeper", "rest", "ping")
    /\ pings < MaxPings
    /\ pings' = pings + 1
    /\ keepalive' = FALSE
    /\ UNCHANGED <<active, new_jobs, active_tasks, open, locks, sending, dist,
                   free_clients, batches, returned, wire, up, remoteVars, pongs>>

KeeperSend ==
    /\ Goto("keeper", "ping", "lock")
    /\ Send(Ping)
    /\ UNCHANGED <<active, keepalive, new_jobs, active_tasks, open, locks, sending, dist,
                   free_clients, batches, returned, up, remoteVars, pings, pongs>>

KeeperSendFails ==
    /\ Goto("keeper", "ping", "stop")
    /\ SendFails
    /\ UNCHANGED <<active, keepalive, new_jobs, active_tasks, open, locks, sending, dist,
                   free_clients, batches, returned, wire, up, remoteVars, pings, pongs>>

KeeperLock ==
    /\ Goto("keeper", "lock", "test")
    /\ keepalive_mutex = Free
    /\ keepalive_mutex' = "keeper"
    /\ UNCHANGED <<active, keepalive, new_jobs, active_tasks, open, task_mutex,
                   client_map_mutex, sending, dist, free_clients, batches, returned, wire,
                   up, remoteVars, pings, pongs>>

\* The predicate: keepalive || !active.  keepalive is set under the mutex only,
\* so it has the same value when it is returned.
KeeperReturns ==
    /\ keepalive \/ ~ active
    /\ Goto("keeper", "test", IF keepalive THEN "rest" ELSE "stop")
    /\ keepalive_mutex' = Free
    /\ UNCHANGED <<active, keepalive, new_jobs, active_tasks, open, task_mutex,
                   client_map_mutex, sending, dist, free_clients, batches, returned, wire,
                   up, remoteVars, pings, pongs>>

KeeperDecides ==
    /\ ~ keepalive /\ active
    /\ Goto("keeper", "test", "drowsy")
    /\ UNCHANGED <<active, keepalive, new_jobs, active_tasks, open, locks, sending, dist,
                   free_clients, batches, returned, wire, up, remoteVars, pings, pongs>>

KeeperSleeps ==
    /\ Goto("keeper", "drowsy", "asleep")
    /\ keepalive_mutex' = Free
    /\ UNCHANGED <<active, keepalive, new_jobs, active_tasks, open, task_mutex,
                   client_map_mutex, sending, dist, free_clients, batches, returned, wire,
                   up, remoteVars, pings, pongs>>

\* Mutant: only the response thread is joined.
KeeperJoinEarly ==
    /\ Goto("keeper", "join", "fence")
    /\ pc["response"] = "exited"
    /\ UNCHANGED <<active, keepalive, new_jobs, active_tasks, open, locks, sending, dist,
                   free_clients, batches, returned, wire, up, remoteVars, pings, pongs>>

KeeperJoin ==
    /\ Goto("keeper", "join", "fence")
    /\ pc["response"] = "exited"
    /\ pc["issue"] = "exited"
    /\ UNCHANGED <<active, keepalive, new_jobs, active_tasks, open, locks, sending, dist,
                   free_clients, batches, returned, wire, up, remoteVars, pings, pongs>>

\* The lock that is a temporary: taken, and given back at once.
KeeperFence ==
    /\ Goto("keeper", "fence", "delete")
    /\ MapFree
    /\ UNCHANGED <<active, keepalive, new_jobs, active_tasks, open, locks, sending, dist,
                   free_clients, batches, returned, wire, up, remoteVars, pings, pongs>>

KeeperDelete ==
    /\ Goto("keeper", "delete", "deleted")
    /\ UNCHANGED <<active, keepalive, new_jobs, active_tasks, open, locks, sending, dist,
                   free_clients, batches, returned, wire, up, remoteVars, pings, pongs>>

KeeperErase ==
    /\ Goto("keeper", "deleted", "erased")
    /\ UNCHANGED <<active, keepalive, new_jobs, active_tasks, open, locks, sending, dist,
                   free_clients, batches, returned, wire, up, remoteVars, pings, pongs>>

KeeperStep ==
    \/ KeeperClear \/ KeeperSend \/ KeeperSendFails \/ KeeperLock \/ KeeperReturns
    \/ KeeperDecides \/ KeeperSleeps \/ KeeperJoin \/ KeeperFence \/ KeeperDelete
    \/ KeeperErase \/ Stop("keeper")

-----------------------------------------------------------------------------
(* The response thread: handleResponse.                                    *)

ResponseLoop ==
    /\ Goto("response", "loop", IF active THEN "recv" ELSE "end")
    /\ UNCHANGED <<active, keepalive, new_jobs, active_tasks, open, locks, sending, dist,
                   free_clients, batches, returned, wire, up, remoteVars, pings, pongs>>

\* CONNECT and FINISH_JOB: notifyFinish.
RecvRequest ==
    /\ Goto("response", "recv", "loop")
    /\ open /\ up # <<>> /\ Head(up) # "KEEPALIVE"
    /\ up' = Tail(up)
    /\ free_clients' = free_clients + 1
    /\ UNCHANGED <<active, keepalive, new_jobs, active_tasks, open, locks, sending, dist,
                   batches, returned, wire, remoteVars, pings, pongs>>

\* KEEPALIVE: the flag and the notification under keepalive_mutex.
RecvKeepAlive ==
    /\ pc["response"] = "recv"
    /\ open /\ up # <<>> /\ Head(up) = "KEEPALIVE"
    /\ keepalive_mutex = Free
    /\ up' = Tail(up)
    /\ keepalive' = TRUE
    /\ pongs' = pongs + 1
    /\ pc' = Woken([pc EXCEPT !["response"] = "loop"], {"keeper"})
    /\ UNCHANGED <<active, new_jobs, active_tasks, open, locks, sending, dist,
                   free_clients, batches, returned, wire, remoteVars, pings>>

\* recv throws: the stream is at its end, or stop() closed the socket.
RecvFails ==
    /\ Goto("response", "recv", "end")
    /\ ~ open \/ (client = "gone" /\ up = <<>>)
    /\ UNCHANGED <<active, keepalive, new_jobs, active_tasks, open, locks, sending, dist,
                   free_clients, batches, returned, wire, up, remoteVars, pings, pongs>>

\* After the loop: active is cleared, then the keepalive thread is notified.
ResponseClear ==
    /\ Goto("response", "end", "tell")
    /\ active' = FALSE
    /\ UNCHANGED <<keepalive, new_jobs, active_tasks, open, locks, sending, dist,
                   free_clients, batches, returned, wire, up, remoteVars, pings, pongs>>

\* Mutant: the thread ends without stop().
ResponseNotifyOnly ==
    /\ pc["response"] = "tell"
    /\ pc' = Woken([pc EXCEPT !["response"] = "exited"], {"keeper"})
    /\ UNCHANGED <<active, keepalive, new_jobs, active_tasks, open, locks, sending, dist,
                   free_clients, batches, returned, wire, up, remoteVars, pings, pongs>>

ResponseNotify ==
    /\ pc["response"] = "tell"
    /\ pc' = Woken([pc EXCEPT !["response"] = "stop"], {"keeper"})
    /\ UNCHANGED <<active, keepalive, new_jobs, active_tasks, open, locks, sending, dist,
                   free_clients, batches, returned, wire, up, remoteVars, pings, pongs>>

ResponseStep ==
    \/ ResponseLoop \/ RecvRequest \/ RecvKeepAlive \/ RecvFails \/ ResponseClear
    \/ ResponseNotify \/ Stop("response")

-----------------------------------------------------------------------------
(* The issue thread: handleIssue.                                          *)

IssueLoop ==
    /\ Goto("issue", "loop", IF active THEN "lock" ELSE "exited")
    /\ UNCHANGED <<active, keepalive, new_jobs, active_tasks, open, locks, sending, dist,
                   free_clients, batches, returned, wire, up, remoteVars, pings, pongs>>

IssueLock ==
    /\ Goto("issue", "lock", "test")
    /\ task_mutex = Free
    /\ task_mutex' = "issue"
    /\ UNCHANGED <<active, keepalive, new_jobs, active_tasks, open, keepalive_mutex,
                   client_map_mutex, sending, dist, free_clients, batches, returned, wire,
                   up, remoteVars, pings, pongs>>

\* The predicate is new_jobs || !active; a handler that was stopped leaves.
IssueDecides ==
    /\ ~ new_jobs /\ active
    /\ Goto("issue", "test", "drowsy")
    /\ UNCHANGED <<active, keepalive, new_jobs, active_tasks, open, locks, sending, dist,
                   free_clients, batches, returned, wire, up, remoteVars, pings, pongs>>

IssueSleeps ==
    /\ Goto("issue", "drowsy", "asleep")
    /\ task_mutex' = Free
    /\ UNCHANGED <<active, keepalive, new_jobs, active_tasks, open, keepalive_mutex,
                   client_map_mutex, sending, dist, free_clients, batches, returned, wire,
                   up, remoteVars, pings, pongs>>

IssueEnds ==
    /\ ~ active
    /\ Goto("issue", "test", "exited")
    /\ task_mutex' = Free
    /\ UNCHANGED <<active, keepalive, new_jobs, active_tasks, open, keepalive_mutex,
                   client_map_mutex, sending, dist, free_clients, batches, returned, wire,
                   up, remoteVars, pings, pongs>>

IssueTakes ==
    /\ new_jobs /\ active
    /\ Goto("issue", "test", "send")
    /\ new_jobs' = FALSE
    /\ sending' = <<active_tasks, 1>>
    /\ UNCHANGED <<active, keepalive, active_tasks, open, locks, dist, free_clients,
                   batches, returned, wire, up, remoteVars, pings, pongs>>

\* Socket::sendFully, one call of send: the rest is sent from where it stopped.
SendFully ==
    /\ pc["issue"] = "send"
    /\ Send(sending)
    /\ IF sending[2] = Parts
       THEN /\ pc' = [pc EXCEPT !["issue"] = "loop"]
            /\ task_mutex' = Free
            /\ sending' = Ping
       ELSE /\ sending' = [sending EXCEPT ![2] = @ + 1]
            /\ UNCHANGED <<pc, task_mutex>>
    /\ UNCHANGED <<active, keepalive, new_jobs, active_tasks, open, keepalive_mutex,
                   client_map_mutex, dist, free_clients, batches, returned, up,
                   remoteVars, pings, pongs>>

\* The send fails: the batch is forgotten, and stop() is called with task_mutex held.
IssueFails ==
    /\ Goto("issue", "send", "stop")
    /\ SendFails
    /\ active_tasks' = 0
    /\ UNCHANGED <<active, keepalive, new_jobs, open, locks, sending, dist, free_clients,
                   batches, returned, wire, up, remoteVars, pings, pongs>>

IssueStep ==
    \/ IssueLoop \/ IssueLock \/ IssueDecides \/ IssueSleeps \/ IssueEnds \/ IssueTakes
    \/ SendFully \/ IssueFails \/ Stop("issue")

-----------------------------------------------------------------------------
(* The distribution thread: handleJobDistribution and submitTasks.         *)

\* delete has run; the entry is still in client_map until erase has.
Freed == pc["keeper"] \in {"deleted", "erased"}
InMap == pc["keeper"] # "erased"

\* Shared locks do not exclude one another.
Shared == client_map_mutex = Free

DistWait ==
    /\ dist = "wait"
    /\ free_clients > 0
    /\ free_clients' = free_clients - 1
    /\ dist' = "lookup"
    /\ UNCHANGED <<pc, active, keepalive, new_jobs, active_tasks, open, locks, sending,
                   batches, returned, wire, up, remoteVars, pings, pongs>>

\* The first look-up; a client that is not in the map is forgotten.
DistLookup ==
    /\ dist = "lookup"
    /\ Shared
    /\ dist' = IF InMap THEN "capability" ELSE "wait"
    /\ UNCHANGED <<pc, active, keepalive, new_jobs, active_tasks, open, locks, sending,
                   free_clients, batches, returned, wire, up, remoteVars, pings, pongs>>

\* getJobCapability, which only decides how large the batch is, and the batch.
DistFetch ==
    /\ dist = "capability"
    /\ batches' = batches + 1
    /\ dist' = "find"
    /\ UNCHANGED <<pc, active, keepalive, new_jobs, active_tasks, open, locks, sending,
                   free_clients, returned, wire, up, remoteVars, pings, pongs>>

\* addTasks: the queue has the batch again.
HandBack == dist' = "wait" /\ returned' = returned \cup {batches}

\* The second look-up: from here on the thread has a pointer to the handler.
DistFind ==
    /\ dist = "find"
    /\ Shared
    /\ IF InMap THEN dist' = "submit" /\ UNCHANGED returned ELSE HandBack
    /\ UNCHANGED <<pc, active, keepalive, new_jobs, active_tasks, open, locks, sending,
                   free_clients, batches, wire, up, remoteVars, pings, pongs>>

\* submitTasks reads active, or what has become of it in a handler that is freed.
DistSubmit ==
    /\ dist = "submit"
    /\ \E seen \in IF Freed THEN BOOLEAN ELSE {active} :
        IF seen THEN dist' = (IF Freed THEN "stray" ELSE "store") /\ UNCHANGED returned
                ELSE HandBack
    /\ UNCHANGED <<pc, active, keepalive, new_jobs, active_tasks, open, locks, sending,
                   free_clients, batches, wire, up, remoteVars, pings, pongs>>

\* A mutex is locked and a vector assigned that are freed: the batch is lost, or
\* the process ends.
DistStray ==
    /\ dist = "stray"
    /\ dist' \in {"wait", "crashed"}
    /\ UNCHANGED <<pc, active, keepalive, new_jobs, active_tasks, open, locks, sending,
                   free_clients, batches, returned, wire, up, remoteVars, pings, pongs>>

\* Mutant: the batch is stored and notified without task_mutex.
DistStoreUnlocked ==
    /\ dist = "store"
    /\ active_tasks' = batches
    /\ new_jobs' = TRUE
    /\ dist' = "wait"
    /\ pc' = Woken(pc, {"issue"})
    /\ UNCHANGED <<active, keepalive, open, locks, sending, free_clients, batches,
                   returned, wire, up, remoteVars, pings, pongs>>

\* The batch, the flag and the notification under task_mutex.
DistStore ==
    /\ dist = "store"
    /\ task_mutex = Free
    /\ active_tasks' = batches
    /\ new_jobs' = TRUE
    /\ dist' = "wait"
    /\ pc' = Woken(pc, {"issue"})
    /\ UNCHANGED <<active, keepalive, open, locks, sending, free_clients, batches,
                   returned, wire, up, remoteVars, pings, pongs>>

DistStep ==
    \/ DistWait \/ DistLookup \/ DistFetch \/ DistFind \/ DistSubmit \/ DistStore
    \/ DistStray

-----------------------------------------------------------------------------
(* The client: it answers keepalives, asks for more work after a batch and *)
(* may go away.  A part that belongs to another packet makes no sense of   *)
(* the rest of the stream: it then stays silent, or goes away.             *)

ClientReads ==
    /\ client = "up"
    /\ read < Len(wire)
    /\ read' = read + 1
    /\ LET part == wire[read + 1]
           more == IF part[2] < Parts THEN <<part[1], part[2] + 1>> ELSE Ping
       IN  \/ /\ expected = Ping /\ part = Ping
              /\ up' = Append(up, "KEEPALIVE")
              /\ UNCHANGED <<expected, client, asked>>
           \/ /\ part # Ping
              /\ IF expected = Ping THEN part[2] = 1 ELSE part = expected
              /\ expected' = more
              /\ IF more = Ping /\ asked < MaxBatches
                 THEN up' = Append(up, "FINISH_JOB") /\ asked' = asked + 1
                 ELSE UNCHANGED <<up, asked>>
              /\ UNCHANGED client
           \/ /\ expected # Ping /\ part = Ping
              /\ client' = "confused"
              /\ UNCHANGED <<up, expected, asked>>
    /\ UNCHANGED <<pc, active, keepalive, new_jobs, active_tasks, open, locks, sending,
                   dist, free_clients, batches, returned, wire, pings, pongs>>

ClientLeaves ==
    /\ client # "gone"
    /\ client' = "gone"
    /\ \E n \in 0 .. Len(up) : up' = SubSeq(up, 1, n)
    /\ UNCHANGED <<pc, active, keepalive, new_jobs, active_tasks, open, locks, sending,
                   dist, free_clients, batches, returned, wire, read, expected, asked,
                   pings, pongs>>

Next ==
    \/ KeeperStep
    \/ ResponseStep
    \/ IssueStep
    \/ DistStep
    \/ ClientReads
    \/ ClientLeaves
    \/ \E t \in {"keeper", "issue"} : SpuriousWakeUp(t)

Spec == Init /\ [][Next]_vars

\* Every thread of the server runs on.  Nothing is assumed of the client, nor
\* of spurious wake-ups.
FairSpec ==
    /\ Spec
    /\ WF_vars(KeeperStep)
    /\ WF_vars(ResponseStep)
    /\ WF_vars(IssueStep)
    /\ WF_vars(DistStep)

-----------------------------------------------------------------------------
(* Properties.                                                             *)

\* Types of all variables.
TypeOK ==
    /\ pc["keeper"] \in {"rest", "ping", "lock", "test", "drowsy", "asleep", "stop",
                         "close", "notify", "remove", "getJobs", "join", "fence", "delete",
                         "deleted", "erased"}
    /\ pc["response"] \in {"loop", "recv", "end", "tell", "stop", "close", "notify",
                           "remove", "getJobs", "exited"}
    /\ pc["issue"] \in {"loop", "lock", "test", "drowsy", "asleep", "send", "stop",
                        "close", "notify", "remove", "getJobs", "exited"}
    /\ DOMAIN pc = Threads
    /\ {active, keepalive, new_jobs, open} \subseteq BOOLEAN
    /\ {active_tasks, free_clients, batches, read, asked, pings, pongs} \subseteq Nat
    /\ keepalive_mutex \in {Free, "keeper"}
    /\ task_mutex \in {Free, "issue"}
    /\ client_map_mutex \in Threads \cup {Free}
    /\ sending \in Nat \X Nat
    /\ expected \in Nat \X Nat
    /\ dist \in {"wait", "lookup", "capability", "find", "submit", "store", "stray",
                "crashed"}
    /\ returned \subseteq Nat
    /\ wire \in Seq(Nat \X Nat)
    /\ up \in Seq({"CONNECT", "KEEPALIVE", "FINISH_JOB"})
    /\ client \in {"up", "confused", "gone"}

\* A wake-up given under the mutex of its condition is never missed: a batch that
\* submitTasks accepted is taken by the issue thread, and an answer noted by
\* handleResponse makes tryKeepAlive return, unless the handler is stopped.
LockedWakeUpsArrive ==
    /\ new_jobs ~> (~ new_jobs \/ ~ active)
    /\ keepalive ~> (pc["keeper"] = "rest" \/ ~ active)

\* tryKeepAlive returns true for this round's answer only, never for an earlier
\* one that came late: a client counts as alive because it has just answered.
AnswerIsFresh == keepalive => pongs = pings

\* A handler that is stopped has its batch handed back in the end, unless a failed
\* send has dropped it, although the notifications of stop() are given without a
\* mutex and the issue and the keepalive thread may sleep through them.
StoppedHandsBack == ~ active ~> active_tasks \in returned \cup {0}

\* When the keepalive thread deletes a handler its own threads have left their
\* loops, its mutexes are free, and no batch it accepted is still being stored
\* or was not handed back.
DeletedOwesNothing ==
    Freed =>
        /\ pc["response"] = "exited" /\ pc["issue"] = "exited"
        /\ keepalive_mutex = Free /\ task_mutex = Free
        /\ dist # "store"
        /\ active_tasks \in returned \cup {0}

\* The distribution thread uses no handler that was deleted: stop() calls
\* removeClient before the deletion, which "Removes a client from the set of all
\* clients" (clientmanager.hpp:67).
DeletedIsUnused == Freed => dist \notin {"capability", "submit", "stray"}

\* issueRequest "ensures the entire buffer is sent as one continous packet"
\* (clienthandler.hpp:58): nothing else stands between two parts of a packet.
PacketsAreContinuous ==
    \A i, j \in DOMAIN wire : i < j /\ wire[i] # Ping /\ wire[i][1] = wire[j][1] =>
        \A k \in i .. j : wire[k][1] = wire[i][1]

=============================================================================
