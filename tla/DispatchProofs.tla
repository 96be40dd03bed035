--------------------------- MODULE DispatchProofs ---------------------------
(***************************************************************************)
(* Proofs about Dispatch, for every number of clients, jobs and frames,    *)
(* whoever goes away: the accept, distribution and keepalive threads and   *)
(* the handlers' own threads share the map of the handlers and the batches *)
(* in them without hurting one another.                                    *)
(*                                                                         *)
(* The inductive invariant IndInv says who holds client_map_mutex          *)
(* (LockInv), how far a handler is in its life (HandlerInv), that the      *)
(* handler a batch is being stored in has not handed its last one back     *)
(* (StoreInv), and how large batches are (BatchInv).                       *)
(*                                                                         *)
(* Three parts build on it.  Requests and tokens: FlowAll adds what        *)
(* travels in the packets and that a client that is up has one token       *)
(* (TokenInv).  Frames and places: FrameInv adds that every frame to be    *)
(* rendered is held once.  Lost tasks: Remembered adds that what the       *)
(* handler of a client remembers is with that client or is done with.      *)
(***************************************************************************)
EXTENDS Dispatch, FiniteSetTheorems, SequenceTheorems, WellFoundedInduction, TLAPS


ResponsePlaces == {"none", "recv", "count", "stop", "remove", "exited"}
IssuePlaces == {"none", "wait", "send", "failed", "exited"}

\* What the threads are and where they can be.
Types ==
    /\ main \in [Clients -> {"new", "get", "ask", "render", "gone"}]
    /\ client_map \subseteq Clients
    /\ free_clients \in Seq(Clients)
    /\ dist \in {"wait", "lookup", "fetch", "submit", "store"}
    /\ dist # "wait" => dist_client \in Clients
    /\ keeper \in {"idle", "wait", "stop", "remove", "join", "delete"}
    /\ keeper # "idle" => kept \in Clients
    /\ active \in [Clients -> BOOLEAN]
    /\ response \in [Clients -> ResponsePlaces]
    /\ issue \in [Clients -> IssuePlaces]

\* client_map_mutex: who is in removeClient holds it, and nobody does while a
\* batch is being stored.
LockInv ==
    /\ \A c \in Clients : response[c] = "remove" <=> map_owner = <<"response", c>>
    /\ keeper = "remove" => map_owner = <<"keeper", kept>>
    /\ dist = "store" => map_owner = Nobody

\* A handler runs from its connection until its response thread ends, and is in
\* the map until both of its threads are gone.
HandlerInv ==
    /\ \A c \in Clients :
        /\ active[c] => response[c] \in {"recv", "count"} /\ c \in client_map
        /\ main[c] = "new" <=> response[c] = "none"
        /\ main[c] = "new" <=> issue[c] = "none"
        /\ c \in client_map => main[c] # "new"
        /\ c \notin client_map => \/ main[c] = "new"
                                  \/ response[c] = "exited" /\ issue[c] = "exited"
    /\ keeper # "idle" => main[kept] # "new"
    /\ keeper = "delete" => response[kept] = "exited" /\ issue[kept] = "exited"

\* The handler a batch is being stored in has not entered removeClient.
StoreInv ==
    dist = "store" =>
        dist_client \in client_map /\ response[dist_client] \in {"recv", "count", "stop"}

\* Batches and their sizes.
BatchInv ==
    /\ fresh \in Seq(Task)
    /\ task_queue \in Seq(Task)
    /\ tasks \in Seq(Task)
    /\ active_tasks \in [Clients -> Seq(Task)]
    /\ new_jobs \in [Clients -> BOOLEAN]
    /\ submitted \in 0 .. Len(Frames)
    /\ job_capability \in [Clients -> MIN_JOB_CAPABILITY .. MAX_JOB_CAPABILITY]
    /\ dist \in {"fetch", "submit", "store"} => max_jobs \in 1 .. MAX_JOB_CAPABILITY
    /\ dist \in {"submit", "store"} => Len(tasks) \in 1 .. max_jobs
    /\ \A c \in Clients : new_jobs[c] =>
        Len(active_tasks[c]) \in 1 .. MAX_JOB_CAPABILITY /\ TaskMutexFree(c)

IndInv == Types /\ LockInv /\ HandlerInv /\ StoreInv /\ BatchInv

\* The threads that hand a batch back do so one at a time, and never while the
\* distribution thread stores one.
RemovalExclusive ==
    /\ \A c, d \in Clients : response[c] = "remove" /\ response[d] = "remove" => c = d
    /\ \A c \in Clients : response[c] = "remove" => keeper # "remove" /\ dist # "store"
    /\ keeper = "remove" => dist # "store"

\* A handler that was deleted has no thread left.
DeletedIsQuiet ==
    \A c \in Clients \ client_map :
        main[c] # "new" => response[c] = "exited" /\ issue[c] = "exited"

\* A batch that is submitted, or that the issue thread has still to take, holds
\* a task (every job here has a frame), and no more than a client may be given.
BatchInBounds ==
    /\ dist \in {"submit", "store"} => Len(tasks) \in 1 .. MAX_JOB_CAPABILITY
    /\ \A c \in Clients : new_jobs[c] => Len(active_tasks[c]) \in 1 .. MAX_JOB_CAPABILITY



\* Every step is one of the named actions, or stutters.
LEMMA Actions ==
    ASSUME [Next]_vars
    PROVE  \/ \E c \in Clients :
                \/ HandleClient(c) \/ RemoteStep(c) \/ HandleConnect(c) \/ HandleKeepAlive(c)
                \/ ReadUpdate(c) \/ CountUpdate(c) \/ HandleFinish(c) \/ ResponseEnd(c)
                \/ ResponseRemove(c) \/ ResponseReturn(c) \/ IssueTake(c) \/ IssueSend(c)
                \/ IssueFail(c) \/ IssueRemove(c) \/ IssueEnd(c) \/ TryKeepAlive(c)
                \/ KeepAliveFailed(c)
           \/ AddJob \/ DistWait \/ DistLookup \/ DistFetch \/ DistRefused \/ DistSubmit
           \/ DistStore \/ KeepAliveAnswered \/ KeeperRemove \/ KeeperReturn \/ KeeperJoin
           \/ KeeperDelete
           \/ UNCHANGED vars
  BY DEF Next, DistStep, KeeperStep, ResponseStep, IssueStep

\* The holders of client_map_mutex are told apart.
LEMMA Holders ==
    \A c, d : /\ Nobody # <<"response", c>> /\ Nobody # <<"issue", c>> /\ Nobody # <<"keeper", c>>
              /\ <<"response", c>> # <<"issue", d>> /\ <<"response", c>> # <<"keeper", d>>
              /\ <<"issue", c>> # <<"keeper", d>>
              /\ (<<"response", c>> = <<"response", d>> <=> c = d)
  BY DEF Nobody

\* A client's own step changes nothing of the server, and keeps it started.
LEMMA RemoteFacts ==
    ASSUME Types, NEW c \in Clients, RemoteStep(c)
    PROVE  /\ UNCHANGED queueVars /\ UNCHANGED managerVars /\ UNCHANGED handlerVars
           /\ main[c] # "new"
           /\ main' \in [Clients -> {"new", "get", "ask", "render", "gone"}]
           /\ \A d \in Clients : main'[d] = "new" <=> main[d] = "new"
<1>1. UNCHANGED queueVars /\ UNCHANGED managerVars /\ UNCHANGED handlerVars /\ ClientStep(c)
  BY DEF RemoteStep
<1>2. /\ main[c] # "new"
      /\ \/ main' = main
         \/ \E m \in {"get", "ask", "render", "gone"} : main' = [main EXCEPT ![c] = m]
  BY <1>1 DEF ClientStep, RecvKeepAlive, RecvIssueJob, GetTask, RequestMoreJobs, UpdateServer,
     SendUpdate, Disconnect, Alive
<1> QED BY <1>1, <1>2 DEF Types


\* Reading a frame of an update moves the response thread only.
LEMMA ReadFacts ==
    ASSUME NEW c \in Clients, ReadUpdate(c)
    PROVE  /\ response[c] = "recv"
           /\ response' = [response EXCEPT ![c] = "count"]
           /\ UNCHANGED queueVars /\ UNCHANGED managerVars
           /\ UNCHANGED <<main, active, active_tasks, new_jobs, job_capability, issue>>
<1>1. response[c] = "recv"
  BY DEF ReadUpdate, Received
<1>2. main' = main
  BY DEF ReadUpdate, Consume
<1> QED BY <1>1, <1>2 DEF ReadUpdate

\* Every step keeps the threads where they can be.
LEMMA TypesStep ==
    ASSUME Types, [Next]_vars
    PROVE  Types'
<1> USE DEF Types, ResponsePlaces, IssuePlaces
<1>1. ASSUME NEW c \in Clients, HandleClient(c) PROVE Types'
  BY <1>1 DEF HandleClient, Start, clientVars, queueVars, managerVars, handlerVars
<1>2. ASSUME NEW c \in Clients, RemoteStep(c) PROVE Types'
  BY <1>2, RemoteFacts DEF managerVars, handlerVars
<1>3. ASSUME NEW c \in Clients, HandleConnect(c) PROVE Types'
  BY <1>3 DEF HandleConnect, Consume, NotifyFinish, clientVars, queueVars,
    managerVars, handlerVars
<1>4. ASSUME NEW c \in Clients, HandleKeepAlive(c) PROVE Types'
  BY <1>4 DEF HandleKeepAlive, Consume, clientVars, queueVars, managerVars,
    handlerVars
<1>5. ASSUME NEW c \in Clients, ReadUpdate(c) PROVE Types'
  BY <1>5, ReadFacts DEF managerVars
<1>6. ASSUME NEW c \in Clients, CountUpdate(c) PROVE Types'
  BY <1>6 DEF CountUpdate, clientVars, queueVars, managerVars, handlerVars
<1>7. ASSUME NEW c \in Clients, HandleFinish(c) PROVE Types'
  BY <1>7 DEF HandleFinish, Consume, NotifyFinish, clientVars, queueVars,
    managerVars, handlerVars
<1>8. ASSUME NEW c \in Clients, ResponseEnd(c) PROVE Types'
  BY <1>8 DEF ResponseEnd, clientVars, queueVars, managerVars, handlerVars
<1>9. ASSUME NEW c \in Clients, ResponseRemove(c) PROVE Types'
  BY <1>9 DEF ResponseRemove, clientVars, queueVars, managerVars, handlerVars
<1>10. ASSUME NEW c \in Clients, ResponseReturn(c) PROVE Types'
  BY <1>10 DEF ResponseReturn, clientVars, queueVars, managerVars, handlerVars
<1>11. ASSUME NEW c \in Clients, IssueTake(c) PROVE Types'
  BY <1>11 DEF IssueTake, clientVars, queueVars, managerVars, handlerVars
<1>12. ASSUME NEW c \in Clients, IssueSend(c) PROVE Types'
  BY <1>12 DEF IssueSend, clientVars, queueVars, managerVars, handlerVars
<1>13. ASSUME NEW c \in Clients, IssueFail(c) PROVE Types'
  BY <1>13 DEF IssueFail, clientVars, queueVars, managerVars, handlerVars
<1>14. ASSUME NEW c \in Clients, IssueRemove(c) PROVE Types'
  BY <1>14 DEF IssueRemove, clientVars, queueVars, managerVars, handlerVars
<1>15. ASSUME NEW c \in Clients, IssueEnd(c) PROVE Types'
  BY <1>15 DEF IssueEnd, clientVars, queueVars, managerVars, handlerVars
<1>16. ASSUME NEW c \in Clients, TryKeepAlive(c) PROVE Types'
  BY <1>16 DEF TryKeepAlive, clientVars, queueVars, managerVars, handlerVars
<1>17. ASSUME NEW c \in Clients, KeepAliveFailed(c) PROVE Types'
  BY <1>17 DEF KeepAliveFailed, clientVars, queueVars, managerVars, handlerVars
<1>18. CASE AddJob
  BY <1>18 DEF AddJob, clientVars, queueVars, managerVars, handlerVars
<1>19. CASE DistWait
  BY <1>19 DEF DistWait, clientVars, queueVars, managerVars, handlerVars
<1>20. CASE DistLookup
  BY <1>20 DEF DistLookup, DistAgain, clientVars, queueVars, managerVars, handlerVars
<1>21. CASE DistFetch
  BY <1>21 DEF DistFetch, clientVars, queueVars, managerVars, handlerVars
<1>22. CASE DistRefused
  BY <1>22 DEF DistRefused, DistAgain, clientVars, queueVars, managerVars,
    handlerVars
<1>23. CASE DistSubmit
  BY <1>23 DEF DistSubmit, clientVars, queueVars, managerVars, handlerVars
<1>24. CASE DistStore
  BY <1>24 DEF DistStore, DistAgain, clientVars, queueVars, managerVars, handlerVars
<1>25. CASE KeepAliveAnswered
  BY <1>25 DEF KeepAliveAnswered, clientVars, queueVars, managerVars, handlerVars
<1>26. CASE KeeperRemove
  BY <1>26 DEF KeeperRemove, clientVars, queueVars, managerVars, handlerVars
<1>27. CASE KeeperReturn
  BY <1>27 DEF KeeperReturn, clientVars, queueVars, managerVars, handlerVars
<1>28. CASE KeeperJoin
  BY <1>28 DEF KeeperJoin, clientVars, queueVars, managerVars, handlerVars
<1>29. CASE KeeperDelete
  BY <1>29 DEF KeeperDelete, clientVars, queueVars, managerVars, handlerVars
<1>30. CASE UNCHANGED vars
  BY <1>30 DEF vars, clientVars, queueVars, managerVars, handlerVars, clientVars,
    queueVars, managerVars, handlerVars
<1> QED BY Actions, <1>1, <1>2, <1>3, <1>4, <1>5, <1>6, <1>7, <1>8, <1>9, <1>10,
    <1>11, <1>12, <1>13, <1>14, <1>15, <1>16, <1>17, <1>18, <1>19, <1>20, <1>21,
    <1>22, <1>23, <1>24, <1>25, <1>26, <1>27, <1>28, <1>29, <1>30

\* client_map_mutex is taken when it is free, and given back.
LEMMA LockStep ==
    ASSUME Types, HandlerInv, LockInv, [Next]_vars
    PROVE  LockInv'
<1> USE Holders DEF Types, ResponsePlaces, IssuePlaces, LockInv
<1>1. ASSUME NEW c \in Clients, HandleClient(c) PROVE LockInv'
  BY <1>1 DEF HandleClient, Start, MapFree, MapShareable, clientVars, queueVars,
    managerVars, handlerVars
<1>2. ASSUME NEW c \in Clients, RemoteStep(c) PROVE LockInv'
  BY <1>2, RemoteFacts DEF managerVars, handlerVars
<1>3. ASSUME NEW c \in Clients, HandleConnect(c) PROVE LockInv'
  BY <1>3 DEF HandleConnect, Consume, NotifyFinish, clientVars, queueVars,
    managerVars, handlerVars
<1>4. ASSUME NEW c \in Clients, HandleKeepAlive(c) PROVE LockInv'
  BY <1>4 DEF HandleKeepAlive, Consume, clientVars, queueVars, managerVars,
    handlerVars
<1>5. ASSUME NEW c \in Clients, ReadUpdate(c) PROVE LockInv'
  BY <1>5, ReadFacts DEF managerVars
<1>6. ASSUME NEW c \in Clients, CountUpdate(c) PROVE LockInv'
  BY <1>6 DEF CountUpdate, clientVars, queueVars, managerVars, handlerVars
<1>7. ASSUME NEW c \in Clients, HandleFinish(c) PROVE LockInv'
  BY <1>7 DEF HandleFinish, Consume, NotifyFinish, clientVars, queueVars,
    managerVars, handlerVars
<1>8. ASSUME NEW c \in Clients, ResponseEnd(c) PROVE LockInv'
  BY <1>8 DEF ResponseEnd, clientVars, queueVars, managerVars, handlerVars
<1>9. ASSUME NEW c \in Clients, ResponseRemove(c) PROVE LockInv'
  BY <1>9 DEF ResponseRemove, MapFree, MapShareable, clientVars, queueVars,
    managerVars, handlerVars
<1>10. ASSUME NEW c \in Clients, ResponseReturn(c) PROVE LockInv'
  BY <1>10 DEF ResponseReturn, clientVars, queueVars, managerVars, handlerVars
<1>11. ASSUME NEW c \in Clients, IssueTake(c) PROVE LockInv'
  BY <1>11 DEF IssueTake, clientVars, queueVars, managerVars, handlerVars
<1>12. ASSUME NEW c \in Clients, IssueSend(c) PROVE LockInv'
  BY <1>12 DEF IssueSend, clientVars, queueVars, managerVars, handlerVars
<1>13. ASSUME NEW c \in Clients, IssueFail(c) PROVE LockInv'
  BY <1>13 DEF IssueFail, clientVars, queueVars, managerVars, handlerVars
<1>14. ASSUME NEW c \in Clients, IssueRemove(c) PROVE LockInv'
  BY <1>14 DEF IssueRemove, MapFree, MapShareable, clientVars, queueVars,
    managerVars, handlerVars
<1>15. ASSUME NEW c \in Clients, IssueEnd(c) PROVE LockInv'
  BY <1>15 DEF IssueEnd, clientVars, queueVars, managerVars, handlerVars
<1>16. ASSUME NEW c \in Clients, TryKeepAlive(c) PROVE LockInv'
  BY <1>16 DEF TryKeepAlive, clientVars, queueVars, managerVars, handlerVars
<1>17. ASSUME NEW c \in Clients, KeepAliveFailed(c) PROVE LockInv'
  BY <1>17 DEF KeepAliveFailed, clientVars, queueVars, managerVars, handlerVars
<1>18. CASE AddJob
  BY <1>18 DEF AddJob, clientVars, queueVars, managerVars, handlerVars
<1>19. CASE DistWait
  BY <1>19 DEF DistWait, clientVars, queueVars, managerVars, handlerVars
<1>20. CASE DistLookup
  BY <1>20 DEF DistLookup, DistAgain, MapShareable, clientVars, queueVars,
    managerVars, handlerVars
<1>21. CASE DistFetch
  BY <1>21 DEF DistFetch, clientVars, queueVars, managerVars, handlerVars
<1>22. CASE DistRefused
  BY <1>22 DEF DistRefused, DistAgain, MapShareable, clientVars, queueVars,
    managerVars, handlerVars
<1>23. CASE DistSubmit
  BY <1>23 DEF DistSubmit, MapShareable, clientVars, queueVars, managerVars,
    handlerVars
<1>24. CASE DistStore
  BY <1>24 DEF DistStore, DistAgain, clientVars, queueVars, managerVars, handlerVars
<1>25. CASE KeepAliveAnswered
  BY <1>25 DEF KeepAliveAnswered, clientVars, queueVars, managerVars, handlerVars
<1>26. CASE KeeperRemove
  BY <1>26 DEF KeeperRemove, MapFree, MapShareable, clientVars, queueVars,
    managerVars, handlerVars
<1>27. CASE KeeperReturn
  BY <1>27 DEF KeeperReturn, clientVars, queueVars, managerVars, handlerVars
<1>28. CASE KeeperJoin
  BY <1>28 DEF KeeperJoin, MapFree, MapShareable, clientVars, queueVars, managerVars,
    handlerVars
<1>29. CASE KeeperDelete
  BY <1>29 DEF KeeperDelete, clientVars, queueVars, managerVars, handlerVars
<1>30. CASE UNCHANGED vars
  BY <1>30 DEF vars, clientVars, queueVars, managerVars, handlerVars, clientVars,
    queueVars, managerVars, handlerVars
<1> QED BY Actions, <1>1, <1>2, <1>3, <1>4, <1>5, <1>6, <1>7, <1>8, <1>9, <1>10,
    <1>11, <1>12, <1>13, <1>14, <1>15, <1>16, <1>17, <1>18, <1>19, <1>20, <1>21,
    <1>22, <1>23, <1>24, <1>25, <1>26, <1>27, <1>28, <1>29, <1>30

\* A handler goes through its life in order.
LEMMA HandlerStep ==
    ASSUME Types, HandlerInv, [Next]_vars
    PROVE  HandlerInv'
<1> USE DEF Types, ResponsePlaces, IssuePlaces, HandlerInv
<1>1. ASSUME NEW c \in Clients, HandleClient(c) PROVE HandlerInv'
  BY <1>1 DEF HandleClient, Start, MapFree, MapShareable, clientVars, queueVars,
    managerVars, handlerVars
<1>2. ASSUME NEW c \in Clients, RemoteStep(c) PROVE HandlerInv'
  BY <1>2, RemoteFacts DEF managerVars, handlerVars
<1>3. ASSUME NEW c \in Clients, HandleConnect(c) PROVE HandlerInv'
  BY <1>3 DEF HandleConnect, Consume, NotifyFinish, clientVars, queueVars,
    managerVars, handlerVars
<1>4. ASSUME NEW c \in Clients, HandleKeepAlive(c) PROVE HandlerInv'
  BY <1>4 DEF HandleKeepAlive, Consume, clientVars, queueVars, managerVars,
    handlerVars
<1>5. ASSUME NEW c \in Clients, ReadUpdate(c) PROVE HandlerInv'
  BY <1>5, ReadFacts DEF managerVars
<1>6. ASSUME NEW c \in Clients, CountUpdate(c) PROVE HandlerInv'
  BY <1>6 DEF CountUpdate, clientVars, queueVars, managerVars, handlerVars
<1>7. ASSUME NEW c \in Clients, HandleFinish(c) PROVE HandlerInv'
  BY <1>7 DEF HandleFinish, Consume, NotifyFinish, clientVars, queueVars,
    managerVars, handlerVars
<1>8. ASSUME NEW c \in Clients, ResponseEnd(c) PROVE HandlerInv'
  BY <1>8 DEF ResponseEnd, clientVars, queueVars, managerVars, handlerVars
<1>9. ASSUME NEW c \in Clients, ResponseRemove(c) PROVE HandlerInv'
  BY <1>9 DEF ResponseRemove, MapFree, MapShareable, clientVars, queueVars,
    managerVars, handlerVars
<1>10. ASSUME NEW c \in Clients, ResponseReturn(c) PROVE HandlerInv'
  BY <1>10 DEF ResponseReturn, clientVars, queueVars, managerVars, handlerVars
<1>11. ASSUME NEW c \in Clients, IssueTake(c) PROVE HandlerInv'
  BY <1>11 DEF IssueTake, clientVars, queueVars, managerVars, handlerVars
<1>12. ASSUME NEW c \in Clients, IssueSend(c) PROVE HandlerInv'
  BY <1>12 DEF IssueSend, clientVars, queueVars, managerVars, handlerVars
<1>13. ASSUME NEW c \in Clients, IssueFail(c) PROVE HandlerInv'
  BY <1>13 DEF IssueFail, clientVars, queueVars, managerVars, handlerVars
<1>14. ASSUME NEW c \in Clients, IssueRemove(c) PROVE HandlerInv'
  BY <1>14 DEF IssueRemove, MapFree, MapShareable, clientVars, queueVars,
    managerVars, handlerVars
<1>15. ASSUME NEW c \in Clients, IssueEnd(c) PROVE HandlerInv'
  BY <1>15 DEF IssueEnd, clientVars, queueVars, managerVars, handlerVars
<1>16. ASSUME NEW c \in Clients, TryKeepAlive(c) PROVE HandlerInv'
  BY <1>16 DEF TryKeepAlive, clientVars, queueVars, managerVars, handlerVars
<1>17. ASSUME NEW c \in Clients, KeepAliveFailed(c) PROVE HandlerInv'
  BY <1>17 DEF KeepAliveFailed, clientVars, queueVars, managerVars, handlerVars
<1>18. CASE AddJob
  BY <1>18 DEF AddJob, clientVars, queueVars, managerVars, handlerVars
<1>19. CASE DistWait
  BY <1>19 DEF DistWait, clientVars, queueVars, managerVars, handlerVars
<1>20. CASE DistLookup
  BY <1>20 DEF DistLookup, DistAgain, MapShareable, clientVars, queueVars,
    managerVars, handlerVars
<1>21. CASE DistFetch
  BY <1>21 DEF DistFetch, clientVars, queueVars, managerVars, handlerVars
<1>22. CASE DistRefused
  BY <1>22 DEF DistRefused, DistAgain, MapShareable, clientVars, queueVars,
    managerVars, handlerVars
<1>23. CASE DistSubmit
  BY <1>23 DEF DistSubmit, MapShareable, clientVars, queueVars, managerVars,
    handlerVars
<1>24. CASE DistStore
  BY <1>24 DEF DistStore, DistAgain, clientVars, queueVars, managerVars, handlerVars
<1>25. CASE KeepAliveAnswered
  BY <1>25 DEF KeepAliveAnswered, clientVars, queueVars, managerVars, handlerVars
<1>26. CASE KeeperRemove
  BY <1>26 DEF KeeperRemove, MapFree, MapShareable, clientVars, queueVars,
    managerVars, handlerVars
<1>27. CASE KeeperReturn
  BY <1>27 DEF KeeperReturn, clientVars, queueVars, managerVars, handlerVars
<1>28. CASE KeeperJoin
  BY <1>28 DEF KeeperJoin, MapFree, MapShareable, clientVars, queueVars, managerVars,
    handlerVars
<1>29. CASE KeeperDelete
  BY <1>29 DEF KeeperDelete, clientVars, queueVars, managerVars, handlerVars
<1>30. CASE UNCHANGED vars
  BY <1>30 DEF vars, clientVars, queueVars, managerVars, handlerVars, clientVars,
    queueVars, managerVars, handlerVars
<1> QED BY Actions, <1>1, <1>2, <1>3, <1>4, <1>5, <1>6, <1>7, <1>8, <1>9, <1>10,
    <1>11, <1>12, <1>13, <1>14, <1>15, <1>16, <1>17, <1>18, <1>19, <1>20, <1>21,
    <1>22, <1>23, <1>24, <1>25, <1>26, <1>27, <1>28, <1>29, <1>30

\* A handler that is being given a batch stays out of removeClient.
LEMMA StoreStep ==
    ASSUME Types, HandlerInv, LockInv, StoreInv, [Next]_vars
    PROVE  StoreInv'
<1> USE DEF Types, ResponsePlaces, IssuePlaces, StoreInv, HandlerInv
<1>1. ASSUME NEW c \in Clients, HandleClient(c) PROVE StoreInv'
  BY <1>1 DEF HandleClient, Start, MapFree, MapShareable, clientVars, queueVars,
    managerVars, handlerVars
<1>2. ASSUME NEW c \in Clients, RemoteStep(c) PROVE StoreInv'
  BY <1>2, RemoteFacts DEF managerVars, handlerVars
<1>3. ASSUME NEW c \in Clients, HandleConnect(c) PROVE StoreInv'
  BY <1>3 DEF HandleConnect, Consume, NotifyFinish, clientVars, queueVars,
    managerVars, handlerVars
<1>4. ASSUME NEW c \in Clients, HandleKeepAlive(c) PROVE StoreInv'
  BY <1>4 DEF HandleKeepAlive, Consume, clientVars, queueVars, managerVars,
    handlerVars
<1>5. ASSUME NEW c \in Clients, ReadUpdate(c) PROVE StoreInv'
  BY <1>5, ReadFacts DEF managerVars
<1>6. ASSUME NEW c \in Clients, CountUpdate(c) PROVE StoreInv'
  BY <1>6 DEF CountUpdate, clientVars, queueVars, managerVars, handlerVars
<1>7. ASSUME NEW c \in Clients, HandleFinish(c) PROVE StoreInv'
  BY <1>7 DEF HandleFinish, Consume, NotifyFinish, clientVars, queueVars,
    managerVars, handlerVars
<1>8. ASSUME NEW c \in Clients, ResponseEnd(c) PROVE StoreInv'
  BY <1>8 DEF ResponseEnd, clientVars, queueVars, managerVars, handlerVars
<1>9. ASSUME NEW c \in Clients, ResponseRemove(c) PROVE StoreInv'
  BY <1>9 DEF ResponseRemove, MapFree, MapShareable, clientVars, queueVars,
    managerVars, handlerVars
<1>10. ASSUME NEW c \in Clients, ResponseReturn(c) PROVE StoreInv'
  BY <1>10 DEF ResponseReturn, clientVars, queueVars, managerVars, handlerVars
<1>11. ASSUME NEW c \in Clients, IssueTake(c) PROVE StoreInv'
  BY <1>11 DEF IssueTake, clientVars, queueVars, managerVars, handlerVars
<1>12. ASSUME NEW c \in Clients, IssueSend(c) PROVE StoreInv'
  BY <1>12 DEF IssueSend, clientVars, queueVars, managerVars, handlerVars
<1>13. ASSUME NEW c \in Clients, IssueFail(c) PROVE StoreInv'
  BY <1>13 DEF IssueFail, clientVars, queueVars, managerVars, handlerVars
<1>14. ASSUME NEW c \in Clients, IssueRemove(c) PROVE StoreInv'
  BY <1>14 DEF IssueRemove, MapFree, MapShareable, clientVars, queueVars,
    managerVars, handlerVars
<1>15. ASSUME NEW c \in Clients, IssueEnd(c) PROVE StoreInv'
  BY <1>15 DEF IssueEnd, clientVars, queueVars, managerVars, handlerVars
<1>16. ASSUME NEW c \in Clients, TryKeepAlive(c) PROVE StoreInv'
  BY <1>16 DEF TryKeepAlive, clientVars, queueVars, managerVars, handlerVars
<1>17. ASSUME NEW c \in Clients, KeepAliveFailed(c) PROVE StoreInv'
  BY <1>17 DEF KeepAliveFailed, clientVars, queueVars, managerVars, handlerVars
<1>18. CASE AddJob
  BY <1>18 DEF AddJob, clientVars, queueVars, managerVars, handlerVars
<1>19. CASE DistWait
  BY <1>19 DEF DistWait, clientVars, queueVars, managerVars, handlerVars
<1>20. CASE DistLookup
  BY <1>20 DEF DistLookup, DistAgain, MapShareable, clientVars, queueVars,
    managerVars, handlerVars
<1>21. CASE DistFetch
  BY <1>21 DEF DistFetch, clientVars, queueVars, managerVars, handlerVars
<1>22. CASE DistRefused
  BY <1>22 DEF DistRefused, DistAgain, MapShareable, clientVars, queueVars,
    managerVars, handlerVars
<1>23. CASE DistSubmit
  BY <1>23 DEF DistSubmit, MapShareable, clientVars, queueVars, managerVars,
    handlerVars
<1>24. CASE DistStore
  BY <1>24 DEF DistStore, DistAgain, clientVars, queueVars, managerVars, handlerVars
<1>25. CASE KeepAliveAnswered
  BY <1>25 DEF KeepAliveAnswered, clientVars, queueVars, managerVars, handlerVars
<1>26. CASE KeeperRemove
  BY <1>26 DEF KeeperRemove, MapFree, MapShareable, clientVars, queueVars,
    managerVars, handlerVars
<1>27. CASE KeeperReturn
  BY <1>27 DEF KeeperReturn, clientVars, queueVars, managerVars, handlerVars
<1>28. CASE KeeperJoin
  BY <1>28 DEF KeeperJoin, MapFree, MapShareable, clientVars, queueVars, managerVars,
    handlerVars
<1>29. CASE KeeperDelete
  BY <1>29 DEF KeeperDelete, clientVars, queueVars, managerVars, handlerVars
<1>30. CASE UNCHANGED vars
  BY <1>30 DEF vars, clientVars, queueVars, managerVars, handlerVars, clientVars,
    queueVars, managerVars, handlerVars
<1> QED BY Actions, <1>1, <1>2, <1>3, <1>4, <1>5, <1>6, <1>7, <1>8, <1>9, <1>10,
    <1>11, <1>12, <1>13, <1>14, <1>15, <1>16, <1>17, <1>18, <1>19, <1>20, <1>21,
    <1>22, <1>23, <1>24, <1>25, <1>26, <1>27, <1>28, <1>29, <1>30


\* The smaller of two numbers.
LEMMA MinOfTwo ==
    ASSUME NEW a \in Int, NEW b \in Int
    PROVE  Min({a, b}) = IF a <= b THEN a ELSE b
<1> DEFINE m == IF a <= b THEN a ELSE b
<1>1. m \in {a, b} /\ \A y \in {a, b} : m =< y
  OBVIOUS
<1>2. \A x \in {a, b} : (\A y \in {a, b} : x =< y) => x = m
  OBVIOUS
<1>3. Min({a, b}) \in {a, b} /\ \A y \in {a, b} : Min({a, b}) =< y
  BY <1>1 DEF Min
<1> QED BY <1>2, <1>3

\* The prefix of a sequence, and the rest.
LEMMA Split ==
    ASSUME NEW S, NEW s \in Seq(S), NEW n \in 0 .. Len(s)
    PROVE  /\ SubSeq(s, 1, n) \in Seq(S)
           /\ Len(SubSeq(s, 1, n)) = n
           /\ SubSeq(s, n + 1, Len(s)) \in Seq(S)
  OBVIOUS

\* Two sequences, one after the other.
LEMMA Joined ==
    ASSUME NEW S, NEW s \in Seq(S), NEW t \in Seq(S)
    PROVE  s \o t \in Seq(S) /\ Len(s \o t) = Len(s) + Len(t)
  OBVIOUS

\* The tasks of a job.
LEMMA FramesOfType == \A j \in JobId : FramesOf(j) \in Seq(Task)
<1> SUFFICES ASSUME NEW j \in JobId PROVE FramesOf(j) \in Seq(Task)
  OBVIOUS
<1>1. Frames[j] \in Nat
  BY DispatchAssumption DEF JobId
<1>2. \A i \in 1 .. Frames[j] : [job |-> j, frame |-> i - 1] \in Task
  <2> SUFFICES ASSUME NEW i \in 1 .. Frames[j] PROVE [job |-> j, frame |-> i - 1] \in Task
    OBVIOUS
  <2>1. i - 1 \in 0 .. Frames[j] - 1
    BY <1>1
  <2>2. [job |-> j, frame |-> i - 1] \in [job : {j}, frame : 0 .. Frames[j] - 1]
    BY <2>1
  <2> QED BY <2>2 DEF Task
<1>3. FramesOf(j) \in [1 .. Frames[j] -> Task]
  BY <1>2 DEF FramesOf
<1> QED BY <1>1, <1>3

\* A client's batch size stays in its bounds, whatever time it reports: dividing
\* by it is avoided when it is 0.
LEMMA CapabilityBounds ==
    \A time \in FrameTimes : Capability(time) \in MIN_JOB_CAPABILITY .. MAX_JOB_CAPABILITY
<1> SUFFICES ASSUME NEW time \in FrameTimes
             PROVE  Capability(time) \in MIN_JOB_CAPABILITY .. MAX_JOB_CAPABILITY
  OBVIOUS
<1> DEFINE frames == IF time = 0 THEN MAX_JOB_CAPABILITY ELSE ESTIMATED_JOB_TIMEOUT \div time
<1>1. frames \in Int
  BY DispatchAssumption
<1>2. Capability(time) = IF frames > MAX_JOB_CAPABILITY THEN MAX_JOB_CAPABILITY
                         ELSE IF frames < MIN_JOB_CAPABILITY THEN MIN_JOB_CAPABILITY
                         ELSE frames
  BY DEF Capability
<1> HIDE DEF frames
<1> QED BY <1>1, <1>2, DispatchAssumption

\* A batch is cut from the queue with at least one task and at most as many as
\* the client may get, and stays as it is until it is sent or forgotten.
LEMMA BatchStep ==
    ASSUME Types, HandlerInv, BatchInv, [Next]_vars
    PROVE  BatchInv'
<1> USE DEF Types, ResponsePlaces, IssuePlaces, BatchInv, TaskMutexFree
<1>1. ASSUME NEW c \in Clients, HandleClient(c) PROVE BatchInv'
  BY <1>1 DEF HandleClient, clientVars, queueVars, managerVars, handlerVars
<1>2. ASSUME NEW c \in Clients, RemoteStep(c) PROVE BatchInv'
  BY <1>2, RemoteFacts DEF queueVars, managerVars, handlerVars
<1>3. ASSUME NEW c \in Clients, HandleConnect(c) PROVE BatchInv'
  BY <1>3 DEF HandleConnect, clientVars, queueVars, managerVars, handlerVars
<1>4. ASSUME NEW c \in Clients, HandleKeepAlive(c) PROVE BatchInv'
  BY <1>4 DEF HandleKeepAlive, clientVars, queueVars, managerVars, handlerVars
<1>5. ASSUME NEW c \in Clients, ReadUpdate(c) PROVE BatchInv'
  BY <1>5, ReadFacts DEF queueVars, managerVars
<1>6. ASSUME NEW c \in Clients, CountUpdate(c) PROVE BatchInv'
  BY <1>6 DEF CountUpdate, NotifyUpdate, clientVars, queueVars, managerVars,
    handlerVars
<1>7. ASSUME NEW c \in Clients, HandleFinish(c) PROVE BatchInv'
  <2>1. job_capability' \in [Clients -> MIN_JOB_CAPABILITY .. MAX_JOB_CAPABILITY]
    BY <1>7, CapabilityBounds DEF HandleFinish
  <2> QED BY <1>7, <2>1 DEF HandleFinish, queueVars
<1>8. ASSUME NEW c \in Clients, ResponseEnd(c) PROVE BatchInv'
  BY <1>8 DEF ResponseEnd, clientVars, queueVars, managerVars, handlerVars
<1>9. ASSUME NEW c \in Clients, ResponseRemove(c) PROVE BatchInv'
  BY <1>9 DEF ResponseRemove, clientVars, queueVars, managerVars, handlerVars
<1>10. ASSUME NEW c \in Clients, ResponseReturn(c) PROVE BatchInv'
  BY <1>10 DEF ResponseReturn, AddTasks, clientVars, queueVars, managerVars,
    handlerVars
<1>11. ASSUME NEW c \in Clients, IssueTake(c) PROVE BatchInv'
  BY <1>11 DEF IssueTake, clientVars, queueVars, managerVars, handlerVars
<1>12. ASSUME NEW c \in Clients, IssueSend(c) PROVE BatchInv'
  BY <1>12 DEF IssueSend, clientVars, queueVars, managerVars, handlerVars
<1>13. ASSUME NEW c \in Clients, IssueFail(c) PROVE BatchInv'
  BY <1>13 DEF IssueFail, clientVars, queueVars, managerVars, handlerVars
<1>14. ASSUME NEW c \in Clients, IssueRemove(c) PROVE BatchInv'
  BY <1>14 DEF IssueRemove, clientVars, queueVars, managerVars, handlerVars
<1>15. ASSUME NEW c \in Clients, IssueEnd(c) PROVE BatchInv'
  BY <1>15 DEF IssueEnd, clientVars, queueVars, managerVars, handlerVars
<1>16. ASSUME NEW c \in Clients, TryKeepAlive(c) PROVE BatchInv'
  BY <1>16 DEF TryKeepAlive, clientVars, queueVars, managerVars, handlerVars
<1>17. ASSUME NEW c \in Clients, KeepAliveFailed(c) PROVE BatchInv'
  BY <1>17 DEF KeepAliveFailed, clientVars, queueVars, managerVars, handlerVars
<1>18. CASE AddJob
  <2>1. submitted + 1 \in JobId /\ submitted' \in 0 .. Len(Frames)
    BY <1>18, DispatchAssumption DEF AddJob, JobId
  <2>2. fresh' \in Seq(Task)
    BY <1>18, <2>1, FramesOfType DEF AddJob
  <2> QED BY <1>18, <2>1, <2>2 DEF AddJob, managerVars, handlerVars
<1>19. CASE DistWait
  BY <1>19 DEF DistWait, clientVars, queueVars, managerVars, handlerVars
<1>20. CASE DistLookup
  <2>1. dist_client \in Clients
    BY <1>20 DEF DistLookup
  <2>2. job_capability[dist_client] \in 1 .. MAX_JOB_CAPABILITY
    BY <2>1, DispatchAssumption
  <2>3. /\ tasks' \in Seq(Task)
        /\ dist' \in {"wait", "fetch"}
        /\ dist' = "fetch" => max_jobs' = job_capability[dist_client]
    <3>1. CASE dist_client \in client_map
      <4>1. tasks' = tasks /\ dist' = "fetch" /\ max_jobs' = job_capability[dist_client]
        BY <1>20, <3>1 DEF DistLookup
      <4> QED BY <4>1
    <3>2. CASE dist_client \notin client_map
      <4>1. tasks' = <<>> /\ dist' = "wait"
        BY <1>20, <3>2 DEF DistLookup, DistAgain
      <4> QED BY <4>1
    <3> QED BY <3>1, <3>2
  <2>4. UNCHANGED <<fresh, task_queue, submitted, active_tasks, new_jobs, job_capability, issue>>
    BY <1>20 DEF DistLookup, queueVars, handlerVars
  <2> QED BY <2>2, <2>3, <2>4
<1>21. CASE DistFetch
  <2> DEFINE p == Len(task_queue)
             r == Len(fresh)
             n == Min({p, max_jobs})
             back == SubSeq(task_queue, 1, n)
             k == Min({r, max_jobs - n})
             new == SubSeq(fresh, 1, k)
  <2>1. /\ max_jobs \in Int /\ max_jobs >= 1
        /\ task_queue \in Seq(Task) /\ fresh \in Seq(Task)
        /\ task_queue # <<>> \/ fresh # <<>>
    BY <1>21, DispatchAssumption DEF DistFetch
  <2>2. p \in Nat /\ r \in Nat /\ p + r > 0
    BY <2>1
  <2> HIDE DEF p, r
  <2>3. n = IF p <= max_jobs THEN p ELSE max_jobs
    <3>1. p \in Int /\ max_jobs \in Int
      BY <2>1, <2>2
    <3> QED BY <3>1, MinOfTwo, Zenon
  <2> HIDE DEF n
  <2>4. n \in 0 .. p /\ n <= max_jobs /\ max_jobs - n \in Int
    BY <2>1, <2>2, <2>3
  <2>5. /\ back \in Seq(Task) /\ Len(back) = n
        /\ SubSeq(task_queue, n + 1, Len(task_queue)) \in Seq(Task)
    BY <2>1, <2>4, Split DEF p
  <2>6. k = IF r <= max_jobs - n THEN r ELSE max_jobs - n
    <3>1. r \in Int /\ max_jobs - n \in Int
      BY <2>2, <2>4
    <3> QED BY <3>1, MinOfTwo, Zenon
  <2> HIDE DEF k
  <2>7. k \in 0 .. r /\ n + k \in 1 .. max_jobs
    BY <2>1, <2>2, <2>3, <2>4, <2>6
  <2>8. new \in Seq(Task) /\ Len(new) = k /\ SubSeq(fresh, k + 1, Len(fresh)) \in Seq(Task)
    BY <2>1, <2>7, Split DEF r
  <2>9. /\ tasks' = back \o new
        /\ task_queue' = SubSeq(task_queue, n + 1, Len(task_queue))
        /\ fresh' = SubSeq(fresh, k + 1, Len(fresh))
    BY <1>21, <2>5, <2>8 DEF DistFetch, n, k, p, r
  <2> HIDE DEF back, new
  <2>10. tasks' \in Seq(Task)
    BY <2>5, <2>8, <2>9
  <2>11. Len(tasks') = n + k
    <3>1. Len(tasks') = Len(back) + Len(new)
      BY <2>5, <2>8, <2>9, Joined, Zenon
    <3> QED BY <2>5, <2>8, <3>1
  <2> QED BY <1>21, <2>5, <2>7, <2>8, <2>9, <2>10, <2>11 DEF DistFetch, handlerVars
<1>22. CASE DistRefused
  BY <1>22 DEF DistRefused, DistAgain, AddTasks, clientVars, queueVars, managerVars,
    handlerVars
<1>23. CASE DistSubmit
  BY <1>23 DEF DistSubmit, clientVars, queueVars, managerVars, handlerVars
<1>24. CASE DistStore
  <2>1. dist_client \in Clients /\ Len(tasks) \in 1 .. MAX_JOB_CAPABILITY
    BY <1>24, DispatchAssumption DEF DistStore
  <2> QED BY <1>24, <2>1 DEF DistStore, DistAgain, queueVars
<1>25. CASE KeepAliveAnswered
  BY <1>25 DEF KeepAliveAnswered, clientVars, queueVars, managerVars, handlerVars
<1>26. CASE KeeperRemove
  BY <1>26 DEF KeeperRemove, clientVars, queueVars, managerVars, handlerVars
<1>27. CASE KeeperReturn
  BY <1>27 DEF KeeperReturn, AddTasks, clientVars, queueVars, managerVars,
    handlerVars
<1>28. CASE KeeperJoin
  BY <1>28 DEF KeeperJoin, clientVars, queueVars, managerVars, handlerVars
<1>29. CASE KeeperDelete
  BY <1>29 DEF KeeperDelete, clientVars, queueVars, managerVars, handlerVars
<1>30. CASE UNCHANGED vars
  BY <1>30 DEF vars, clientVars, queueVars, managerVars, handlerVars, clientVars,
    queueVars, managerVars, handlerVars
<1> QED BY Actions, <1>1, <1>2, <1>3, <1>4, <1>5, <1>6, <1>7, <1>8, <1>9, <1>10,
    <1>11, <1>12, <1>13, <1>14, <1>15, <1>16, <1>17, <1>18, <1>19, <1>20, <1>21,
    <1>22, <1>23, <1>24, <1>25, <1>26, <1>27, <1>28, <1>29, <1>30


\* Everything holds when the server has been started.
LEMMA InitInv == Init => IndInv
<1> SUFFICES ASSUME Init PROVE IndInv
  OBVIOUS
<1> USE DEF Init, ClientInit
<1>1. Types
  BY DEF Types, ResponsePlaces, IssuePlaces
<1>2. LockInv
  BY Holders DEF LockInv
<1>3. HandlerInv /\ StoreInv
  BY DEF HandlerInv, StoreInv
<1>4. BatchInv
  BY DispatchAssumption DEF BatchInv
<1> QED BY <1>1, <1>2, <1>3, <1>4 DEF IndInv

\* Every step of every thread keeps the invariant.
LEMMA NextInv == IndInv /\ [Next]_vars => IndInv'
  BY TypesStep, LockStep, HandlerStep, StoreStep, BatchStep DEF IndInv

\* So it holds for as long as the server runs.
LEMMA Invariance == Spec => []IndInv
  BY InitInv, NextInv, PTL DEF Spec

-----------------------------------------------------------------------------

\* submitTasks stores a batch only in a handler that is in the map and has yet
\* to hand its last batch back: a client that goes away at the worst moment
\* costs the server no batch.
THEOREM AcceptedIsHandedBack == Spec => []AcceptedBeforeRemoval
<1>1. IndInv => AcceptedBeforeRemoval
  BY DEF IndInv, StoreInv, AcceptedBeforeRemoval
<1> QED BY <1>1, Invariance, PTL

\* client_map_mutex does its work: no two threads are in removeClient, and none
\* is while submitTasks runs.
THEOREM RemovalsExclude == Spec => []RemovalExclusive
<1>1. IndInv => RemovalExclusive
  <2> SUFFICES ASSUME IndInv PROVE RemovalExclusive
    OBVIOUS
  <2>1. \A c \in Clients : response[c] = "remove" => map_owner = <<"response", c>>
    BY DEF IndInv, LockInv
  <2>2. keeper = "remove" => map_owner = <<"keeper", kept>>
    BY DEF IndInv, LockInv
  <2>3. dist = "store" => map_owner = Nobody
    BY DEF IndInv, LockInv
  <2> QED BY <2>1, <2>2, <2>3, Holders DEF RemovalExclusive
<1> QED BY <1>1, Invariance, PTL

\* The keepalive thread deletes a handler only when both of its threads have
\* ended, so neither can touch the deleted object.
THEOREM DeletedHasNoThread == Spec => []DeletedIsQuiet
<1>1. IndInv => DeletedIsQuiet
  BY DEF IndInv, HandlerInv, DeletedIsQuiet
<1> QED BY <1>1, Invariance, PTL

\* Whatever times the clients report, the distribution thread never submits a
\* batch larger than MAX_JOB_CAPABILITY, nor, as long as every job has a frame, an
\* empty one: the issue thread that takes a batch has a packet to send.
THEOREM BatchesFit == Spec => []BatchInBounds
<1>1. IndInv => BatchInBounds
  <2> SUFFICES ASSUME IndInv PROVE BatchInBounds
    OBVIOUS
  <2>1. dist \in {"submit", "store"} =>
            max_jobs \in 1 .. MAX_JOB_CAPABILITY /\ Len(tasks) \in 1 .. max_jobs
    BY DEF IndInv, BatchInv
  <2> QED BY <2>1, DispatchAssumption DEF IndInv, BatchInv, BatchInBounds
<1> QED BY <1>1, Invariance, PTL

-----------------------------------------------------------------------------
(***************************************************************************)
(* Requests, batches and frames.                                           *)
(*                                                                         *)
(* What follows rests on a hypothesis, BatchOfOneJob: the issue thread     *)
(* sends one packet for each job of a batch, and a client that receives    *)
(* two packets may ask for work twice, so that its next batch is replaced  *)
(* before it is sent.  The run dispatch_shared_batch shows that behaviour; *)
(* it is the only one that is excluded here.                               *)
(***************************************************************************)

SingleJob(batch) == \A i, k \in DOMAIN batch : batch[i].job = batch[k].job

\* The batch the distribution thread holds has the frames of one job only.
BatchOfOneJob == SingleJob(tasks)

UpTypes == {"CONNECT", "KEEPALIVE", "UPDATE_JOB", "FINISH_JOB"}
UpPacket == [type : UpTypes, tasks : Batches]
DownPacket == [type : {"KEEPALIVE", "ISSUE_JOB"}, tasks : Batches]
JobPacket == [type : {"ISSUE_JOB"}, tasks : Batches]

\* What is on the wire, in the clients and in the handlers' threads.
WireTypes ==
    /\ up \in [Clients -> Seq(UpPacket)]
    /\ down \in [Clients -> Seq(DownPacket)]
    /\ requests \in [Clients -> Seq(JobPacket)]
    /\ render_queue \in [Clients -> Seq(Batches)]
    /\ current \in [Clients -> Batches]
    /\ send_queue \in [Clients -> Batches]
    /\ reported \in [Clients -> Batches]
    /\ disconnects \in Nat

UpCargo(s) == \A k \in DOMAIN s : s[k].type = "UPDATE_JOB" <=> s[k].tasks # <<>>
DownCargo(s) == \A k \in DOMAIN s : s[k].type = "KEEPALIVE" => s[k].tasks = <<>>

\* Only an update carries tasks to the server, and only a job to a client; the
\* threads hold what they are about to pass on and nothing else.
FlowInv ==
    /\ dist \in {"wait", "lookup", "fetch"} => tasks = <<>>
    /\ \A c \in Clients :
        /\ UpCargo(up[c])
        /\ DownCargo(down[c])
        /\ new_jobs[c] => SingleJob(active_tasks[c])
        /\ issue[c] \in {"none", "wait"} => requests[c] = <<>>
        /\ issue[c] = "send" => Len(requests[c]) = 1
        /\ main[c] \in {"new", "get"} => current[c] = <<>>
        /\ Len(reported[c]) = IF response[c] = "count" THEN 1 ELSE 0

\* As long as a client is up, so is its handler, and nobody removes it.
RunInv ==
    /\ \A c \in Clients : Alive(c) => active[c]
    /\ keeper \in {"stop", "remove", "join", "delete"} => ~ active[kept]
    /\ disconnects = 0 => \A c \in Clients : main[c] # "gone"

\* The parts of a client's tokens.
Asked(c) == OfType(up[c], {"CONNECT", "FINISH_JOB"})
Waiting(c) == Occurrences(free_clients, c)
Serving(c) == Bit(dist # "wait" /\ dist_client = c)
Accepted(c) == Bit(new_jobs[c])
Sending(c) == Len(requests[c])
Issued(c) == OfType(down[c], {"ISSUE_JOB"})
Queued(c) == Len(render_queue[c])
Asking(c) == Bit(main[c] = "ask")

TokenParts(c) ==
    /\ Asked(c) \in Nat /\ Waiting(c) \in Nat /\ Serving(c) \in Nat /\ Accepted(c) \in Nat
    /\ Sending(c) \in Nat /\ Issued(c) \in Nat /\ Queued(c) \in Nat /\ Asking(c) \in Nat

\* A client that is up has one token, and one that was not yet started none.
HasToken(c) ==
    /\ Alive(c) => Tokens(c) = 1
    /\ main[c] = "new" => Tokens(c) = 0

TokenInv == \A c \in Clients : HasToken(c)


\* A set of natural numbers that is not empty has a least one.
LEMMA Least ==
    ASSUME NEW T \in SUBSET Nat, T # {}
    PROVE  \E i \in T : \A k \in T : i <= k
<1>1. PICK i \in T : \A k \in T : ~ <<k, i>> \in OpToRel(<, Nat)
  BY WFMin, NatLessThanWellFounded
<1>2. \A k \in T : ~ k < i
  BY <1>1 DEF OpToRel
<1> QED BY <1>2

\* A strictly increasing map of 1 .. n to itself never falls behind.
LEMMA Ahead ==
    ASSUME NEW n \in Nat, NEW s \in [1 .. n -> 1 .. n],
           \A i, k \in 1 .. n : i < k => s[i] < s[k]
    PROVE  \A i \in 1 .. n : s[i] >= i
<1> DEFINE T == {i \in 1 .. n : s[i] < i}
<1> SUFFICES ASSUME T # {} PROVE FALSE
  OBVIOUS
<1>1. PICK i \in T : \A k \in T : i <= k
  <2>1. T \in SUBSET Nat
    OBVIOUS
  <2> QED BY <2>1, Least
<1>2. i \in 1 .. n /\ s[i] < i /\ s[i] \in 1 .. n
  OBVIOUS
<1>3. i - 1 \in 1 .. n /\ i - 1 < i
  BY <1>2
<1>4. s[i - 1] < s[i] /\ s[i - 1] \in 1 .. n
  BY <1>2, <1>3
<1>5. s[i - 1] < i - 1
  BY <1>2, <1>3, <1>4
<1>6. i - 1 \in T
  BY <1>3, <1>5
<1> QED BY <1>1, <1>2, <1>6

\* It is the identity.
LEMMA Identity ==
    ASSUME NEW n \in Nat, NEW s \in [1 .. n -> 1 .. n],
           \A i, k \in 1 .. n : i < k => s[i] < s[k]
    PROVE  \A i \in 1 .. n : s[i] = i
<1> DEFINE r == [i \in 1 .. n |-> n + 1 - s[n + 1 - i]]
<1>1. r \in [1 .. n -> 1 .. n]
  <2> SUFFICES ASSUME NEW i \in 1 .. n PROVE n + 1 - s[n + 1 - i] \in 1 .. n
    OBVIOUS
  <2>1. n + 1 - i \in 1 .. n
    OBVIOUS
  <2>2. s[n + 1 - i] \in 1 .. n
    BY <2>1
  <2> QED BY <2>2
<1>2. \A i, k \in 1 .. n : i < k => r[i] < r[k]
  <2> SUFFICES ASSUME NEW i \in 1 .. n, NEW k \in 1 .. n, i < k PROVE r[i] < r[k]
    OBVIOUS
  <2>1. n + 1 - i \in 1 .. n /\ n + 1 - k \in 1 .. n /\ n + 1 - k < n + 1 - i
    OBVIOUS
  <2>2. /\ s[n + 1 - k] < s[n + 1 - i]
        /\ s[n + 1 - k] \in Int /\ s[n + 1 - i] \in Int
    BY <2>1
  <2> QED BY <2>2
<1> HIDE DEF r
<1>3. \A i \in 1 .. n : r[i] >= i
  BY <1>1, <1>2, Ahead
<1>4. \A i \in 1 .. n : s[i] >= i
  BY Ahead
<1> SUFFICES ASSUME NEW i \in 1 .. n PROVE s[i] = i
  OBVIOUS
<1>5. n + 1 - i \in 1 .. n /\ n + 1 - (n + 1 - i) = i
  OBVIOUS
<1>6. r[n + 1 - i] = n + 1 - s[i] /\ s[i] \in 1 .. n
  BY <1>5 DEF r
<1>7. r[n + 1 - i] >= n + 1 - i
  BY <1>3, <1>5
<1> QED BY <1>4, <1>6, <1>7

\* An interval in ascending order.
LEMMA AscendingInterval ==
    ASSUME NEW n \in Nat
    PROVE  Ascending(1 .. n) = [i \in 1 .. n |-> i]
<1> DEFINE F == [1 .. Cardinality(1 .. n) -> 1 .. n]
           up1(s) == \A i, k \in DOMAIN s : i < k => s[i] < s[k]
           id == [i \in 1 .. n |-> i]
<1>1. F = [1 .. n -> 1 .. n]
  <2>1. Cardinality(1 .. n) = n
    BY FS_Interval
  <2> QED BY <2>1
<1>2. id \in F /\ up1(id)
  BY <1>1
<1>3. \A s \in F : up1(s) => s = id
  <2> SUFFICES ASSUME NEW s \in F, up1(s) PROVE s = id
    OBVIOUS
  <2>1. s \in [1 .. n -> 1 .. n] /\ \A i, k \in 1 .. n : i < k => s[i] < s[k]
    BY <1>1
  <2>2. \A i \in 1 .. n : s[i] = i
    BY <2>1, Identity
  <2> QED BY <2>1, <2>2
<1> HIDE DEF F, id
<1>4. (CHOOSE s \in F : up1(s)) = id
  BY <1>2, <1>3
<1> QED BY <1>4 DEF Ascending, F, id

\* A set of one number in ascending order.
LEMMA AscendingOne ==
    ASSUME NEW j \in Int
    PROVE  Ascending({j}) = [i \in 1 .. 1 |-> j]
<1> DEFINE F == [1 .. Cardinality({j}) -> {j}]
           up1(s) == \A i, k \in DOMAIN s : i < k => s[i] < s[k]
           id == [i \in 1 .. 1 |-> j]
<1>1. F = [1 .. 1 -> {j}]
  BY FS_Singleton
<1>2. id \in F
  BY <1>1
<1>3. up1(id)
  OBVIOUS
<1>4. \A s \in F : s = id
  BY <1>1
<1> HIDE DEF F, id
<1>5. (CHOOSE s \in F : up1(s)) = id
  BY <1>2, <1>3, <1>4
<1> QED BY <1>5 DEF Ascending, F, id

\* The jobs of tasks are numbers.
LEMMA TaskJob == \A t \in Task : t.job \in JobId /\ t.job \in Int
<1> SUFFICES ASSUME NEW t \in Task PROVE t.job \in JobId /\ t.job \in Int
  OBVIOUS
<1>1. PICK j \in JobId : t \in [job : {j}, frame : 0 .. Frames[j] - 1]
  BY DEF Task
<1>2. t.job = j
  BY <1>1
<1> QED BY <1>2, DispatchAssumption DEF JobId

\* A batch of one job is sent in one packet, as it is.
LEMMA RequestsOfOne ==
    ASSUME NEW b \in Seq(Task), b # <<>>, SingleJob(b)
    PROVE  Requests(b) = <<[type |-> "ISSUE_JOB", tasks |-> b]>>
<1> DEFINE j == b[1].job
           n == Len(b)
           ids == Ascending({b[i].job : i \in DOMAIN b})
           places(x) == Ascending({i \in DOMAIN b : b[i].job = x})
           packet(k) == Packet("ISSUE_JOB", [m \in DOMAIN places(ids[k]) |-> b[places(ids[k])[m]]])
<1>1. n \in Nat /\ n >= 1 /\ DOMAIN b = 1 .. n /\ 1 \in DOMAIN b
  OBVIOUS
<1>2. b[1] \in Task
  BY <1>1
<1>3. j \in Int
  BY <1>2, TaskJob
<1>4. \A i \in DOMAIN b : b[i].job = j
  BY <1>1 DEF SingleJob
<1> HIDE DEF j, n
<1>5. {b[i].job : i \in DOMAIN b} = {j}
  BY <1>1, <1>4
<1>6. {i \in DOMAIN b : b[i].job = j} = 1 .. n
  BY <1>1, <1>4
<1>7. ids = [i \in 1 .. 1 |-> j]
  BY <1>3, <1>5, AscendingOne
<1>8. places(j) = [i \in 1 .. n |-> i]
  BY <1>1, <1>6, AscendingInterval
<1>9. Requests(b) = [k \in DOMAIN ids |-> packet(k)]
  BY DEF Requests
<1> HIDE DEF ids, places
<1>10. packet(1) = [type |-> "ISSUE_JOB", tasks |-> b]
  <2>1. ids[1] = j
    BY <1>7
  <2>2. [m \in DOMAIN places(j) |-> b[places(j)[m]]] = [m \in 1 .. n |-> b[m]]
    BY <1>8
  <2>3. [m \in 1 .. n |-> b[m]] = b
    BY <1>1
  <2> QED BY <2>1, <2>2, <2>3 DEF Packet
<1>11. DOMAIN ids = 1 .. 1
  BY <1>7
<1> HIDE DEF packet
<1>12. [k \in DOMAIN ids |-> packet(k)] = <<packet(1)>>
  <2>1. DOMAIN ids = {1}
    BY <1>11
  <2> QED BY <2>1
<1> QED BY <1>9, <1>10, <1>12


\* The packets the threads send are of the types they should be.
LEMMA PacketTypes ==
    /\ \A type \in UpTypes : \A b \in Batches : Packet(type, b) \in UpPacket
    /\ \A b \in Batches : Packet("ISSUE_JOB", b) \in JobPacket
    /\ Packet("KEEPALIVE", <<>>) \in DownPacket
    /\ <<>> \in Batches
    /\ \A p \in UpPacket : p.type \in UpTypes /\ p.tasks \in Batches
    /\ \A p \in DownPacket : p.type \in {"KEEPALIVE", "ISSUE_JOB"} /\ p.tasks \in Batches
    /\ \A p \in JobPacket : p \in DownPacket /\ p.type = "ISSUE_JOB" /\ p.tasks \in Batches
    /\ \A type, b : Packet(type, b).type = type /\ Packet(type, b).tasks = b
    /\ UpTypes = {"CONNECT", "KEEPALIVE", "UPDATE_JOB", "FINISH_JOB"}
<1>1. <<>> \in Batches
  BY DEF Batches
<1> QED BY <1>1 DEF UpPacket, DownPacket, JobPacket, Packet, UpTypes

\* One element more.
LEMMA Appended ==
    ASSUME NEW S, NEW s \in Seq(S), NEW x \in S
    PROVE  /\ Append(s, x) \in Seq(S) /\ Len(Append(s, x)) = Len(s) + 1
           /\ DOMAIN Append(s, x) = 1 .. Len(s) + 1
           /\ Append(s, x)[Len(s) + 1] = x
           /\ \A i \in 1 .. Len(s) : Append(s, x)[i] = s[i]
  OBVIOUS

\* One element less.
LEMMA Tailed ==
    ASSUME NEW S, NEW s \in Seq(S), s # <<>>
    PROVE  /\ Tail(s) \in Seq(S) /\ Len(Tail(s)) = Len(s) - 1 /\ Len(s) >= 1
           /\ DOMAIN Tail(s) = 1 .. Len(s) - 1
           /\ Head(s) = s[1] /\ s[1] \in S /\ 1 \in DOMAIN s
           /\ \A i \in 1 .. Len(s) - 1 : Tail(s)[i] = s[i + 1]
  OBVIOUS

\* A sequence without elements, and one with a single element.
LEMMA Emptied ==
    ASSUME NEW S, NEW s \in Seq(S)
    PROVE  /\ s = <<>> <=> Len(s) = 0
           /\ s # <<>> => (Tail(s) = <<>> <=> Len(s) = 1)
<1>1. \A t \in Seq(S) : t = <<>> <=> Len(t) = 0
  OBVIOUS
<1>2. s # <<>> => Tail(s) \in Seq(S) /\ Len(Tail(s)) = Len(s) - 1 /\ Len(s) \in Nat
  BY Tailed
<1>3. s # <<>> => (Tail(s) = <<>> <=> Len(s) = 1)
  <2> SUFFICES ASSUME s # <<>> PROVE Tail(s) = <<>> <=> Len(s) = 1
    OBVIOUS
  <2> DEFINE t == Tail(s)
             n == Len(s)
  <2>1. t \in Seq(S) /\ Len(t) = n - 1 /\ n \in Nat
    BY <1>2
  <2> HIDE DEF t, n
  <2>2. t = <<>> <=> n = 1
    BY <1>1, <2>1
  <2> QED BY <2>2 DEF t, n
<1> QED BY <1>1, <1>3

\* Another first element.
LEMMA Replaced ==
    ASSUME NEW S, NEW s \in Seq(S), s # <<>>, NEW x \in S
    PROVE  /\ [s EXCEPT ![1] = x] \in Seq(S) /\ Len([s EXCEPT ![1] = x]) = Len(s)
           /\ DOMAIN [s EXCEPT ![1] = x] = 1 .. Len(s)
           /\ [s EXCEPT ![1] = x][1] = x
           /\ \A i \in 2 .. Len(s) : [s EXCEPT ![1] = x][i] = s[i]
<1>1. Len(s) \in Nat /\ Len(s) >= 1 /\ DOMAIN s = 1 .. Len(s) /\ s \in [1 .. Len(s) -> S]
  OBVIOUS
<1> DEFINE n == Len(s)
<1> HIDE DEF n
<1>2. /\ [s EXCEPT ![1] = x] \in [1 .. n -> S] /\ DOMAIN [s EXCEPT ![1] = x] = 1 .. n
      /\ [s EXCEPT ![1] = x][1] = x
      /\ \A i \in 2 .. n : [s EXCEPT ![1] = x][i] = s[i]
  BY <1>1 DEF n
<1>3. n \in Nat
  BY <1>1 DEF n
<1> QED BY <1>2, <1>3 DEF n

\* What ReadUpdate finds at the head of the connection, and what it leaves there.
LEMMA UpdateFacts ==
    ASSUME WireTypes, FlowInv, NEW c \in Clients, ReadUpdate(c)
    PROVE  LET frames == up[c][1].tasks
           IN  /\ up[c] \in Seq(UpPacket) /\ up[c] # <<>>
               /\ 1 \in DOMAIN up[c] /\ Len(up[c]) >= 1 /\ up[c][1].type = "UPDATE_JOB"
               /\ frames \in Seq(Task) /\ frames # <<>> /\ frames[1] \in Task
               /\ Len(frames) \in Nat /\ (Len(frames) # 1 => Tail(frames) # <<>>)
               /\ Tail(frames) \in Seq(Task) /\ Len(Tail(frames)) = Len(frames) - 1
               /\ Packet("UPDATE_JOB", Tail(frames)) \in UpPacket
               /\ reported' = [reported EXCEPT ![c] = <<frames[1]>>]
               /\ Len(frames) = 1 => up' = [up EXCEPT ![c] = Tail(@)]
               /\ Len(frames) # 1 =>
                    up' = [up EXCEPT ![c] = [@ EXCEPT ![1] = Packet("UPDATE_JOB", Tail(frames))]]
               /\ UNCHANGED <<down, main, requests, render_queue, current, send_queue, disconnects>>
<1> DEFINE frames == up[c][1].tasks
<1>1. up[c] \in Seq(UpPacket) /\ up[c] # <<>>
  BY DEF ReadUpdate, Received, WireTypes
<1>2. /\ 1 \in DOMAIN up[c] /\ Len(up[c]) >= 1
      /\ Head(up[c]) = up[c][1] /\ up[c][1] \in UpPacket
  BY <1>1, Tailed
<1>3. up[c][1].type = "UPDATE_JOB"
  BY <1>2 DEF ReadUpdate, Received
<1>4. frames \in Batches /\ frames # <<>>
  BY <1>2, <1>3, PacketTypes DEF FlowInv, UpCargo
<1>5. frames \in Seq(Task)
  BY <1>4 DEF Batches
<1>6. /\ frames[1] \in Task /\ Head(frames) = frames[1]
      /\ Tail(frames) \in Seq(Task) /\ Len(Tail(frames)) = Len(frames) - 1
  BY <1>4, <1>5, Tailed
<1>7. Packet("UPDATE_JOB", Tail(frames)) \in UpPacket
  <2>1. Tail(frames) \in Batches
    BY <1>6 DEF Batches
  <2> QED BY <2>1, PacketTypes
<1>8. Head(up[c]).tasks = frames
  BY <1>2
<1>9. reported' = [reported EXCEPT ![c] = <<frames[1]>>]
  BY <1>6, <1>8 DEF ReadUpdate
<1>10. Len(frames) = 1 => up' = [up EXCEPT ![c] = Tail(@)]
  BY <1>8 DEF ReadUpdate, Consume
<1>11. Len(frames) # 1 =>
        up' = [up EXCEPT ![c] = [@ EXCEPT ![1] = Packet("UPDATE_JOB", Tail(frames))]]
  <2> SUFFICES ASSUME Len(frames) # 1
               PROVE  up' = [up EXCEPT ![c] = [@ EXCEPT ![1] = Packet("UPDATE_JOB", Tail(frames))]]
    OBVIOUS
  <2>1. up' = [up EXCEPT ![c][1].tasks = Tail(@)]
    BY <1>8 DEF ReadUpdate
  <2>2. [up[c][1] EXCEPT !.tasks = Tail(frames)] = Packet("UPDATE_JOB", Tail(frames))
    <3>1. PICK type \in UpTypes, b \in Batches : up[c][1] = [type |-> type, tasks |-> b]
      BY <1>2 DEF UpPacket
    <3>2. type = "UPDATE_JOB"
      BY <1>3, <3>1
    <3>3. \A t : [[type |-> "UPDATE_JOB", tasks |-> b] EXCEPT !.tasks = t]
                    = [type |-> "UPDATE_JOB", tasks |-> t]
      OBVIOUS
    <3> QED BY <3>1, <3>2, <3>3, Zenon DEF Packet
  <2>3. up' = [up EXCEPT ![c] = [up[c] EXCEPT ![1] = [up[c][1] EXCEPT !.tasks = Tail(frames)]]]
    BY <2>1
  <2> QED BY <2>2, <2>3
<1>12. UNCHANGED <<down, main, requests, render_queue, current, send_queue, disconnects>>
  BY DEF ReadUpdate, Consume
<1>13. Len(frames) \in Nat /\ (Len(frames) # 1 => Tail(frames) # <<>>)
  <2> HIDE DEF frames
  <2> QED BY <1>4, <1>5, Emptied
<1> QED BY <1>1, <1>2, <1>3, <1>4, <1>5, <1>6, <1>7, <1>13, <1>9, <1>10, <1>11, <1>12

\* Packets and batches stay what they are, wherever they are passed on.
LEMMA WireStep ==
    ASSUME Types, BatchInv, WireTypes, FlowInv, [Next]_vars
    PROVE  WireTypes'
<1> USE DEF Types, WireTypes
<1>1. ASSUME NEW c \in Clients, HandleClient(c) PROVE WireTypes'
  <2>1. Append(up[c], Packet("CONNECT", <<>>)) \in Seq(UpPacket)
    BY PacketTypes, Appended
  <2> QED BY <1>1, <2>1 DEF HandleClient, Start, SendUp
<1>2. ASSUME NEW c \in Clients, RemoteStep(c) PROVE WireTypes'
  <2>0. UNCHANGED queueVars /\ UNCHANGED managerVars /\ UNCHANGED handlerVars /\ ClientStep(c)
    BY <1>2 DEF RemoteStep
  <2>1. CASE RecvKeepAlive(c)
    <3>1. Append(up[c], Packet("KEEPALIVE", <<>>)) \in Seq(UpPacket)
      BY PacketTypes, Appended
    <3>2. Tail(down[c]) \in Seq(DownPacket)
      BY <2>1, Tailed DEF RecvKeepAlive
    <3> QED BY <2>0, <2>1, <3>1, <3>2 DEF RecvKeepAlive, SendUp, handlerVars
  <2>2. CASE RecvIssueJob(c)
    <3>1. Tail(down[c]) \in Seq(DownPacket) /\ Head(down[c]) \in DownPacket
      BY <2>2, Tailed DEF RecvIssueJob
    <3>2. Append(render_queue[c], Head(down[c]).tasks) \in Seq(Batches)
      BY <3>1, PacketTypes, Appended
    <3> QED BY <2>0, <2>2, <3>1, <3>2 DEF RecvIssueJob, AddTask, handlerVars
  <2>3. CASE GetTask(c)
    <3>1. Tail(render_queue[c]) \in Seq(Batches) /\ Head(render_queue[c]) \in Batches
      BY <2>3, Tailed DEF GetTask
    <3> QED BY <2>0, <2>3, <3>1 DEF GetTask, handlerVars
  <2>4. CASE RequestMoreJobs(c)
    <3>1. Append(up[c], Packet("FINISH_JOB", <<>>)) \in Seq(UpPacket)
      BY PacketTypes, Appended
    <3> QED BY <2>0, <2>4, <3>1 DEF RequestMoreJobs, SendUp, handlerVars
  <2>5. CASE UpdateServer(c)
    <3>1. send_queue[c] \o current[c] \in Batches /\ <<>> \in Batches
      <4>1. send_queue[c] \in Seq(Task) /\ current[c] \in Seq(Task)
        BY DEF Batches
      <4> QED BY <4>1, Joined, PacketTypes DEF Batches
    <3> QED BY <2>0, <2>5, <3>1 DEF UpdateServer, handlerVars
  <2>6. CASE SendUpdate(c)
    <3>1. Append(up[c], Packet("UPDATE_JOB", send_queue[c])) \in Seq(UpPacket)
      BY PacketTypes, Appended
    <3>2. <<>> \in Batches
      BY PacketTypes
    <3> QED BY <2>0, <2>6, <3>1, <3>2 DEF SendUpdate, SendUp, handlerVars
  <2>7. CASE Disconnect(c)
    <3>1. PICK n \in 0 .. Len(up[c]) : up' = [up EXCEPT ![c] = SubSeq(up[c], 1, n)]
      BY <2>7 DEF Disconnect
    <3>2. SubSeq(up[c], 1, n) \in Seq(UpPacket)
      BY Split
    <3>3. <<>> \in Batches /\ <<>> \in Seq(DownPacket) /\ <<>> \in Seq(Batches)
      BY PacketTypes
    <3> QED BY <2>0, <2>7, <3>1, <3>2, <3>3 DEF Disconnect, handlerVars
  <2> QED BY <2>0, <2>1, <2>2, <2>3, <2>4, <2>5, <2>6, <2>7 DEF ClientStep
<1>3. ASSUME NEW c \in Clients, HandleConnect(c) PROVE WireTypes'
  <2>1. up[c] \in Seq(UpPacket) /\ up[c] # <<>>
    BY <1>3 DEF HandleConnect, Received
  <2>2. Tail(up[c]) \in Seq(UpPacket)
    BY <2>1, Tailed
  <2> QED BY <1>3, <2>2 DEF HandleConnect, Consume, handlerVars
<1>4. ASSUME NEW c \in Clients, HandleKeepAlive(c) PROVE WireTypes'
  <2>1. up[c] \in Seq(UpPacket) /\ up[c] # <<>>
    BY <1>4 DEF HandleKeepAlive, Received
  <2>2. Tail(up[c]) \in Seq(UpPacket)
    BY <2>1, Tailed
  <2> QED BY <1>4, <2>2 DEF HandleKeepAlive, Consume, handlerVars
<1>5. ASSUME NEW c \in Clients, ReadUpdate(c) PROVE WireTypes'
  <2> DEFINE frames == up[c][1].tasks
  <2>1. <<frames[1]>> \in Batches
    BY <1>5, UpdateFacts DEF Batches
  <2>2. up' \in [Clients -> Seq(UpPacket)]
    <3>1. Tail(up[c]) \in Seq(UpPacket)
      BY <1>5, UpdateFacts, Tailed
    <3>2. [up[c] EXCEPT ![1] = Packet("UPDATE_JOB", Tail(frames))] \in Seq(UpPacket)
      BY <1>5, UpdateFacts, Replaced
    <3>3. \/ up' = [up EXCEPT ![c] = Tail(up[c])]
          \/ up' = [up EXCEPT ![c] = [up[c] EXCEPT ![1] = Packet("UPDATE_JOB", Tail(frames))]]
      BY <1>5, UpdateFacts
    <3> QED BY <3>1, <3>2, <3>3
  <2>3. /\ reported' = [reported EXCEPT ![c] = <<frames[1]>>]
        /\ UNCHANGED <<down, main, requests, render_queue, current, send_queue, disconnects>>
    BY <1>5, UpdateFacts
  <2> QED BY <2>1, <2>2, <2>3
<1>6. ASSUME NEW c \in Clients, CountUpdate(c) PROVE WireTypes'
  <2>1. <<>> \in Batches
    BY PacketTypes
  <2> QED BY <1>6, <2>1 DEF CountUpdate, clientVars
<1>7. ASSUME NEW c \in Clients, HandleFinish(c) PROVE WireTypes'
  <2>1. up[c] \in Seq(UpPacket) /\ up[c] # <<>>
    BY <1>7 DEF HandleFinish, Received
  <2>2. Tail(up[c]) \in Seq(UpPacket)
    BY <2>1, Tailed
  <2> QED BY <1>7, <2>2 DEF HandleFinish, Consume, handlerVars
<1>8. ASSUME NEW c \in Clients, ResponseEnd(c) PROVE WireTypes'
  BY <1>8 DEF ResponseEnd, clientVars, queueVars, managerVars, handlerVars
<1>9. ASSUME NEW c \in Clients, ResponseRemove(c) PROVE WireTypes'
  BY <1>9 DEF ResponseRemove, clientVars, queueVars, managerVars, handlerVars
<1>10. ASSUME NEW c \in Clients, ResponseReturn(c) PROVE WireTypes'
  BY <1>10 DEF ResponseReturn, AddTasks, clientVars, queueVars, managerVars,
    handlerVars
<1>11. ASSUME NEW c \in Clients, IssueTake(c) PROVE WireTypes'
  <2>1. /\ active_tasks[c] \in Seq(Task)
        /\ active_tasks[c] # <<>>
        /\ SingleJob(active_tasks[c])
    BY <1>11 DEF IssueTake, BatchInv, FlowInv
  <2>2. Requests(active_tasks[c]) = <<Packet("ISSUE_JOB", active_tasks[c])>>
    BY <2>1, RequestsOfOne DEF Packet
  <2>3. Packet("ISSUE_JOB", active_tasks[c]) \in JobPacket
    BY <2>1, PacketTypes DEF Batches
  <2> QED BY <1>11, <2>2, <2>3 DEF IssueTake, clientVars
<1>12. ASSUME NEW c \in Clients, IssueSend(c) PROVE WireTypes'
  <2>1. requests[c] \in Seq(JobPacket) /\ requests[c] # <<>>
    BY <1>12 DEF IssueSend, FlowInv
  <2>2. Head(requests[c]) \in DownPacket /\ Tail(requests[c]) \in Seq(JobPacket)
    BY <2>1, Tailed, PacketTypes
  <2>3. Append(down[c], Head(requests[c])) \in Seq(DownPacket)
    BY <2>2, Appended
  <2> QED BY <1>12, <2>2, <2>3 DEF IssueSend, SendDown
<1>13. ASSUME NEW c \in Clients, IssueFail(c) PROVE WireTypes'
  BY <1>13 DEF IssueFail, clientVars, queueVars, managerVars, handlerVars
<1>14. ASSUME NEW c \in Clients, IssueRemove(c) PROVE WireTypes'
  BY <1>14 DEF IssueRemove, clientVars, queueVars, managerVars, handlerVars
<1>15. ASSUME NEW c \in Clients, IssueEnd(c) PROVE WireTypes'
  BY <1>15 DEF IssueEnd, clientVars, queueVars, managerVars, handlerVars
<1>16. ASSUME NEW c \in Clients, TryKeepAlive(c) PROVE WireTypes'
  <2>1. Append(down[c], Packet("KEEPALIVE", <<>>)) \in Seq(DownPacket)
    BY PacketTypes, Appended
  <2> QED BY <1>16, <2>1 DEF TryKeepAlive, SendDown
<1>17. ASSUME NEW c \in Clients, KeepAliveFailed(c) PROVE WireTypes'
  BY <1>17 DEF KeepAliveFailed, clientVars, queueVars, managerVars, handlerVars
<1>18. CASE AddJob
  BY <1>18 DEF AddJob, clientVars, queueVars, managerVars, handlerVars
<1>19. CASE DistWait
  BY <1>19 DEF DistWait, clientVars, queueVars, managerVars, handlerVars
<1>20. CASE DistLookup
  BY <1>20 DEF DistLookup, DistAgain, clientVars, queueVars, managerVars, handlerVars
<1>21. CASE DistFetch
  BY <1>21 DEF DistFetch, clientVars, queueVars, managerVars, handlerVars
<1>22. CASE DistRefused
  BY <1>22 DEF DistRefused, DistAgain, AddTasks, clientVars, queueVars, managerVars,
    handlerVars
<1>23. CASE DistSubmit
  BY <1>23 DEF DistSubmit, clientVars, queueVars, managerVars, handlerVars
<1>24. CASE DistStore
  BY <1>24 DEF DistStore, DistAgain, clientVars, queueVars, managerVars, handlerVars
<1>25. CASE KeepAliveAnswered
  BY <1>25 DEF KeepAliveAnswered, clientVars, queueVars, managerVars, handlerVars
<1>26. CASE KeeperRemove
  BY <1>26 DEF KeeperRemove, clientVars, queueVars, managerVars, handlerVars
<1>27. CASE KeeperReturn
  BY <1>27 DEF KeeperReturn, AddTasks, clientVars, queueVars, managerVars,
    handlerVars
<1>28. CASE KeeperJoin
  BY <1>28 DEF KeeperJoin, clientVars, queueVars, managerVars, handlerVars
<1>29. CASE KeeperDelete
  BY <1>29 DEF KeeperDelete, clientVars, queueVars, managerVars, handlerVars
<1>30. CASE UNCHANGED vars
  BY <1>30 DEF vars, clientVars, queueVars, managerVars, handlerVars, clientVars,
    queueVars, managerVars, handlerVars
<1> QED BY Actions, <1>1, <1>2, <1>3, <1>4, <1>5, <1>6, <1>7, <1>8, <1>9, <1>10,
    <1>11, <1>12, <1>13, <1>14, <1>15, <1>16, <1>17, <1>18, <1>19, <1>20, <1>21,
    <1>22, <1>23, <1>24, <1>25, <1>26, <1>27, <1>28, <1>29, <1>30


\* Packets of the right kind may be appended to a connection.
LEMMA CargoAppended ==
    /\ \A s \in Seq(UpPacket) : \A p \in UpPacket :
        UpCargo(s) /\ (p.type = "UPDATE_JOB" <=> p.tasks # <<>>) => UpCargo(Append(s, p))
    /\ \A s \in Seq(DownPacket) : \A p \in DownPacket :
        DownCargo(s) /\ (p.type = "KEEPALIVE" => p.tasks = <<>>) => DownCargo(Append(s, p))
<1>1. ASSUME NEW s \in Seq(UpPacket), NEW p \in UpPacket, UpCargo(s),
             p.type = "UPDATE_JOB" <=> p.tasks # <<>>
      PROVE  UpCargo(Append(s, p))
  <2>1. /\ DOMAIN Append(s, p) = 1 .. Len(s) + 1 /\ Append(s, p)[Len(s) + 1] = p
        /\ \A i \in 1 .. Len(s) : Append(s, p)[i] = s[i]
        /\ DOMAIN s = 1 .. Len(s) /\ Len(s) \in Nat
    BY Appended
  <2>2. \A i \in 1 .. Len(s) + 1 : i \in 1 .. Len(s) \/ i = Len(s) + 1
    BY <2>1
  <2> QED BY <1>1, <2>1, <2>2, Zenon DEF UpCargo
<1>2. ASSUME NEW s \in Seq(DownPacket), NEW p \in DownPacket, DownCargo(s),
             p.type = "KEEPALIVE" => p.tasks = <<>>
      PROVE  DownCargo(Append(s, p))
  <2>1. /\ DOMAIN Append(s, p) = 1 .. Len(s) + 1 /\ Append(s, p)[Len(s) + 1] = p
        /\ \A i \in 1 .. Len(s) : Append(s, p)[i] = s[i]
        /\ DOMAIN s = 1 .. Len(s) /\ Len(s) \in Nat
    BY Appended
  <2>2. \A i \in 1 .. Len(s) + 1 : i \in 1 .. Len(s) \/ i = Len(s) + 1
    BY <2>1
  <2> QED BY <1>2, <2>1, <2>2, Zenon DEF DownCargo
<1> QED BY <1>1, <1>2

\* The first packet may be taken, and the first update shortened.
LEMMA CargoTaken ==
    /\ \A s \in Seq(UpPacket) : s # <<>> /\ UpCargo(s) => UpCargo(Tail(s))
    /\ \A s \in Seq(DownPacket) : s # <<>> /\ DownCargo(s) => DownCargo(Tail(s))
    /\ \A s \in Seq(UpPacket) : \A p \in UpPacket :
        s # <<>> /\ UpCargo(s) /\ p.type = "UPDATE_JOB" /\ p.tasks # <<>>
            => UpCargo([s EXCEPT ![1] = p])
    /\ \A s \in Seq(UpPacket) : \A n \in 0 .. Len(s) : UpCargo(s) => UpCargo(SubSeq(s, 1, n))
    /\ UpCargo(<<>>) /\ DownCargo(<<>>)
<1>1. ASSUME NEW s \in Seq(UpPacket), s # <<>>, UpCargo(s) PROVE UpCargo(Tail(s))
  <2>1. \A i \in DOMAIN Tail(s) : i + 1 \in DOMAIN s /\ Tail(s)[i] = s[i + 1]
    BY <1>1, Tailed
  <2> QED BY <1>1, <2>1 DEF UpCargo
<1>2. ASSUME NEW s \in Seq(DownPacket), s # <<>>, DownCargo(s) PROVE DownCargo(Tail(s))
  <2>1. \A i \in DOMAIN Tail(s) : i + 1 \in DOMAIN s /\ Tail(s)[i] = s[i + 1]
    BY <1>2, Tailed
  <2> QED BY <1>2, <2>1 DEF DownCargo
<1>3. ASSUME NEW s \in Seq(UpPacket), NEW p \in UpPacket, s # <<>>, UpCargo(s),
             p.type = "UPDATE_JOB", p.tasks # <<>>
      PROVE  UpCargo([s EXCEPT ![1] = p])
  <2>1. \A i \in DOMAIN [s EXCEPT ![1] = p] :
            i \in DOMAIN s /\ [s EXCEPT ![1] = p][i] = IF i = 1 THEN p ELSE s[i]
    OBVIOUS
  <2> QED BY <1>3, <2>1 DEF UpCargo
<1>4. ASSUME NEW s \in Seq(UpPacket), NEW n \in 0 .. Len(s), UpCargo(s)
      PROVE  UpCargo(SubSeq(s, 1, n))
  <2>1. \A i \in DOMAIN SubSeq(s, 1, n) : i \in DOMAIN s /\ SubSeq(s, 1, n)[i] = s[i]
    OBVIOUS
  <2> QED BY <1>4, <2>1 DEF UpCargo
<1>5. UpCargo(<<>>) /\ DownCargo(<<>>)
  BY DEF UpCargo, DownCargo
<1> QED BY <1>1, <1>2, <1>3, <1>4, <1>5

\* Every thread passes on what it holds before it takes the next.
LEMMA FlowStep ==
    ASSUME Types, HandlerInv, BatchInv, WireTypes, FlowInv, BatchOfOneJob,
           [Next]_vars
    PROVE  FlowInv'
<1> USE DEF Types, ResponsePlaces, IssuePlaces, FlowInv
<1>1. ASSUME NEW c \in Clients, HandleClient(c) PROVE FlowInv'
  <2>0. LET p == Packet("CONNECT", <<>>)
        IN  p \in UpPacket /\ (p.type = "UPDATE_JOB" <=> p.tasks # <<>>)
    BY PacketTypes
  <2>1. UpCargo(Append(up[c], Packet("CONNECT", <<>>)))
    BY <2>0, CargoAppended DEF WireTypes
  <2> QED BY <1>1, <2>1 DEF HandleClient, WireTypes, HandlerInv, Start, SendUp
<1>2. ASSUME NEW c \in Clients, RemoteStep(c) PROVE FlowInv'
  <2>0. UNCHANGED queueVars /\ UNCHANGED managerVars /\ UNCHANGED handlerVars /\ ClientStep(c)
    BY <1>2 DEF RemoteStep
  <2>1. CASE RecvKeepAlive(c)
    <3>0. LET p == Packet("KEEPALIVE", <<>>)
          IN  p \in UpPacket /\ (p.type = "UPDATE_JOB" <=> p.tasks # <<>>)
      BY <2>1, PacketTypes DEF WireTypes
    <3>1. UpCargo(Append(up[c], Packet("KEEPALIVE", <<>>)))
      BY <3>0, CargoAppended DEF WireTypes
    <3>2. DownCargo(Tail(down[c]))
      BY <2>1, CargoTaken DEF RecvKeepAlive, WireTypes
    <3> QED BY <2>0, <2>1, <3>1, <3>2 DEF RecvKeepAlive, WireTypes, SendUp, AddTask, managerVars, handlerVars
  <2>2. CASE RecvIssueJob(c)
    <3>2. DownCargo(Tail(down[c]))
      BY <2>2, CargoTaken DEF RecvIssueJob, WireTypes
    <3> QED BY <2>0, <2>2, <3>2 DEF RecvIssueJob, WireTypes, SendUp, AddTask, managerVars, handlerVars
  <2>3. CASE GetTask(c)
    BY <2>0, <2>3 DEF GetTask, WireTypes, queueVars, managerVars, handlerVars
  <2>4. CASE RequestMoreJobs(c)
    <3>0. LET p == Packet("FINISH_JOB", <<>>)
          IN  p \in UpPacket /\ (p.type = "UPDATE_JOB" <=> p.tasks # <<>>)
      BY <2>4, PacketTypes DEF WireTypes
    <3>1. UpCargo(Append(up[c], Packet("FINISH_JOB", <<>>)))
      BY <3>0, CargoAppended DEF WireTypes
    <3> QED BY <2>0, <2>4, <3>1 DEF RequestMoreJobs, WireTypes, SendUp, AddTask, managerVars, handlerVars
  <2>5. CASE UpdateServer(c)
    BY <2>0, <2>5 DEF UpdateServer, WireTypes, queueVars, managerVars, handlerVars
  <2>6. CASE SendUpdate(c)
    <3>0. LET p == Packet("UPDATE_JOB", send_queue[c])
          IN  p \in UpPacket /\ (p.type = "UPDATE_JOB" <=> p.tasks # <<>>)
      BY <2>6, PacketTypes DEF WireTypes, SendUpdate
    <3>1. UpCargo(Append(up[c], Packet("UPDATE_JOB", send_queue[c])))
      BY <3>0, CargoAppended DEF WireTypes
    <3> QED BY <2>0, <2>6, <3>1 DEF SendUpdate, WireTypes, SendUp, AddTask, managerVars, handlerVars
  <2>7. CASE Disconnect(c)
    <3>1. PICK n \in 0 .. Len(up[c]) : up' = [up EXCEPT ![c] = SubSeq(up[c], 1, n)]
      BY <2>7 DEF Disconnect
    <3>2. UpCargo(SubSeq(up[c], 1, n)) /\ DownCargo(<<>>)
      BY CargoTaken DEF WireTypes
    <3> QED BY <2>0, <2>7, <3>1, <3>2 DEF Disconnect, WireTypes, SendUp, AddTask, managerVars, handlerVars
  <2> QED BY <2>0, <2>1, <2>2, <2>3, <2>4, <2>5, <2>6, <2>7 DEF ClientStep
<1>3. ASSUME NEW c \in Clients, HandleConnect(c) PROVE FlowInv'
  <2>1. up[c] \in Seq(UpPacket) /\ up[c] # <<>>
    BY <1>3 DEF HandleConnect, Received, WireTypes
  <2>2. UpCargo(Tail(up[c]))
    BY <2>1, CargoTaken
  <2> QED BY <1>3, <2>2 DEF HandleConnect, WireTypes, Consume, managerVars, handlerVars
<1>4. ASSUME NEW c \in Clients, HandleKeepAlive(c) PROVE FlowInv'
  <2>1. up[c] \in Seq(UpPacket) /\ up[c] # <<>>
    BY <1>4 DEF HandleKeepAlive, Received, WireTypes
  <2>2. UpCargo(Tail(up[c]))
    BY <2>1, CargoTaken
  <2> QED BY <1>4, <2>2 DEF HandleKeepAlive, WireTypes, Consume, managerVars, handlerVars
<1>5. ASSUME NEW c \in Clients, ReadUpdate(c) PROVE FlowInv'
  <2> DEFINE frames == up[c][1].tasks
  <2>1. up' \in [Clients -> Seq(UpPacket)] /\ UpCargo(up'[c]) /\ \A d \in Clients \ {c} : up'[d] = up[d]
    <3>1. UpCargo(Tail(up[c]))
      BY <1>5, UpdateFacts, CargoTaken
    <3>3. Len(frames) # 1 => UpCargo([up[c] EXCEPT ![1] = Packet("UPDATE_JOB", Tail(frames))])
      <4>1. LET p == Packet("UPDATE_JOB", Tail(frames))
            IN  Len(frames) # 1 => p \in UpPacket /\ p.type = "UPDATE_JOB" /\ p.tasks # <<>>
        <5>1. Len(frames) # 1 => Tail(frames) # <<>>
          BY <1>5, UpdateFacts
        <5>2. Packet("UPDATE_JOB", Tail(frames)) \in UpPacket
          BY <1>5, UpdateFacts
        <5> HIDE DEF frames
        <5> QED BY <5>1, <5>2 DEF Packet
      <4> QED BY <1>5, <4>1, UpdateFacts, CargoTaken
    <3>4. \/ up' = [up EXCEPT ![c] = Tail(up[c])]
          \/ /\ Len(frames) # 1
             /\ up' = [up EXCEPT ![c] = [up[c] EXCEPT ![1] = Packet("UPDATE_JOB", Tail(frames))]]
      BY <1>5, UpdateFacts
    <3>5. up' \in [Clients -> Seq(UpPacket)]
      BY WireStep, <1>5 DEF WireTypes, Next, ResponseStep
    <3> QED BY <3>1, <3>3, <3>4, <3>5 DEF WireTypes
  <2>2. /\ reported' = [reported EXCEPT ![c] = <<frames[1]>>]
        /\ UNCHANGED <<down, main, requests, current>>
    BY <1>5, UpdateFacts
  <2>3. response' = [response EXCEPT ![c] = "count"] /\ UNCHANGED managerVars
        /\ UNCHANGED <<active_tasks, new_jobs, issue>>
    BY <1>5, ReadFacts
  <2>4. Len(<<frames[1]>>) = 1
    OBVIOUS
  <2> HIDE DEF frames
  <2> QED BY <2>1, <2>2, <2>3, <2>4 DEF WireTypes, managerVars
<1>6. ASSUME NEW c \in Clients, CountUpdate(c) PROVE FlowInv'
  BY <1>6 DEF CountUpdate, NotifyUpdate, WireTypes, BatchInv, HandlerInv, clientVars,
    queueVars, managerVars, handlerVars
<1>7. ASSUME NEW c \in Clients, HandleFinish(c) PROVE FlowInv'
  <2>1. up[c] \in Seq(UpPacket) /\ up[c] # <<>>
    BY <1>7 DEF HandleFinish, Received, WireTypes
  <2>2. UpCargo(Tail(up[c]))
    BY <2>1, CargoTaken
  <2> QED BY <1>7, <2>2 DEF HandleFinish, WireTypes, Consume, managerVars, handlerVars
<1>8. ASSUME NEW c \in Clients, ResponseEnd(c) PROVE FlowInv'
  BY <1>8 DEF ResponseEnd, WireTypes, BatchInv, HandlerInv, clientVars, queueVars,
    managerVars, handlerVars
<1>9. ASSUME NEW c \in Clients, ResponseRemove(c) PROVE FlowInv'
  BY <1>9 DEF ResponseRemove, WireTypes, BatchInv, HandlerInv, clientVars, queueVars,
    managerVars, handlerVars
<1>10. ASSUME NEW c \in Clients, ResponseReturn(c) PROVE FlowInv'
  BY <1>10 DEF ResponseReturn, AddTasks, WireTypes, BatchInv, HandlerInv, clientVars,
    queueVars, managerVars, handlerVars
<1>11. ASSUME NEW c \in Clients, IssueTake(c) PROVE FlowInv'
  <2>1. /\ active_tasks[c] \in Seq(Task)
        /\ active_tasks[c] # <<>>
        /\ SingleJob(active_tasks[c])
    BY <1>11 DEF IssueTake, BatchInv
  <2>2. Requests(active_tasks[c]) = <<Packet("ISSUE_JOB", active_tasks[c])>>
    BY <2>1, RequestsOfOne DEF Packet
  <2>3. Len(Requests(active_tasks[c])) = 1
    BY <2>2
  <2> QED BY <1>11, <2>3 DEF IssueTake, BatchInv, WireTypes, clientVars, managerVars
<1>12. ASSUME NEW c \in Clients, IssueSend(c) PROVE FlowInv'
  <2>1. requests[c] \in Seq(JobPacket) /\ Len(requests[c]) = 1
    BY <1>12 DEF IssueSend, WireTypes
  <2>2. Head(requests[c]) \in DownPacket /\ Head(requests[c]).type = "ISSUE_JOB"
    BY <2>1, Tailed, PacketTypes
  <2>4. Tail(requests[c]) = <<>>
    BY <2>1, Emptied
  <2>3. DownCargo(Append(down[c], Head(requests[c])))
    BY <2>2, CargoAppended DEF WireTypes
  <2> QED BY <1>12, <2>1, <2>3, <2>4 DEF IssueSend, SendDown, BatchInv, WireTypes, managerVars
<1>13. ASSUME NEW c \in Clients, IssueFail(c) PROVE FlowInv'
  BY <1>13 DEF IssueFail, TaskMutexFree, WireTypes, BatchInv, HandlerInv, clientVars,
    queueVars, managerVars, handlerVars
<1>14. ASSUME NEW c \in Clients, IssueRemove(c) PROVE FlowInv'
  BY <1>14 DEF IssueRemove, WireTypes, BatchInv, HandlerInv, clientVars, queueVars,
    managerVars, handlerVars
<1>15. ASSUME NEW c \in Clients, IssueEnd(c) PROVE FlowInv'
  BY <1>15 DEF IssueEnd, WireTypes, BatchInv, HandlerInv, clientVars, queueVars,
    managerVars, handlerVars
<1>16. ASSUME NEW c \in Clients, TryKeepAlive(c) PROVE FlowInv'
  <2>1. DownCargo(Append(down[c], Packet("KEEPALIVE", <<>>)))
    BY PacketTypes, CargoAppended DEF WireTypes
  <2> QED BY <1>16, <2>1 DEF TryKeepAlive, WireTypes, SendDown
<1>17. ASSUME NEW c \in Clients, KeepAliveFailed(c) PROVE FlowInv'
  BY <1>17 DEF KeepAliveFailed, WireTypes, BatchInv, HandlerInv, clientVars,
    queueVars, managerVars, handlerVars
<1>18. CASE AddJob
  BY <1>18 DEF AddJob, WireTypes, BatchInv, HandlerInv, clientVars, queueVars,
    managerVars, handlerVars
<1>19. CASE DistWait
  BY <1>19 DEF DistWait, WireTypes, BatchInv, HandlerInv, clientVars, queueVars,
    managerVars, handlerVars
<1>20. CASE DistLookup
  BY <1>20 DEF DistLookup, DistAgain, WireTypes, BatchInv, HandlerInv, clientVars,
    queueVars, managerVars, handlerVars
<1>21. CASE DistFetch
  BY <1>21 DEF DistFetch, WireTypes, BatchInv, HandlerInv, clientVars, queueVars,
    managerVars, handlerVars
<1>22. CASE DistRefused
  BY <1>22 DEF DistRefused, DistAgain, AddTasks, WireTypes, BatchInv, HandlerInv,
    clientVars, queueVars, managerVars, handlerVars
<1>23. CASE DistSubmit
  BY <1>23 DEF DistSubmit, WireTypes, BatchInv, HandlerInv, clientVars, queueVars,
    managerVars, handlerVars
<1>24. CASE DistStore
  BY <1>24 DEF DistStore, BatchOfOneJob, DistAgain, WireTypes, BatchInv, HandlerInv,
    clientVars, queueVars, managerVars, handlerVars
<1>25. CASE KeepAliveAnswered
  BY <1>25 DEF KeepAliveAnswered, WireTypes, BatchInv, HandlerInv, clientVars,
    queueVars, managerVars, handlerVars
<1>26. CASE KeeperRemove
  BY <1>26 DEF KeeperRemove, WireTypes, BatchInv, HandlerInv, clientVars, queueVars,
    managerVars, handlerVars
<1>27. CASE KeeperReturn
  BY <1>27 DEF KeeperReturn, AddTasks, WireTypes, BatchInv, HandlerInv, clientVars,
    queueVars, managerVars, handlerVars
<1>28. CASE KeeperJoin
  BY <1>28 DEF KeeperJoin, WireTypes, BatchInv, HandlerInv, clientVars, queueVars,
    managerVars, handlerVars
<1>29. CASE KeeperDelete
  BY <1>29 DEF KeeperDelete, WireTypes, BatchInv, HandlerInv, clientVars, queueVars,
    managerVars, handlerVars
<1>30. CASE UNCHANGED vars
  BY <1>30 DEF vars, clientVars, queueVars, managerVars, handlerVars, WireTypes,
    BatchInv, HandlerInv, clientVars, queueVars, managerVars, handlerVars
<1> QED BY Actions, <1>1, <1>2, <1>3, <1>4, <1>5, <1>6, <1>7, <1>8, <1>9, <1>10,
    <1>11, <1>12, <1>13, <1>14, <1>15, <1>16, <1>17, <1>18, <1>19, <1>20, <1>21,
    <1>22, <1>23, <1>24, <1>25, <1>26, <1>27, <1>28, <1>29, <1>30


\* A handler is stopped only when its client is gone.
LEMMA RunStep ==
    ASSUME Types, HandlerInv, WireTypes, RunInv, [Next]_vars
    PROVE  RunInv'
<1> USE DEF Types, ResponsePlaces, IssuePlaces, RunInv, Alive
<1>1. ASSUME NEW c \in Clients, HandleClient(c) PROVE RunInv'
  BY <1>1 DEF HandleClient, Start, SendUp, HandlerInv, HandlerInv, clientVars,
    queueVars, managerVars, handlerVars
<1>2. ASSUME NEW c \in Clients, RemoteStep(c) PROVE RunInv'
  <2>0. UNCHANGED queueVars /\ UNCHANGED managerVars /\ UNCHANGED handlerVars /\ ClientStep(c)
    BY <1>2 DEF RemoteStep
  <2>1. CASE RecvKeepAlive(c)
    BY <2>0, <2>1 DEF RecvKeepAlive, queueVars, managerVars, handlerVars
  <2>2. CASE RecvIssueJob(c)
    BY <2>0, <2>2 DEF RecvIssueJob, queueVars, managerVars, handlerVars
  <2>3. CASE GetTask(c)
    BY <2>0, <2>3 DEF GetTask, queueVars, managerVars, handlerVars
  <2>4. CASE RequestMoreJobs(c)
    BY <2>0, <2>4 DEF RequestMoreJobs, queueVars, managerVars, handlerVars
  <2>5. CASE UpdateServer(c)
    BY <2>0, <2>5 DEF UpdateServer, queueVars, managerVars, handlerVars
  <2>6. CASE SendUpdate(c)
    BY <2>0, <2>6 DEF SendUpdate, queueVars, managerVars, handlerVars
  <2>7. CASE Disconnect(c)
    BY <2>0, <2>7 DEF Disconnect, WireTypes, queueVars, managerVars, handlerVars
  <2> QED BY <2>0, <2>1, <2>2, <2>3, <2>4, <2>5, <2>6, <2>7 DEF ClientStep
<1>3. ASSUME NEW c \in Clients, HandleConnect(c) PROVE RunInv'
  BY <1>3 DEF HandleConnect, Received, Consume, NotifyFinish, HandlerInv, HandlerInv,
    clientVars, queueVars, managerVars, handlerVars
<1>4. ASSUME NEW c \in Clients, HandleKeepAlive(c) PROVE RunInv'
  BY <1>4 DEF HandleKeepAlive, Received, Consume, HandlerInv, HandlerInv, clientVars,
    queueVars, managerVars, handlerVars
<1>5. ASSUME NEW c \in Clients, ReadUpdate(c) PROVE RunInv'
  <2>1. UNCHANGED <<main, disconnects>>
    BY <1>5 DEF ReadUpdate, Consume
  <2> QED BY <1>5, <2>1, ReadFacts DEF managerVars
<1>6. ASSUME NEW c \in Clients, CountUpdate(c) PROVE RunInv'
  BY <1>6 DEF CountUpdate, NotifyUpdate, HandlerInv, HandlerInv, clientVars,
    queueVars, managerVars, handlerVars
<1>7. ASSUME NEW c \in Clients, HandleFinish(c) PROVE RunInv'
  BY <1>7 DEF HandleFinish, Received, Consume, NotifyFinish, HandlerInv, HandlerInv,
    clientVars, queueVars, managerVars, handlerVars
<1>8. ASSUME NEW c \in Clients, ResponseEnd(c) PROVE RunInv'
  BY <1>8 DEF ResponseEnd, HandlerInv, clientVars, queueVars, managerVars,
    handlerVars
<1>9. ASSUME NEW c \in Clients, ResponseRemove(c) PROVE RunInv'
  BY <1>9 DEF ResponseRemove, HandlerInv, clientVars, queueVars, managerVars,
    handlerVars
<1>10. ASSUME NEW c \in Clients, ResponseReturn(c) PROVE RunInv'
  BY <1>10 DEF ResponseReturn, AddTasks, HandlerInv, HandlerInv, clientVars,
    queueVars, managerVars, handlerVars
<1>11. ASSUME NEW c \in Clients, IssueTake(c) PROVE RunInv'
  BY <1>11 DEF IssueTake, HandlerInv, clientVars, queueVars, managerVars, handlerVars
<1>12. ASSUME NEW c \in Clients, IssueSend(c) PROVE RunInv'
  BY <1>12 DEF IssueSend, SendDown, HandlerInv, HandlerInv, clientVars, queueVars,
    managerVars, handlerVars
<1>13. ASSUME NEW c \in Clients, IssueFail(c) PROVE RunInv'
  BY <1>13 DEF IssueFail, HandlerInv, clientVars, queueVars, managerVars, handlerVars
<1>14. ASSUME NEW c \in Clients, IssueRemove(c) PROVE RunInv'
  BY <1>14 DEF IssueRemove, HandlerInv, clientVars, queueVars, managerVars,
    handlerVars
<1>15. ASSUME NEW c \in Clients, IssueEnd(c) PROVE RunInv'
  BY <1>15 DEF IssueEnd, HandlerInv, clientVars, queueVars, managerVars, handlerVars
<1>16. ASSUME NEW c \in Clients, TryKeepAlive(c) PROVE RunInv'
  BY <1>16 DEF TryKeepAlive, SendDown, HandlerInv, HandlerInv, clientVars, queueVars,
    managerVars, handlerVars
<1>17. ASSUME NEW c \in Clients, KeepAliveFailed(c) PROVE RunInv'
  BY <1>17 DEF KeepAliveFailed, HandlerInv, clientVars, queueVars, managerVars,
    handlerVars
<1>18. CASE AddJob
  BY <1>18 DEF AddJob, HandlerInv, clientVars, queueVars, managerVars, handlerVars
<1>19. CASE DistWait
  BY <1>19 DEF DistWait, HandlerInv, clientVars, queueVars, managerVars, handlerVars
<1>20. CASE DistLookup
  BY <1>20 DEF DistLookup, DistAgain, HandlerInv, HandlerInv, clientVars, queueVars,
    managerVars, handlerVars
<1>21. CASE DistFetch
  BY <1>21 DEF DistFetch, HandlerInv, clientVars, queueVars, managerVars, handlerVars
<1>22. CASE DistRefused
  BY <1>22 DEF DistRefused, DistAgain, AddTasks, HandlerInv, HandlerInv, clientVars,
    queueVars, managerVars, handlerVars
<1>23. CASE DistSubmit
  BY <1>23 DEF DistSubmit, HandlerInv, clientVars, queueVars, managerVars,
    handlerVars
<1>24. CASE DistStore
  BY <1>24 DEF DistStore, DistAgain, HandlerInv, HandlerInv, clientVars, queueVars,
    managerVars, handlerVars
<1>25. CASE KeepAliveAnswered
  BY <1>25 DEF KeepAliveAnswered, HandlerInv, clientVars, queueVars, managerVars,
    handlerVars
<1>26. CASE KeeperRemove
  BY <1>26 DEF KeeperRemove, HandlerInv, clientVars, queueVars, managerVars,
    handlerVars
<1>27. CASE KeeperReturn
  BY <1>27 DEF KeeperReturn, AddTasks, HandlerInv, HandlerInv, clientVars, queueVars,
    managerVars, handlerVars
<1>28. CASE KeeperJoin
  BY <1>28 DEF KeeperJoin, HandlerInv, clientVars, queueVars, managerVars,
    handlerVars
<1>29. CASE KeeperDelete
  BY <1>29 DEF KeeperDelete, HandlerInv, clientVars, queueVars, managerVars,
    handlerVars
<1>30. CASE UNCHANGED vars
  BY <1>30 DEF vars, clientVars, queueVars, managerVars, handlerVars, HandlerInv,
    clientVars, queueVars, managerVars, handlerVars
<1> QED BY Actions, <1>1, <1>2, <1>3, <1>4, <1>5, <1>6, <1>7, <1>8, <1>9, <1>10,
    <1>11, <1>12, <1>13, <1>14, <1>15, <1>16, <1>17, <1>18, <1>19, <1>20, <1>21,
    <1>22, <1>23, <1>24, <1>25, <1>26, <1>27, <1>28, <1>29, <1>30


\* A set of positions is finite.
LEMMA Positions ==
    ASSUME NEW n \in Nat, NEW I \in SUBSET (1 .. n)
    PROVE  IsFiniteSet(I) /\ Cardinality(I) \in Nat
<1>1. IsFiniteSet(1 .. n)
  BY FS_Interval
<1>2. IsFiniteSet(I)
  BY <1>1, FS_Subset
<1> QED BY <1>2, FS_CardinalityType

\* Counting in a longer sequence.
LEMMA CountAppended ==
    ASSUME NEW n \in Nat, NEW I \in SUBSET (1 .. n), NEW b \in BOOLEAN,
           NEW J, J = {i \in 1 .. n + 1 : i \in I \/ (i = n + 1 /\ b)}
    PROVE  Cardinality(I) \in Nat /\ Cardinality(J) = Cardinality(I) + Bit(b)
<1>1. IsFiniteSet(I) /\ Cardinality(I) \in Nat
  BY Positions, Zenon
<1>0. /\ \A i \in I : i \in 1 .. n + 1 /\ i # n + 1
      /\ n + 1 \in 1 .. n + 1
  OBVIOUS
<1>2. CASE b
  <2>1. J = I \cup {n + 1} /\ n + 1 \notin I
    BY <1>0, <1>2, Zenon
  <2> QED BY <1>1, <1>2, <2>1, FS_AddElement DEF Bit
<1>3. CASE ~ b
  <2>1. J = I
    BY <1>0, <1>3, Zenon
  <2> QED BY <1>1, <1>3, <2>1 DEF Bit
<1> QED BY <1>2, <1>3

\* Counting in a sequence without its first element.
LEMMA CountTailed ==
    ASSUME NEW n \in Nat, n >= 1, NEW I \in SUBSET (1 .. n),
           NEW J, J = {i \in 1 .. n - 1 : i + 1 \in I}
    PROVE  Cardinality(J) \in Nat /\ Cardinality(I) = Cardinality(J) + Bit(1 \in I)
<1> DEFINE f == [i \in J |-> i + 1]
           R == I \ {1}
<1>1. IsFiniteSet(I) /\ Cardinality(I) \in Nat
  BY Positions, Zenon
<1>2. n - 1 \in Nat /\ J \in SUBSET (1 .. n - 1)
  OBVIOUS
<1>3. IsFiniteSet(J) /\ Cardinality(J) \in Nat
  BY <1>2, Positions, Zenon
<1>4. f \in Injection(J, R)
  BY DEF Injection, IsInjective
<1>5. f \in Surjection(J, R)
  <2>1. f \in [J -> R]
    OBVIOUS
  <2>2. \A t \in R : \E s \in J : f[s] = t
    <3> SUFFICES ASSUME NEW t \in R PROVE \E s \in J : f[s] = t
      OBVIOUS
    <3>1. t - 1 \in J /\ f[t - 1] = t
      OBVIOUS
    <3> QED BY <3>1
  <2> QED BY <2>1, <2>2 DEF Surjection
<1>6. Cardinality(R) = Cardinality(J)
  <2>1. ExistsBijection(J, R)
    BY <1>4, <1>5 DEF ExistsBijection, Bijection
  <2> QED BY <1>3, <2>1, FS_Bijection
<1>7. Cardinality(R) = IF 1 \in I THEN Cardinality(I) - 1 ELSE Cardinality(I)
  BY <1>1, FS_RemoveElement
<1> QED BY <1>1, <1>3, <1>6, <1>7 DEF Bit

\* How often an element occurs.
LEMMA OccurrencesOf ==
    ASSUME NEW S, NEW s \in Seq(S), NEW x
    PROVE  /\ Occurrences(s, x) \in Nat
           /\ \A y \in S : Occurrences(Append(s, y), x) = Occurrences(s, x) + Bit(y = x)
           /\ s # <<>> => Occurrences(s, x) = Occurrences(Tail(s), x) + Bit(s[1] = x)
<1> DEFINE n == Len(s)
           I == {i \in DOMAIN s : s[i] = x}
<1>1. n \in Nat /\ DOMAIN s = 1 .. n
  OBVIOUS
<1>2. I \in SUBSET (1 .. n)
  BY <1>1
<1>3. ASSUME NEW y \in S
      PROVE  Cardinality(I) \in Nat /\ Occurrences(Append(s, y), x) = Cardinality(I) + Bit(y = x)
  <2> DEFINE J == {i \in 1 .. n + 1 : i \in I \/ (i = n + 1 /\ y = x)}
  <2>1. {i \in DOMAIN Append(s, y) : Append(s, y)[i] = x} = J
    <3>1. /\ DOMAIN Append(s, y) = 1 .. n + 1 /\ Append(s, y)[n + 1] = y
          /\ \A i \in 1 .. n : Append(s, y)[i] = s[i]
      BY Appended
    <3> QED BY <1>1, <3>1
  <2> HIDE DEF n, I, J
  <2>2. Cardinality(I) \in Nat /\ Cardinality(J) = Cardinality(I) + Bit(y = x)
    BY <1>1, <1>2, CountAppended DEF J
  <2> QED BY <2>1, <2>2 DEF Occurrences
<1>4. ASSUME s # <<>>
      PROVE  Cardinality(I) = Occurrences(Tail(s), x) + Bit(s[1] = x)
  <2> DEFINE J == {i \in 1 .. n - 1 : i + 1 \in I}
  <2>1. {i \in DOMAIN Tail(s) : Tail(s)[i] = x} = J
    <3>1. /\ DOMAIN Tail(s) = 1 .. n - 1
          /\ \A i \in 1 .. n - 1 : Tail(s)[i] = s[i + 1]
      BY <1>4, Tailed
    <3> QED BY <1>1, <3>1
  <2>2. n >= 1 /\ (1 \in I <=> s[1] = x)
    BY <1>4
  <2> HIDE DEF n, I
  <2> HIDE DEF J
  <2>3. Cardinality(I) = Cardinality(J) + Bit(1 \in I)
    BY <1>1, <1>2, <2>2, CountTailed DEF J
  <2> QED BY <2>1, <2>2, <2>3 DEF Bit, Occurrences
<1>5. Cardinality(I) \in Nat
  BY <1>1, <1>2, Positions, Zenon
<1> QED BY <1>3, <1>4, <1>5 DEF Occurrences

\* How many packets are of certain types.
LEMMA TypesOf ==
    ASSUME NEW S, NEW s \in Seq(S), NEW types
    PROVE  /\ OfType(s, types) \in Nat
           /\ \A y \in S : OfType(Append(s, y), types) = OfType(s, types) + Bit(y.type \in types)
           /\ s # <<>> => /\ OfType(s, types) = OfType(Tail(s), types) + Bit(s[1].type \in types)
                          /\ \A y \in S : y.type = s[1].type =>
                                OfType([s EXCEPT ![1] = y], types) = OfType(s, types)
<1> DEFINE n == Len(s)
           I == {i \in DOMAIN s : s[i].type \in types}
<1>1. n \in Nat /\ DOMAIN s = 1 .. n
  OBVIOUS
<1>2. I \in SUBSET (1 .. n)
  BY <1>1
<1>3. ASSUME NEW y \in S
      PROVE  /\ Cardinality(I) \in Nat
             /\ OfType(Append(s, y), types) = Cardinality(I) + Bit(y.type \in types)
  <2> DEFINE J == {i \in 1 .. n + 1 : i \in I \/ (i = n + 1 /\ y.type \in types)}
  <2>1. {i \in DOMAIN Append(s, y) : Append(s, y)[i].type \in types} = J
    <3>1. /\ DOMAIN Append(s, y) = 1 .. n + 1 /\ Append(s, y)[n + 1] = y
          /\ \A i \in 1 .. n : Append(s, y)[i] = s[i]
      BY Appended
    <3> QED BY <1>1, <3>1
  <2> HIDE DEF n, I, J
  <2>2. Cardinality(I) \in Nat /\ Cardinality(J) = Cardinality(I) + Bit(y.type \in types)
    <3>1. (y.type \in types) \in BOOLEAN
      OBVIOUS
    <3> QED BY <1>1, <1>2, <3>1, CountAppended, Zenon DEF J
  <2> QED BY <2>1, <2>2 DEF OfType
<1>4. ASSUME s # <<>>
      PROVE  Cardinality(I) = OfType(Tail(s), types) + Bit(s[1].type \in types)
  <2> DEFINE J == {i \in 1 .. n - 1 : i + 1 \in I}
  <2>1. {i \in DOMAIN Tail(s) : Tail(s)[i].type \in types} = J
    <3>1. /\ DOMAIN Tail(s) = 1 .. n - 1
          /\ \A i \in 1 .. n - 1 : Tail(s)[i] = s[i + 1]
      BY <1>4, Tailed
    <3> QED BY <1>1, <3>1
  <2>2. n >= 1 /\ (1 \in I <=> s[1].type \in types)
    BY <1>4
  <2> HIDE DEF n, I
  <2> HIDE DEF J
  <2>3. Cardinality(I) = Cardinality(J) + Bit(1 \in I)
    BY <1>1, <1>2, <2>2, CountTailed DEF J
  <2> QED BY <2>1, <2>2, <2>3 DEF Bit, OfType
<1>5. Cardinality(I) \in Nat
  BY <1>1, <1>2, Positions, Zenon
<1>6. ASSUME s # <<>>, NEW y \in S, y.type = s[1].type
      PROVE  OfType([s EXCEPT ![1] = y], types) = Cardinality(I)
  <2>1. {i \in DOMAIN [s EXCEPT ![1] = y] : [s EXCEPT ![1] = y][i].type \in types} = I
    BY <1>1, <1>6
  <2> QED BY <2>1 DEF OfType
<1> QED BY <1>3, <1>4, <1>5, <1>6 DEF OfType


\* The parts of a client's tokens are numbers.
LEMMA TokenTerms ==
    ASSUME Types, WireTypes, NEW d \in Clients
    PROVE  TokenParts(d)
<1>1. /\ up[d] \in Seq(UpPacket) /\ down[d] \in Seq(DownPacket) /\ free_clients \in Seq(Clients)
      /\ requests[d] \in Seq(JobPacket) /\ render_queue[d] \in Seq(Batches)
  BY DEF Types, WireTypes
<1>2. Asked(d) \in Nat /\ Waiting(d) \in Nat /\ Issued(d) \in Nat
  BY <1>1, OccurrencesOf, TypesOf DEF Asked, Waiting, Issued
<1>3. Sending(d) \in Nat /\ Queued(d) \in Nat
  BY <1>1 DEF Sending, Queued
<1>4. Serving(d) \in Nat /\ Accepted(d) \in Nat /\ Asking(d) \in Nat
  BY DEF Serving, Accepted, Asking, Bit
<1> QED BY <1>2, <1>3, <1>4 DEF TokenParts

\* The tokens are their sum, before a step and after it.
LEMMA TokenSum ==
    ASSUME NEW d \in Clients
    PROVE  /\ Tokens(d) = Asked(d) + Waiting(d) + Serving(d) + Accepted(d) + Sending(d) +
                          Issued(d) + Queued(d) + Asking(d)
           /\ Tokens(d)' = Asked(d)' + Waiting(d)' + Serving(d)' + Accepted(d)' + Sending(d)' +
                           Issued(d)' + Queued(d)' + Asking(d)'
  BY DEF Tokens, Asked, Waiting, Serving, Accepted, Sending, Issued, Queued, Asking

\* A step that moves no token.
LEMMA SameTokens ==
    ASSUME TokenInv, UNCHANGED <<up, free_clients, new_jobs, requests, down, render_queue, main>>,
           \A d \in Clients : (dist' # "wait" /\ dist_client' = d) <=> (dist # "wait" /\ dist_client = d)
    PROVE  TokenInv'
  BY DEF TokenInv, HasToken, Tokens, Alive, Bit

\* The client the distribution thread serves is known to it.
LEMMA Served ==
    ASSUME Types, HandlerInv, WireTypes, RunInv, TokenInv, dist # "wait"
    PROVE  /\ dist_client \in Clients
           /\ main[dist_client] # "new"
           /\ Alive(dist_client) => /\ active[dist_client] /\ dist_client \in client_map
                                    /\ ~ new_jobs[dist_client]
<1>1. dist_client \in Clients
  BY DEF Types
<1>2. Tokens(dist_client) >= 1 + Accepted(dist_client) /\ Accepted(dist_client) \in Nat
  <2>1. Serving(dist_client) = 1
    BY DEF Serving, Bit
  <2>2. TokenParts(dist_client)
    BY <1>1, TokenTerms
  <2> QED BY <1>1, <2>1, <2>2, TokenSum DEF TokenParts
<1>3. HasToken(dist_client)
  BY <1>1 DEF TokenInv
<1>4. main[dist_client] # "new"
  BY <1>2, <1>3 DEF HasToken
<1>5. Alive(dist_client) => ~ new_jobs[dist_client]
  <2>1. Alive(dist_client) => Accepted(dist_client) = 0
    BY <1>2, <1>3 DEF HasToken
  <2> QED BY <2>1 DEF Accepted, Bit
<1> QED BY <1>1, <1>4, <1>5 DEF RunInv, HandlerInv

\* Every step that takes a token from one place puts it into the next.
LEMMA TokenStep ==
    ASSUME Types, HandlerInv, BatchInv, WireTypes, FlowInv, RunInv, TokenInv,
           [Next]_vars
    PROVE  TokenInv'
<1>1. ASSUME NEW c \in Clients, HandleClient(c) PROVE TokenInv'
  <2> SUFFICES ASSUME NEW d \in Clients PROVE HasToken(d)'
    BY DEF TokenInv
  <2>99. TokenParts(d)
    BY TokenTerms
  <2>1. OfType(Append(up[c], Packet("CONNECT", <<>>)), {"CONNECT", "FINISH_JOB"})
            = OfType(up[c], {"CONNECT", "FINISH_JOB"}) + 1
    <3>1. Packet("CONNECT", <<>>) \in UpPacket
      BY PacketTypes
    <3>2. Bit(Packet("CONNECT", <<>>).type \in {"CONNECT", "FINISH_JOB"}) = 1
      BY DEF Bit, Packet
    <3>3. up[c] \in Seq(UpPacket)
      BY DEF WireTypes
    <3> QED BY <3>1, <3>2, <3>3, TypesOf
  <2>2. /\ up' = [up EXCEPT ![c] = Append(up[c], Packet("CONNECT", <<>>))]
        /\ main[c] = "new" /\ main' = [main EXCEPT ![c] = "get"]
        /\ UNCHANGED <<free_clients, dist, dist_client, new_jobs, requests, down, render_queue>>
    BY <1>1 DEF HandleClient, Start, SendUp
  <2>3. HasToken(d)
    BY DEF TokenInv
  <2>4. CASE d = c
    <3>1. /\ up'[d] = Append(up[d], Packet("CONNECT", <<>>)) /\ main'[d] = "get" /\ main[d] = "new"
          /\ OfType(Append(up[d], Packet("CONNECT", <<>>)), {"CONNECT", "FINISH_JOB"})
                = OfType(up[d], {"CONNECT", "FINISH_JOB"}) + 1
      BY <2>1, <2>2, <2>4 DEF WireTypes, Types
    <3>88. /\ Asked(d)' = Asked(d) + 1 /\ Waiting(d)' = Waiting(d)
           /\ Serving(d)' = Serving(d) /\ Accepted(d)' = Accepted(d)
           /\ Sending(d)' = Sending(d) /\ Issued(d)' = Issued(d)
           /\ Queued(d)' = Queued(d) /\ Asking(d)' = Asking(d)
      BY <2>99, <2>2, <2>3, <3>1 DEF Asked, Waiting, Serving, Accepted, Sending, Issued,
         Queued, Asking, Bit, Alive
    <3>89. /\ Asked(d) \in Nat /\ Waiting(d) \in Nat /\ Serving(d) \in Nat /\ Accepted(d) \in Nat
           /\ Sending(d) \in Nat /\ Issued(d) \in Nat /\ Queued(d) \in Nat /\ Asking(d) \in Nat
      BY <2>99 DEF TokenParts
    <3>90. Tokens(d)' = Tokens(d) + 1
      BY <3>88, <3>89, TokenSum
    <3>91. Tokens(d) = 0
      BY <2>3, <3>1 DEF HasToken
    <3> QED BY <3>90, <3>91, <3>1 DEF HasToken, Alive
  <2>5. CASE d # c
    <3>1. up'[d] = up[d] /\ main'[d] = main[d]
      BY <2>2, <2>5 DEF WireTypes, Types
    <3> QED BY <2>99, <2>2, <2>3, <3>1 DEF HasToken, Tokens, Alive, Bit
  <2> QED BY <2>4, <2>5
<1>2. ASSUME NEW c \in Clients, RemoteStep(c) PROVE TokenInv'
  <2>0. UNCHANGED queueVars /\ UNCHANGED managerVars /\ UNCHANGED handlerVars /\ ClientStep(c)
    BY <1>2 DEF RemoteStep
  <2>1. CASE RecvKeepAlive(c)
    <3> SUFFICES ASSUME NEW d \in Clients PROVE HasToken(d)'
      BY DEF TokenInv
    <3>99. TokenParts(d)
      BY TokenTerms
    <3>0. HasToken(d)
      BY DEF TokenInv
    <3>1. /\ down[c] \in Seq(DownPacket) /\ down[c] # <<>> /\ down[c][1].type = "KEEPALIVE"
          /\ down' = [down EXCEPT ![c] = Tail(down[c])]
          /\ up' = [up EXCEPT ![c] = Append(up[c], Packet("KEEPALIVE", <<>>))]
          /\ UNCHANGED <<main, render_queue>>
      <4>1. down[c] \in Seq(DownPacket) /\ down[c] # <<>>
        BY <2>1 DEF RecvKeepAlive, WireTypes
      <4>2. Head(down[c]) = down[c][1]
        BY <4>1, Tailed
      <4> QED BY <2>1, <4>1, <4>2 DEF RecvKeepAlive, SendUp
    <3>2. /\ Tail(down[c]) \in Seq(DownPacket) /\ up[c] \in Seq(UpPacket)
          /\ Packet("KEEPALIVE", <<>>) \in UpPacket
          /\ Bit(down[c][1].type \in {"ISSUE_JOB"}) = 0
          /\ Bit(Packet("KEEPALIVE", <<>>).type \in {"CONNECT", "FINISH_JOB"}) = 0
      BY <3>1, Tailed, PacketTypes DEF WireTypes, Bit
    <3>3. /\ OfType(down[c], {"ISSUE_JOB"}) = OfType(Tail(down[c]), {"ISSUE_JOB"})
          /\ OfType(Tail(down[c]), {"ISSUE_JOB"}) \in Nat
      <4>1. OfType(Tail(down[c]), {"ISSUE_JOB"}) \in Nat
        BY <3>2, TypesOf
      <4>2. OfType(down[c], {"ISSUE_JOB"}) = OfType(Tail(down[c]), {"ISSUE_JOB"}) + Bit(down[c][1].type \in {"ISSUE_JOB"})
        BY <3>1, TypesOf
      <4> QED BY <3>2, <4>1, <4>2
    <3>4. OfType(Append(up[c], Packet("KEEPALIVE", <<>>)), {"CONNECT", "FINISH_JOB"})
            = OfType(up[c], {"CONNECT", "FINISH_JOB"})
      BY <3>2, TypesOf
    <3>5. UNCHANGED <<free_clients, dist, dist_client, new_jobs, requests>>
      BY <2>0 DEF managerVars, handlerVars
    <3>6. CASE d = c
      <4>1. /\ OfType(down'[d], {"ISSUE_JOB"}) = OfType(down[d], {"ISSUE_JOB"})
            /\ OfType(up'[d], {"CONNECT", "FINISH_JOB"}) = OfType(up[d], {"CONNECT", "FINISH_JOB"})
        BY <3>1, <3>3, <3>4, <3>6 DEF WireTypes
      <4> QED BY <3>99, <3>0, <3>1, <3>5, <4>1 DEF HasToken, Tokens, Alive, Bit
    <3>7. CASE d # c
      <4>1. down'[d] = down[d] /\ up'[d] = up[d]
        BY <3>1, <3>7 DEF WireTypes
      <4> QED BY <3>99, <3>0, <3>1, <3>5, <4>1 DEF HasToken, Tokens, Alive, Bit
    <3> QED BY <3>6, <3>7
  <2>2. CASE RecvIssueJob(c)
    <3> SUFFICES ASSUME NEW d \in Clients PROVE HasToken(d)'
      BY DEF TokenInv
    <3>99. TokenParts(d)
      BY TokenTerms
    <3>0. HasToken(d)
      BY DEF TokenInv
    <3>1. /\ down[c] \in Seq(DownPacket) /\ down[c] # <<>> /\ down[c][1].type = "ISSUE_JOB"
          /\ down[c][1] \in DownPacket
          /\ down' = [down EXCEPT ![c] = Tail(down[c])]
          /\ render_queue' = [render_queue EXCEPT ![c] = Append(render_queue[c], down[c][1].tasks)]
          /\ UNCHANGED <<main, up>>
      <4>1. down[c] \in Seq(DownPacket) /\ down[c] # <<>>
        BY <2>2 DEF RecvIssueJob, WireTypes
      <4>2. Head(down[c]) = down[c][1] /\ down[c][1] \in DownPacket
        BY <4>1, Tailed
      <4> QED BY <2>2, <4>1, <4>2 DEF RecvIssueJob, AddTask
    <3>2. /\ Tail(down[c]) \in Seq(DownPacket) /\ render_queue[c] \in Seq(Batches)
          /\ down[c][1].tasks \in Batches
          /\ Bit(down[c][1].type \in {"ISSUE_JOB"}) = 1
      BY <3>1, Tailed, PacketTypes DEF WireTypes, Bit
    <3>3. /\ OfType(down[c], {"ISSUE_JOB"}) = OfType(Tail(down[c]), {"ISSUE_JOB"}) + 1
          /\ OfType(Tail(down[c]), {"ISSUE_JOB"}) \in Nat
      BY <3>1, <3>2, TypesOf
    <3>4. Len(Append(render_queue[c], down[c][1].tasks)) = Len(render_queue[c]) + 1
      BY <3>2, Appended
    <3>5. UNCHANGED <<free_clients, dist, dist_client, new_jobs, requests>>
      BY <2>0 DEF managerVars, handlerVars
    <3>6. CASE d = c
      <4>1. /\ OfType(down[d], {"ISSUE_JOB"}) = OfType(down'[d], {"ISSUE_JOB"}) + 1
            /\ OfType(down'[d], {"ISSUE_JOB"}) \in Nat
            /\ Len(render_queue'[d]) = Len(render_queue[d]) + 1
        BY <3>1, <3>3, <3>4, <3>6 DEF WireTypes
      <4>88. /\ Asked(d)' = Asked(d) /\ Waiting(d)' = Waiting(d)
             /\ Serving(d)' = Serving(d) /\ Accepted(d)' = Accepted(d)
             /\ Sending(d)' = Sending(d) /\ Issued(d) = Issued(d)' + 1 /\ Issued(d)' \in Nat
             /\ Queued(d)' = Queued(d) + 1 /\ Asking(d)' = Asking(d)
        BY <3>99, <3>0, <3>1, <3>5, <4>1 DEF Asked, Waiting, Serving, Accepted, Sending, Issued,
           Queued, Asking, Bit, Alive
      <4>89. /\ Asked(d) \in Nat /\ Waiting(d) \in Nat /\ Serving(d) \in Nat /\ Accepted(d) \in Nat
             /\ Sending(d) \in Nat /\ Issued(d) \in Nat /\ Queued(d) \in Nat /\ Asking(d) \in Nat
        BY <3>99 DEF TokenParts
      <4>90. Tokens(d)' = Tokens(d)
        BY <4>88, <4>89, TokenSum
      <4> QED BY <4>90, <3>0, <3>1, <3>5, <4>1 DEF HasToken, Alive
    <3>7. CASE d # c
      <4>1. down'[d] = down[d] /\ render_queue'[d] = render_queue[d]
        BY <3>1, <3>7 DEF WireTypes
      <4> QED BY <3>99, <3>0, <3>1, <3>5, <4>1 DEF HasToken, Tokens, Alive, Bit
    <3> QED BY <3>6, <3>7
  <2>3. CASE GetTask(c)
    <3> SUFFICES ASSUME NEW d \in Clients PROVE HasToken(d)'
      BY DEF TokenInv
    <3>99. TokenParts(d)
      BY TokenTerms
    <3>0. HasToken(d)
      BY DEF TokenInv
    <3>1. /\ render_queue[c] \in Seq(Batches) /\ render_queue[c] # <<>> /\ main[c] = "get"
          /\ render_queue' = [render_queue EXCEPT ![c] = Tail(render_queue[c])]
          /\ main' = [main EXCEPT ![c] = IF Len(render_queue[c]) = 1 THEN "ask" ELSE "render"]
          /\ UNCHANGED <<up, down>>
      BY <2>3 DEF GetTask, WireTypes
    <3>2. Len(Tail(render_queue[c])) = Len(render_queue[c]) - 1 /\ Len(render_queue[c]) >= 1
      BY <3>1, Tailed
    <3>3. UNCHANGED <<free_clients, dist, dist_client, new_jobs, requests>>
      BY <2>0 DEF managerVars, handlerVars
    <3>4. CASE d = c
      <4>1. /\ Len(render_queue'[d]) = Len(render_queue[d]) - 1 /\ Len(render_queue[d]) >= 1
            /\ main[d] = "get"
            /\ main'[d] = IF Len(render_queue[d]) = 1 THEN "ask" ELSE "render"
        BY <3>1, <3>2, <3>4 DEF WireTypes, Types
      <4>2. Len(render_queue[d]) = 1
        <5>1. Queued(d) >= 1 /\ Queued(d) = Len(render_queue[d]) /\ Tokens(d) = 1
          BY <3>0, <4>1 DEF Queued, HasToken, Alive
        <5>2. /\ Asked(d) \in Nat /\ Waiting(d) \in Nat /\ Serving(d) \in Nat /\ Accepted(d) \in Nat
              /\ Sending(d) \in Nat /\ Issued(d) \in Nat /\ Queued(d) \in Nat /\ Asking(d) \in Nat
          BY <3>99 DEF TokenParts
        <5>3. Queued(d) >= 1 /\ Tokens(d) = 1
          BY <5>1
        <5>4. Queued(d) = 1
          BY <5>2, <5>3, TokenSum
        <5> QED BY <5>1, <5>4
      <4>88. /\ Asked(d)' = Asked(d) /\ Waiting(d)' = Waiting(d)
             /\ Serving(d)' = Serving(d) /\ Accepted(d)' = Accepted(d)
             /\ Sending(d)' = Sending(d) /\ Issued(d)' = Issued(d)
             /\ Queued(d) = 1 /\ Queued(d)' = 0 /\ Asking(d) = 0 /\ Asking(d)' = 1
        BY <3>99, <3>0, <3>1, <3>3, <4>1, <4>2 DEF Asked, Waiting, Serving, Accepted, Sending, Issued,
           Queued, Asking, Bit, Alive
      <4>89. /\ Asked(d) \in Nat /\ Waiting(d) \in Nat /\ Serving(d) \in Nat /\ Accepted(d) \in Nat
             /\ Sending(d) \in Nat /\ Issued(d) \in Nat /\ Queued(d) \in Nat /\ Asking(d) \in Nat
        BY <3>99 DEF TokenParts
      <4>90. Tokens(d)' = Tokens(d)
        BY <4>88, <4>89, TokenSum
      <4> QED BY <4>90, <3>0, <3>1, <3>3, <4>1, <4>2 DEF HasToken, Alive
    <3>5. CASE d # c
      <4>1. main'[d] = main[d] /\ render_queue'[d] = render_queue[d]
        BY <3>1, <3>5 DEF WireTypes, Types
      <4> QED BY <3>99, <3>0, <3>1, <3>3, <4>1 DEF HasToken, Tokens, Alive, Bit
    <3> QED BY <3>4, <3>5
  <2>4. CASE RequestMoreJobs(c)
    <3> SUFFICES ASSUME NEW d \in Clients PROVE HasToken(d)'
      BY DEF TokenInv
    <3>99. TokenParts(d)
      BY TokenTerms
    <3>0. HasToken(d)
      BY DEF TokenInv
    <3>1. /\ up[c] \in Seq(UpPacket) /\ main[c] = "ask"
          /\ main' = [main EXCEPT ![c] = "render"]
          /\ up' = [up EXCEPT ![c] = Append(up[c], Packet("FINISH_JOB", <<>>))]
          /\ UNCHANGED <<down, render_queue>>
      BY <2>4 DEF RequestMoreJobs, SendUp, WireTypes
    <3>2. /\ Packet("FINISH_JOB", <<>>) \in UpPacket
          /\ Bit(Packet("FINISH_JOB", <<>>).type \in {"CONNECT", "FINISH_JOB"}) = 1
      BY PacketTypes DEF Bit
    <3>3. OfType(Append(up[c], Packet("FINISH_JOB", <<>>)), {"CONNECT", "FINISH_JOB"})
            = OfType(up[c], {"CONNECT", "FINISH_JOB"}) + 1
      BY <3>1, <3>2, TypesOf
    <3>4. UNCHANGED <<free_clients, dist, dist_client, new_jobs, requests>>
      BY <2>0 DEF managerVars, handlerVars
    <3>5. CASE d = c
      <4>1. /\ OfType(up'[d], {"CONNECT", "FINISH_JOB"}) = OfType(up[d], {"CONNECT", "FINISH_JOB"}) + 1
            /\ main[d] = "ask" /\ main'[d] = "render"
        BY <3>1, <3>3, <3>5 DEF WireTypes, Types
      <4>88. /\ Asked(d)' = Asked(d) + 1 /\ Waiting(d)' = Waiting(d)
             /\ Serving(d)' = Serving(d) /\ Accepted(d)' = Accepted(d)
             /\ Sending(d)' = Sending(d) /\ Issued(d)' = Issued(d)
             /\ Queued(d)' = Queued(d) /\ Asking(d) = 1 /\ Asking(d)' = 0
        BY <3>99, <3>0, <3>1, <3>4, <4>1 DEF Asked, Waiting, Serving, Accepted, Sending, Issued,
           Queued, Asking, Bit, Alive
      <4>89. /\ Asked(d) \in Nat /\ Waiting(d) \in Nat /\ Serving(d) \in Nat /\ Accepted(d) \in Nat
             /\ Sending(d) \in Nat /\ Issued(d) \in Nat /\ Queued(d) \in Nat /\ Asking(d) \in Nat
        BY <3>99 DEF TokenParts
      <4>90. Tokens(d)' = Tokens(d)
        BY <4>88, <4>89, TokenSum
      <4> QED BY <4>90, <3>0, <3>1, <3>4, <4>1 DEF HasToken, Alive
    <3>6. CASE d # c
      <4>1. up'[d] = up[d] /\ main'[d] = main[d]
        BY <3>1, <3>6 DEF WireTypes, Types
      <4> QED BY <3>99, <3>0, <3>1, <3>4, <4>1 DEF HasToken, Tokens, Alive, Bit
    <3> QED BY <3>5, <3>6
  <2>5. CASE UpdateServer(c)
    <3> SUFFICES ASSUME NEW d \in Clients PROVE HasToken(d)'
      BY DEF TokenInv
    <3>99. TokenParts(d)
      BY TokenTerms
    <3>0. HasToken(d)
      BY DEF TokenInv
    <3>1. /\ main[c] = "render" /\ main' = [main EXCEPT ![c] = "get"]
          /\ UNCHANGED <<up, down, render_queue>>
      BY <2>5 DEF UpdateServer
    <3>2. UNCHANGED <<free_clients, dist, dist_client, new_jobs, requests>>
      BY <2>0 DEF managerVars, handlerVars
    <3>3. main'[d] = IF d = c THEN "get" ELSE main[d]
      BY <3>1 DEF Types
    <3> QED BY <3>99, <3>0, <3>1, <3>2, <3>3 DEF HasToken, Tokens, Alive, Bit
  <2>6. CASE SendUpdate(c)
    <3> SUFFICES ASSUME NEW d \in Clients PROVE HasToken(d)'
      BY DEF TokenInv
    <3>99. TokenParts(d)
      BY TokenTerms
    <3>0. HasToken(d)
      BY DEF TokenInv
    <3>1. /\ up[c] \in Seq(UpPacket) /\ send_queue[c] \in Batches
          /\ up' = [up EXCEPT ![c] = Append(up[c], Packet("UPDATE_JOB", send_queue[c]))]
          /\ UNCHANGED <<main, down, render_queue>>
      BY <2>6 DEF SendUpdate, SendUp, WireTypes
    <3>2. /\ Packet("UPDATE_JOB", send_queue[c]) \in UpPacket
          /\ Bit(Packet("UPDATE_JOB", send_queue[c]).type \in {"CONNECT", "FINISH_JOB"}) = 0
      BY <3>1, PacketTypes DEF Bit
    <3>3. OfType(Append(up[c], Packet("UPDATE_JOB", send_queue[c])), {"CONNECT", "FINISH_JOB"})
            = OfType(up[c], {"CONNECT", "FINISH_JOB"})
      BY <3>1, <3>2, TypesOf
    <3>4. UNCHANGED <<free_clients, dist, dist_client, new_jobs, requests>>
      BY <2>0 DEF managerVars, handlerVars
    <3>5. OfType(up'[d], {"CONNECT", "FINISH_JOB"}) = OfType(up[d], {"CONNECT", "FINISH_JOB"})
      <4>1. CASE d = c
        BY <3>1, <3>3, <4>1 DEF WireTypes
      <4>2. CASE d # c
        <5>1. up'[d] = up[d]
          BY <3>1, <4>2 DEF WireTypes
        <5> QED BY <5>1
      <4> QED BY <4>1, <4>2
    <3> QED BY <3>99, <3>0, <3>1, <3>4, <3>5 DEF HasToken, Tokens, Alive, Bit
  <2>7. CASE Disconnect(c)
    <3> SUFFICES ASSUME NEW d \in Clients PROVE HasToken(d)'
      BY DEF TokenInv
    <3>99. TokenParts(d)
      BY TokenTerms
    <3>0. HasToken(d)
      BY DEF TokenInv
    <3>1. PICK n \in 0 .. Len(up[c]) : up' = [up EXCEPT ![c] = SubSeq(up[c], 1, n)]
      BY <2>7 DEF Disconnect
    <3>2. /\ main' = [main EXCEPT ![c] = "gone"]
          /\ down' = [down EXCEPT ![c] = <<>>]
          /\ render_queue' = [render_queue EXCEPT ![c] = <<>>]
      BY <2>7 DEF Disconnect
    <3>3. UNCHANGED <<free_clients, dist, dist_client, new_jobs, requests>>
      BY <2>0 DEF managerVars, handlerVars
    <3>4. CASE d = c
      <4>1. main'[d] = "gone"
        BY <3>2, <3>4 DEF Types
      <4> QED BY <4>1 DEF HasToken, Alive
    <3>5. CASE d # c
      <4>1. up'[d] = up[d] /\ down'[d] = down[d] /\ render_queue'[d] = render_queue[d] /\ main'[d] = main[d]
        BY <3>1, <3>2, <3>5 DEF WireTypes, Types
      <4> QED BY <3>99, <3>0, <3>3, <4>1 DEF HasToken, Tokens, Alive, Bit
    <3> QED BY <3>4, <3>5
  <2> QED BY <2>0, <2>1, <2>2, <2>3, <2>4, <2>5, <2>6, <2>7 DEF ClientStep
<1>3. ASSUME NEW c \in Clients, HandleConnect(c) PROVE TokenInv'
  <2> SUFFICES ASSUME NEW d \in Clients PROVE HasToken(d)'
    BY DEF TokenInv
  <2>99. TokenParts(d)
    BY TokenTerms
  <2>1. /\ up[c] \in Seq(UpPacket) /\ up[c] # <<>> /\ up[c][1].type = "CONNECT"
        /\ up' = [up EXCEPT ![c] = Tail(up[c])]
    <3>1. up[c] \in Seq(UpPacket) /\ up[c] # <<>>
      BY <1>3 DEF HandleConnect, Received, WireTypes
    <3>2. Head(up[c]) = up[c][1]
      BY <3>1, Tailed
    <3> QED BY <1>3, <3>1, <3>2 DEF HandleConnect, Received, Consume
  <2>2. OfType(up[c], {"CONNECT", "FINISH_JOB"}) = OfType(Tail(up[c]), {"CONNECT", "FINISH_JOB"}) + 1
    <3>1. Bit(up[c][1].type \in {"CONNECT", "FINISH_JOB"}) = 1
      BY <2>1 DEF Bit
    <3> QED BY <2>1, <3>1, TypesOf
  <2>3. OfType(Tail(up[c]), {"CONNECT", "FINISH_JOB"}) \in Nat
    <3>1. Tail(up[c]) \in Seq(UpPacket)
      BY <2>1, Tailed
    <3> QED BY <3>1, TypesOf
  <2>4. Occurrences(free_clients', d) = Occurrences(free_clients, d) + Bit(c = d)
    <3>1. free_clients \in Seq(Clients) /\ free_clients' = Append(free_clients, c)
      BY <1>3 DEF HandleConnect, NotifyFinish, Types
    <3> QED BY <3>1, OccurrencesOf
  <2>5. up'[d] = IF d = c THEN Tail(up[c]) ELSE up[d]
    BY <2>1 DEF WireTypes
  <2>6. UNCHANGED <<dist, dist_client, new_jobs, requests, down, render_queue, main>>
    BY <1>3 DEF HandleConnect, Consume, handlerVars
  <2>7. HasToken(d)
    BY DEF TokenInv
  <2>8. Bit(c = d) \in Nat /\ Asked(d) \in Nat /\ Asked(d)' \in Nat /\ Asked(d) = Asked(d)' + Bit(c = d)
    <3>1. CASE d = c
      <4>1. up'[d] = Tail(up[c]) /\ Bit(c = d) = 1
        BY <2>5, <3>1 DEF Bit
      <4>2. Asked(d)' = OfType(Tail(up[c]), {"CONNECT", "FINISH_JOB"})
        BY <4>1 DEF Asked
      <4>3. Asked(d) = OfType(up[c], {"CONNECT", "FINISH_JOB"})
        BY <3>1 DEF Asked
      <4> HIDE DEF Asked
      <4> QED BY <2>2, <2>3, <4>1, <4>2, <4>3
    <3>2. CASE d # c
      <4>1. Asked(d)' = Asked(d) /\ Bit(c = d) = 0
        BY <2>5, <3>2 DEF Bit, Asked
      <4>2. Asked(d) \in Nat
        BY <2>99 DEF TokenParts
      <4> QED BY <4>1, <4>2
    <3> QED BY <3>1, <3>2
  <2>88. /\ Asked(d) = Asked(d)' + Bit(c = d) /\ Asked(d)' \in Nat /\ Bit(c = d) \in Nat
         /\ Waiting(d)' = Waiting(d) + Bit(c = d)
         /\ Serving(d)' = Serving(d) /\ Accepted(d)' = Accepted(d)
         /\ Sending(d)' = Sending(d) /\ Issued(d)' = Issued(d)
         /\ Queued(d)' = Queued(d) /\ Asking(d)' = Asking(d)
    <3>1. Waiting(d)' = Waiting(d) + Bit(c = d)
      BY <2>4 DEF Waiting
    <3> QED BY <2>6, <2>8, <3>1 DEF Serving, Accepted, Sending, Issued, Queued, Asking, Bit
  <2>89. /\ Asked(d) \in Nat /\ Waiting(d) \in Nat /\ Serving(d) \in Nat /\ Accepted(d) \in Nat
         /\ Sending(d) \in Nat /\ Issued(d) \in Nat /\ Queued(d) \in Nat /\ Asking(d) \in Nat
    BY <2>99 DEF TokenParts
  <2>90. Tokens(d)' = Tokens(d)
    BY <2>88, <2>89, TokenSum
  <2> QED BY <2>90, <2>2, <2>3, <2>4, <2>5, <2>6, <2>7 DEF HasToken, Alive
<1>4. ASSUME NEW c \in Clients, HandleKeepAlive(c) PROVE TokenInv'
  <2> SUFFICES ASSUME NEW d \in Clients PROVE HasToken(d)'
    BY DEF TokenInv
  <2>99. TokenParts(d)
    BY TokenTerms
  <2>1. /\ up[c] \in Seq(UpPacket) /\ up[c] # <<>> /\ up[c][1].type = "KEEPALIVE"
        /\ up' = [up EXCEPT ![c] = Tail(up[c])]
    <3>1. up[c] \in Seq(UpPacket) /\ up[c] # <<>>
      BY <1>4 DEF HandleKeepAlive, Received, WireTypes
    <3>2. Head(up[c]) = up[c][1]
      BY <3>1, Tailed
    <3> QED BY <1>4, <3>1, <3>2 DEF HandleKeepAlive, Received, Consume
  <2>2. OfType(up[c], {"CONNECT", "FINISH_JOB"}) = OfType(Tail(up[c]), {"CONNECT", "FINISH_JOB"}) + 0
    <3>1. Bit(up[c][1].type \in {"CONNECT", "FINISH_JOB"}) = 0
      BY <2>1 DEF Bit
    <3> QED BY <2>1, <3>1, TypesOf
  <2>3. OfType(Tail(up[c]), {"CONNECT", "FINISH_JOB"}) \in Nat
    <3>1. Tail(up[c]) \in Seq(UpPacket)
      BY <2>1, Tailed
    <3> QED BY <3>1, TypesOf
  <2>5. up'[d] = IF d = c THEN Tail(up[c]) ELSE up[d]
    BY <2>1 DEF WireTypes
  <2>6. UNCHANGED <<free_clients, dist, dist_client, new_jobs, requests, down, render_queue, main>>
    BY <1>4 DEF HandleKeepAlive, Consume, managerVars
  <2>7. HasToken(d)
    BY DEF TokenInv
  <2> QED BY <2>99, <2>2, <2>3, <2>5, <2>6, <2>7 DEF HasToken, Tokens, Alive, Bit
<1>5. ASSUME NEW c \in Clients, ReadUpdate(c) PROVE TokenInv'
  <2> SUFFICES ASSUME NEW d \in Clients PROVE HasToken(d)'
    BY DEF TokenInv
  <2>99. TokenParts(d)
    BY TokenTerms
  <2> DEFINE p == Packet("UPDATE_JOB", Tail(up[c][1].tasks))
  <2>1. /\ up[c] \in Seq(UpPacket) /\ up[c] # <<>> /\ up[c][1].type = "UPDATE_JOB" /\ p \in UpPacket
        /\ \/ up' = [up EXCEPT ![c] = Tail(up[c])]
           \/ up' = [up EXCEPT ![c] = [up[c] EXCEPT ![1] = p]]
    BY <1>5, UpdateFacts
  <2>2. p.type = "UPDATE_JOB"
    BY DEF Packet
  <2> HIDE DEF p
  <2>3. OfType(Tail(up[c]), {"CONNECT", "FINISH_JOB"}) = OfType(up[c], {"CONNECT", "FINISH_JOB"})
    <3>1. Bit(up[c][1].type \in {"CONNECT", "FINISH_JOB"}) = 0
      BY <2>1 DEF Bit
    <3>2. Tail(up[c]) \in Seq(UpPacket)
      BY <2>1, Tailed
    <3>3. OfType(Tail(up[c]), {"CONNECT", "FINISH_JOB"}) \in Nat
      BY <3>2, TypesOf
    <3>4. OfType(up[c], {"CONNECT", "FINISH_JOB"}) = OfType(Tail(up[c]), {"CONNECT", "FINISH_JOB"})
                + Bit(up[c][1].type \in {"CONNECT", "FINISH_JOB"})
      BY <2>1, TypesOf
    <3> QED BY <3>1, <3>3, <3>4
  <2>4. OfType([up[c] EXCEPT ![1] = p], {"CONNECT", "FINISH_JOB"}) = OfType(up[c], {"CONNECT", "FINISH_JOB"})
    BY <2>1, <2>2, TypesOf
  <2>5. OfType(up'[d], {"CONNECT", "FINISH_JOB"}) = OfType(up[d], {"CONNECT", "FINISH_JOB"})
    <3>1. CASE d = c
      BY <2>1, <2>3, <2>4, <3>1 DEF WireTypes
    <3>2. CASE d # c
      <4>1. up'[d] = up[d]
        BY <2>1, <3>2 DEF WireTypes
      <4> QED BY <4>1
    <3> QED BY <3>1, <3>2
  <2>6. UNCHANGED <<free_clients, dist, dist_client, new_jobs, requests, down, render_queue, main>>
    BY <1>5, UpdateFacts, ReadFacts DEF managerVars
  <2>7. HasToken(d)
    BY DEF TokenInv
  <2> QED BY <2>99, <2>5, <2>6, <2>7 DEF HasToken, Tokens, Alive, Bit
<1>6. ASSUME NEW c \in Clients, CountUpdate(c) PROVE TokenInv'
  BY <1>6, SameTokens DEF CountUpdate, clientVars, queueVars, managerVars, handlerVars
<1>7. ASSUME NEW c \in Clients, HandleFinish(c) PROVE TokenInv'
  <2> SUFFICES ASSUME NEW d \in Clients PROVE HasToken(d)'
    BY DEF TokenInv
  <2>99. TokenParts(d)
    BY TokenTerms
  <2>1. /\ up[c] \in Seq(UpPacket) /\ up[c] # <<>> /\ up[c][1].type = "FINISH_JOB"
        /\ up' = [up EXCEPT ![c] = Tail(up[c])]
    <3>1. up[c] \in Seq(UpPacket) /\ up[c] # <<>>
      BY <1>7 DEF HandleFinish, Received, WireTypes
    <3>2. Head(up[c]) = up[c][1]
      BY <3>1, Tailed
    <3> QED BY <1>7, <3>1, <3>2 DEF HandleFinish, Received, Consume
  <2>2. OfType(up[c], {"CONNECT", "FINISH_JOB"}) = OfType(Tail(up[c]), {"CONNECT", "FINISH_JOB"}) + 1
    <3>1. Bit(up[c][1].type \in {"CONNECT", "FINISH_JOB"}) = 1
      BY <2>1 DEF Bit
    <3> QED BY <2>1, <3>1, TypesOf
  <2>3. OfType(Tail(up[c]), {"CONNECT", "FINISH_JOB"}) \in Nat
    <3>1. Tail(up[c]) \in Seq(UpPacket)
      BY <2>1, Tailed
    <3> QED BY <3>1, TypesOf
  <2>4. Occurrences(free_clients', d) = Occurrences(free_clients, d) + Bit(c = d)
    <3>1. free_clients \in Seq(Clients) /\ free_clients' = Append(free_clients, c)
      BY <1>7 DEF HandleFinish, NotifyFinish, Types
    <3> QED BY <3>1, OccurrencesOf
  <2>5. up'[d] = IF d = c THEN Tail(up[c]) ELSE up[d]
    BY <2>1 DEF WireTypes
  <2>6. UNCHANGED <<dist, dist_client, new_jobs, requests, down, render_queue, main>>
    BY <1>7 DEF HandleFinish, Consume, handlerVars
  <2>7. HasToken(d)
    BY DEF TokenInv
  <2>8. Bit(c = d) \in Nat /\ Asked(d) \in Nat /\ Asked(d)' \in Nat /\ Asked(d) = Asked(d)' + Bit(c = d)
    <3>1. CASE d = c
      <4>1. up'[d] = Tail(up[c]) /\ Bit(c = d) = 1
        BY <2>5, <3>1 DEF Bit
      <4>2. Asked(d)' = OfType(Tail(up[c]), {"CONNECT", "FINISH_JOB"})
        BY <4>1 DEF Asked
      <4>3. Asked(d) = OfType(up[c], {"CONNECT", "FINISH_JOB"})
        BY <3>1 DEF Asked
      <4> HIDE DEF Asked
      <4> QED BY <2>2, <2>3, <4>1, <4>2, <4>3
    <3>2. CASE d # c
      <4>1. Asked(d)' = Asked(d) /\ Bit(c = d) = 0
        BY <2>5, <3>2 DEF Bit, Asked
      <4>2. Asked(d) \in Nat
        BY <2>99 DEF TokenParts
      <4> QED BY <4>1, <4>2
    <3> QED BY <3>1, <3>2
  <2>88. /\ Asked(d) = Asked(d)' + Bit(c = d) /\ Asked(d)' \in Nat /\ Bit(c = d) \in Nat
         /\ Waiting(d)' = Waiting(d) + Bit(c = d)
         /\ Serving(d)' = Serving(d) /\ Accepted(d)' = Accepted(d)
         /\ Sending(d)' = Sending(d) /\ Issued(d)' = Issued(d)
         /\ Queued(d)' = Queued(d) /\ Asking(d)' = Asking(d)
    <3>1. Waiting(d)' = Waiting(d) + Bit(c = d)
      BY <2>4 DEF Waiting
    <3> QED BY <2>6, <2>8, <3>1 DEF Serving, Accepted, Sending, Issued, Queued, Asking, Bit
  <2>89. /\ Asked(d) \in Nat /\ Waiting(d) \in Nat /\ Serving(d) \in Nat /\ Accepted(d) \in Nat
         /\ Sending(d) \in Nat /\ Issued(d) \in Nat /\ Queued(d) \in Nat /\ Asking(d) \in Nat
    BY <2>99 DEF TokenParts
  <2>90. Tokens(d)' = Tokens(d)
    BY <2>88, <2>89, TokenSum
  <2> QED BY <2>90, <2>2, <2>3, <2>4, <2>5, <2>6, <2>7 DEF HasToken, Alive
<1>8. ASSUME NEW c \in Clients, ResponseEnd(c) PROVE TokenInv'
  BY <1>8, SameTokens DEF ResponseEnd, clientVars, queueVars, managerVars, handlerVars
<1>9. ASSUME NEW c \in Clients, ResponseRemove(c) PROVE TokenInv'
  BY <1>9, SameTokens DEF ResponseRemove, clientVars, queueVars, managerVars,
    handlerVars
<1>10. ASSUME NEW c \in Clients, ResponseReturn(c) PROVE TokenInv'
  BY <1>10, SameTokens DEF ResponseReturn, clientVars, queueVars, managerVars,
    handlerVars
<1>11. ASSUME NEW c \in Clients, IssueTake(c) PROVE TokenInv'
  <2>1. /\ active_tasks[c] \in Seq(Task)
        /\ active_tasks[c] # <<>>
        /\ SingleJob(active_tasks[c])
        /\ requests[c] = <<>>
    BY <1>11 DEF IssueTake, BatchInv, FlowInv
  <2>2. Requests(active_tasks[c]) = <<Packet("ISSUE_JOB", active_tasks[c])>>
    BY <2>1, RequestsOfOne DEF Packet
  <2>3. Len(Requests(active_tasks[c])) = 1 /\ Len(requests[c]) = 0
    BY <2>1, <2>2
  <2>4. /\ new_jobs[c] /\ new_jobs' = [new_jobs EXCEPT ![c] = FALSE]
        /\ requests' = [requests EXCEPT ![c] = Requests(active_tasks[c])]
        /\ UNCHANGED <<up, main, free_clients, dist, dist_client, down, render_queue>>
    BY <1>11 DEF IssueTake, clientVars, managerVars
  <2> SUFFICES ASSUME NEW d \in Clients PROVE HasToken(d)'
    BY DEF TokenInv
  <2>99. TokenParts(d)
    BY TokenTerms
  <2>5. HasToken(d)
    BY DEF TokenInv
  <2>6. CASE d = c
    <3>1. new_jobs'[d] = FALSE /\ new_jobs[d] = TRUE /\ Len(requests'[d]) = 1 /\ Len(requests[d]) = 0
      BY <2>3, <2>4, <2>6 DEF BatchInv, WireTypes
    <3>88. /\ Asked(d)' = Asked(d) /\ Waiting(d)' = Waiting(d)
           /\ Serving(d)' = Serving(d) /\ Accepted(d) = 1 /\ Accepted(d)' = 0
           /\ Sending(d) = 0 /\ Sending(d)' = 1 /\ Issued(d)' = Issued(d)
           /\ Queued(d)' = Queued(d) /\ Asking(d)' = Asking(d)
      BY <2>99, <2>4, <2>5, <3>1 DEF Asked, Waiting, Serving, Accepted, Sending, Issued,
         Queued, Asking, Bit, Alive
    <3>89. /\ Asked(d) \in Nat /\ Waiting(d) \in Nat /\ Serving(d) \in Nat /\ Accepted(d) \in Nat
           /\ Sending(d) \in Nat /\ Issued(d) \in Nat /\ Queued(d) \in Nat /\ Asking(d) \in Nat
      BY <2>99 DEF TokenParts
    <3>90. Tokens(d)' = Tokens(d)
      BY <3>88, <3>89, TokenSum
    <3> QED BY <3>90, <2>4, <2>5, <3>1 DEF HasToken, Alive
  <2>7. CASE d # c
    <3>1. new_jobs'[d] = new_jobs[d] /\ requests'[d] = requests[d]
      BY <2>4, <2>7 DEF BatchInv, WireTypes
    <3> QED BY <2>99, <2>4, <2>5, <3>1 DEF HasToken, Tokens, Alive, Bit
  <2> QED BY <2>6, <2>7
<1>12. ASSUME NEW c \in Clients, IssueSend(c) PROVE TokenInv'
  <2>1. requests[c] \in Seq(JobPacket) /\ requests[c] # <<>> /\ Len(requests[c]) = 1
    BY <1>12 DEF IssueSend, WireTypes, FlowInv
  <2>2. Head(requests[c]) \in DownPacket /\ Head(requests[c]).type = "ISSUE_JOB"
    BY <2>1, Tailed, PacketTypes
  <2>3. Len(Tail(requests[c])) = 0
    BY <2>1, Tailed
  <2>4. OfType(Append(down[c], Head(requests[c])), {"ISSUE_JOB"}) = OfType(down[c], {"ISSUE_JOB"}) + 1
    <3>1. Bit(Head(requests[c]).type \in {"ISSUE_JOB"}) = 1
      BY <2>2 DEF Bit
    <3>2. down[c] \in Seq(DownPacket)
      BY DEF WireTypes
    <3> QED BY <2>2, <3>1, <3>2, TypesOf
  <2>5. /\ main[c] # "new" /\ (Alive(c) => down' = [down EXCEPT ![c] = Append(down[c], Head(requests[c]))])
        /\ down' = [down EXCEPT ![c] = Append(down[c], Head(requests[c]))] \/ down' = down
        /\ requests' = [requests EXCEPT ![c] = Tail(requests[c])]
        /\ UNCHANGED <<up, main, free_clients, dist, dist_client, new_jobs, render_queue>>
    BY <1>12 DEF IssueSend, SendDown, managerVars, HandlerInv
  <2> SUFFICES ASSUME NEW d \in Clients PROVE HasToken(d)'
    BY DEF TokenInv
  <2>99. TokenParts(d)
    BY TokenTerms
  <2>6. HasToken(d)
    BY DEF TokenInv
  <2>7. CASE d = c
    <3>1. ~ Alive(d) => HasToken(d)'
      BY <2>5, <2>7 DEF HasToken, Alive
    <3>2. ASSUME Alive(d) PROVE HasToken(d)'
      <4>1. /\ Len(requests'[d]) = 0 /\ Len(requests[d]) = 1
            /\ OfType(down'[d], {"ISSUE_JOB"}) = OfType(down[d], {"ISSUE_JOB"}) + 1
        BY <2>1, <2>3, <2>4, <2>5, <2>7, <3>2 DEF WireTypes
      <4>88. /\ Asked(d)' = Asked(d) /\ Waiting(d)' = Waiting(d)
             /\ Serving(d)' = Serving(d) /\ Accepted(d)' = Accepted(d)
             /\ Sending(d) = 1 /\ Sending(d)' = 0 /\ Issued(d)' = Issued(d) + 1
             /\ Queued(d)' = Queued(d) /\ Asking(d)' = Asking(d)
        BY <2>99, <2>5, <2>6, <3>2, <4>1 DEF Asked, Waiting, Serving, Accepted, Sending, Issued,
           Queued, Asking, Bit, Alive
      <4>89. /\ Asked(d) \in Nat /\ Waiting(d) \in Nat /\ Serving(d) \in Nat /\ Accepted(d) \in Nat
             /\ Sending(d) \in Nat /\ Issued(d) \in Nat /\ Queued(d) \in Nat /\ Asking(d) \in Nat
        BY <2>99 DEF TokenParts
      <4>90. Tokens(d)' = Tokens(d)
        BY <4>88, <4>89, TokenSum
      <4> QED BY <4>90, <2>5, <2>6, <3>2, <4>1 DEF HasToken, Alive
    <3> QED BY <3>1, <3>2
  <2>8. CASE d # c
    <3>1. requests'[d] = requests[d] /\ down'[d] = down[d]
      BY <2>5, <2>8 DEF WireTypes
    <3> QED BY <2>99, <2>5, <2>6, <3>1 DEF HasToken, Tokens, Alive, Bit
  <2> QED BY <2>7, <2>8
<1>13. ASSUME NEW c \in Clients, IssueFail(c) PROVE TokenInv'
  BY <1>13, SameTokens DEF IssueFail, clientVars, queueVars, managerVars, handlerVars
<1>14. ASSUME NEW c \in Clients, IssueRemove(c) PROVE TokenInv'
  BY <1>14, SameTokens DEF IssueRemove, clientVars, queueVars, managerVars, handlerVars
<1>15. ASSUME NEW c \in Clients, IssueEnd(c) PROVE TokenInv'
  BY <1>15, SameTokens DEF IssueEnd, clientVars, queueVars, managerVars, handlerVars
<1>16. ASSUME NEW c \in Clients, TryKeepAlive(c) PROVE TokenInv'
  <2> SUFFICES ASSUME NEW d \in Clients PROVE HasToken(d)'
    BY DEF TokenInv
  <2>99. TokenParts(d)
    BY TokenTerms
  <2>1. OfType(Append(down[c], Packet("KEEPALIVE", <<>>)), {"ISSUE_JOB"}) = OfType(down[c], {"ISSUE_JOB"})
    <3>1. Packet("KEEPALIVE", <<>>) \in DownPacket
      BY PacketTypes
    <3>2. Bit(Packet("KEEPALIVE", <<>>).type \in {"ISSUE_JOB"}) = 0
      BY DEF Bit, Packet
    <3>3. down[c] \in Seq(DownPacket)
      BY DEF WireTypes
    <3>4. OfType(Append(down[c], Packet("KEEPALIVE", <<>>)), {"ISSUE_JOB"})
            = OfType(down[c], {"ISSUE_JOB"}) + Bit(Packet("KEEPALIVE", <<>>).type \in {"ISSUE_JOB"})
      BY <3>1, <3>3, TypesOf
    <3>5. OfType(down[c], {"ISSUE_JOB"}) \in Nat
      BY <3>3, TypesOf
    <3> QED BY <3>2, <3>4, <3>5
  <2>2. /\ down' = [down EXCEPT ![c] = Append(down[c], Packet("KEEPALIVE", <<>>))] \/ down' = down
        /\ UNCHANGED <<up, main, free_clients, dist, dist_client, new_jobs, requests, render_queue>>
    BY <1>16 DEF TryKeepAlive, SendDown
  <2>3. OfType(down'[d], {"ISSUE_JOB"}) = OfType(down[d], {"ISSUE_JOB"})
    <3>1. CASE d = c
      BY <2>1, <2>2, <3>1 DEF WireTypes
    <3>2. CASE d # c
      <4>1. down'[d] = down[d]
        BY <2>2, <3>2 DEF WireTypes
      <4> QED BY <4>1
    <3> QED BY <3>1, <3>2
  <2>4. HasToken(d)
    BY DEF TokenInv
  <2> QED BY <2>99, <2>2, <2>3, <2>4 DEF HasToken, Tokens, Alive, Bit
<1>17. ASSUME NEW c \in Clients, KeepAliveFailed(c) PROVE TokenInv'
  BY <1>17, SameTokens DEF KeepAliveFailed, clientVars, queueVars, managerVars,
    handlerVars
<1>18. CASE AddJob
  BY <1>18, SameTokens DEF AddJob, clientVars, queueVars, managerVars, handlerVars
<1>19. CASE DistWait
  <2> SUFFICES ASSUME NEW d \in Clients PROVE HasToken(d)'
    BY DEF TokenInv
  <2>99. TokenParts(d)
    BY TokenTerms
  <2>1. free_clients \in Seq(Clients) /\ free_clients # <<>> /\ Head(free_clients) = free_clients[1]
    <3>1. free_clients \in Seq(Clients) /\ free_clients # <<>>
      BY <1>19 DEF DistWait, Types
    <3> QED BY <3>1, Tailed
  <2>2. /\ Occurrences(free_clients, d) = Occurrences(Tail(free_clients), d) + Bit(free_clients[1] = d)
        /\ Occurrences(Tail(free_clients), d) \in Nat
    <3>1. Tail(free_clients) \in Seq(Clients)
      BY <2>1, Tailed
    <3>2. Occurrences(Tail(free_clients), d) \in Nat
      BY <3>1, OccurrencesOf
    <3>3. Occurrences(free_clients, d) = Occurrences(Tail(free_clients), d) + Bit(free_clients[1] = d)
      BY <2>1, OccurrencesOf
    <3> QED BY <3>2, <3>3
  <2>3. /\ dist = "wait" /\ dist' = "lookup" /\ dist_client' = free_clients[1]
        /\ free_clients' = Tail(free_clients)
        /\ UNCHANGED <<up, new_jobs, requests, down, render_queue, main>>
    BY <1>19, <2>1 DEF DistWait, clientVars, handlerVars
  <2>4. HasToken(d)
    BY DEF TokenInv
  <2>88. /\ Asked(d)' = Asked(d) /\ Waiting(d) = Waiting(d)' + Serving(d)' /\ Waiting(d)' \in Nat
         /\ Serving(d) = 0 /\ Serving(d)' \in Nat /\ Accepted(d)' = Accepted(d)
         /\ Sending(d)' = Sending(d) /\ Issued(d)' = Issued(d)
         /\ Queued(d)' = Queued(d) /\ Asking(d)' = Asking(d)
    BY <2>99, <2>2, <2>3, <2>4 DEF Asked, Waiting, Serving, Accepted, Sending, Issued,
       Queued, Asking, Bit, Alive
  <2>89. /\ Asked(d) \in Nat /\ Waiting(d) \in Nat /\ Serving(d) \in Nat /\ Accepted(d) \in Nat
         /\ Sending(d) \in Nat /\ Issued(d) \in Nat /\ Queued(d) \in Nat /\ Asking(d) \in Nat
    BY <2>99 DEF TokenParts
  <2>90. Tokens(d)' = Tokens(d)
    BY <2>88, <2>89, TokenSum
  <2> QED BY <2>90, <2>2, <2>3, <2>4 DEF HasToken, Alive
<1>20. CASE DistLookup
  <2>1. /\ dist = "lookup"
        /\ UNCHANGED <<up, free_clients, new_jobs, requests, down, render_queue, main>>
    BY <1>20 DEF DistLookup, clientVars, handlerVars
  <2>2. CASE dist_client \in client_map
    <3>1. dist' = "fetch" /\ dist_client' = dist_client
      BY <1>20, <2>2 DEF DistLookup
    <3> QED BY <2>1, <3>1, SameTokens
  <2>3. CASE dist_client \notin client_map
    <3>1. dist' = "wait"
      BY <1>20, <2>3 DEF DistLookup, DistAgain
    <3>2. ~ Alive(dist_client) /\ main[dist_client] # "new"
      BY <2>1, <2>3, Served
    <3> SUFFICES ASSUME NEW d \in Clients PROVE HasToken(d)'
      BY DEF TokenInv
    <3>3. HasToken(d)
      BY DEF TokenInv
    <3>4. CASE d = dist_client
      BY <2>1, <3>2, <3>4 DEF HasToken, Alive
    <3>5. CASE d # dist_client
      BY <2>1, <3>1, <3>3, <3>5 DEF HasToken, Tokens, Alive, Bit
    <3> QED BY <3>4, <3>5
  <2> QED BY <2>2, <2>3
<1>21. CASE DistFetch
  BY <1>21, SameTokens DEF DistFetch, clientVars, queueVars, managerVars, handlerVars
<1>22. CASE DistRefused
  <2>1. /\ dist = "submit" /\ dist' = "wait"
        /\ dist_client \notin client_map \/ ~ active[dist_client]
        /\ UNCHANGED <<up, free_clients, new_jobs, requests, down, render_queue, main>>
    BY <1>22 DEF DistRefused, DistAgain, clientVars, handlerVars
  <2>2. ~ Alive(dist_client) /\ main[dist_client] # "new"
    BY <2>1, Served
  <2> SUFFICES ASSUME NEW d \in Clients PROVE HasToken(d)'
    BY DEF TokenInv
  <2>3. HasToken(d)
    BY DEF TokenInv
  <2>4. CASE d = dist_client
    BY <2>1, <2>2, <2>4 DEF HasToken, Alive
  <2>5. CASE d # dist_client
    BY <2>1, <2>3, <2>5 DEF HasToken, Tokens, Alive, Bit
  <2> QED BY <2>4, <2>5
<1>23. CASE DistSubmit
  BY <1>23, SameTokens DEF DistSubmit, clientVars, queueVars, managerVars, handlerVars
<1>24. CASE DistStore
  <2>1. /\ dist = "store" /\ dist' = "wait"
        /\ new_jobs' = [new_jobs EXCEPT ![dist_client] = TRUE]
        /\ UNCHANGED <<up, free_clients, requests, down, render_queue, main>>
    BY <1>24 DEF DistStore, DistAgain, clientVars
  <2>2. /\ dist_client \in Clients /\ main[dist_client] # "new"
        /\ Alive(dist_client) => ~ new_jobs[dist_client]
    BY <2>1, Served
  <2> SUFFICES ASSUME NEW d \in Clients PROVE HasToken(d)'
    BY DEF TokenInv
  <2>99. TokenParts(d)
    BY TokenTerms
  <2>3. HasToken(d)
    BY DEF TokenInv
  <2>4. CASE d = dist_client
    <3>1. new_jobs'[d] = TRUE
      BY <2>1, <2>4 DEF BatchInv
    <3>88. /\ Asked(d)' = Asked(d) /\ Waiting(d)' = Waiting(d)
           /\ Serving(d) = 1 /\ Serving(d)' = 0 /\ Accepted(d)' = 1 /\ (Alive(d) => Accepted(d) = 0)
           /\ Sending(d)' = Sending(d) /\ Issued(d)' = Issued(d)
           /\ Queued(d)' = Queued(d) /\ Asking(d)' = Asking(d)
      BY <2>99, <2>1, <2>2, <2>3, <2>4, <3>1 DEF Asked, Waiting, Serving, Accepted, Sending, Issued,
         Queued, Asking, Bit, Alive
    <3>89. /\ Asked(d) \in Nat /\ Waiting(d) \in Nat /\ Serving(d) \in Nat /\ Accepted(d) \in Nat
           /\ Sending(d) \in Nat /\ Issued(d) \in Nat /\ Queued(d) \in Nat /\ Asking(d) \in Nat
      BY <2>99 DEF TokenParts
    <3>90. Alive(d) => Tokens(d)' = Tokens(d)
      <4> SUFFICES ASSUME Alive(d) PROVE Tokens(d)' = Tokens(d)
        OBVIOUS
      <4>1. Accepted(d) = 0
        BY <3>88
      <4> QED BY <3>88, <3>89, <4>1, TokenSum
    <3>91. main'[d] = main[d] /\ main[d] # "new"
      BY <2>1, <2>2, <2>4
    <3> QED BY <3>90, <3>91, <2>3 DEF HasToken, Alive
  <2>5. CASE d # dist_client
    <3>1. new_jobs'[d] = new_jobs[d]
      BY <2>1, <2>5 DEF BatchInv
    <3> QED BY <2>99, <2>1, <2>3, <2>5, <3>1 DEF HasToken, Tokens, Alive, Bit
  <2> QED BY <2>4, <2>5
<1>25. CASE KeepAliveAnswered
  BY <1>25, SameTokens DEF KeepAliveAnswered, clientVars, queueVars, managerVars,
    handlerVars
<1>26. CASE KeeperRemove
  BY <1>26, SameTokens DEF KeeperRemove, clientVars, queueVars, managerVars, handlerVars
<1>27. CASE KeeperReturn
  BY <1>27, SameTokens DEF KeeperReturn, clientVars, queueVars, managerVars, handlerVars
<1>28. CASE KeeperJoin
  BY <1>28, SameTokens DEF KeeperJoin, clientVars, queueVars, managerVars, handlerVars
<1>29. CASE KeeperDelete
  BY <1>29, SameTokens DEF KeeperDelete, clientVars, queueVars, managerVars, handlerVars
<1>30. CASE UNCHANGED vars
  BY <1>30, SameTokens DEF vars, clientVars, managerVars, handlerVars
<1> QED BY Actions, <1>1, <1>2, <1>3, <1>4, <1>5, <1>6, <1>7, <1>8, <1>9, <1>10,
    <1>11, <1>12, <1>13, <1>14, <1>15, <1>16, <1>17, <1>18, <1>19, <1>20, <1>21,
    <1>22, <1>23, <1>24, <1>25, <1>26, <1>27, <1>28, <1>29, <1>30


\* All that is needed about packets, threads and tokens.
FlowAll == IndInv /\ WireTypes /\ FlowInv /\ RunInv /\ TokenInv

\* Before anybody connects there is nothing on its way.
LEMMA FlowInit == Init => FlowAll
<1> SUFFICES ASSUME Init PROVE FlowAll
  OBVIOUS
<1>1. WireTypes
  BY DEF Init, ClientInit, WireTypes, Batches
<1>2. FlowInv
  BY DEF Init, ClientInit, FlowInv, UpCargo, DownCargo
<1>3. RunInv
  BY DEF Init, ClientInit, RunInv, Alive
<1>4. TokenInv
  <2> SUFFICES ASSUME NEW c \in Clients PROVE HasToken(c)
    BY DEF TokenInv
  <2>1. /\ up[c] = <<>> /\ down[c] = <<>> /\ render_queue[c] = <<>> /\ requests[c] = <<>>
        /\ free_clients = <<>> /\ dist = "wait" /\ new_jobs[c] = FALSE /\ main[c] = "new"
    BY DEF Init, ClientInit
  <2>2. \A types : OfType(<<>>, types) = 0
    <3>1. \A types : {i \in DOMAIN <<>> : <<>>[i].type \in types} = {}
      OBVIOUS
    <3> QED BY <3>1, FS_EmptySet DEF OfType
  <2>3. Occurrences(<<>>, c) = 0
    <3>1. {i \in DOMAIN <<>> : <<>>[i] = c} = {}
      OBVIOUS
    <3> QED BY <3>1, FS_EmptySet DEF Occurrences
  <2>4. /\ Asked(c) = 0 /\ Waiting(c) = 0 /\ Serving(c) = 0 /\ Accepted(c) = 0
        /\ Sending(c) = 0 /\ Issued(c) = 0 /\ Queued(c) = 0 /\ Asking(c) = 0
    BY <2>1, <2>2, <2>3 DEF Asked, Waiting, Serving, Accepted, Sending, Issued, Queued, Asking, Bit
  <2>5. Tokens(c) = 0
    BY <2>4, TokenSum
  <2> QED BY <2>1, <2>5 DEF HasToken, Alive
<1> QED BY <1>1, <1>2, <1>3, <1>4, InitInv DEF FlowAll

\* It is kept by every step that starts with a batch of one job.
LEMMA FlowNext == FlowAll /\ BatchOfOneJob /\ [Next]_vars => FlowAll'
<1> SUFFICES ASSUME FlowAll, BatchOfOneJob, [Next]_vars PROVE FlowAll'
  OBVIOUS
<1>1. Types /\ LockInv /\ HandlerInv /\ StoreInv /\ BatchInv
  BY DEF FlowAll, IndInv
<1>2. WireTypes /\ FlowInv /\ RunInv /\ TokenInv
  BY DEF FlowAll
<1>3. IndInv'
  BY NextInv DEF FlowAll
<1>4. WireTypes'
  BY <1>1, <1>2, WireStep
<1>5. FlowInv'
  BY <1>1, <1>2, FlowStep
<1>6. RunInv'
  BY <1>1, <1>2, RunStep
<1>7. TokenInv'
  BY <1>1, <1>2, TokenStep
<1> QED BY <1>3, <1>4, <1>5, <1>6, <1>7 DEF FlowAll

\* With one job, or with batches of one frame, every batch has one job.
LEMMA OneJobBatches ==
    ASSUME Len(Frames) = 1 \/ MAX_JOB_CAPABILITY = 1
    PROVE  FlowAll => BatchOfOneJob
<1> SUFFICES ASSUME FlowAll PROVE BatchOfOneJob
  OBVIOUS
<1>1. tasks \in Seq(Task)
  BY DEF FlowAll, IndInv, BatchInv
<1>2. CASE Len(Frames) = 1
  <2>1. \A i \in DOMAIN tasks : tasks[i].job = 1
    <3> SUFFICES ASSUME NEW i \in DOMAIN tasks PROVE tasks[i].job = 1
      OBVIOUS
    <3>1. tasks[i].job \in JobId
      BY <1>1, TaskJob
    <3> QED BY <1>2, <3>1 DEF JobId
  <2> QED BY <2>1 DEF BatchOfOneJob, SingleJob
<1>3. CASE MAX_JOB_CAPABILITY = 1
  <2>1. DOMAIN tasks \subseteq {1}
    <3>1. CASE dist \in {"submit", "store"}
      <4>1. Len(tasks) \in 1 .. max_jobs /\ max_jobs \in 1 .. 1
        BY <1>3, <3>1 DEF FlowAll, IndInv, BatchInv
      <4>2. Len(tasks) = 1
        BY <4>1
      <4> QED BY <1>1, <4>2
    <3>2. CASE dist \notin {"submit", "store"}
      <4>1. dist \in {"wait", "lookup", "fetch"}
        BY <3>2 DEF FlowAll, IndInv, Types
      <4>2. tasks = <<>>
        BY <4>1 DEF FlowAll, FlowInv
      <4> QED BY <4>2
    <3> QED BY <3>1, <3>2
  <2> QED BY <2>1 DEF BatchOfOneJob, SingleJob
<1> QED BY <1>2, <1>3

\* As long as every batch has the frames of one job, a client's wish to work
\* exists exactly once, in whichever thread or packet it is: NotifyFinish never
\* offers a client twice, and no thread forgets one.
THEOREM RequestsAreTokens == Spec /\ []BatchOfOneJob => []OneRequestPerClient
<1>1. FlowAll => OneRequestPerClient
  BY DEF FlowAll, TokenInv, HasToken, OneRequestPerClient
<1> QED BY <1>1, FlowInit, FlowNext, PTL DEF Spec

\* With one job, or with batches of one frame, it needs no hypothesis on the
\* behaviour: this is the instance the run checks, for any number of clients,
\* frames and disconnections.
THEOREM RequestsOfOneJob ==
    ASSUME Len(Frames) = 1 \/ MAX_JOB_CAPABILITY = 1
    PROVE  Spec => []OneRequestPerClient
<1>1. FlowAll => OneRequestPerClient
  BY DEF FlowAll, TokenInv, HasToken, OneRequestPerClient
<1>2. FlowAll /\ [Next]_vars => FlowAll'
  BY FlowNext, OneJobBatches
<1> QED BY <1>1, <1>2, FlowInit, PTL DEF Spec

-----------------------------------------------------------------------------
(***************************************************************************)
(* Places and what they hold.  H maps every place of a set P to the batch  *)
(* it holds.                                                               *)
(***************************************************************************)

Spots(P, H) == UNION {{<<p, i>> : i \in DOMAIN H[p]} : p \in P}

\* Every element of S is at one position, once, and nothing else is anywhere.
Once(P, H, S) ==
    /\ \A y, z \in Spots(P, H) : H[y[1]][y[2]] = H[z[1]][z[2]] => y = z
    /\ {H[z[1]][z[2]] : z \in Spots(P, H)} = S

\* A position is a place and an index into the batch there.
LEMMA PositionFacts ==
    ASSUME NEW P, NEW H
    PROVE  /\ \A z \in Spots(P, H) : z[1] \in P /\ z[2] \in DOMAIN H[z[1]] /\ z = <<z[1], z[2]>>
           /\ \A p \in P : \A i \in DOMAIN H[p] : <<p, i>> \in Spots(P, H)
  BY DEF Spots

\* src says for every position where its element was before: one for one.
SourceOf(P, H, G, src) ==
    /\ src \in [Spots(P, G) -> Spots(P, H)]
    /\ \A z \in Spots(P, G) : G[z[1]][z[2]] = H[src[z][1]][src[z][2]]
    /\ \A y, z \in Spots(P, G) : src[y] = src[z] => y = z
    /\ \A z \in Spots(P, H) : \E y \in Spots(P, G) : src[y] = z

\* Batches that hold the same elements, each at a position of its own.
LEMMA Rearranged ==
    ASSUME NEW P, NEW S, NEW H, NEW G, NEW src, Once(P, H, S), SourceOf(P, H, G, src)
    PROVE  Once(P, G, S)
<1> USE DEF SourceOf
<1> DEFINE PG == Spots(P, G)
           PH == Spots(P, H)
<1>1. /\ \A y, z \in PH : H[y[1]][y[2]] = H[z[1]][z[2]] => y = z
      /\ {H[z[1]][z[2]] : z \in PH} = S
  BY DEF Once
<1> HIDE DEF PG, PH
<1>0. /\ src \in [PG -> PH]
      /\ \A z \in PG : G[z[1]][z[2]] = H[src[z][1]][src[z][2]]
      /\ \A y, z \in PG : src[y] = src[z] => y = z
      /\ \A z \in PH : \E y \in PG : src[y] = z
  BY DEF PG, PH
<1>2. ASSUME NEW y \in PG, NEW z \in PG, G[y[1]][y[2]] = G[z[1]][z[2]]
      PROVE  y = z
  <2>1. src[y] \in PH /\ src[z] \in PH
    BY <1>0
  <2>2. H[src[y][1]][src[y][2]] = H[src[z][1]][src[z][2]]
    BY <1>0, <1>2
  <2>3. src[y] = src[z]
    BY <1>1, <2>1, <2>2
  <2> QED BY <1>0, <2>3
<1>3. {G[z[1]][z[2]] : z \in PG} = S
  <2>1. ASSUME NEW z \in PG PROVE G[z[1]][z[2]] \in S
    BY <1>0, <1>1
  <2>2. ASSUME NEW t \in S PROVE \E z \in PG : G[z[1]][z[2]] = t
    <3>1. PICK z \in PH : H[z[1]][z[2]] = t
      BY <1>1
    <3>2. PICK y \in PG : src[y] = z
      BY <1>0
    <3> QED BY <1>0, <3>1, <3>2
  <2> QED BY <2>1, <2>2
<1> QED BY <1>2, <1>3 DEF Once, PG

\* The batch at a is x and then y; x moves to the end of the batch w at b.
MoveOf(P, T, H, G, a, b, x, y, w) ==
    /\ a \in P /\ b \in P /\ a # b
    /\ x \in Seq(T) /\ y \in Seq(T) /\ w \in Seq(T)
    /\ H[a] = x \o y /\ H[b] = w
    /\ G[a] = y /\ G[b] = w \o x
    /\ \A p \in P \ {a, b} : G[p] = H[p]

\* Moving a batch between places leaves every element in one place.
LEMMA Moved ==
    ASSUME NEW T, NEW P, NEW S, NEW H, NEW G, NEW a, NEW b, NEW x, NEW y, NEW w,
           Once(P, H, S), MoveOf(P, T, H, G, a, b, x, y, w)
    PROVE  Once(P, G, S)
<1> USE DEF MoveOf
<1> DEFINE n == Len(x)
           m == Len(w)
           src == [z \in Spots(P, G) |->
                    IF z[1] = a THEN <<a, z[2] + n>>
                    ELSE IF z[1] = b /\ z[2] > m THEN <<a, z[2] - m>>
                    ELSE z]
<1>1. /\ n \in Nat /\ m \in Nat /\ Len(y) \in Nat
      /\ DOMAIN G[a] = 1 .. Len(y) /\ DOMAIN G[b] = 1 .. m + n
      /\ DOMAIN H[a] = 1 .. n + Len(y) /\ DOMAIN H[b] = 1 .. m
  OBVIOUS
<1>2. /\ \A i \in 1 .. Len(y) : G[a][i] = H[a][i + n]
      /\ \A i \in 1 .. m : G[b][i] = H[b][i]
      /\ \A i \in m + 1 .. m + n : G[b][i] = H[a][i - m]
  OBVIOUS
<1> HIDE DEF n, m
<1>3. ASSUME NEW z \in Spots(P, G)
      PROVE  /\ src[z] \in Spots(P, H)
             /\ G[z[1]][z[2]] = H[src[z][1]][src[z][2]]
  <2>1. z[1] \in P /\ z[2] \in DOMAIN G[z[1]] /\ z = <<z[1], z[2]>>
    BY PositionFacts
  <2>2. CASE z[1] = a
    <3>1. src[z] = <<a, z[2] + n>>
      BY <2>2
    <3>2. z[2] \in 1 .. Len(y) /\ z[2] + n \in 1 .. n + Len(y)
      BY <1>1, <2>1, <2>2
    <3>3. <<a, z[2] + n>> \in Spots(P, H)
      BY <1>1, <3>2, PositionFacts
    <3> QED BY <1>2, <2>2, <3>1, <3>2, <3>3
  <2>3. CASE z[1] = b /\ z[2] > m
    <3>1. src[z] = <<a, z[2] - m>>
      BY <2>3
    <3>2. z[2] \in m + 1 .. m + n /\ z[2] - m \in 1 .. n + Len(y)
      BY <1>1, <2>1, <2>3
    <3>3. <<a, z[2] - m>> \in Spots(P, H)
      BY <1>1, <3>2, PositionFacts
    <3> QED BY <1>2, <2>3, <3>1, <3>2, <3>3
  <2>4. CASE z[1] = b /\ ~ z[2] > m
    <3>1. src[z] = z
      BY <2>4
    <3>2. z[2] \in 1 .. m
      BY <1>1, <2>1, <2>4
    <3>3. <<b, z[2]>> \in Spots(P, H)
      BY <1>1, <3>2, PositionFacts
    <3> QED BY <1>2, <2>1, <2>4, <3>1, <3>2, <3>3
  <2>5. CASE z[1] # a /\ z[1] # b
    <3>1. src[z] = z /\ G[z[1]] = H[z[1]]
      BY <2>1, <2>5
    <3>2. <<z[1], z[2]>> \in Spots(P, H)
      BY <2>1, <3>1, PositionFacts
    <3> QED BY <2>1, <3>1, <3>2
  <2> QED BY <2>2, <2>3, <2>4, <2>5
<1>4. ASSUME NEW u \in Spots(P, G), NEW v \in Spots(P, G), src[u] = src[v]
      PROVE  u = v
  <2>1. /\ u[1] \in P /\ u[2] \in DOMAIN G[u[1]] /\ u = <<u[1], u[2]>>
        /\ v[1] \in P /\ v[2] \in DOMAIN G[v[1]] /\ v = <<v[1], v[2]>>
    BY PositionFacts
  <2>2. /\ u[1] = a => u[2] \in 1 .. Len(y)
        /\ u[1] = b => u[2] \in 1 .. m + n
        /\ v[1] = a => v[2] \in 1 .. Len(y)
        /\ v[1] = b => v[2] \in 1 .. m + n
    BY <1>1, <2>1
  <2>3. /\ src[u] = IF u[1] = a THEN <<a, u[2] + n>>
                    ELSE IF u[1] = b /\ u[2] > m THEN <<a, u[2] - m>> ELSE u
        /\ src[v] = IF v[1] = a THEN <<a, v[2] + n>>
                    ELSE IF v[1] = b /\ v[2] > m THEN <<a, v[2] - m>> ELSE v
    OBVIOUS
  <2> HIDE DEF src
  <2>4. /\ u[1] = a => src[u][1] = a /\ src[u][2] = u[2] + n
        /\ u[1] = b /\ u[2] > m => src[u][1] = a /\ src[u][2] = u[2] - m
        /\ u[1] # a /\ ~ (u[1] = b /\ u[2] > m) => src[u] = u
    BY <2>3
  <2>5. /\ v[1] = a => src[v][1] = a /\ src[v][2] = v[2] + n
        /\ v[1] = b /\ v[2] > m => src[v][1] = a /\ src[v][2] = v[2] - m
        /\ v[1] # a /\ ~ (v[1] = b /\ v[2] > m) => src[v] = v
    BY <2>3
  <2>6. CASE u[1] = a /\ v[1] = a
    <3>1. u[2] + n = v[2] + n
      BY <1>4, <2>4, <2>5, <2>6
    <3>2. u[2] = v[2]
      BY <1>1, <2>2, <2>6, <3>1
    <3> QED BY <2>1, <2>6, <3>2
  <2>7. CASE u[1] = a /\ v[1] = b /\ v[2] > m
    <3>1. u[2] + n = v[2] - m
      BY <1>4, <2>4, <2>5, <2>7
    <3> QED BY <1>1, <2>2, <2>7, <3>1
  <2>8. CASE u[1] = b /\ u[2] > m /\ v[1] = a
    <3>1. u[2] - m = v[2] + n
      BY <1>4, <2>4, <2>5, <2>8
    <3> QED BY <1>1, <2>2, <2>8, <3>1
  <2>9. CASE u[1] = b /\ u[2] > m /\ v[1] = b /\ v[2] > m
    <3>1. u[2] - m = v[2] - m
      BY <1>4, <2>4, <2>5, <2>9
    <3>2. u[2] = v[2]
      BY <1>1, <2>2, <2>9, <3>1
    <3> QED BY <2>1, <2>9, <3>2
  <2>10. CASE u[1] # a /\ ~ (u[1] = b /\ u[2] > m)
    <3>1. src[u] = u /\ src[v][1] # a
      BY <1>4, <2>4, <2>10
    <3>2. src[v] = v
      BY <2>5, <3>1
    <3> QED BY <1>4, <3>1, <3>2
  <2>11. CASE v[1] # a /\ ~ (v[1] = b /\ v[2] > m)
    <3>1. src[v] = v /\ src[u][1] # a
      BY <1>4, <2>5, <2>11
    <3>2. src[u] = u
      BY <2>4, <3>1
    <3> QED BY <1>4, <3>1, <3>2
  <2> QED BY <2>6, <2>7, <2>8, <2>9, <2>10, <2>11
<1>5. ASSUME NEW z \in Spots(P, H)
      PROVE  \E u \in Spots(P, G) : src[u] = z
  <2>1. z[1] \in P /\ z[2] \in DOMAIN H[z[1]] /\ z = <<z[1], z[2]>>
    BY PositionFacts
  <2>2. CASE z[1] = a /\ z[2] > n
    <3>1. z[2] - n \in 1 .. Len(y) /\ z[2] - n + n = z[2]
      BY <1>1, <2>1, <2>2
    <3>2. <<a, z[2] - n>> \in Spots(P, G)
      BY <1>1, <3>1, PositionFacts
    <3>3. src[<<a, z[2] - n>>] = <<a, z[2]>>
      BY <3>1, <3>2
    <3> QED BY <2>1, <2>2, <3>2, <3>3
  <2>3. CASE z[1] = a /\ ~ z[2] > n
    <3>1. z[2] \in Nat /\ z[2] + m \in 1 .. m + n /\ z[2] + m > m /\ z[2] + m - m = z[2]
      BY <1>1, <2>1, <2>3
    <3>2. <<b, z[2] + m>> \in Spots(P, G)
      BY <1>1, <3>1, PositionFacts
    <3> DEFINE e == <<b, z[2] + m>>
    <3>3. e[1] = b /\ e[2] = z[2] + m
      OBVIOUS
    <3> HIDE DEF e
    <3>4. e \in Spots(P, G) /\ e[1] # a /\ e[1] = b /\ e[2] > m
      BY <3>1, <3>2, <3>3 DEF e
    <3>5. src[e] = <<a, e[2] - m>>
      BY <3>4
    <3>6. e[2] - m = z[2]
      BY <1>1, <3>1, <3>3
    <3> QED BY <2>1, <2>3, <3>4, <3>5, <3>6
  <2>4. CASE z[1] = b
    <3>1. z[2] \in 1 .. m /\ z[2] \in 1 .. m + n /\ ~ z[2] > m
      BY <1>1, <2>1, <2>4
    <3>2. <<b, z[2]>> \in Spots(P, G)
      BY <1>1, <3>1, PositionFacts
    <3>3. src[<<b, z[2]>>] = <<b, z[2]>>
      BY <3>1, <3>2
    <3> QED BY <2>1, <2>4, <3>2, <3>3
  <2>5. CASE z[1] # a /\ z[1] # b
    <3>1. z[2] \in DOMAIN G[z[1]]
      BY <2>1, <2>5
    <3>2. z \in Spots(P, G)
      BY <2>1, <3>1, PositionFacts
    <3>3. src[z] = z
      BY <2>5, <3>2
    <3> QED BY <3>2, <3>3
  <2> QED BY <2>2, <2>3, <2>4, <2>5
<1>6. src \in [Spots(P, G) -> Spots(P, H)]
  BY <1>3
<1> HIDE DEF src
<1>7. SourceOf(P, H, G, src)
  BY <1>3, <1>4, <1>5, <1>6 DEF SourceOf
<1> QED BY <1>7, Rearranged

\* f enumerates a queue of batches; the first one is empty, and it moves up.
ShiftOf(P, H, G, f) ==
    /\ f \in [Nat \ {0} -> P]
    /\ \A k, l \in Nat \ {0} : f[k] = f[l] => k = l
    /\ H[f[1]] = <<>>
    /\ \A k \in Nat \ {0} : G[f[k]] = H[f[k + 1]]
    /\ \A p \in P : (\A k \in Nat \ {0} : p # f[k]) => G[p] = H[p]

\* So does moving a queue up by one place.
LEMMA Shifted ==
    ASSUME NEW P, NEW S, NEW H, NEW G, NEW f, Once(P, H, S), ShiftOf(P, H, G, f)
    PROVE  Once(P, G, S)
<1> USE DEF ShiftOf
<1> DEFINE N == Nat \ {0}
           In(p) == \E k \in N : p = f[k]
           Next1(p) == f[(CHOOSE k \in N : p = f[k]) + 1]
           src == [z \in Spots(P, G) |-> IF In(z[1]) THEN <<Next1(z[1]), z[2]>> ELSE z]
<1>1. \A k \in N : k + 1 \in N /\ Next1(f[k]) = f[k + 1] /\ In(f[k])
  <2> SUFFICES ASSUME NEW k \in N PROVE k + 1 \in N /\ (CHOOSE l \in N : f[k] = f[l]) = k
    OBVIOUS
  <2> QED OBVIOUS
<1>2. ASSUME NEW p \in P PROVE (\E k \in N : p = f[k]) \/ (~ In(p) /\ G[p] = H[p])
  OBVIOUS
<1>3. \A k \in N : k = 1 \/ \E l \in N : k = l + 1
  <2> SUFFICES ASSUME NEW k \in N, k # 1 PROVE k - 1 \in N /\ k = k - 1 + 1
    OBVIOUS
  <2> QED OBVIOUS
<1>0. /\ f \in [N -> P]
      /\ \A k, l \in N : f[k] = f[l] => k = l
      /\ \A k \in N : G[f[k]] = H[f[k + 1]]
      /\ \A k, l \in N : k + 1 = l + 1 => k = l
      /\ \A k \in N : k + 1 # 1
      /\ 1 \in N
  OBVIOUS
<1>8. \A z \in Spots(P, G) : src[z] = IF In(z[1]) THEN <<Next1(z[1]), z[2]>> ELSE z
  OBVIOUS
<1> HIDE DEF Next1, In, N
<1>4. ASSUME NEW z \in Spots(P, G)
      PROVE  src[z] \in Spots(P, H) /\ G[z[1]][z[2]] = H[src[z][1]][src[z][2]]
  <2>1. z[1] \in P /\ z[2] \in DOMAIN G[z[1]] /\ z = <<z[1], z[2]>>
    BY PositionFacts
  <2>2. ASSUME NEW k \in N, z[1] = f[k]
        PROVE  src[z] \in Spots(P, H) /\ G[z[1]][z[2]] = H[src[z][1]][src[z][2]]
    <3>1. src[z] = <<f[k + 1], z[2]>> /\ f[k + 1] \in P
      BY <1>0, <1>1, <1>8, <2>2
    <3>2. z[2] \in DOMAIN H[f[k + 1]] /\ G[z[1]] = H[f[k + 1]]
      BY <1>0, <2>1, <2>2
    <3>3. <<f[k + 1], z[2]>> \in Spots(P, H)
      BY <3>1, <3>2, PositionFacts
    <3>4. src[z][1] = f[k + 1] /\ src[z][2] = z[2]
      BY <3>1
    <3> QED BY <3>1, <3>2, <3>3, <3>4
  <2>3. CASE ~ In(z[1]) /\ G[z[1]] = H[z[1]]
    <3>1. src[z] = z
      BY <1>8, <2>3
    <3>2. <<z[1], z[2]>> \in Spots(P, H)
      BY <2>1, <2>3, PositionFacts
    <3> QED BY <2>1, <2>3, <3>1, <3>2
  <2> QED BY <1>2, <2>1, <2>2, <2>3
<1>5. ASSUME NEW u \in Spots(P, G), NEW v \in Spots(P, G), src[u] = src[v]
      PROVE  u = v
  <2>1. /\ u[1] \in P /\ u[2] \in DOMAIN G[u[1]] /\ u = <<u[1], u[2]>>
        /\ v[1] \in P /\ v[2] \in DOMAIN G[v[1]] /\ v = <<v[1], v[2]>>
    BY PositionFacts
  <2>2. CASE In(u[1]) /\ In(v[1])
    <3>1. PICK k \in N : u[1] = f[k]
      BY <2>2 DEF In
    <3>2. PICK l \in N : v[1] = f[l]
      BY <2>2 DEF In
    <3>3. src[u] = <<f[k + 1], u[2]>> /\ src[v] = <<f[l + 1], v[2]>>
      BY <1>1, <1>8, <2>2, <3>1, <3>2
    <3>4. f[k + 1] = f[l + 1] /\ u[2] = v[2] /\ k + 1 \in N /\ l + 1 \in N
      BY <1>1, <1>5, <3>3
    <3>5. k = l
      BY <1>0, <3>4
    <3> QED BY <2>1, <3>1, <3>2, <3>4, <3>5
  <2>3. CASE ~ In(u[1]) /\ ~ In(v[1])
    BY <1>5, <1>8, <2>3
  <2>4. CASE In(u[1]) /\ ~ In(v[1])
    <3>1. PICK k \in N : u[1] = f[k]
      BY <2>4 DEF In
    <3>2. src[u] = <<f[k + 1], u[2]>> /\ src[v] = v
      BY <1>1, <1>8, <2>4, <3>1
    <3>3. v[1] = f[k + 1] /\ k + 1 \in N
      BY <1>1, <1>5, <3>2
    <3> QED BY <1>1, <2>4, <3>3
  <2>5. CASE ~ In(u[1]) /\ In(v[1])
    <3>1. PICK k \in N : v[1] = f[k]
      BY <2>5 DEF In
    <3>2. src[v] = <<f[k + 1], v[2]>> /\ src[u] = u
      BY <1>1, <1>8, <2>5, <3>1
    <3>3. u[1] = f[k + 1] /\ k + 1 \in N
      BY <1>1, <1>5, <3>2
    <3> QED BY <1>1, <2>5, <3>3
  <2> QED BY <2>2, <2>3, <2>4, <2>5
<1>6. ASSUME NEW z \in Spots(P, H)
      PROVE  \E u \in Spots(P, G) : src[u] = z
  <2>1. z[1] \in P /\ z[2] \in DOMAIN H[z[1]] /\ z = <<z[1], z[2]>>
    BY PositionFacts
  <2>2. ASSUME NEW k \in N, z[1] = f[k]
        PROVE  \E u \in Spots(P, G) : src[u] = z
    <3>1. k # 1
      BY <2>1, <2>2
    <3>2. PICK l \in N : k = l + 1
      BY <1>3, <3>1
    <3>3. <<f[l], z[2]>> \in Spots(P, G)
      <4>1. f[l] \in P /\ z[2] \in DOMAIN G[f[l]]
        BY <1>0, <2>1, <2>2, <3>2
      <4> QED BY <4>1, PositionFacts
    <3>4. src[<<f[l], z[2]>>] = <<f[l + 1], z[2]>>
      BY <1>1, <1>8, <3>3
    <3> QED BY <2>1, <2>2, <3>2, <3>3, <3>4
  <2>3. CASE ~ In(z[1]) /\ G[z[1]] = H[z[1]]
    <3>1. z \in Spots(P, G)
      <4>1. <<z[1], z[2]>> \in Spots(P, G)
        BY <2>1, <2>3, PositionFacts
      <4> QED BY <2>1, <4>1
    <3> QED BY <1>8, <2>3, <3>1
  <2> QED BY <1>2, <2>1, <2>2, <2>3
<1>7. src \in [Spots(P, G) -> Spots(P, H)]
  BY <1>4
<1> HIDE DEF src
<1>9. SourceOf(P, H, G, src)
  BY <1>4, <1>5, <1>6, <1>7 DEF SourceOf
<1> QED BY <1>9, Rearranged

\* The batch w at a grows by x, whose elements are nowhere yet.
GrowthOf(P, T, S, H, G, a, x, w) ==
    /\ a \in P /\ x \in Seq(T) /\ w \in Seq(T)
    /\ \A i, k \in DOMAIN x : x[i] = x[k] => i = k
    /\ \A i \in DOMAIN x : x[i] \notin S
    /\ H[a] = w /\ G[a] = w \o x
    /\ \A p \in P \ {a} : G[p] = H[p]

\* New elements enter once.
LEMMA Grown ==
    ASSUME NEW T, NEW P, NEW S, NEW H, NEW G, NEW a, NEW x, NEW w,
           Once(P, H, S), GrowthOf(P, T, S, H, G, a, x, w)
    PROVE  Once(P, G, S \cup {x[i] : i \in DOMAIN x})
<1> USE DEF GrowthOf
<1> DEFINE m == Len(w)
           n == Len(x)
           PG == Spots(P, G)
           PH == Spots(P, H)
           new(z) == z[1] = a /\ z[2] > m
<1>1. /\ n \in Nat /\ m \in Nat /\ DOMAIN x = 1 .. n
      /\ DOMAIN G[a] = 1 .. m + n /\ DOMAIN H[a] = 1 .. m
      /\ \A i \in 1 .. m : G[a][i] = H[a][i]
      /\ \A i \in m + 1 .. m + n : G[a][i] = x[i - m]
  OBVIOUS
<1>2. /\ \A y, z \in PH : H[y[1]][y[2]] = H[z[1]][z[2]] => y = z
      /\ {H[z[1]][z[2]] : z \in PH} = S
  BY DEF Once
<1> HIDE DEF m, n
<1>3. ASSUME NEW z \in PG, ~ new(z)
      PROVE  z \in PH /\ G[z[1]][z[2]] = H[z[1]][z[2]]
  <2>1. z[1] \in P /\ z[2] \in DOMAIN G[z[1]] /\ z = <<z[1], z[2]>>
    BY PositionFacts
  <2>2. z[2] \in DOMAIN H[z[1]] /\ G[z[1]][z[2]] = H[z[1]][z[2]]
    <3>1. CASE z[1] = a
      <4>1. z[2] \in 1 .. m
        BY <1>1, <1>3, <2>1, <3>1
      <4> QED BY <1>1, <3>1, <4>1
    <3>2. CASE z[1] # a
      BY <2>1, <3>2
    <3> QED BY <3>1, <3>2
  <2>3. <<z[1], z[2]>> \in PH
    BY <2>1, <2>2, PositionFacts
  <2> QED BY <2>1, <2>2, <2>3
<1>4. ASSUME NEW z \in PG, new(z)
      PROVE  /\ z[2] \in m + 1 .. m + n /\ z[2] - m \in DOMAIN x /\ G[z[1]][z[2]] = x[z[2] - m]
             /\ z = <<a, z[2]>> /\ G[z[1]][z[2]] \notin S
  <2>1. z[1] = a /\ z[2] \in DOMAIN G[a] /\ z = <<z[1], z[2]>>
    BY <1>4, PositionFacts
  <2>2. z[2] \in m + 1 .. m + n /\ z[2] - m \in 1 .. n
    BY <1>1, <1>4, <2>1
  <2> QED BY <1>1, <2>1, <2>2
<1>5. ASSUME NEW z \in PH PROVE z \in PG /\ ~ new(z)
  <2>1. z[1] \in P /\ z[2] \in DOMAIN H[z[1]] /\ z = <<z[1], z[2]>>
    BY PositionFacts
  <2>2. z[2] \in DOMAIN G[z[1]] /\ ~ new(z)
    <3>1. CASE z[1] = a
      <4>1. z[2] \in 1 .. m
        BY <1>1, <2>1, <3>1
      <4>2. z[2] \in 1 .. m + n /\ ~ z[2] > m
        BY <1>1, <4>1
      <4> QED BY <1>1, <3>1, <4>2
    <3>2. CASE z[1] # a
      BY <2>1, <3>2
    <3> QED BY <3>1, <3>2
  <2>3. <<z[1], z[2]>> \in PG
    BY <2>1, <2>2, PositionFacts
  <2> QED BY <2>1, <2>2, <2>3
<1>6. ASSUME NEW i \in DOMAIN x PROVE \E z \in PG : G[z[1]][z[2]] = x[i]
  <2>1. m + i \in m + 1 .. m + n /\ m + i \in 1 .. m + n /\ m + i - m = i
    BY <1>1
  <2>2. <<a, m + i>> \in PG
    BY <1>1, <2>1, PositionFacts
  <2>3. G[a][m + i] = x[i]
    BY <1>1, <2>1
  <2> QED BY <2>2, <2>3
<1>7. ASSUME NEW y \in PG, NEW z \in PG, G[y[1]][y[2]] = G[z[1]][z[2]]
      PROVE  y = z
  <2>1. CASE ~ new(y) /\ ~ new(z)
    <3> HIDE DEF new, PG, PH
    <3> QED BY <1>2, <1>3, <1>7, <2>1
  <2>2. CASE new(y) /\ new(z)
    <3>1. y[2] - m = z[2] - m
      <4>1. x[y[2] - m] = x[z[2] - m] /\ y[2] - m \in DOMAIN x /\ z[2] - m \in DOMAIN x
        BY <1>4, <1>7, <2>2
      <4> QED BY <4>1
    <3>2. y[2] \in m + 1 .. m + n /\ z[2] \in m + 1 .. m + n /\ y = <<a, y[2]>> /\ z = <<a, z[2]>>
      BY <1>4, <2>2
    <3>3. y[2] = z[2]
      BY <1>1, <3>1, <3>2
    <3> QED BY <3>2, <3>3
  <2>3. CASE ~ new(y) /\ new(z)
    <3>1. G[y[1]][y[2]] \in S
      BY <1>2, <1>3, <2>3
    <3> QED BY <1>4, <1>7, <2>3, <3>1
  <2>4. CASE new(y) /\ ~ new(z)
    <3>1. G[z[1]][z[2]] \in S
      BY <1>2, <1>3, <2>4
    <3> QED BY <1>4, <1>7, <2>4, <3>1
  <2> QED BY <2>1, <2>2, <2>3, <2>4
<1>8. {G[z[1]][z[2]] : z \in PG} = S \cup {x[i] : i \in DOMAIN x}
  <2>1. ASSUME NEW z \in PG PROVE G[z[1]][z[2]] \in S \cup {x[i] : i \in DOMAIN x}
    <3>1. CASE new(z)
      BY <1>4, <3>1
    <3>2. CASE ~ new(z)
      BY <1>2, <1>3, <3>2
    <3> QED BY <3>1, <3>2
  <2>2. ASSUME NEW t \in S PROVE \E z \in PG : G[z[1]][z[2]] = t
    <3>1. PICK z \in PH : H[z[1]][z[2]] = t
      BY <1>2
    <3> QED BY <1>3, <1>5, <3>1
  <2> HIDE DEF PG, PH, new
  <2>3. ASSUME NEW t, t \in {G[z[1]][z[2]] : z \in PG} PROVE t \in S \cup {x[i] : i \in DOMAIN x}
    BY <2>1, <2>3
  <2>4. ASSUME NEW t, t \in S \cup {x[i] : i \in DOMAIN x} PROVE t \in {G[z[1]][z[2]] : z \in PG}
    <3>1. \E z \in PG : G[z[1]][z[2]] = t
      <4>1. CASE t \in S
        BY <2>2, <4>1
      <4>2. CASE t \notin S
        <5>1. PICK i \in DOMAIN x : t = x[i]
          BY <2>4, <4>2
        <5> QED BY <1>6, <5>1
      <4> QED BY <4>1, <4>2
    <3> QED BY <3>1
  <2> QED BY <2>3, <2>4
<1> QED BY <1>7, <1>8 DEF Once

\* The batch at a is t alone, and is taken away.
RemovalOf(P, H, G, a, t) ==
    /\ a \in P /\ H[a] = <<t>> /\ G[a] = <<>>
    /\ \A p \in P \ {a} : G[p] = H[p]

\* The only element of a batch leaves for good.
LEMMA Removed ==
    ASSUME NEW P, NEW S, NEW H, NEW G, NEW a, NEW t, Once(P, H, S), RemovalOf(P, H, G, a, t)
    PROVE  t \in S /\ Once(P, G, S \ {t})
<1> USE DEF RemovalOf
<1> DEFINE PG == Spots(P, G)
           PH == Spots(P, H)
           e == <<a, 1>>
<1>1. /\ \A y, z \in PH : H[y[1]][y[2]] = H[z[1]][z[2]] => y = z
      /\ {H[z[1]][z[2]] : z \in PH} = S
  BY DEF Once
<1>2. e \in PH /\ H[e[1]][e[2]] = t
  <2>1. 1 \in DOMAIN H[a] /\ H[a][1] = t
    OBVIOUS
  <2> QED BY <2>1, PositionFacts
<1>3. ASSUME NEW z \in PG PROVE z \in PH /\ z # e /\ G[z[1]][z[2]] = H[z[1]][z[2]]
  <2>1. z[1] \in P /\ z[2] \in DOMAIN G[z[1]] /\ z = <<z[1], z[2]>>
    BY PositionFacts
  <2>2. z[1] # a
    BY <2>1
  <2>3. G[z[1]] = H[z[1]] /\ <<z[1], z[2]>> \in PH
    BY <2>1, <2>2, PositionFacts
  <2> QED BY <2>1, <2>2, <2>3
<1>4. ASSUME NEW z \in PH, z # e PROVE z \in PG
  <2>1. z[1] \in P /\ z[2] \in DOMAIN H[z[1]] /\ z = <<z[1], z[2]>>
    BY PositionFacts
  <2>2. z[1] # a
    <3> SUFFICES ASSUME z[1] = a PROVE FALSE
      OBVIOUS
    <3>1. DOMAIN H[a] = {1}
      OBVIOUS
    <3>2. z[2] = 1
      BY <2>1, <3>1
    <3> QED BY <1>4, <2>1, <3>2
  <2>3. <<z[1], z[2]>> \in PG
    BY <2>1, <2>2, PositionFacts
  <2> QED BY <2>1, <2>3
<1> HIDE DEF PG, PH, e
<1>5. \A y, z \in PG : G[y[1]][y[2]] = G[z[1]][z[2]] => y = z
  BY <1>1, <1>3
<1>6. {G[z[1]][z[2]] : z \in PG} = S \ {t}
  <2>1. ASSUME NEW z \in PG PROVE G[z[1]][z[2]] \in S \ {t}
    BY <1>1, <1>2, <1>3
  <2>2. ASSUME NEW u \in S \ {t} PROVE \E z \in PG : G[z[1]][z[2]] = u
    <3>1. PICK z \in PH : H[z[1]][z[2]] = u
      BY <1>1
    <3>2. z # e
      BY <1>2, <3>1
    <3> QED BY <1>3, <1>4, <3>1, <3>2
  <2> QED BY <2>1, <2>2
<1> QED BY <1>1, <1>2, <1>5, <1>6 DEF Once, PG


\* Counts and jobs, as long as no client goes away.
CountInv ==
    /\ frames_rendered \in [JobId -> Nat] /\ done \in [JobId -> SUBSET Nat]
    /\ jobs \subseteq 1 .. submitted
    /\ \A j \in JobId :
        /\ done[j] \subseteq 0 .. Frames[j] - 1
        /\ frames_rendered[j] = Cardinality(done[j])
        /\ j > submitted => done[j] = {}
        /\ j <= submitted /\ j \notin jobs => done[j] = 0 .. Frames[j] - 1


\* The batch at an index of a queue, or none.
Shown(queue, k) == IF k \in DOMAIN queue THEN queue[k] ELSE <<>>

Index == Nat \ {0}
InServerAt == {<<part, Nobody, k>> : part \in InServer, k \in Index}
WithClientAt == {<<part, c, k>> : part \in WithClient, c \in Clients, k \in Index}
At == InServerAt \cup WithClientAt

\* What the program holds, and where.
Holds == [p \in At |-> Shown(Held(p[1], p[2]), p[3])]

\* As long as no client goes away, every frame is somewhere or counted.
FrameInv == disconnects = 0 => Once(At, Holds, Submitted \ Counted) /\ CountInv

\* The parts of the system, one by one.
LEMMA HoldsServer ==
    /\ \A k \in Index :
        /\ <<"fresh", Nobody, k>> \in At /\ Holds[<<"fresh", Nobody, k>>] = Shown(<<fresh>>, k)
        /\ <<"task_queue", Nobody, k>> \in At /\ Holds[<<"task_queue", Nobody, k>>] = Shown(<<task_queue>>, k)
        /\ <<"tasks", Nobody, k>> \in At /\ Holds[<<"tasks", Nobody, k>>] = Shown(<<tasks>>, k)
    /\ \A k \in Index :
        /\ Holds'[<<"fresh", Nobody, k>>] = Shown(<<fresh'>>, k)
        /\ Holds'[<<"task_queue", Nobody, k>>] = Shown(<<task_queue'>>, k)
        /\ Holds'[<<"tasks", Nobody, k>>] = Shown(<<tasks'>>, k)
<1>1. \A k \in Index : \A part \in InServer : <<part, Nobody, k>> \in At
  BY DEF At, InServerAt
<1>2. /\ \A k \in Index : \A part \in InServer : Holds[<<part, Nobody, k>>] = Shown(Held(part, Nobody), k)
      /\ \A k \in Index : \A part \in InServer : Holds'[<<part, Nobody, k>>] = Shown(Held(part, Nobody)', k)
  BY <1>1 DEF Holds
<1>3. /\ Held("fresh", Nobody) = <<fresh>> /\ Held("fresh", Nobody)' = <<fresh'>>
      /\ Held("task_queue", Nobody) = <<task_queue>> /\ Held("task_queue", Nobody)' = <<task_queue'>>
      /\ Held("tasks", Nobody) = <<tasks>> /\ Held("tasks", Nobody)' = <<tasks'>>
  BY DEF Held
<1>4. "fresh" \in InServer /\ "task_queue" \in InServer /\ "tasks" \in InServer
  BY DEF InServer
<1> QED BY <1>1, <1>2, <1>3, <1>4

\* The batch the issue thread has yet to take.
Untaken(c) == IF new_jobs[c] THEN <<active_tasks[c]>> ELSE <<>>

\* The parts that belong to a client, one by one.
LEMMA HoldsClient ==
    /\ \A part \in WithClient : \A c \in Clients : \A k \in Index : <<part, c, k>> \in At
    /\ \A c \in Clients : \A k \in Index : Holds[<<"new_jobs", c, k>>] = Shown(Untaken(c), k)
    /\ \A c \in Clients : \A k \in Index : Holds[<<"requests", c, k>>] = Shown(TasksOf(requests[c]), k)
    /\ \A c \in Clients : \A k \in Index : Holds[<<"down", c, k>>] = Shown(TasksOf(down[c]), k)
    /\ \A c \in Clients : \A k \in Index : Holds[<<"render_queue", c, k>>] = Shown(render_queue[c], k)
    /\ \A c \in Clients : \A k \in Index : Holds[<<"current", c, k>>] = Shown(<<current[c]>>, k)
    /\ \A c \in Clients : \A k \in Index : Holds[<<"send_queue", c, k>>] = Shown(<<send_queue[c]>>, k)
    /\ \A c \in Clients : \A k \in Index : Holds[<<"up", c, k>>] = Shown(TasksOf(up[c]), k)
    /\ \A c \in Clients : \A k \in Index : Holds[<<"reported", c, k>>] = Shown(<<reported[c]>>, k)
    /\ \A c \in Clients : \A k \in Index : Holds'[<<"new_jobs", c, k>>] = Shown(Untaken(c)', k)
    /\ \A c \in Clients : \A k \in Index : Holds'[<<"requests", c, k>>] = Shown(TasksOf(requests'[c]), k)
    /\ \A c \in Clients : \A k \in Index : Holds'[<<"down", c, k>>] = Shown(TasksOf(down'[c]), k)
    /\ \A c \in Clients : \A k \in Index : Holds'[<<"render_queue", c, k>>] = Shown(render_queue'[c], k)
    /\ \A c \in Clients : \A k \in Index : Holds'[<<"current", c, k>>] = Shown(<<current'[c]>>, k)
    /\ \A c \in Clients : \A k \in Index : Holds'[<<"send_queue", c, k>>] = Shown(<<send_queue'[c]>>, k)
    /\ \A c \in Clients : \A k \in Index : Holds'[<<"up", c, k>>] = Shown(TasksOf(up'[c]), k)
    /\ \A c \in Clients : \A k \in Index : Holds'[<<"reported", c, k>>] = Shown(<<reported'[c]>>, k)
<1>1. \A part \in WithClient : \A c \in Clients : \A k \in Index : <<part, c, k>> \in At
  BY DEF At, WithClientAt
<1>2. /\ \A part \in WithClient : \A c \in Clients : \A k \in Index : Holds[<<part, c, k>>] = Shown(Held(part, c), k)
      /\ \A part \in WithClient : \A c \in Clients : \A k \in Index : Holds'[<<part, c, k>>] = Shown(Held(part, c)', k)
  BY <1>1 DEF Holds
<1>3. /\ \A c \in Clients : \A k \in Index : Holds[<<"new_jobs", c, k>>] = Shown(Untaken(c), k)
      /\ \A c \in Clients : \A k \in Index : Holds'[<<"new_jobs", c, k>>] = Shown(Untaken(c)', k)
  <2>1. "new_jobs" \in WithClient
    BY DEF WithClient
  <2>2. \A c \in Clients : Held("new_jobs", c) = Untaken(c) /\ Held("new_jobs", c)' = Untaken(c)'
    BY DEF Held, Untaken
  <2> QED BY <1>2, <2>1, <2>2
<1>4. /\ \A c \in Clients : \A k \in Index : Holds[<<"requests", c, k>>] = Shown(TasksOf(requests[c]), k)
      /\ \A c \in Clients : \A k \in Index : Holds'[<<"requests", c, k>>] = Shown(TasksOf(requests'[c]), k)
  <2>1. "requests" \in WithClient
    BY DEF WithClient
  <2>2. \A c \in Clients : Held("requests", c) = TasksOf(requests[c]) /\ Held("requests", c)' = TasksOf(requests'[c])
    BY DEF Held
  <2> QED BY <1>2, <2>1, <2>2
<1>5. /\ \A c \in Clients : \A k \in Index : Holds[<<"down", c, k>>] = Shown(TasksOf(down[c]), k)
      /\ \A c \in Clients : \A k \in Index : Holds'[<<"down", c, k>>] = Shown(TasksOf(down'[c]), k)
  <2>1. "down" \in WithClient
    BY DEF WithClient
  <2>2. \A c \in Clients : Held("down", c) = TasksOf(down[c]) /\ Held("down", c)' = TasksOf(down'[c])
    BY DEF Held
  <2> QED BY <1>2, <2>1, <2>2
<1>6. /\ \A c \in Clients : \A k \in Index : Holds[<<"render_queue", c, k>>] = Shown(render_queue[c], k)
      /\ \A c \in Clients : \A k \in Index : Holds'[<<"render_queue", c, k>>] = Shown(render_queue'[c], k)
  <2>1. "render_queue" \in WithClient
    BY DEF WithClient
  <2>2. \A c \in Clients : Held("render_queue", c) = render_queue[c] /\ Held("render_queue", c)' = render_queue'[c]
    BY DEF Held
  <2> QED BY <1>2, <2>1, <2>2
<1>7. /\ \A c \in Clients : \A k \in Index : Holds[<<"current", c, k>>] = Shown(<<current[c]>>, k)
      /\ \A c \in Clients : \A k \in Index : Holds'[<<"current", c, k>>] = Shown(<<current'[c]>>, k)
  <2>1. "current" \in WithClient
    BY DEF WithClient
  <2>2. \A c \in Clients : Held("current", c) = <<current[c]>> /\ Held("current", c)' = <<current'[c]>>
    BY DEF Held
  <2> QED BY <1>2, <2>1, <2>2
<1>8. /\ \A c \in Clients : \A k \in Index : Holds[<<"send_queue", c, k>>] = Shown(<<send_queue[c]>>, k)
      /\ \A c \in Clients : \A k \in Index : Holds'[<<"send_queue", c, k>>] = Shown(<<send_queue'[c]>>, k)
  <2>1. "send_queue" \in WithClient
    BY DEF WithClient
  <2>2. \A c \in Clients : Held("send_queue", c) = <<send_queue[c]>> /\ Held("send_queue", c)' = <<send_queue'[c]>>
    BY DEF Held
  <2> QED BY <1>2, <2>1, <2>2
<1>9. /\ \A c \in Clients : \A k \in Index : Holds[<<"up", c, k>>] = Shown(TasksOf(up[c]), k)
      /\ \A c \in Clients : \A k \in Index : Holds'[<<"up", c, k>>] = Shown(TasksOf(up'[c]), k)
  <2>1. "up" \in WithClient
    BY DEF WithClient
  <2>2. \A c \in Clients : Held("up", c) = TasksOf(up[c]) /\ Held("up", c)' = TasksOf(up'[c])
    BY DEF Held
  <2> QED BY <1>2, <2>1, <2>2
<1>10. /\ \A c \in Clients : \A k \in Index : Holds[<<"reported", c, k>>] = Shown(<<reported[c]>>, k)
      /\ \A c \in Clients : \A k \in Index : Holds'[<<"reported", c, k>>] = Shown(<<reported'[c]>>, k)
  <2>1. "reported" \in WithClient
    BY DEF WithClient
  <2>2. \A c \in Clients : Held("reported", c) = <<reported[c]>> /\ Held("reported", c)' = <<reported'[c]>>
    BY DEF Held
  <2> QED BY <1>2, <2>1, <2>2
<1> QED BY <1>1, <1>3, <1>4, <1>5, <1>6, <1>7, <1>8, <1>9, <1>10

\* What a step leaves alone: every batch except those at the places in X.
Kept(X) ==
    /\ <<"fresh", Nobody, 1>> \notin X => fresh' = fresh
    /\ <<"task_queue", Nobody, 1>> \notin X => task_queue' = task_queue
    /\ <<"tasks", Nobody, 1>> \notin X => tasks' = tasks
    /\ \A d \in Clients :
        /\ <<"new_jobs", d, 1>> \notin X => Shown(Untaken(d)', 1) = Shown(Untaken(d), 1)
        /\ <<"current", d, 1>> \notin X => current'[d] = current[d]
        /\ <<"send_queue", d, 1>> \notin X => send_queue'[d] = send_queue[d]
        /\ <<"reported", d, 1>> \notin X => reported'[d] = reported[d]
        /\ \A k \in Index :
            /\ <<"requests", d, k>> \notin X => Shown(TasksOf(requests'[d]), k) = Shown(TasksOf(requests[d]), k)
            /\ <<"down", d, k>> \notin X => Shown(TasksOf(down'[d]), k) = Shown(TasksOf(down[d]), k)
            /\ <<"render_queue", d, k>> \notin X => Shown(render_queue'[d], k) = Shown(render_queue[d], k)
            /\ <<"up", d, k>> \notin X => Shown(TasksOf(up'[d]), k) = Shown(TasksOf(up[d]), k)

\* A queue of one batch.
LEMMA ShownOne ==
    /\ \A b : Shown(<<b>>, 1) = b
    /\ \A b : \A k \in Index : k # 1 => Shown(<<b>>, k) = <<>>
    /\ \A c \in Clients : \A k \in Index :
        k # 1 => Shown(Untaken(c), k) = <<>> /\ Shown(Untaken(c)', k) = <<>>
    /\ \A c \in Clients : /\ Shown(Untaken(c), 1) = IF new_jobs[c] THEN active_tasks[c] ELSE <<>>
                          /\ Shown(Untaken(c)', 1) = IF new_jobs'[c] THEN active_tasks'[c] ELSE <<>>
  BY DEF Shown, Untaken, Index

\* What is held at the places a step does not touch stays there.
LEMMA Elsewhere ==
    ASSUME NEW X, Kept(X)
    PROVE  \A p \in At \ X : Holds'[p] = Holds[p]
<1> SUFFICES ASSUME NEW p \in At, p \notin X PROVE Holds'[p] = Holds[p]
  OBVIOUS
<1>1. CASE p \in InServerAt
  <2>1. PICK part \in InServer, k \in Index : p = <<part, Nobody, k>>
    BY <1>1 DEF InServerAt
  <2>2. part \in {"fresh", "task_queue", "tasks"}
    BY DEF InServer
  <2>3. CASE part = "fresh"
    <3>1. p = <<"fresh", Nobody, k>>
      BY <2>1, <2>3
    <3>2. Shown(<<fresh'>>, k) = Shown(<<fresh>>, k)
      <4>1. CASE k = 1
        <5>1. fresh' = fresh
          BY <3>1, <4>1 DEF Kept
        <5> QED BY <5>1
      <4>2. CASE k # 1
        BY <4>2, ShownOne
      <4> QED BY <4>1, <4>2
    <3>3. Holds'[<<"fresh", Nobody, k>>] = Holds[<<"fresh", Nobody, k>>]
      BY <3>2, HoldsServer
    <3> QED BY <3>1, <3>3
  <2>4. CASE part = "task_queue"
    <3>1. p = <<"task_queue", Nobody, k>>
      BY <2>1, <2>4
    <3>2. Shown(<<task_queue'>>, k) = Shown(<<task_queue>>, k)
      <4>1. CASE k = 1
        <5>1. task_queue' = task_queue
          BY <3>1, <4>1 DEF Kept
        <5> QED BY <5>1
      <4>2. CASE k # 1
        BY <4>2, ShownOne
      <4> QED BY <4>1, <4>2
    <3>3. Holds'[<<"task_queue", Nobody, k>>] = Holds[<<"task_queue", Nobody, k>>]
      BY <3>2, HoldsServer
    <3> QED BY <3>1, <3>3
  <2>5. CASE part = "tasks"
    <3>1. p = <<"tasks", Nobody, k>>
      BY <2>1, <2>5
    <3>2. Shown(<<tasks'>>, k) = Shown(<<tasks>>, k)
      <4>1. CASE k = 1
        <5>1. tasks' = tasks
          BY <3>1, <4>1 DEF Kept
        <5> QED BY <5>1
      <4>2. CASE k # 1
        BY <4>2, ShownOne
      <4> QED BY <4>1, <4>2
    <3>3. Holds'[<<"tasks", Nobody, k>>] = Holds[<<"tasks", Nobody, k>>]
      BY <3>2, HoldsServer
    <3> QED BY <3>1, <3>3
  <2> QED BY <2>2, <2>3, <2>4, <2>5
<1>2. CASE p \in WithClientAt
  <2>1. PICK part \in WithClient, d \in Clients, k \in Index : p = <<part, d, k>>
    BY <1>2 DEF WithClientAt
  <2>2. part \in {"new_jobs", "requests", "down", "render_queue", "current", "send_queue", "up", "reported"}
    BY DEF WithClient
  <2>3. CASE part = "requests"
    <3>1. p = <<"requests", d, k>>
      BY <2>1, <2>3
    <3>2. Shown(TasksOf(requests'[d]), k) = Shown(TasksOf(requests[d]), k)
      BY <3>1 DEF Kept
    <3>3. Holds'[<<"requests", d, k>>] = Holds[<<"requests", d, k>>]
      BY <3>2, HoldsClient
    <3> QED BY <3>1, <3>3
  <2>4. CASE part = "down"
    <3>1. p = <<"down", d, k>>
      BY <2>1, <2>4
    <3>2. Shown(TasksOf(down'[d]), k) = Shown(TasksOf(down[d]), k)
      BY <3>1 DEF Kept
    <3>3. Holds'[<<"down", d, k>>] = Holds[<<"down", d, k>>]
      BY <3>2, HoldsClient
    <3> QED BY <3>1, <3>3
  <2>5. CASE part = "render_queue"
    <3>1. p = <<"render_queue", d, k>>
      BY <2>1, <2>5
    <3>2. Shown(render_queue'[d], k) = Shown(render_queue[d], k)
      BY <3>1 DEF Kept
    <3>3. Holds'[<<"render_queue", d, k>>] = Holds[<<"render_queue", d, k>>]
      BY <3>2, HoldsClient
    <3> QED BY <3>1, <3>3
  <2>6. CASE part = "up"
    <3>1. p = <<"up", d, k>>
      BY <2>1, <2>6
    <3>2. Shown(TasksOf(up'[d]), k) = Shown(TasksOf(up[d]), k)
      BY <3>1 DEF Kept
    <3>3. Holds'[<<"up", d, k>>] = Holds[<<"up", d, k>>]
      BY <3>2, HoldsClient
    <3> QED BY <3>1, <3>3
  <2>7. CASE part = "new_jobs"
    <3>1. p = <<"new_jobs", d, k>>
      BY <2>1, <2>7
    <3>2. Shown(Untaken(d)', k) = Shown(Untaken(d), k)
      <4>1. CASE k = 1
        <5>1. Shown(Untaken(d)', 1) = Shown(Untaken(d), 1)
          BY <3>1, <4>1 DEF Kept
        <5> QED BY <4>1, <5>1
      <4>2. CASE k # 1
        BY <4>2, ShownOne
      <4> QED BY <4>1, <4>2
    <3>3. Holds'[<<"new_jobs", d, k>>] = Holds[<<"new_jobs", d, k>>]
      BY <3>2, HoldsClient
    <3> QED BY <3>1, <3>3
  <2>8. CASE part = "current"
    <3>1. p = <<"current", d, k>>
      BY <2>1, <2>8
    <3>2. Shown(<<current'[d]>>, k) = Shown(<<current[d]>>, k)
      <4>1. CASE k = 1
        <5>1. current'[d] = current[d]
          BY <3>1, <4>1 DEF Kept
        <5> QED BY <4>1, <5>1
      <4>2. CASE k # 1
        BY <4>2, ShownOne
      <4> QED BY <4>1, <4>2
    <3>3. Holds'[<<"current", d, k>>] = Holds[<<"current", d, k>>]
      BY <3>2, HoldsClient
    <3> QED BY <3>1, <3>3
  <2>9. CASE part = "send_queue"
    <3>1. p = <<"send_queue", d, k>>
      BY <2>1, <2>9
    <3>2. Shown(<<send_queue'[d]>>, k) = Shown(<<send_queue[d]>>, k)
      <4>1. CASE k = 1
        <5>1. send_queue'[d] = send_queue[d]
          BY <3>1, <4>1 DEF Kept
        <5> QED BY <4>1, <5>1
      <4>2. CASE k # 1
        BY <4>2, ShownOne
      <4> QED BY <4>1, <4>2
    <3>3. Holds'[<<"send_queue", d, k>>] = Holds[<<"send_queue", d, k>>]
      BY <3>2, HoldsClient
    <3> QED BY <3>1, <3>3
  <2>10. CASE part = "reported"
    <3>1. p = <<"reported", d, k>>
      BY <2>1, <2>10
    <3>2. Shown(<<reported'[d]>>, k) = Shown(<<reported[d]>>, k)
      <4>1. CASE k = 1
        <5>1. reported'[d] = reported[d]
          BY <3>1, <4>1 DEF Kept
        <5> QED BY <4>1, <5>1
      <4>2. CASE k # 1
        BY <4>2, ShownOne
      <4> QED BY <4>1, <4>2
    <3>3. Holds'[<<"reported", d, k>>] = Holds[<<"reported", d, k>>]
      BY <3>2, HoldsClient
    <3> QED BY <3>1, <3>3
  <2> QED BY <2>2, <2>3, <2>4, <2>5, <2>6, <2>7, <2>8, <2>9, <2>10
<1> QED BY <1>1, <1>2 DEF At


CountsKept == UNCHANGED <<submitted, jobs, frames_rendered, done>>

\* A step that counts nothing.
LEMMA SameCounts ==
    ASSUME CountsKept
    PROVE  Submitted' = Submitted /\ Counted' = Counted /\ (CountInv => CountInv')
<1>1. submitted' = submitted /\ jobs' = jobs /\ frames_rendered' = frames_rendered /\ done' = done
  BY DEF CountsKept
<1>2. Submitted' = Submitted
  BY <1>1 DEF Submitted
<1>3. Counted' = Counted
  BY <1>1 DEF Counted
<1>4. CountInv => CountInv'
  BY <1>1 DEF CountInv
<1> QED BY <1>2, <1>3, <1>4

\* Steps that move no task, ...
LEMMA FramesKept ==
    ASSUME FrameInv, disconnects' = 0 => disconnects = 0, CountsKept, Kept({})
    PROVE  FrameInv'
<1> SUFFICES ASSUME disconnects' = 0 PROVE Once(At, Holds, Submitted \ Counted)' /\ CountInv'
  BY DEF FrameInv
<1>1. Once(At, Holds, Submitted \ Counted) /\ CountInv
  BY DEF FrameInv
<1>2. Submitted' = Submitted /\ Counted' = Counted /\ CountInv'
  BY <1>1, SameCounts
<1>3. \A p \in At : Holds'[p] = Holds[p]
  BY Elsewhere
<1>4. Holds' = Holds
  BY <1>3 DEF Holds
<1> QED BY <1>1, <1>2, <1>4

\* ... that move the beginning of one batch to the end of another, ...
HoldsMove(a, b, x, y, w) ==
    /\ a \in At /\ b \in At /\ a # b
    /\ x \in Seq(Task) /\ y \in Seq(Task) /\ w \in Seq(Task)
    /\ Holds[a] = x \o y /\ Holds[b] = w /\ Holds'[a] = y /\ Holds'[b] = w \o x

\* Tasks that move from one place to another are neither lost nor doubled.
LEMMA FramesMoved ==
    ASSUME FrameInv, disconnects = 0, CountsKept,
           NEW a, NEW b, NEW x, NEW y, NEW w, HoldsMove(a, b, x, y, w), Kept({a, b})
    PROVE  FrameInv'
<1> USE DEF HoldsMove
<1>1. Once(At, Holds, Submitted \ Counted) /\ CountInv
  BY DEF FrameInv
<1>2. Submitted' = Submitted /\ Counted' = Counted /\ CountInv'
  BY <1>1, SameCounts
<1>3. \A p \in At \ {a, b} : Holds'[p] = Holds[p]
  BY Elsewhere
<1>4. Once(At, Holds', Submitted \ Counted)
  <2>1. MoveOf(At, Task, Holds, Holds', a, b, x, y, w)
    BY <1>3 DEF MoveOf
  <2> QED BY <1>1, <2>1, Moved
<1> QED BY <1>2, <1>4 DEF FrameInv

Queues == {"requests", "down", "render_queue", "up"}
QueueAt(part, c) == {<<part, c, k>> : k \in Index}

\* ... that take an empty batch from a queue, ...
HoldsShift(part, c) == \A k \in Index : Holds'[<<part, c, k>>] = Holds[<<part, c, k + 1>>]

\* Nor are those behind an empty packet that is taken from its queue.
LEMMA FramesShifted ==
    ASSUME FrameInv, disconnects = 0, CountsKept, NEW part \in Queues, NEW c \in Clients,
           Holds[<<part, c, 1>>] = <<>>, HoldsShift(part, c), Kept(QueueAt(part, c))
    PROVE  FrameInv'
<1> USE DEF HoldsShift
<1> DEFINE f == [k \in Nat \ {0} |-> <<part, c, k>>]
<1>1. Once(At, Holds, Submitted \ Counted) /\ CountInv
  BY DEF FrameInv
<1>2. Submitted' = Submitted /\ Counted' = Counted /\ CountInv'
  BY <1>1, SameCounts
<1>3. \A p \in At \ QueueAt(part, c) : Holds'[p] = Holds[p]
  BY Elsewhere
<1>4. part \in WithClient
  BY DEF Queues, WithClient
<1>5. f \in [Nat \ {0} -> At] /\ \A k, l \in Nat \ {0} : f[k] = f[l] => k = l
  <2>1. \A k \in Index : <<part, c, k>> \in At
    BY <1>4, HoldsClient
  <2> QED BY <2>1 DEF Index
<1>6. Holds[f[1]] = <<>> /\ \A k \in Nat \ {0} : Holds'[f[k]] = Holds[f[k + 1]]
  BY DEF Index
<1>7. \A p \in At : (\A k \in Nat \ {0} : p # f[k]) => Holds'[p] = Holds[p]
  BY <1>3 DEF QueueAt, Index
<1> HIDE DEF f
<1>8. Once(At, Holds', Submitted \ Counted)
  <2>1. ShiftOf(At, Holds, Holds', f)
    BY <1>5, <1>6, <1>7 DEF ShiftOf
  <2> QED BY <1>1, <2>1, Shifted
<1> QED BY <1>2, <1>8 DEF FrameInv

\* ... and that take a batch from a queue and put it somewhere else.
HoldsPass(part, c, b, x, w) ==
    /\ b \in At /\ b \notin QueueAt(part, c)
    /\ x \in Seq(Task) /\ w \in Seq(Task)
    /\ Holds[<<part, c, 1>>] = x /\ Holds[b] = w /\ Holds'[b] = w \o x

\* Nor are those of a packet that is taken from its queue and kept elsewhere.
LEMMA FramesPassed ==
    ASSUME FrameInv, disconnects = 0, CountsKept, NEW part \in Queues, NEW c \in Clients,
           NEW b, NEW x, NEW w, HoldsPass(part, c, b, x, w), HoldsShift(part, c),
           Kept(QueueAt(part, c) \cup {b})
    PROVE  FrameInv'
<1> USE DEF HoldsPass, HoldsShift
<1> DEFINE f == [k \in Nat \ {0} |-> <<part, c, k>>]
           a == <<part, c, 1>>
           H == [p \in At |-> IF p = a THEN <<>> ELSE IF p = b THEN w \o x ELSE Holds[p]]
<1>1. Once(At, Holds, Submitted \ Counted) /\ CountInv
  BY DEF FrameInv
<1>2. Submitted' = Submitted /\ Counted' = Counted /\ CountInv'
  BY <1>1, SameCounts
<1>3. \A p \in At \ (QueueAt(part, c) \cup {b}) : Holds'[p] = Holds[p]
  BY Elsewhere
<1>4. part \in WithClient
  BY DEF Queues, WithClient
<1>5. \A k \in Index : <<part, c, k>> \in At /\ <<part, c, k>> # b
  BY <1>4, HoldsClient DEF QueueAt
<1>6. a \in At /\ a # b /\ 1 \in Index
  BY <1>5 DEF Index
<1>7. Once(At, H, Submitted \ Counted)
  <2> DEFINE nil == <<>>
  <2>1. H[a] = nil /\ H[b] = w \o x /\ \A p \in At \ {a, b} : H[p] = Holds[p]
    BY <1>6
  <2>2. nil \in Seq(Task) /\ Holds[a] = x \o nil
    OBVIOUS
  <2>3. Holds[b] = w
    OBVIOUS
  <2> HIDE DEF H, a, nil
  <2>4. MoveOf(At, Task, Holds, H, a, b, x, nil, w)
    BY <1>6, <2>1, <2>2, <2>3 DEF MoveOf
  <2> QED BY <1>1, <2>4, Moved
<1>8. f \in [Nat \ {0} -> At] /\ \A k, l \in Nat \ {0} : f[k] = f[l] => k = l
  BY <1>5 DEF Index
<1>9. H[f[1]] = <<>>
  BY <1>6 DEF Index
<1>10. \A k \in Nat \ {0} : Holds'[f[k]] = H[f[k + 1]]
  <2> SUFFICES ASSUME NEW k \in Nat \ {0} PROVE Holds'[<<part, c, k>>] = H[<<part, c, k + 1>>]
    <3>1. \A k \in Nat \ {0} : k + 1 \in Nat \ {0}
      OBVIOUS
    <3> HIDE DEF H
    <3> QED BY <3>1
  <2>0. k \in Index
    BY DEF Index
  <2>1. k + 1 \in Index /\ k + 1 # 1
    BY DEF Index
  <2>2. <<part, c, k + 1>> \in At /\ <<part, c, k + 1>> # b /\ <<part, c, k + 1>> # a
    BY <1>5, <2>1
  <2>3. H[<<part, c, k + 1>>] = Holds[<<part, c, k + 1>>]
    BY <2>2
  <2> QED BY <2>0, <2>3
<1>11. \A p \in At : (\A k \in Nat \ {0} : p # f[k]) => Holds'[p] = H[p]
  <2> SUFFICES ASSUME NEW p \in At, \A k \in Index : p # <<part, c, k>> PROVE Holds'[p] = H[p]
    BY DEF Index
  <2>1. p # a /\ p \notin QueueAt(part, c)
    BY <1>6 DEF QueueAt
  <2>2. CASE p = b
    BY <2>1, <2>2
  <2>3. CASE p # b
    BY <1>3, <2>1, <2>3
  <2> QED BY <2>2, <2>3
<1> HIDE DEF f, H
<1>12. Once(At, Holds', Submitted \ Counted)
  <2>1. ShiftOf(At, H, Holds', f)
    BY <1>8, <1>9, <1>10, <1>11 DEF ShiftOf
  <2> QED BY <1>7, <2>1, Shifted
<1> QED BY <1>2, <1>12 DEF FrameInv

\* Queues of batches and of packets that grow, shrink and change.
LEMMA ShownQueue ==
    ASSUME NEW S, NEW s \in Seq(S)
    PROVE  /\ Len(s) + 1 \in Index /\ Shown(s, Len(s) + 1) = <<>>
           /\ \A v \in S : \A k \in Index : Shown(Append(s, v), k) = IF k = Len(s) + 1 THEN v ELSE Shown(s, k)
           /\ s # <<>> => /\ Shown(s, 1) = s[1]
                          /\ \A k \in Index : Shown(Tail(s), k) = Shown(s, k + 1)
<1>1. Len(s) \in Nat /\ DOMAIN s = 1 .. Len(s)
  OBVIOUS
<1>2. Len(s) + 1 \in Index /\ Shown(s, Len(s) + 1) = <<>>
  BY <1>1 DEF Shown, Index
<1>3. ASSUME NEW v \in S, NEW k \in Index
      PROVE  Shown(Append(s, v), k) = IF k = Len(s) + 1 THEN v ELSE Shown(s, k)
  <2>1. /\ DOMAIN Append(s, v) = 1 .. Len(s) + 1 /\ Append(s, v)[Len(s) + 1] = v
        /\ \A i \in 1 .. Len(s) : Append(s, v)[i] = s[i]
    BY Appended
  <2>2. k \in 1 .. Len(s) + 1 <=> k \in 1 .. Len(s) \/ k = Len(s) + 1
    BY <1>1 DEF Index
  <2>3. ~ Len(s) + 1 \in 1 .. Len(s)
    BY <1>1
  <2> QED BY <1>1, <2>1, <2>2, <2>3, Zenon DEF Shown
<1>4. ASSUME s # <<>>, NEW k \in Index PROVE Shown(Tail(s), k) = Shown(s, k + 1)
  <2>1. /\ DOMAIN Tail(s) = 1 .. Len(s) - 1
        /\ \A i \in 1 .. Len(s) - 1 : Tail(s)[i] = s[i + 1]
    BY <1>4, Tailed
  <2>2. k \in 1 .. Len(s) - 1 <=> k + 1 \in 1 .. Len(s)
    BY <1>1 DEF Index
  <2> QED BY <1>1, <2>1, <2>2, Zenon DEF Shown
<1>5. ASSUME s # <<>> PROVE Shown(s, 1) = s[1]
  <2>1. 1 \in DOMAIN s
    BY <1>5, Tailed
  <2> QED BY <2>1 DEF Shown
<1> QED BY <1>2, <1>3, <1>4, <1>5

\* The tasks in a queue of packets that grows, shrinks or has its head replaced.
LEMMA ShownPackets ==
    ASSUME NEW S, NEW s \in Seq(S)
    PROVE  /\ Len(s) + 1 \in Index /\ Shown(TasksOf(s), Len(s) + 1) = <<>>
           /\ \A v \in S : \A k \in Index :
                Shown(TasksOf(Append(s, v)), k) = IF k = Len(s) + 1 THEN v.tasks ELSE Shown(TasksOf(s), k)
           /\ s # <<>> => /\ Shown(TasksOf(s), 1) = s[1].tasks
                          /\ \A k \in Index : Shown(TasksOf(Tail(s)), k) = Shown(TasksOf(s), k + 1)
                          /\ \A v \in S : \A k \in Index :
                                Shown(TasksOf([s EXCEPT ![1] = v]), k)
                                    = IF k = 1 THEN v.tasks ELSE Shown(TasksOf(s), k)
<1>1. Len(s) \in Nat /\ DOMAIN s = 1 .. Len(s)
  OBVIOUS
<1>a. \A q, k : Shown(TasksOf(q), k) = IF k \in DOMAIN q THEN q[k].tasks ELSE <<>>
  BY DEF Shown, TasksOf
<1>2. Len(s) + 1 \in Index /\ Shown(TasksOf(s), Len(s) + 1) = <<>>
  <2>1. Len(s) + 1 \in Index /\ Len(s) + 1 \notin 1 .. Len(s)
    BY <1>1 DEF Index
  <2> QED BY <1>a, <1>1, <2>1
<1>3. ASSUME NEW v \in S, NEW k \in Index
      PROVE  Shown(TasksOf(Append(s, v)), k) = IF k = Len(s) + 1 THEN v.tasks ELSE Shown(TasksOf(s), k)
  <2>1. /\ DOMAIN Append(s, v) = 1 .. Len(s) + 1 /\ Append(s, v)[Len(s) + 1] = v
        /\ \A i \in 1 .. Len(s) : Append(s, v)[i] = s[i]
    BY Appended
  <2>2. k \in 1 .. Len(s) + 1 <=> k \in 1 .. Len(s) \/ k = Len(s) + 1
    BY <1>1 DEF Index
  <2>3. ~ Len(s) + 1 \in 1 .. Len(s)
    BY <1>1
  <2> QED BY <1>1, <1>a, <2>1, <2>2, <2>3, Zenon
<1>4. ASSUME s # <<>>, NEW k \in Index PROVE Shown(TasksOf(Tail(s)), k) = Shown(TasksOf(s), k + 1)
  <2>1. /\ DOMAIN Tail(s) = 1 .. Len(s) - 1
        /\ \A i \in 1 .. Len(s) - 1 : Tail(s)[i] = s[i + 1]
    BY <1>4, Tailed
  <2>2. k \in 1 .. Len(s) - 1 <=> k + 1 \in 1 .. Len(s)
    BY <1>1 DEF Index
  <2> QED BY <1>1, <1>a, <2>1, <2>2, Zenon
<1>5. ASSUME s # <<>> PROVE Shown(TasksOf(s), 1) = s[1].tasks
  <2>1. 1 \in DOMAIN s
    BY <1>5, Tailed
  <2> QED BY <1>a, <2>1
<1>6. ASSUME s # <<>>, NEW v \in S, NEW k \in Index
      PROVE  Shown(TasksOf([s EXCEPT ![1] = v]), k) = IF k = 1 THEN v.tasks ELSE Shown(TasksOf(s), k)
  <2>1. 1 \in DOMAIN s
    BY <1>6, Tailed
  <2>2. /\ DOMAIN [s EXCEPT ![1] = v] = DOMAIN s /\ [s EXCEPT ![1] = v][1] = v
        /\ \A i \in DOMAIN s : i # 1 => [s EXCEPT ![1] = v][i] = s[i]
    BY <2>1
  <2> DEFINE q == [s EXCEPT ![1] = v]
  <2>3. DOMAIN q = DOMAIN s /\ q[1] = v /\ \A i \in DOMAIN s : i # 1 => q[i] = s[i]
    BY <2>2
  <2> HIDE DEF q
  <2>4. Shown(TasksOf(q), k) = IF k = 1 THEN v.tasks ELSE Shown(TasksOf(s), k)
    <3>1. CASE k = 1
      BY <1>a, <2>1, <2>3, <3>1
    <3>2. CASE k # 1
      BY <1>a, <2>1, <2>3, <3>2
    <3> QED BY <3>1, <3>2
  <2> QED BY <2>4 DEF q
<1> QED BY <1>2, <1>3, <1>4, <1>5, <1>6

\* The parts that hold one batch.
LEMMA HoldsOne ==
    /\ <<"fresh", Nobody, 1>> \in At /\ Holds[<<"fresh", Nobody, 1>>] = fresh /\ Holds'[<<"fresh", Nobody, 1>>] = fresh'
    /\ <<"task_queue", Nobody, 1>> \in At /\ Holds[<<"task_queue", Nobody, 1>>] = task_queue /\ Holds'[<<"task_queue", Nobody, 1>>] = task_queue'
    /\ <<"tasks", Nobody, 1>> \in At /\ Holds[<<"tasks", Nobody, 1>>] = tasks /\ Holds'[<<"tasks", Nobody, 1>>] = tasks'
    /\ \A c \in Clients : /\ <<"current", c, 1>> \in At
                          /\ Holds[<<"current", c, 1>>] = current[c]
                          /\ Holds'[<<"current", c, 1>>] = current'[c]
    /\ \A c \in Clients : /\ <<"send_queue", c, 1>> \in At
                          /\ Holds[<<"send_queue", c, 1>>] = send_queue[c]
                          /\ Holds'[<<"send_queue", c, 1>>] = send_queue'[c]
    /\ \A c \in Clients : /\ <<"reported", c, 1>> \in At
                          /\ Holds[<<"reported", c, 1>>] = reported[c]
                          /\ Holds'[<<"reported", c, 1>>] = reported'[c]
    /\ \A c \in Clients : /\ <<"new_jobs", c, 1>> \in At
                          /\ Holds[<<"new_jobs", c, 1>>] = (IF new_jobs[c] THEN active_tasks[c] ELSE <<>>)
                          /\ Holds'[<<"new_jobs", c, 1>>] = (IF new_jobs'[c] THEN active_tasks'[c] ELSE <<>>)
<1>1. 1 \in Index
  BY DEF Index
<1>2. <<"fresh", Nobody, 1>> \in At /\ Holds[<<"fresh", Nobody, 1>>] = fresh /\ Holds'[<<"fresh", Nobody, 1>>] = fresh'
  <2>1. <<"fresh", Nobody, 1>> \in At /\ Holds[<<"fresh", Nobody, 1>>] = Shown(<<fresh>>, 1) /\ Holds'[<<"fresh", Nobody, 1>>] = Shown(<<fresh'>>, 1)
    BY <1>1, HoldsServer
  <2>2. Shown(<<fresh>>, 1) = fresh /\ Shown(<<fresh'>>, 1) = fresh'
    BY ShownOne
  <2> QED BY <2>1, <2>2
<1>3. <<"task_queue", Nobody, 1>> \in At /\ Holds[<<"task_queue", Nobody, 1>>] = task_queue /\ Holds'[<<"task_queue", Nobody, 1>>] = task_queue'
  <2>1. <<"task_queue", Nobody, 1>> \in At /\ Holds[<<"task_queue", Nobody, 1>>] = Shown(<<task_queue>>, 1) /\ Holds'[<<"task_queue", Nobody, 1>>] = Shown(<<task_queue'>>, 1)
    BY <1>1, HoldsServer
  <2>2. Shown(<<task_queue>>, 1) = task_queue /\ Shown(<<task_queue'>>, 1) = task_queue'
    BY ShownOne
  <2> QED BY <2>1, <2>2
<1>4. <<"tasks", Nobody, 1>> \in At /\ Holds[<<"tasks", Nobody, 1>>] = tasks /\ Holds'[<<"tasks", Nobody, 1>>] = tasks'
  <2>1. <<"tasks", Nobody, 1>> \in At /\ Holds[<<"tasks", Nobody, 1>>] = Shown(<<tasks>>, 1) /\ Holds'[<<"tasks", Nobody, 1>>] = Shown(<<tasks'>>, 1)
    BY <1>1, HoldsServer
  <2>2. Shown(<<tasks>>, 1) = tasks /\ Shown(<<tasks'>>, 1) = tasks'
    BY ShownOne
  <2> QED BY <2>1, <2>2
<1>5. ASSUME NEW c \in Clients
      PROVE  /\ <<"current", c, 1>> \in At
             /\ Holds[<<"current", c, 1>>] = current[c]
             /\ Holds'[<<"current", c, 1>>] = current'[c]
  <2>1. Holds[<<"current", c, 1>>] = Shown(<<current[c]>>, 1) /\ Holds'[<<"current", c, 1>>] = Shown(<<current'[c]>>, 1)
    BY <1>1, HoldsClient
  <2>2. Shown(<<current[c]>>, 1) = current[c] /\ Shown(<<current'[c]>>, 1) = current'[c]
    BY ShownOne
  <2>3. <<"current", c, 1>> \in At
    BY <1>1, HoldsClient DEF WithClient
  <2> QED BY <2>1, <2>2, <2>3
<1>6. ASSUME NEW c \in Clients
      PROVE  /\ <<"send_queue", c, 1>> \in At
             /\ Holds[<<"send_queue", c, 1>>] = send_queue[c]
             /\ Holds'[<<"send_queue", c, 1>>] = send_queue'[c]
  <2>1. Holds[<<"send_queue", c, 1>>] = Shown(<<send_queue[c]>>, 1) /\ Holds'[<<"send_queue", c, 1>>] = Shown(<<send_queue'[c]>>, 1)
    BY <1>1, HoldsClient
  <2>2. Shown(<<send_queue[c]>>, 1) = send_queue[c] /\ Shown(<<send_queue'[c]>>, 1) = send_queue'[c]
    BY ShownOne
  <2>3. <<"send_queue", c, 1>> \in At
    BY <1>1, HoldsClient DEF WithClient
  <2> QED BY <2>1, <2>2, <2>3
<1>7. ASSUME NEW c \in Clients
      PROVE  /\ <<"reported", c, 1>> \in At
             /\ Holds[<<"reported", c, 1>>] = reported[c]
             /\ Holds'[<<"reported", c, 1>>] = reported'[c]
  <2>1. Holds[<<"reported", c, 1>>] = Shown(<<reported[c]>>, 1) /\ Holds'[<<"reported", c, 1>>] = Shown(<<reported'[c]>>, 1)
    BY <1>1, HoldsClient
  <2>2. Shown(<<reported[c]>>, 1) = reported[c] /\ Shown(<<reported'[c]>>, 1) = reported'[c]
    BY ShownOne
  <2>3. <<"reported", c, 1>> \in At
    BY <1>1, HoldsClient DEF WithClient
  <2> QED BY <2>1, <2>2, <2>3
<1>8. ASSUME NEW c \in Clients
      PROVE  /\ <<"new_jobs", c, 1>> \in At
             /\ Holds[<<"new_jobs", c, 1>>] = (IF new_jobs[c] THEN active_tasks[c] ELSE <<>>)
             /\ Holds'[<<"new_jobs", c, 1>>] = (IF new_jobs'[c] THEN active_tasks'[c] ELSE <<>>)
  <2>1. Holds[<<"new_jobs", c, 1>>] = Shown(Untaken(c), 1) /\ Holds'[<<"new_jobs", c, 1>>] = Shown(Untaken(c)', 1)
    BY <1>1, HoldsClient
  <2>2. Shown(Untaken(c), 1) = (IF new_jobs[c] THEN active_tasks[c] ELSE <<>>) /\ Shown(Untaken(c)', 1) = (IF new_jobs'[c] THEN active_tasks'[c] ELSE <<>>)
    BY ShownOne
  <2>3. <<"new_jobs", c, 1>> \in At
    BY <1>1, HoldsClient DEF WithClient
  <2> QED BY <2>1, <2>2, <2>3
<1> QED BY <1>2, <1>3, <1>4, <1>5, <1>6, <1>7, <1>8

\* Nothing that holds tasks changes.
LEMMA AllKept ==
    ASSUME UNCHANGED <<fresh, task_queue, tasks, new_jobs, active_tasks, requests, down,
                       render_queue, current, send_queue, up, reported>>
    PROVE  Kept({})
<1>1. \A d \in Clients : Untaken(d)' = Untaken(d)
  BY DEF Untaken
<1> QED BY <1>1 DEF Kept

\* The first and the second part of a batch.
LEMMA Halves ==
    ASSUME NEW S, NEW s \in Seq(S), NEW n \in 0 .. Len(s)
    PROVE  s = SubSeq(s, 1, n) \o SubSeq(s, n + 1, Len(s))
<1>1. SubSeq(s, 1, n) \o SubSeq(s, n + 1, Len(s)) = SubSeq(s, 1, Len(s))
  <2>1. Len(s) \in Nat /\ 1 \in 1 .. Len(s) + 1 /\ n \in 1 - 1 .. Len(s) /\ Len(s) \in n .. Len(s)
    OBVIOUS
  <2> QED BY <2>1, ConcatAdjacentSubSeq
<1> QED BY <1>1, SubSeqFull


\* An empty packet, or one of another kind, is appended without any task.
LEMMA EmptyPacket ==
    ASSUME WireTypes, NEW c \in Clients, NEW k \in Index
    PROVE  /\ Shown(TasksOf(Append(up[c], Packet("CONNECT", <<>>))), k) = Shown(TasksOf(up[c]), k)
           /\ Shown(TasksOf(Append(up[c], Packet("KEEPALIVE", <<>>))), k) = Shown(TasksOf(up[c]), k)
           /\ Shown(TasksOf(Append(up[c], Packet("FINISH_JOB", <<>>))), k) = Shown(TasksOf(up[c]), k)
           /\ Shown(TasksOf(Append(down[c], Packet("KEEPALIVE", <<>>))), k) = Shown(TasksOf(down[c]), k)
<1>1. up[c] \in Seq(UpPacket)
  BY DEF WireTypes, UpPacket
<1>2. down[c] \in Seq(DownPacket)
  BY DEF WireTypes
<1>3. ASSUME NEW t \in UpTypes, Packet(t, <<>>) \in UpPacket, Packet(t, <<>>).tasks = <<>>
      PROVE  Shown(TasksOf(Append(up[c], Packet(t, <<>>))), k) = Shown(TasksOf(up[c]), k)
  <2> DEFINE v == Packet(t, <<>>)
  <2>1. v \in UpPacket /\ v.tasks = <<>>
    BY <1>3
  <2> HIDE DEF v
  <2>2. /\ Shown(TasksOf(up[c]), Len(up[c]) + 1) = <<>>
        /\ Shown(TasksOf(Append(up[c], v)), k) = IF k = Len(up[c]) + 1 THEN v.tasks ELSE Shown(TasksOf(up[c]), k)
    BY <1>1, <2>1, ShownPackets
  <2>3. Shown(TasksOf(Append(up[c], v)), k) = Shown(TasksOf(up[c]), k)
    BY <2>1, <2>2
  <2> QED BY <2>3 DEF v
<1>4. Shown(TasksOf(Append(down[c], Packet("KEEPALIVE", <<>>))), k) = Shown(TasksOf(down[c]), k)
  <2> DEFINE v == Packet("KEEPALIVE", <<>>)
  <2>1. v \in DownPacket /\ v.tasks = <<>>
    BY PacketTypes
  <2> HIDE DEF v
  <2>2. /\ Shown(TasksOf(down[c]), Len(down[c]) + 1) = <<>>
        /\ Shown(TasksOf(Append(down[c], v)), k) = IF k = Len(down[c]) + 1 THEN v.tasks ELSE Shown(TasksOf(down[c]), k)
    BY <1>2, <2>1, ShownPackets
  <2>3. Shown(TasksOf(Append(down[c], v)), k) = Shown(TasksOf(down[c]), k)
    BY <2>1, <2>2
  <2> QED BY <2>3 DEF v
<1>5. \A t \in {"CONNECT", "KEEPALIVE", "FINISH_JOB"} :
        t \in UpTypes /\ Packet(t, <<>>) \in UpPacket /\ Packet(t, <<>>).tasks = <<>>
  BY PacketTypes DEF UpTypes
<1> QED BY <1>3, <1>4, <1>5


\* The tasks of a job are different, and they are all of its tasks.
LEMMA Distinct ==
    ASSUME NEW j \in JobId
    PROVE  \A i, k \in DOMAIN FramesOf(j) : FramesOf(j)[i] = FramesOf(j)[k] => i = k
<1> SUFFICES ASSUME NEW i \in DOMAIN FramesOf(j), NEW k \in DOMAIN FramesOf(j),
                    FramesOf(j)[i] = FramesOf(j)[k]
             PROVE  i = k
  OBVIOUS
<1>1. Frames[j] \in Nat
  BY DispatchAssumption DEF JobId
<1>2. /\ FramesOf(j)[i] = [job |-> j, frame |-> i - 1] /\ FramesOf(j)[k] = [job |-> j, frame |-> k - 1]
      /\ i \in 1 .. Frames[j] /\ k \in 1 .. Frames[j]
  BY DEF FramesOf
<1>3. FramesOf(j)[i].frame = i - 1 /\ FramesOf(j)[k].frame = k - 1
  <2>1. [job |-> j, frame |-> i - 1].frame = i - 1 /\ [job |-> j, frame |-> k - 1].frame = k - 1
    OBVIOUS
  <2> QED BY <1>2, <2>1, Zenon
<1>4. i - 1 = k - 1
  BY <1>3
<1> QED BY <1>1, <1>2, <1>4

\* A job's frames are the tasks that name it.
LEMMA FramesOfJob ==
    ASSUME NEW j \in JobId
    PROVE  {FramesOf(j)[i] : i \in DOMAIN FramesOf(j)} = {t \in Task : t.job = j}
<1>1. Frames[j] \in Nat
  BY DispatchAssumption DEF JobId
<1>2. DOMAIN FramesOf(j) = 1 .. Frames[j] /\ \A i \in 1 .. Frames[j] : FramesOf(j)[i] = [job |-> j, frame |-> i - 1]
  BY DEF FramesOf
<1>3. ASSUME NEW i \in 1 .. Frames[j] PROVE FramesOf(j)[i] \in Task /\ FramesOf(j)[i].job = j
  <2>1. FramesOf(j) \in Seq(Task)
    BY FramesOfType
  <2>2. FramesOf(j)[i] \in Task
    <3> DEFINE s == FramesOf(j)
    <3>1. s \in Seq(Task) /\ i \in DOMAIN s
      BY <1>2, <2>1, Zenon
    <3> HIDE DEF s
    <3>2. s[i] \in Task
      BY <3>1
    <3> QED BY <3>2 DEF s
  <2>3. FramesOf(j)[i].job = j
    <3>1. [job |-> j, frame |-> i - 1].job = j
      OBVIOUS
    <3> QED BY <1>2, <3>1, Zenon
  <2> QED BY <2>2, <2>3
<1>4. ASSUME NEW t \in Task, t.job = j PROVE \E i \in 1 .. Frames[j] : t = FramesOf(j)[i]
  <2>1. PICK l \in JobId : t \in [job : {l}, frame : 0 .. Frames[l] - 1]
    BY DEF Task
  <2>2. l = j /\ t = [job |-> j, frame |-> t.frame] /\ t.frame \in 0 .. Frames[j] - 1
    BY <1>4, <2>1
  <2> DEFINE f == t.frame
             m == f + 1
  <2>3. f \in 0 .. Frames[j] - 1
    BY <2>2
  <2> HIDE DEF f
  <2>4. m \in 1 .. Frames[j] /\ m - 1 = f
    BY <1>1, <2>3
  <2> HIDE DEF m
  <2>5. FramesOf(j)[m] = [job |-> j, frame |-> f]
    BY <1>2, <2>4
  <2>6. t = [job |-> j, frame |-> f]
    BY <2>2 DEF f
  <2> QED BY <2>4, <2>5, <2>6
<1> QED BY <1>2, <1>3, <1>4


\* The report of a frame that is not counted yet counts it, and ends its job
\* when it was the last.
LEMMA CountOne ==
    ASSUME CountInv, submitted \in Nat, NEW t \in Task, t.job <= submitted, t \notin Counted, NotifyUpdate(t)
    PROVE  CountInv' /\ Counted' = Counted \cup {t} /\ Submitted' = Submitted
<1> DEFINE j == t.job
           f == t.frame
           all == 0 .. Frames[j] - 1
<1>1. j \in JobId /\ f \in all /\ t = [job |-> j, frame |-> f]
  <2>1. PICK l \in JobId : t \in [job : {l}, frame : 0 .. Frames[l] - 1]
    BY DEF Task
  <2>2. t.job = l /\ t = [job |-> l, frame |-> t.frame] /\ t.frame \in 0 .. Frames[l] - 1
    BY <2>1
  <2> QED BY <2>2
<1>2. Frames[j] \in Nat /\ submitted' = submitted /\ j <= submitted
  BY <1>1, DispatchAssumption DEF JobId, NotifyUpdate
<1>3. \A l \in JobId : \A x : [job |-> l, frame |-> x] \in Counted <=> x \in done[l]
  <2>1. \A l, x, k, y : [job |-> l, frame |-> x] = [job |-> k, frame |-> y] => l = k /\ x = y
    <3> SUFFICES ASSUME NEW l, NEW x, NEW k, NEW y, [job |-> l, frame |-> x] = [job |-> k, frame |-> y]
                 PROVE  l = k /\ x = y
      OBVIOUS
    <3>1. [job |-> l, frame |-> x].job = l /\ [job |-> l, frame |-> x].frame = x
      OBVIOUS
    <3>2. [job |-> k, frame |-> y].job = k /\ [job |-> k, frame |-> y].frame = y
      OBVIOUS
    <3> QED BY <3>1, <3>2
  <2>2. ASSUME NEW l \in JobId, NEW x, [job |-> l, frame |-> x] \in Counted PROVE x \in done[l]
    <3>1. PICK k \in JobId : \E y \in done[k] : [job |-> l, frame |-> x] = [job |-> k, frame |-> y]
      BY <2>2 DEF Counted
    <3>2. PICK y \in done[k] : [job |-> l, frame |-> x] = [job |-> k, frame |-> y]
      BY <3>1
    <3> QED BY <2>1, <3>2
  <2>3. ASSUME NEW l \in JobId, NEW x \in done[l] PROVE [job |-> l, frame |-> x] \in Counted
    BY DEF Counted
  <2> QED BY <2>2, <2>3
<1>4. f \notin done[j]
  BY <1>1, <1>3
<1>5. j \in jobs
  BY <1>1, <1>2, <1>4 DEF CountInv
<1>6. /\ frames_rendered' = [frames_rendered EXCEPT ![j] = frames_rendered[j] + 1]
      /\ done' = [done EXCEPT ![j] = done[j] \cup {f}]
      /\ jobs' = IF frames_rendered[j] + 1 = Frames[j] THEN jobs \ {j} ELSE jobs
  BY <1>5 DEF NotifyUpdate
<1>7. frames_rendered \in [JobId -> Nat] /\ done \in [JobId -> SUBSET Nat]
  BY DEF CountInv
<1> HIDE DEF j, f
<1>8. /\ done'[j] = done[j] \cup {f} /\ frames_rendered'[j] = frames_rendered[j] + 1
      /\ \A l \in JobId : l # j => done'[l] = done[l] /\ frames_rendered'[l] = frames_rendered[l]
  BY <1>1, <1>6, <1>7
<1>9. /\ IsFiniteSet(all) /\ Cardinality(all) = Frames[j]
  <2>1. IsFiniteSet(all) /\ Cardinality(all) = IF 0 > Frames[j] - 1 THEN 0 ELSE Frames[j] - 1 - 0 + 1
    <3> DEFINE m == Frames[j] - 1
    <3>1. m \in Int /\ 0 \in Int
      BY <1>2
    <3> HIDE DEF m
    <3>2. IsFiniteSet(0 .. m) /\ Cardinality(0 .. m) = IF 0 > m THEN 0 ELSE m - 0 + 1
      BY <3>1, FS_Interval
    <3> QED BY <3>2 DEF m
  <2> QED BY <1>2, <2>1
<1> HIDE DEF all
<1>10. done[j] \subseteq all /\ done'[j] \subseteq all
  BY <1>1, <1>8 DEF CountInv, all
<1>11. /\ IsFiniteSet(done[j]) /\ IsFiniteSet(done'[j])
       /\ Cardinality(done'[j]) = Frames[j] => done'[j] = all
  BY <1>9, <1>10, FS_Subset
<1>12. Cardinality(done'[j]) = Cardinality(done[j]) + 1
  BY <1>4, <1>8, <1>11, FS_AddElement
<1>13. frames_rendered[j] = Cardinality(done[j])
  BY <1>1 DEF CountInv
<1>14. Counted' = Counted \cup {t}
  <2>1. Counted' = UNION {{[job |-> l, frame |-> x] : x \in done'[l]} : l \in JobId}
    BY DEF Counted
  <2>2. \A y \in Counted' : y \in Counted \cup {t}
    <3> SUFFICES ASSUME NEW l \in JobId, NEW x \in done'[l]
                 PROVE  [job |-> l, frame |-> x] \in Counted \cup {t}
      BY <2>1
    <3>1. x \in done[l] \/ (l = j /\ x = f)
      BY <1>8
    <3> QED BY <1>1, <1>3, <3>1
  <2>3. \A y \in Counted \cup {t} : y \in Counted'
    <3>1. t \in Counted'
      BY <1>1, <1>8, <2>1
    <3>2. \A l \in JobId : done[l] \subseteq done'[l]
      BY <1>8
    <3> QED BY <2>1, <3>1, <3>2 DEF Counted
  <2> QED BY <2>2, <2>3
<1>15. CountInv'
  <2>1. frames_rendered' \in [JobId -> Nat] /\ done' \in [JobId -> SUBSET Nat]
    <3>1. frames_rendered[j] + 1 \in Nat
      BY <1>1, <1>7
    <3>2. done[j] \cup {f} \in SUBSET Nat
      BY <1>1, <1>7 DEF all
    <3> QED BY <1>6, <1>7, <3>1, <3>2
  <2>2. jobs' \subseteq 1 .. submitted'
    BY <1>2, <1>6 DEF CountInv
  <2>3. ASSUME NEW l \in JobId
        PROVE  /\ done'[l] \subseteq 0 .. Frames[l] - 1
               /\ frames_rendered'[l] = Cardinality(done'[l])
               /\ l > submitted' => done'[l] = {}
               /\ l <= submitted' /\ l \notin jobs' => done'[l] = 0 .. Frames[l] - 1
    <3>1. CASE l # j
      <4>1. l \notin jobs' => l \notin jobs
        BY <1>6, <3>1
      <4> QED BY <1>2, <1>8, <3>1, <4>1 DEF CountInv
    <3>2. CASE l = j
      <4>1. ~ (j > submitted)
        <5>1. submitted \in Nat /\ j \in Nat
          BY <1>1 DEF JobId
        <5> QED BY <1>2, <5>1
      <4>2. j \notin jobs' => frames_rendered[j] + 1 = Frames[j]
        BY <1>5, <1>6
      <4>3. j \notin jobs' => done'[j] = all
        BY <1>11, <1>12, <1>13, <4>2
      <4>4. frames_rendered'[j] = Cardinality(done'[j])
        BY <1>8, <1>12, <1>13
      <4> QED BY <1>2, <1>10, <3>2, <4>1, <4>3, <4>4 DEF all
    <3> QED BY <3>1, <3>2
  <2> QED BY <2>1, <2>2, <2>3 DEF CountInv
<1>16. Submitted' = Submitted
  BY <1>2 DEF Submitted
<1> QED BY <1>14, <1>15, <1>16

\* Every step keeps every frame in its one place, moves it to the next or counts it.
LEMMA FrameStep ==
    ASSUME Types, HandlerInv, BatchInv, WireTypes, FlowInv, RunInv, TokenInv,
           BatchOfOneJob, FrameInv, [Next]_vars
    PROVE  FrameInv'
<1>1. ASSUME NEW c \in Clients, HandleClient(c) PROVE FrameInv'
  <2>1. /\ UNCHANGED <<fresh, task_queue, tasks, new_jobs, active_tasks,
                       requests, down, render_queue, current,
                       send_queue, reported>>
        /\ up' = [up EXCEPT ![c] = Append(up[c], Packet("CONNECT", <<>>))]
        /\ CountsKept /\ disconnects' = disconnects
    BY <1>1 DEF HandleClient, Start, SendUp, queueVars, CountsKept
  <2>2. \A d \in Clients : \A k \in Index : Shown(TasksOf(up'[d]), k) = Shown(TasksOf(up[d]), k)
    BY <2>1, EmptyPacket DEF WireTypes
  <2>3. Kept({})
    BY <2>1, <2>2 DEF Kept, Untaken
  <2> QED BY <2>1, <2>3, FramesKept
<1>2. ASSUME NEW c \in Clients, RemoteStep(c) PROVE FrameInv'
  <2> SUFFICES ASSUME disconnects' = 0 PROVE FrameInv'
    BY DEF FrameInv
  <2>0. UNCHANGED queueVars /\ UNCHANGED managerVars /\ UNCHANGED handlerVars /\ ClientStep(c)
    BY <1>2 DEF RemoteStep
  <2>1. CASE RecvKeepAlive(c)
    <3>1. /\ UNCHANGED <<fresh, task_queue, tasks, new_jobs, active_tasks,
                         requests, reported, render_queue, current,
                         send_queue>>
          /\ down' = [down EXCEPT ![c] = Tail(down[c])] /\ down[c] # <<>> /\ Head(down[c]).type = "KEEPALIVE"
          /\ up' = [up EXCEPT ![c] = Append(up[c], Packet("KEEPALIVE", <<>>))]
          /\ CountsKept /\ disconnects = 0
      BY <2>0, <2>1 DEF RecvKeepAlive, SendUp, queueVars, managerVars, handlerVars, CountsKept
    <3>2. down[c] \in Seq(DownPacket)
      BY DEF WireTypes
    <3>3. /\ Shown(TasksOf(down[c]), 1) = down[c][1].tasks
          /\ \A k \in Index : Shown(TasksOf(Tail(down[c])), k) = Shown(TasksOf(down[c]), k + 1)
      BY <3>1, <3>2, ShownPackets
    <3>4. down[c][1].tasks = <<>>
      <4>1. 1 \in DOMAIN down[c] /\ down[c][1].type = "KEEPALIVE"
        BY <3>1, <3>2, Tailed
      <4> QED BY <4>1 DEF FlowInv, DownCargo
    <3>5. Holds[<<"down", c, 1>>] = <<>> /\ HoldsShift("down", c)
      <4>1. 1 \in Index /\ \A k \in Index : k + 1 \in Index
        BY DEF Index
      <4>2. down'[c] = Tail(down[c])
        BY <3>1 DEF WireTypes
      <4> QED BY <3>3, <3>4, <4>1, <4>2, HoldsClient DEF HoldsShift
    <3>6. Kept(QueueAt("down", c))
      <4>1. \A d \in Clients : d # c => down'[d] = down[d]
        BY <3>1 DEF WireTypes
      <4>2. \A k \in Index : <<"down", c, k>> \in QueueAt("down", c)
        BY DEF QueueAt
      <4>3. \A d \in Clients : \A k \in Index : Shown(TasksOf(up'[d]), k) = Shown(TasksOf(up[d]), k)
        BY <3>1, EmptyPacket DEF WireTypes
      <4> QED BY <3>1, <4>1, <4>2, <4>3 DEF Kept, Untaken
    <3>7. "down" \in Queues
      BY DEF Queues
    <3> QED BY <3>1, <3>5, <3>6, <3>7, FramesShifted
  <2>2. CASE RecvIssueJob(c)
    <3> DEFINE s == down[c][1].tasks
               n == Len(render_queue[c]) + 1
               b == <<"render_queue", c, n>>
               nil == <<>>
    <3>1. /\ UNCHANGED <<fresh, task_queue, tasks, new_jobs, active_tasks,
                         requests, reported, current, send_queue, up>>
          /\ down' = [down EXCEPT ![c] = Tail(down[c])] /\ down[c] # <<>>
          /\ render_queue' = [render_queue EXCEPT ![c] = Append(render_queue[c], Head(down[c]).tasks)]
          /\ CountsKept /\ disconnects = 0
      BY <2>0, <2>2 DEF RecvIssueJob, AddTask, queueVars, managerVars, handlerVars, CountsKept
    <3>2. /\ down[c] \in Seq(DownPacket)
          /\ Head(down[c]) = down[c][1] /\ s \in Batches /\ render_queue[c] \in Seq(Batches)
      <4>1. down[c] \in Seq(DownPacket)
        BY DEF WireTypes
      <4>2. Head(down[c]) = down[c][1] /\ down[c][1] \in DownPacket
        BY <3>1, <4>1, Tailed
      <4>3. s \in Batches
        BY <4>2, PacketTypes
      <4> QED BY <4>1, <4>2, <4>3 DEF WireTypes
    <3>3. down'[c] = Tail(down[c]) /\ render_queue'[c] = Append(render_queue[c], s)
      BY <3>1, <3>2 DEF WireTypes
    <3>4. /\ Shown(TasksOf(down[c]), 1) = s
          /\ \A k \in Index : Shown(TasksOf(down'[c]), k) = Shown(TasksOf(down[c]), k + 1)
      BY <3>1, <3>2, <3>3, ShownPackets
    <3>5. /\ n \in Index /\ Shown(render_queue[c], n) = <<>>
          /\ \A k \in Index : Shown(render_queue'[c], k) = IF k = n THEN s ELSE Shown(render_queue[c], k)
      <4> HIDE DEF s
      <4> QED BY <3>2, <3>3, ShownQueue
    <3> HIDE DEF n, s
    <3>6. b \in At /\ b \notin QueueAt("down", c) /\ 1 \in Index /\ "down" \in Queues
      BY <3>5, HoldsClient DEF Index, WithClient, QueueAt, Queues
    <3>7. Holds[<<"down", c, 1>>] = s /\ Holds[b] = nil /\ Holds'[b] = s
      BY <3>4, <3>5, <3>6, HoldsClient
    <3>8. HoldsShift("down", c)
      <4>1. \A k \in Index : k + 1 \in Index
        BY DEF Index
      <4> QED BY <3>4, <4>1, HoldsClient DEF HoldsShift
    <3>9. Kept(QueueAt("down", c) \cup {b})
      <4>1. \A d \in Clients : d # c => down'[d] = down[d] /\ render_queue'[d] = render_queue[d]
        BY <3>1 DEF WireTypes
      <4>2. \A k \in Index : <<"down", c, k>> \in QueueAt("down", c)
        BY DEF QueueAt
      <4>3. \A k \in Index : <<"render_queue", c, k>> \notin QueueAt("down", c) \cup {b} =>
              Shown(render_queue'[c], k) = Shown(render_queue[c], k)
        BY <3>5
      <4>4. \A d \in Clients : Untaken(d)' = Untaken(d)
        BY <3>1 DEF Untaken
      <4> QED BY <3>1, <4>1, <4>2, <4>3, <4>4 DEF Kept
    <3>10. s \in Seq(Task) /\ nil \in Seq(Task) /\ nil \o s = s
      BY <3>2 DEF Batches
    <3> HIDE DEF b, nil
    <3>11. HoldsPass("down", c, b, s, nil)
      BY <3>6, <3>7, <3>10 DEF HoldsPass
    <3> QED BY <3>1, <3>6, <3>8, <3>9, <3>11, FramesPassed
  <2>3. CASE GetTask(c)
    <3> DEFINE s == render_queue[c][1]
               b == <<"current", c, 1>>
               nil == <<>>
    <3>1. /\ UNCHANGED <<fresh, task_queue, tasks, new_jobs, active_tasks,
                         requests, reported, down, send_queue, up>>
          /\ render_queue' = [render_queue EXCEPT ![c] = Tail(render_queue[c])] /\ render_queue[c] # <<>>
          /\ current' = [current EXCEPT ![c] = Head(render_queue[c])] /\ main[c] = "get"
          /\ CountsKept /\ disconnects = 0
      BY <2>0, <2>3 DEF GetTask, queueVars, managerVars, handlerVars, CountsKept
    <3>2. render_queue[c] \in Seq(Batches) /\ Head(render_queue[c]) = s /\ s \in Batches
      <4>1. render_queue[c] \in Seq(Batches)
        BY DEF WireTypes
      <4> QED BY <3>1, <4>1, Tailed
    <3>3. render_queue'[c] = Tail(render_queue[c]) /\ current'[c] = s /\ current[c] = nil
      BY <3>1, <3>2 DEF WireTypes, FlowInv
    <3>4. /\ Shown(render_queue[c], 1) = s
          /\ \A k \in Index : Shown(render_queue'[c], k) = Shown(render_queue[c], k + 1)
      BY <3>1, <3>2, <3>3, ShownQueue
    <3> HIDE DEF s
    <3>6. b \in At /\ b \notin QueueAt("render_queue", c) /\ 1 \in Index /\ "render_queue" \in Queues
      BY HoldsClient DEF Index, WithClient, QueueAt, Queues
    <3>7. Holds[<<"render_queue", c, 1>>] = s /\ Holds[b] = nil /\ Holds'[b] = s
      BY <3>3, <3>4, <3>6, HoldsClient, HoldsOne
    <3>8. HoldsShift("render_queue", c)
      <4>1. \A k \in Index : k + 1 \in Index
        BY DEF Index
      <4> QED BY <3>4, <4>1, HoldsClient DEF HoldsShift
    <3>9. Kept(QueueAt("render_queue", c) \cup {b})
      <4>1. \A d \in Clients : d # c => render_queue'[d] = render_queue[d] /\ current'[d] = current[d]
        BY <3>1 DEF WireTypes
      <4>2. \A k \in Index : <<"render_queue", c, k>> \in QueueAt("render_queue", c)
        BY DEF QueueAt
      <4>3. \A d \in Clients : Untaken(d)' = Untaken(d)
        BY <3>1 DEF Untaken
      <4> QED BY <3>1, <4>1, <4>2, <4>3 DEF Kept
    <3>10. s \in Seq(Task) /\ nil \in Seq(Task) /\ nil \o s = s
      BY <3>2 DEF Batches
    <3> HIDE DEF b, nil
    <3>11. HoldsPass("render_queue", c, b, s, nil)
      BY <3>6, <3>7, <3>10 DEF HoldsPass
    <3> QED BY <3>1, <3>6, <3>8, <3>9, <3>11, FramesPassed
  <2>4. CASE RequestMoreJobs(c)
    <3>1. /\ UNCHANGED <<fresh, task_queue, tasks, new_jobs, active_tasks,
                         requests, reported, down, render_queue,
                         current, send_queue>>
          /\ up' = [up EXCEPT ![c] = Append(up[c], Packet("FINISH_JOB", <<>>))]
          /\ CountsKept /\ disconnects' = disconnects
      BY <2>0, <2>4 DEF RequestMoreJobs, SendUp, queueVars, managerVars, handlerVars, CountsKept
    <3>2. \A d \in Clients : \A k \in Index : Shown(TasksOf(up'[d]), k) = Shown(TasksOf(up[d]), k)
      BY <3>1, EmptyPacket DEF WireTypes
    <3>3. Kept({})
      BY <3>1, <3>2 DEF Kept, Untaken
    <3> QED BY <3>1, <3>3, FramesKept
  <2>5. CASE UpdateServer(c)
    <3> DEFINE x == current[c]
               w == send_queue[c]
               a == <<"current", c, 1>>
               b == <<"send_queue", c, 1>>
               nil == <<>>
    <3>1. /\ UNCHANGED <<fresh, task_queue, tasks, new_jobs, active_tasks,
                         requests, reported, down, render_queue, up>>
          /\ send_queue' = [send_queue EXCEPT ![c] = w \o x]
          /\ current' = [current EXCEPT ![c] = nil]
          /\ CountsKept /\ disconnects = 0
      BY <2>0, <2>5 DEF UpdateServer, queueVars, managerVars, handlerVars, CountsKept
    <3>2. x \in Seq(Task) /\ w \in Seq(Task) /\ nil \in Seq(Task) /\ x = x \o nil
      <4>1. x \in Seq(Task) /\ w \in Seq(Task)
        BY DEF WireTypes, Batches
      <4> QED BY <4>1
    <3>3. send_queue'[c] = w \o x /\ current'[c] = nil
      BY <3>1 DEF WireTypes
    <3>4. a \in At /\ b \in At /\ a # b /\ 1 \in Index
      BY HoldsClient DEF Index, WithClient
    <3>5. Holds[a] = x /\ Holds[b] = w /\ Holds'[a] = nil /\ Holds'[b] = w \o x
      BY <3>3, <3>4, HoldsClient, HoldsOne
    <3>6. Kept({a, b})
      <4>1. \A d \in Clients : d # c => send_queue'[d] = send_queue[d] /\ current'[d] = current[d]
        BY <3>1 DEF WireTypes
      <4>2. \A d \in Clients : Untaken(d)' = Untaken(d)
        BY <3>1 DEF Untaken
      <4> QED BY <3>1, <4>1, <4>2 DEF Kept
    <3> HIDE DEF a, b, nil, x, w
    <3>7. HoldsMove(a, b, x, nil, w)
      BY <3>2, <3>4, <3>5 DEF HoldsMove
    <3> QED BY <3>1, <3>6, <3>7, FramesMoved
  <2>6. CASE SendUpdate(c)
    <3> DEFINE s == send_queue[c]
               n == Len(up[c]) + 1
               a == <<"send_queue", c, 1>>
               b == <<"up", c, n>>
               nil == <<>>
    <3>1. /\ UNCHANGED <<fresh, task_queue, tasks, new_jobs, active_tasks,
                         requests, reported, down, render_queue,
                         current>>
          /\ up' = [up EXCEPT ![c] = Append(up[c], Packet("UPDATE_JOB", s))]
          /\ send_queue' = [send_queue EXCEPT ![c] = nil]
          /\ CountsKept /\ disconnects = 0
      BY <2>0, <2>6 DEF SendUpdate, SendUp, queueVars, managerVars, handlerVars, CountsKept
    <3>2. s \in Batches /\ s \in Seq(Task) /\ nil \in Seq(Task) /\ s = s \o nil /\ nil \o s = s
      <4>1. s \in Batches /\ s \in Seq(Task)
        BY DEF WireTypes, Batches
      <4> QED BY <4>1
    <3>3. up'[c] = Append(up[c], Packet("UPDATE_JOB", s)) /\ send_queue'[c] = nil
      BY <3>1 DEF WireTypes
    <3>4. /\ n \in Index /\ Shown(TasksOf(up[c]), n) = <<>>
          /\ \A k \in Index : Shown(TasksOf(up'[c]), k) = IF k = n THEN s ELSE Shown(TasksOf(up[c]), k)
      <4>1. up[c] \in Seq(UpPacket)
        BY DEF WireTypes
      <4>2. /\ Packet("UPDATE_JOB", s) \in UpPacket
            /\ Packet("UPDATE_JOB", s).tasks = s
        BY <3>2, PacketTypes
      <4> QED BY <3>3, <4>1, <4>2, ShownPackets
    <3> HIDE DEF n, s
    <3>5. a \in At /\ b \in At /\ a # b /\ 1 \in Index
      BY <3>4, HoldsClient DEF Index, WithClient
    <3>6. Holds[a] = s /\ Holds[b] = nil /\ Holds'[a] = nil /\ Holds'[b] = s
      <4>1. Holds[a] = s
        BY <3>5, HoldsClient, HoldsOne DEF s
      <4> QED BY <3>3, <3>4, <3>5, <4>1, HoldsClient, HoldsOne
    <3>7. Kept({a, b})
      <4>1. \A d \in Clients : d # c => send_queue'[d] = send_queue[d] /\ up'[d] = up[d]
        BY <3>1 DEF WireTypes
      <4>2. \A d \in Clients : Untaken(d)' = Untaken(d)
        BY <3>1 DEF Untaken
      <4>3. \A k \in Index : <<"up", c, k>> \notin {a, b} =>
              Shown(TasksOf(up'[c]), k) = Shown(TasksOf(up[c]), k)
        BY <3>4
      <4> QED BY <3>1, <4>1, <4>2, <4>3 DEF Kept
    <3> HIDE DEF a, b, nil
    <3>8. HoldsMove(a, b, s, nil, nil)
      BY <3>2, <3>5, <3>6 DEF HoldsMove
    <3> QED BY <3>1, <3>7, <3>8, FramesMoved
  <2>7. CASE Disconnect(c)
    <3>1. disconnects' = disconnects + 1 /\ disconnects \in Nat
      BY <2>7 DEF Disconnect, WireTypes
    <3> QED BY <3>1
  <2> QED BY <2>0, <2>1, <2>2, <2>3, <2>4, <2>5, <2>6, <2>7 DEF ClientStep
<1>3. ASSUME NEW c \in Clients, HandleConnect(c) PROVE FrameInv'
  <2> SUFFICES ASSUME disconnects' = 0 PROVE FrameInv'
    BY DEF FrameInv
  <2>1. /\ UNCHANGED <<fresh, task_queue, tasks, new_jobs, active_tasks,
                       requests, down, render_queue, current,
                       send_queue, reported>>
        /\ up' = [up EXCEPT ![c] = Tail(up[c])] /\ up[c] # <<>> /\ Head(up[c]).type = "CONNECT"
        /\ CountsKept /\ disconnects = 0
    BY <1>3 DEF HandleConnect, Received, Consume, NotifyFinish, clientVars, queueVars, managerVars, handlerVars, CountsKept
  <2>2. up[c] \in Seq(UpPacket)
    BY DEF WireTypes
  <2>3. /\ Shown(TasksOf(up[c]), 1) = up[c][1].tasks
        /\ \A k \in Index : Shown(TasksOf(Tail(up[c])), k) = Shown(TasksOf(up[c]), k + 1)
    BY <2>1, <2>2, ShownPackets
  <2>4. up[c][1].tasks = <<>>
    <3>1. 1 \in DOMAIN up[c] /\ up[c][1].type # "UPDATE_JOB"
      BY <2>1, <2>2, Tailed
    <3> QED BY <3>1 DEF FlowInv, UpCargo
  <2>5. Holds[<<"up", c, 1>>] = <<>> /\ HoldsShift("up", c)
    <3>1. 1 \in Index /\ \A k \in Index : k + 1 \in Index
      BY DEF Index
    <3>2. up'[c] = Tail(up[c])
      BY <2>1 DEF WireTypes
    <3> QED BY <2>3, <2>4, <3>1, <3>2, HoldsClient DEF HoldsShift
  <2>6. Kept(QueueAt("up", c))
    <3>1. \A d \in Clients : d # c => up'[d] = up[d]
      BY <2>1 DEF WireTypes
    <3>2. \A k \in Index : <<"up", c, k>> \in QueueAt("up", c)
      BY DEF QueueAt
    <3> QED BY <2>1, <3>1, <3>2 DEF Kept, Untaken
  <2>7. "up" \in Queues
    BY DEF Queues
  <2> QED BY <2>1, <2>5, <2>6, <2>7, FramesShifted
<1>4. ASSUME NEW c \in Clients, HandleKeepAlive(c) PROVE FrameInv'
  <2> SUFFICES ASSUME disconnects' = 0 PROVE FrameInv'
    BY DEF FrameInv
  <2>1. /\ UNCHANGED <<fresh, task_queue, tasks, new_jobs, active_tasks,
                       requests, down, render_queue, current,
                       send_queue, reported>>
        /\ up' = [up EXCEPT ![c] = Tail(up[c])] /\ up[c] # <<>> /\ Head(up[c]).type = "KEEPALIVE"
        /\ CountsKept /\ disconnects = 0
    BY <1>4 DEF HandleKeepAlive, Received, Consume, NotifyFinish, clientVars, queueVars, managerVars, handlerVars, CountsKept
  <2>2. up[c] \in Seq(UpPacket)
    BY DEF WireTypes
  <2>3. /\ Shown(TasksOf(up[c]), 1) = up[c][1].tasks
        /\ \A k \in Index : Shown(TasksOf(Tail(up[c])), k) = Shown(TasksOf(up[c]), k + 1)
    BY <2>1, <2>2, ShownPackets
  <2>4. up[c][1].tasks = <<>>
    <3>1. 1 \in DOMAIN up[c] /\ up[c][1].type # "UPDATE_JOB"
      BY <2>1, <2>2, Tailed
    <3> QED BY <3>1 DEF FlowInv, UpCargo
  <2>5. Holds[<<"up", c, 1>>] = <<>> /\ HoldsShift("up", c)
    <3>1. 1 \in Index /\ \A k \in Index : k + 1 \in Index
      BY DEF Index
    <3>2. up'[c] = Tail(up[c])
      BY <2>1 DEF WireTypes
    <3> QED BY <2>3, <2>4, <3>1, <3>2, HoldsClient DEF HoldsShift
  <2>6. Kept(QueueAt("up", c))
    <3>1. \A d \in Clients : d # c => up'[d] = up[d]
      BY <2>1 DEF WireTypes
    <3>2. \A k \in Index : <<"up", c, k>> \in QueueAt("up", c)
      BY DEF QueueAt
    <3> QED BY <2>1, <3>1, <3>2 DEF Kept, Untaken
  <2>7. "up" \in Queues
    BY DEF Queues
  <2> QED BY <2>1, <2>5, <2>6, <2>7, FramesShifted
<1>5. ASSUME NEW c \in Clients, ReadUpdate(c) PROVE FrameInv'
  <2> SUFFICES ASSUME disconnects' = 0 PROVE FrameInv'
    BY DEF FrameInv
  <2> DEFINE frames == up[c][1].tasks
             x == <<frames[1]>>
             y == Tail(frames)
             a == <<"up", c, 1>>
             b == <<"reported", c, 1>>
             nil == <<>>
  <2>1. /\ UNCHANGED <<fresh, task_queue, tasks, new_jobs, active_tasks,
                       requests, down, render_queue, current,
                       send_queue>>
        /\ response[c] = "recv" /\ CountsKept /\ disconnects = 0
    BY <1>5, UpdateFacts, ReadFacts DEF managerVars, queueVars, CountsKept
  <2>2. /\ up[c] \in Seq(UpPacket) /\ up[c] # <<>> /\ 1 \in DOMAIN up[c]
        /\ frames \in Seq(Task) /\ frames # <<>> /\ frames[1] \in Task /\ Len(frames) \in Nat
        /\ y \in Seq(Task) /\ Len(y) = Len(frames) - 1
        /\ Packet("UPDATE_JOB", y) \in UpPacket
        /\ reported' = [reported EXCEPT ![c] = x]
        /\ Len(frames) = 1 => up' = [up EXCEPT ![c] = Tail(up[c])]
        /\ Len(frames) # 1 => up' = [up EXCEPT ![c] = [up[c] EXCEPT ![1] = Packet("UPDATE_JOB", y)]]
    BY <1>5, UpdateFacts
  <2>3. x \in Seq(Task) /\ nil \in Seq(Task) /\ frames = x \o y /\ nil \o x = x
    BY <2>2
  <2>4. reported[c] = nil /\ reported'[c] = x /\ \A d \in Clients : d # c => reported'[d] = reported[d]
    <3>1. Len(reported[c]) = 0 /\ reported[c] \in Seq(Task)
      BY <2>1 DEF FlowInv, WireTypes, Batches
    <3> QED BY <2>2, <3>1 DEF WireTypes
  <2>5. \A d \in Clients : d # c => up'[d] = up[d]
    BY <2>2 DEF WireTypes
  <2>6. /\ a \in At /\ b \in At /\ a # b /\ 1 \in Index
        /\ \A k \in Index : <<"up", c, k>> # b
    BY HoldsClient DEF Index, WithClient
  <2>7. Holds[a] = frames /\ Holds[b] = nil /\ Holds'[b] = x
    <3>1. Shown(TasksOf(up[c]), 1) = frames
      BY <2>2, ShownPackets
    <3> QED BY <2>4, <2>6, <3>1, HoldsClient, HoldsOne
  <2>8. CASE Len(frames) = 1
    <3>1. up'[c] = Tail(up[c]) /\ frames = x
      <4>1. Len(y) = 0
        BY <2>2, <2>8
      <4> HIDE DEF y
      <4>2. y = <<>>
        BY <2>2, <4>1, EmptySeq
      <4>3. x \o <<>> = x
        BY <2>3
      <4> QED BY <2>2, <2>3, <2>8, <4>2, <4>3 DEF WireTypes
    <3>2. \A k \in Index : Shown(TasksOf(up'[c]), k) = Shown(TasksOf(up[c]), k + 1)
      BY <2>2, <3>1, ShownPackets
    <3>3. HoldsShift("up", c)
      <4>1. \A k \in Index : k + 1 \in Index
        BY DEF Index
      <4> QED BY <3>2, <4>1, HoldsClient DEF HoldsShift
    <3>4. Kept(QueueAt("up", c) \cup {b})
      <4>1. \A k \in Index : <<"up", c, k>> \in QueueAt("up", c)
        BY DEF QueueAt
      <4>2. \A d \in Clients : Untaken(d)' = Untaken(d)
        BY <2>1 DEF Untaken
      <4> QED BY <2>1, <2>4, <2>5, <4>1, <4>2 DEF Kept
    <3>5. "up" \in Queues /\ b \notin QueueAt("up", c)
      BY <2>6 DEF Queues, QueueAt
    <3> HIDE DEF b, nil, x, frames
    <3>6. HoldsPass("up", c, b, x, nil)
      BY <2>3, <2>6, <2>7, <3>1, <3>5 DEF HoldsPass
    <3> QED BY <2>1, <3>3, <3>4, <3>5, <3>6, FramesPassed
  <2>9. CASE Len(frames) # 1
    <3>1. up'[c] = [up[c] EXCEPT ![1] = Packet("UPDATE_JOB", y)]
      BY <2>2, <2>9 DEF WireTypes
    <3>2. \A k \in Index : Shown(TasksOf(up'[c]), k) = IF k = 1 THEN y ELSE Shown(TasksOf(up[c]), k)
      <4> DEFINE v == Packet("UPDATE_JOB", y)
      <4>1. v.tasks = y /\ v \in UpPacket /\ up'[c] = [up[c] EXCEPT ![1] = v]
        BY <2>2, <3>1 DEF Packet
      <4> HIDE DEF v, y
      <4>2. \A k \in Index : Shown(TasksOf([up[c] EXCEPT ![1] = v]), k)
                                = IF k = 1 THEN v.tasks ELSE Shown(TasksOf(up[c]), k)
        <5> DEFINE u == up[c]
        <5>1. u \in Seq(UpPacket) /\ u # <<>>
          BY <2>2
        <5> HIDE DEF u
        <5>2. \A k \in Index : Shown(TasksOf([u EXCEPT ![1] = v]), k)
                                  = IF k = 1 THEN v.tasks ELSE Shown(TasksOf(u), k)
          BY <4>1, <5>1, ShownPackets
        <5> QED BY <5>2 DEF u
      <4> QED BY <4>1, <4>2
    <3>3. Holds'[a] = y
      BY <2>6, <3>2, HoldsClient
    <3>4. Kept({a, b})
      <4>1. \A k \in Index : <<"up", c, k>> \notin {a, b} =>
              Shown(TasksOf(up'[c]), k) = Shown(TasksOf(up[c]), k)
        BY <3>2
      <4>2. \A d \in Clients : Untaken(d)' = Untaken(d)
        BY <2>1 DEF Untaken
      <4> QED BY <2>1, <2>4, <2>5, <4>1, <4>2 DEF Kept
    <3> HIDE DEF a, b, nil, x, y, frames
    <3>5. HoldsMove(a, b, x, y, nil)
      BY <2>2, <2>3, <2>6, <2>7, <3>3 DEF HoldsMove
    <3> QED BY <2>1, <3>4, <3>5, FramesMoved
  <2> QED BY <2>8, <2>9
<1>6. ASSUME NEW c \in Clients, CountUpdate(c) PROVE FrameInv'
  <2> SUFFICES ASSUME disconnects' = 0 PROVE FrameInv'
    BY DEF FrameInv
  <2> DEFINE a == <<"reported", c, 1>>
             t == reported[c][1]
  <2>1. /\ UNCHANGED <<fresh, task_queue, tasks, new_jobs, active_tasks,
                       requests, down, render_queue, current,
                       send_queue, up>>
        /\ response[c] = "count" /\ NotifyUpdate(t) /\ disconnects = 0
        /\ reported' = [reported EXCEPT ![c] = <<>>]
    BY <1>6 DEF CountUpdate, NotifyUpdate, clientVars, queueVars, managerVars, handlerVars
  <2>2. reported[c] \in Seq(Task) /\ Len(reported[c]) = 1
    BY <2>1 DEF FlowInv, WireTypes, Batches
  <2>3. reported[c] = <<t>> /\ t \in Task
    BY <2>2
  <2>4. reported'[c] = <<>> /\ \A d \in Clients : d # c => reported'[d] = reported[d]
    BY <2>1 DEF WireTypes
  <2>5. a \in At /\ Holds[a] = <<t>> /\ Holds'[a] = <<>>
    BY <2>3, <2>4, HoldsOne
  <2>6. \A p \in At \ {a} : Holds'[p] = Holds[p]
    <3>1. Kept({a})
      <4>1. \A d \in Clients : Untaken(d)' = Untaken(d)
        BY <2>1 DEF Untaken
      <4>2. \A d \in Clients : <<"reported", d, 1>> \notin {a} => reported'[d] = reported[d]
        BY <2>4
      <4> QED BY <2>1, <4>1, <4>2 DEF Kept
    <3> QED BY <3>1, Elsewhere
  <2>7. Once(At, Holds, Submitted \ Counted) /\ CountInv
    BY <2>1 DEF FrameInv
  <2> HIDE DEF a, t
  <2>8. t \in Submitted \ Counted /\ Once(At, Holds', (Submitted \ Counted) \ {t})
    <3> DEFINE H == Holds
               G == Holds'
               S == Submitted \ Counted
    <3>1. Once(At, H, S) /\ RemovalOf(At, H, G, a, t)
      BY <2>5, <2>6, <2>7 DEF RemovalOf
    <3> HIDE DEF H, G, S
    <3>2. t \in S /\ Once(At, G, S \ {t})
      BY <3>1, Removed
    <3> QED BY <3>2 DEF G, S
  <2>9. t.job <= submitted
    BY <2>8 DEF Submitted
  <2>10. CountInv' /\ Counted' = Counted \cup {t} /\ Submitted' = Submitted
    BY <2>1, <2>3, <2>7, <2>8, <2>9, CountOne DEF BatchInv
  <2>11. Submitted' \ Counted' = (Submitted \ Counted) \ {t}
    BY <2>10
  <2> QED BY <2>8, <2>10, <2>11 DEF FrameInv
<1>7. ASSUME NEW c \in Clients, HandleFinish(c) PROVE FrameInv'
  <2> SUFFICES ASSUME disconnects' = 0 PROVE FrameInv'
    BY DEF FrameInv
  <2>1. /\ UNCHANGED <<fresh, task_queue, tasks, new_jobs, active_tasks,
                       requests, down, render_queue, current,
                       send_queue, reported>>
        /\ up' = [up EXCEPT ![c] = Tail(up[c])] /\ up[c] # <<>> /\ Head(up[c]).type = "FINISH_JOB"
        /\ CountsKept /\ disconnects = 0
    BY <1>7 DEF HandleFinish, Received, Consume, NotifyFinish, clientVars, queueVars, managerVars, handlerVars, CountsKept
  <2>2. up[c] \in Seq(UpPacket)
    BY DEF WireTypes
  <2>3. /\ Shown(TasksOf(up[c]), 1) = up[c][1].tasks
        /\ \A k \in Index : Shown(TasksOf(Tail(up[c])), k) = Shown(TasksOf(up[c]), k + 1)
    BY <2>1, <2>2, ShownPackets
  <2>4. up[c][1].tasks = <<>>
    <3>1. 1 \in DOMAIN up[c] /\ up[c][1].type # "UPDATE_JOB"
      BY <2>1, <2>2, Tailed
    <3> QED BY <3>1 DEF FlowInv, UpCargo
  <2>5. Holds[<<"up", c, 1>>] = <<>> /\ HoldsShift("up", c)
    <3>1. 1 \in Index /\ \A k \in Index : k + 1 \in Index
      BY DEF Index
    <3>2. up'[c] = Tail(up[c])
      BY <2>1 DEF WireTypes
    <3> QED BY <2>3, <2>4, <3>1, <3>2, HoldsClient DEF HoldsShift
  <2>6. Kept(QueueAt("up", c))
    <3>1. \A d \in Clients : d # c => up'[d] = up[d]
      BY <2>1 DEF WireTypes
    <3>2. \A k \in Index : <<"up", c, k>> \in QueueAt("up", c)
      BY DEF QueueAt
    <3> QED BY <2>1, <3>1, <3>2 DEF Kept, Untaken
  <2>7. "up" \in Queues
    BY DEF Queues
  <2> QED BY <2>1, <2>5, <2>6, <2>7, FramesShifted
<1>8. ASSUME NEW c \in Clients, ResponseEnd(c) PROVE FrameInv'
  <2>1. /\ UNCHANGED <<fresh, task_queue, tasks, new_jobs, active_tasks,
                       requests, down, render_queue, current,
                       send_queue, up, reported>>
        /\ CountsKept /\ disconnects' = disconnects
    BY <1>8 DEF ResponseEnd, clientVars, queueVars, managerVars, handlerVars, CountsKept
  <2> QED BY <2>1, AllKept, FramesKept
<1>9. ASSUME NEW c \in Clients, ResponseRemove(c) PROVE FrameInv'
  <2>1. /\ UNCHANGED <<fresh, task_queue, tasks, new_jobs, active_tasks,
                       requests, down, render_queue, current,
                       send_queue, up, reported>>
        /\ CountsKept /\ disconnects' = disconnects
    BY <1>9 DEF ResponseRemove, clientVars, queueVars, managerVars, handlerVars,
      CountsKept
  <2> QED BY <2>1, AllKept, FramesKept
<1>10. ASSUME NEW c \in Clients, ResponseReturn(c) PROVE FrameInv'
  <2> SUFFICES ASSUME disconnects' = 0 PROVE FrameInv'
    BY DEF FrameInv
  <2>1. disconnects = 0 /\ response[c] = "remove"
    BY <1>10 DEF ResponseReturn, clientVars
  <2>2. main[c] # "new" /\ ~ active[c]
    BY <2>1 DEF HandlerInv
  <2>3. main[c] = "gone"
    BY <2>2 DEF RunInv, Alive
  <2> QED BY <2>1, <2>3 DEF RunInv
<1>11. ASSUME NEW c \in Clients, IssueTake(c) PROVE FrameInv'
  <2> SUFFICES ASSUME disconnects' = 0 PROVE FrameInv'
    BY DEF FrameInv
  <2> DEFINE a == <<"new_jobs", c, 1>>
             b == <<"requests", c, 1>>
             nil == <<>>
             s == active_tasks[c]
  <2>1. /\ UNCHANGED <<fresh, task_queue, tasks, active_tasks, down,
                       render_queue, current, send_queue, up,
                       reported>>
        /\ new_jobs[c] /\ issue[c] = "wait"
        /\ new_jobs' = [new_jobs EXCEPT ![c] = FALSE]
        /\ requests' = [requests EXCEPT ![c] = Requests(s)]
        /\ CountsKept /\ disconnects = 0
    BY <1>11 DEF IssueTake, clientVars, queueVars, managerVars, handlerVars, CountsKept
  <2>2. requests[c] = <<>> /\ Requests(s) = <<[type |-> "ISSUE_JOB", tasks |-> s]>> /\ s \in Seq(Task)
    <3>1. s \in Seq(Task) /\ SingleJob(s)
      BY <2>1 DEF FlowInv, BatchInv
    <3>2. Len(s) \in 1 .. MAX_JOB_CAPABILITY
      BY <2>1 DEF BatchInv
    <3>3. s # <<>>
      BY <3>2
    <3> QED BY <2>1, <3>1, <3>3, RequestsOfOne DEF FlowInv
  <2>3. /\ new_jobs'[c] = FALSE /\ active_tasks'[c] = s
        /\ requests'[c] = <<[type |-> "ISSUE_JOB", tasks |-> s]>>
    BY <2>1, <2>2 DEF BatchInv, WireTypes
  <2>4. \A k \in Index : /\ Shown(TasksOf(requests[c]), k) = <<>>
                         /\ Shown(TasksOf(requests'[c]), k) = IF k = 1 THEN s ELSE <<>>
    <3>1. TasksOf(<<>>) = <<>>
      BY DEF TasksOf
    <3>2. TasksOf(<<[type |-> "ISSUE_JOB", tasks |-> s]>>) = <<s>>
      BY DEF TasksOf
    <3> HIDE DEF s
    <3> QED BY <2>2, <2>3, <3>1, <3>2, ShownOne DEF Shown, Index
  <2>5. a \in At /\ b \in At /\ a # b
    BY HoldsClient DEF Index, WithClient
  <2>6. Holds[a] = s /\ Holds[b] = nil /\ Holds'[a] = nil /\ Holds'[b] = s
    BY <2>1, <2>3, <2>4, HoldsClient, HoldsOne DEF Index
  <2>7. nil \in Seq(Task) /\ s = s \o nil /\ s = nil \o s
    BY <2>2
  <2>8. Kept({a, b})
    <3>1. \A d \in Clients : d # c => Untaken(d)' = Untaken(d) /\ requests'[d] = requests[d]
      BY <2>1 DEF Untaken, BatchInv, WireTypes
    <3>2. \A k \in Index : <<"requests", c, k>> \notin {a, b} => k # 1
      OBVIOUS
    <3>3. \A k \in Index : <<"requests", c, k>> \notin {a, b} =>
            Shown(TasksOf(requests'[c]), k) = Shown(TasksOf(requests[c]), k)
      BY <2>4, <3>2
    <3> QED BY <2>1, <3>1, <3>3 DEF Kept
  <2> HIDE DEF a, b, nil, s
  <2>9. HoldsMove(a, b, s, nil, nil)
    BY <2>2, <2>5, <2>6, <2>7 DEF HoldsMove
  <2> QED BY <2>1, <2>8, <2>9, FramesMoved
<1>12. ASSUME NEW c \in Clients, IssueSend(c) PROVE FrameInv'
  <2> SUFFICES ASSUME disconnects' = 0 PROVE FrameInv'
    BY DEF FrameInv
  <2> DEFINE s == requests[c][1].tasks
             n == Len(down[c]) + 1
             a == <<"requests", c, 1>>
             b == <<"down", c, n>>
             nil == <<>>
  <2>1. /\ UNCHANGED <<fresh, task_queue, tasks, new_jobs, active_tasks,
                       render_queue, current, send_queue, up,
                       reported>>
        /\ issue[c] = "send"
        /\ requests' = [requests EXCEPT ![c] = Tail(requests[c])]
        /\ SendDown(c, Head(requests[c]))
        /\ CountsKept /\ disconnects = 0
    BY <1>12 DEF IssueSend, clientVars, queueVars, managerVars, handlerVars, CountsKept
  <2>2. Alive(c)
    BY <2>1 DEF Alive, HandlerInv, RunInv
  <2>3. /\ requests[c] \in Seq(JobPacket) /\ Len(requests[c]) = 1 /\ requests[c] # <<>>
        /\ Head(requests[c]) = requests[c][1] /\ requests[c][1] \in JobPacket
    <3>1. requests[c] \in Seq(JobPacket) /\ Len(requests[c]) = 1
      BY <2>1 DEF FlowInv, WireTypes
    <3>2. requests[c] # <<>>
      BY <3>1
    <3> QED BY <3>1, <3>2, Tailed
  <2>4. /\ down' = [down EXCEPT ![c] = Append(down[c], requests[c][1])]
        /\ down'[c] = Append(down[c], requests[c][1])
        /\ requests'[c] = Tail(requests[c])
    BY <2>1, <2>2, <2>3 DEF SendDown, WireTypes
  <2>5. s \in Seq(Task) /\ requests[c][1] \in DownPacket
    BY <2>3 DEF JobPacket, DownPacket, Batches
  <2>6. /\ Shown(TasksOf(requests[c]), 1) = s
        /\ \A k \in Index : Shown(TasksOf(requests'[c]), k) = <<>>
        /\ \A k \in Index : k # 1 => Shown(TasksOf(requests[c]), k) = <<>>
    <3>1. DOMAIN requests[c] = 1 .. 1 /\ DOMAIN Tail(requests[c]) = {}
      <4>1. DOMAIN requests[c] = 1 .. Len(requests[c])
        BY <2>3
      <4>2. DOMAIN Tail(requests[c]) = 1 .. Len(requests[c]) - 1
        BY <2>3, Tailed
      <4>3. 1 .. 1 - 1 = {}
        OBVIOUS
      <4> QED BY <2>3, <4>1, <4>2, <4>3
    <3> QED BY <2>4, <3>1 DEF Shown, TasksOf, Index
  <2>7. /\ n \in Index /\ Shown(TasksOf(down[c]), n) = <<>>
        /\ \A k \in Index : Shown(TasksOf(down'[c]), k) = IF k = n THEN s ELSE Shown(TasksOf(down[c]), k)
    <3>1. down[c] \in Seq(DownPacket)
      BY DEF WireTypes
    <3>2. requests[c][1] \in DownPacket
      BY <2>5 DEF DownPacket
    <3> QED BY <2>4, <3>1, <3>2, ShownPackets
  <2> HIDE DEF n, s
  <2>8. a \in At /\ b \in At /\ a # b
    BY <2>7, HoldsClient DEF Index, WithClient
  <2>9. Holds[a] = s /\ Holds[b] = nil /\ Holds'[a] = nil /\ Holds'[b] = s
    BY <2>6, <2>7, HoldsClient DEF Index
  <2>10. nil \in Seq(Task) /\ s = s \o nil /\ s = nil \o s
    BY <2>5
  <2>11. Kept({a, b})
    <3>1. \A d \in Clients : d # c => down'[d] = down[d] /\ requests'[d] = requests[d]
      BY <2>1, <2>4 DEF WireTypes
    <3>2. \A k \in Index : <<"requests", c, k>> \notin {a, b} =>
            Shown(TasksOf(requests'[c]), k) = Shown(TasksOf(requests[c]), k)
      BY <2>6
    <3>3. \A k \in Index : <<"down", c, k>> \notin {a, b} =>
            Shown(TasksOf(down'[c]), k) = Shown(TasksOf(down[c]), k)
      BY <2>7
    <3>4. \A d \in Clients : Untaken(d)' = Untaken(d)
      BY <2>1 DEF Untaken
    <3> QED BY <2>1, <3>1, <3>2, <3>3, <3>4 DEF Kept
  <2> HIDE DEF a, b, nil
  <2>12. HoldsMove(a, b, s, nil, nil)
    BY <2>5, <2>8, <2>9, <2>10 DEF HoldsMove
  <2> QED BY <2>1, <2>11, <2>12, FramesMoved
<1>13. ASSUME NEW c \in Clients, IssueFail(c) PROVE FrameInv'
  <2> SUFFICES ASSUME disconnects' = 0 PROVE FrameInv'
    BY DEF FrameInv
  <2>1. disconnects = 0 /\ issue[c] = "send" /\ (~ active[c] \/ main[c] = "gone")
    BY <1>13 DEF IssueFail, clientVars
  <2>2. main[c] # "new"
    BY <2>1 DEF HandlerInv
  <2>3. main[c] = "gone"
    BY <2>1, <2>2 DEF RunInv, Alive
  <2> QED BY <2>1, <2>3 DEF RunInv
<1>14. ASSUME NEW c \in Clients, IssueRemove(c) PROVE FrameInv'
  <2>1. /\ UNCHANGED <<fresh, task_queue, tasks, new_jobs, active_tasks,
                       requests, down, render_queue, current,
                       send_queue, up, reported>>
        /\ CountsKept /\ disconnects' = disconnects
    BY <1>14 DEF IssueRemove, clientVars, queueVars, managerVars, handlerVars, CountsKept
  <2> QED BY <2>1, AllKept, FramesKept
<1>15. ASSUME NEW c \in Clients, IssueEnd(c) PROVE FrameInv'
  <2>1. /\ UNCHANGED <<fresh, task_queue, tasks, new_jobs, active_tasks,
                       requests, down, render_queue, current,
                       send_queue, up, reported>>
        /\ CountsKept /\ disconnects' = disconnects
    BY <1>15 DEF IssueEnd, clientVars, queueVars, managerVars, handlerVars, CountsKept
  <2> QED BY <2>1, AllKept, FramesKept
<1>16. ASSUME NEW c \in Clients, TryKeepAlive(c) PROVE FrameInv'
  <2>1. /\ UNCHANGED <<fresh, task_queue, tasks, new_jobs, active_tasks,
                       requests, render_queue, current, send_queue,
                       up, reported>>
        /\ down' = [down EXCEPT ![c] = Append(down[c], Packet("KEEPALIVE", <<>>))] \/ down' = down
        /\ CountsKept /\ disconnects' = disconnects
    BY <1>16 DEF TryKeepAlive, SendDown, queueVars, CountsKept
  <2>2. \A d \in Clients : \A k \in Index : Shown(TasksOf(down'[d]), k) = Shown(TasksOf(down[d]), k)
    <3> SUFFICES ASSUME NEW d \in Clients, NEW k \in Index
                 PROVE  Shown(TasksOf(down'[d]), k) = Shown(TasksOf(down[d]), k)
      OBVIOUS
    <3>1. down'[d] = down[d] \/ (d = c /\ down'[d] = Append(down[c], Packet("KEEPALIVE", <<>>)))
      BY <2>1 DEF WireTypes
    <3> QED BY <3>1, EmptyPacket
  <2>3. Kept({})
    BY <2>1, <2>2 DEF Kept, Untaken
  <2> QED BY <2>1, <2>3, FramesKept
<1>17. ASSUME NEW c \in Clients, KeepAliveFailed(c) PROVE FrameInv'
  <2>1. /\ UNCHANGED <<fresh, task_queue, tasks, new_jobs, active_tasks,
                       requests, down, render_queue, current,
                       send_queue, up, reported>>
        /\ CountsKept /\ disconnects' = disconnects
    BY <1>17 DEF KeepAliveFailed, clientVars, queueVars, managerVars, handlerVars,
      CountsKept
  <2> QED BY <2>1, AllKept, FramesKept
<1>18. CASE AddJob
  <2> SUFFICES ASSUME disconnects' = 0 PROVE FrameInv'
    BY DEF FrameInv
  <2> DEFINE j == submitted + 1
             a == <<"fresh", Nobody, 1>>
  <2>1. /\ UNCHANGED <<task_queue, tasks, new_jobs, active_tasks, requests,
                       down, render_queue, current, send_queue, up,
                       reported>>
        /\ submitted < Len(Frames) /\ submitted' = j /\ fresh' = fresh \o FramesOf(j)
        /\ jobs' = jobs \cup {j} /\ UNCHANGED <<frames_rendered, done>> /\ disconnects = 0
    BY <1>18 DEF AddJob, clientVars, queueVars, managerVars, handlerVars
  <2>2. /\ submitted \in Nat /\ Len(Frames) \in Nat /\ j \in JobId /\ j \in Nat /\ j > submitted
    BY <2>1, DispatchAssumption DEF BatchInv, JobId
  <2>3. Once(At, Holds, Submitted \ Counted) /\ CountInv
    BY <2>1 DEF FrameInv
  <2> HIDE DEF j
  <2>4. FramesOf(j) \in Seq(Task) /\ fresh \in Seq(Task)
    BY <2>2, FramesOfType DEF BatchInv
  <2>5. \A i \in DOMAIN FramesOf(j) : FramesOf(j)[i] \notin Submitted \ Counted
    <3>1. \A i \in DOMAIN FramesOf(j) : FramesOf(j)[i].job = j
      BY DEF FramesOf
    <3> QED BY <2>2, <3>1 DEF Submitted
  <2>6. \A i, k \in DOMAIN FramesOf(j) : FramesOf(j)[i] = FramesOf(j)[k] => i = k
    BY Distinct, <2>2
  <2>7. a \in At /\ Holds[a] = fresh /\ Holds'[a] = fresh \o FramesOf(j)
    BY <2>1, HoldsOne
  <2>8. \A p \in At \ {a} : Holds'[p] = Holds[p]
    <3>1. Kept({a})
      <4>1. \A d \in Clients : Untaken(d)' = Untaken(d)
        BY <2>1 DEF Untaken
      <4> QED BY <2>1, <4>1 DEF Kept
    <3> QED BY <3>1, Elsewhere
  <2> HIDE DEF a
  <2>9. Once(At, Holds', (Submitted \ Counted) \cup {FramesOf(j)[i] : i \in DOMAIN FramesOf(j)})
    <3> DEFINE x == FramesOf(j)
    <3>1. GrowthOf(At, Task, Submitted \ Counted, Holds, Holds', a, x, fresh)
      BY <2>4, <2>5, <2>6, <2>7, <2>8 DEF GrowthOf
    <3> HIDE DEF x
    <3>2. Once(At, Holds', (Submitted \ Counted) \cup {x[i] : i \in DOMAIN x})
      BY <2>3, <3>1, Grown
    <3> QED BY <3>2 DEF x
  <2>10. Counted' = Counted
    BY <2>1 DEF Counted
  <2>11. Submitted' \ Counted' = (Submitted \ Counted) \cup {FramesOf(j)[i] : i \in DOMAIN FramesOf(j)}
    <3>1. {FramesOf(j)[i] : i \in DOMAIN FramesOf(j)} = {t \in Task : t.job = j}
      BY <2>2, FramesOfJob
    <3>2. \A t \in Task : t.job \in Nat /\ (t.job <= j <=> t.job <= submitted \/ t.job = j)
      BY <2>2, TaskJob DEF j, JobId
    <3>3. Submitted' = Submitted \cup {t \in Task : t.job = j}
      BY <2>1, <3>2 DEF Submitted
    <3>4. ASSUME NEW t \in Task, t.job = j PROVE t \notin Counted
      <4>1. done[j] = {}
        BY <2>2, <2>3 DEF CountInv
      <4>2. SUFFICES ASSUME t \in Counted PROVE FALSE
        OBVIOUS
      <4>3. PICK l \in JobId : \E x \in done[l] : t = [job |-> l, frame |-> x]
        BY <4>2 DEF Counted
      <4>4. l = j
        BY <3>4, <4>3
      <4> QED BY <4>1, <4>3, <4>4
    <3> QED BY <2>10, <3>1, <3>3, <3>4
  <2>12. CountInv'
    <3>1. jobs' \subseteq 1 .. j /\ (\A l \in 1 .. j : l \notin jobs' => l <= submitted /\ l \notin jobs)
      BY <2>1, <2>2, <2>3 DEF CountInv, j
    <3>2. \A l \in JobId : /\ l > j => l > submitted
                           /\ l <= j /\ l \notin jobs' => l <= submitted /\ l \notin jobs
      BY <2>2, <3>1 DEF JobId, j
    <3> QED BY <2>1, <2>3, <3>1, <3>2 DEF CountInv
  <2> QED BY <2>9, <2>11, <2>12 DEF FrameInv
<1>19. CASE DistWait
  <2>1. /\ UNCHANGED <<fresh, task_queue, tasks, new_jobs, active_tasks,
                       requests, down, render_queue, current,
                       send_queue, up, reported>>
        /\ CountsKept /\ disconnects' = disconnects
    BY <1>19 DEF DistWait, clientVars, queueVars, managerVars, handlerVars, CountsKept
  <2> QED BY <2>1, AllKept, FramesKept
<1>20. CASE DistLookup
  <2>1. /\ UNCHANGED <<fresh, task_queue, tasks, new_jobs, active_tasks,
                       requests, down, render_queue, current,
                       send_queue, up, reported>>
        /\ CountsKept /\ disconnects' = disconnects
    <3>1. tasks = <<>>
      BY <1>20 DEF DistLookup, FlowInv
    <3> QED BY <1>20, <3>1 DEF DistLookup, DistAgain, clientVars, queueVars, managerVars, handlerVars, CountsKept
  <2> QED BY <2>1, AllKept, FramesKept
<1>21. CASE DistFetch
  <2> SUFFICES ASSUME disconnects' = 0 PROVE FrameInv'
    BY DEF FrameInv
  <2> DEFINE n == Min({Len(task_queue), max_jobs})
             back == SubSeq(task_queue, 1, n)
             rest == SubSeq(task_queue, n + 1, Len(task_queue))
             m == Min({Len(fresh), max_jobs - Len(back)})
             new == SubSeq(fresh, 1, m)
             left == SubSeq(fresh, m + 1, Len(fresh))
             a == <<"task_queue", Nobody, 1>>
             b == <<"tasks", Nobody, 1>>
             f == <<"fresh", Nobody, 1>>
             nil == <<>>
  <2>1. /\ UNCHANGED <<new_jobs, active_tasks, requests, down, render_queue,
                       current, send_queue, up, reported>>
        /\ dist = "fetch" /\ CountsKept /\ disconnects = 0
    BY <1>21 DEF DistFetch, clientVars, queueVars, managerVars, handlerVars, CountsKept
  <2>2. max_jobs \in Nat /\ task_queue \in Seq(Task) /\ fresh \in Seq(Task) /\ tasks = nil
    BY <2>1 DEF BatchInv, FlowInv
  <2>3. Len(task_queue) \in Nat /\ n \in 0 .. Len(task_queue) /\ n <= max_jobs
    BY <2>2, MinOfTwo
  <2>4. back \in Seq(Task) /\ Len(back) = n /\ rest \in Seq(Task) /\ task_queue = back \o rest
    BY <2>2, <2>3, Split, Halves
  <2>5. Len(fresh) \in Nat /\ max_jobs - Len(back) \in Nat
    BY <2>2, <2>3, <2>4
  <2>6. m \in 0 .. Len(fresh)
    <3> DEFINE k == max_jobs - Len(back)
               l == Len(fresh)
    <3> HIDE DEF k, l
    <3>1. k \in Nat /\ l \in Nat
      BY <2>5 DEF k, l
    <3>2. Min({l, k}) \in 0 .. l
      BY <3>1, MinOfTwo
    <3> QED BY <3>2 DEF k, l
  <2>7. new \in Seq(Task) /\ Len(new) = m /\ left \in Seq(Task) /\ fresh = new \o left
    BY <2>2, <2>6, Split, Halves
  <2>8. task_queue' = rest /\ fresh' = left /\ tasks' = back \o new
    BY <1>21, <2>4, <2>7 DEF DistFetch
  <2>9. /\ a \in At /\ b \in At /\ f \in At /\ a # b /\ f # b /\ f # a
        /\ Holds[a] = task_queue /\ Holds[b] = tasks /\ Holds[f] = fresh
        /\ Holds'[a] = rest /\ Holds'[b] = back \o new /\ Holds'[f] = left
    BY <2>8, HoldsOne
  <2>10. \A p \in At \ {a, b, f} : Holds'[p] = Holds[p]
    <3>1. Kept({a, b, f})
      <4>1. \A d \in Clients : Untaken(d)' = Untaken(d)
        BY <2>1 DEF Untaken
      <4> QED BY <2>1, <4>1 DEF Kept
    <3> QED BY <3>1, Elsewhere
  <2>11. nil \in Seq(Task) /\ nil \o back = back
    BY <2>4
  <2> HIDE DEF n, m, back, rest, new, left, a, b, f, nil
  <2> DEFINE H == [p \in At |-> IF p = a THEN rest ELSE IF p = b THEN back ELSE Holds[p]]
  <2>12. /\ H[a] = rest /\ H[b] = back /\ H[f] = fresh
         /\ \A p \in At \ {a, b} : H[p] = Holds[p]
    BY <2>9
  <2> HIDE DEF H
  <2>13. MoveOf(At, Task, Holds, H, a, b, back, rest, nil)
    BY <2>2, <2>4, <2>9, <2>11, <2>12 DEF MoveOf
  <2>14. MoveOf(At, Task, H, Holds', f, b, new, left, back)
    <3>1. \A p \in At \ {f, b} : Holds'[p] = H[p]
      BY <2>9, <2>10, <2>12
    <3> QED BY <2>4, <2>7, <2>9, <2>12, <3>1 DEF MoveOf
  <2>15. Once(At, Holds, Submitted \ Counted) /\ CountInv
    BY <2>1 DEF FrameInv
  <2>16. Once(At, H, Submitted \ Counted)
    BY <2>13, <2>15, Moved
  <2>17. Once(At, Holds', Submitted \ Counted)
    BY <2>14, <2>16, Moved
  <2>18. Submitted' = Submitted /\ Counted' = Counted /\ CountInv'
    BY <2>1, <2>15, SameCounts
  <2> QED BY <2>17, <2>18 DEF FrameInv
<1>22. CASE DistRefused
  <2> SUFFICES ASSUME disconnects' = 0 PROVE FrameInv'
    BY DEF FrameInv
  <2> DEFINE a == <<"tasks", Nobody, 1>>
             b == <<"task_queue", Nobody, 1>>
             nil == <<>>
  <2>1. /\ UNCHANGED <<fresh, new_jobs, active_tasks, requests, down,
                       render_queue, current, send_queue, up,
                       reported>>
        /\ task_queue' = task_queue \o tasks /\ tasks' = <<>>
        /\ CountsKept /\ disconnects = 0
    BY <1>22 DEF DistRefused, DistAgain, AddTasks, clientVars, queueVars, managerVars, handlerVars, CountsKept
  <2>2. a \in At /\ b \in At /\ a # b
    BY HoldsOne
  <2>3. Holds[a] = tasks /\ Holds[b] = task_queue /\ Holds'[a] = nil /\ Holds'[b] = task_queue \o tasks
    BY <2>1, HoldsOne
  <2>4. tasks \in Seq(Task) /\ task_queue \in Seq(Task) /\ nil \in Seq(Task) /\ tasks = tasks \o nil
    BY DEF BatchInv
  <2>5. Kept({a, b})
    BY <2>1 DEF Kept, Untaken
  <2> HIDE DEF a, b, nil
  <2>6. HoldsMove(a, b, tasks, nil, task_queue)
    BY <2>2, <2>3, <2>4 DEF HoldsMove
  <2> QED BY <2>1, <2>5, <2>6, FramesMoved
<1>23. CASE DistSubmit
  <2>1. /\ UNCHANGED <<fresh, task_queue, tasks, new_jobs, active_tasks,
                       requests, down, render_queue, current,
                       send_queue, up, reported>>
        /\ CountsKept /\ disconnects' = disconnects
    BY <1>23 DEF DistSubmit, clientVars, queueVars, managerVars, handlerVars, CountsKept
  <2> QED BY <2>1, AllKept, FramesKept
<1>24. CASE DistStore
  <2> SUFFICES ASSUME disconnects' = 0 PROVE FrameInv'
    BY DEF FrameInv
  <2> DEFINE c == dist_client
             a == <<"tasks", Nobody, 1>>
             b == <<"new_jobs", c, 1>>
             nil == <<>>
  <2>1. /\ UNCHANGED <<fresh, task_queue, requests, down, render_queue, current,
                       send_queue, up, reported>>
        /\ dist # "wait" /\ tasks' = <<>>
        /\ active_tasks' = [active_tasks EXCEPT ![c] = tasks]
        /\ new_jobs' = [new_jobs EXCEPT ![c] = TRUE]
        /\ CountsKept /\ disconnects = 0
    BY <1>24 DEF DistStore, DistAgain, clientVars, queueVars, managerVars, handlerVars, CountsKept
  <2>2. c \in Clients /\ ~ new_jobs[c]
    BY <2>1, Served DEF RunInv, Alive
  <2> HIDE DEF c
  <2>3. new_jobs'[c] = TRUE /\ active_tasks'[c] = tasks
    BY <2>1, <2>2 DEF BatchInv
  <2>4. a \in At /\ b \in At /\ a # b
    BY <2>2, HoldsOne
  <2>5. Holds[a] = tasks /\ Holds[b] = nil /\ Holds'[a] = nil /\ Holds'[b] = tasks
    BY <2>1, <2>2, <2>3, HoldsOne
  <2>6. tasks \in Seq(Task) /\ nil \in Seq(Task) /\ tasks = tasks \o nil /\ tasks = nil \o tasks
    BY DEF BatchInv
  <2>7. Kept({a, b})
    <3>1. \A d \in Clients : d # c => Untaken(d)' = Untaken(d)
      BY <2>1, <2>2 DEF Untaken, BatchInv
    <3> QED BY <2>1, <3>1 DEF Kept
  <2> HIDE DEF a, b, nil
  <2>8. HoldsMove(a, b, tasks, nil, nil)
    BY <2>4, <2>5, <2>6 DEF HoldsMove
  <2> QED BY <2>1, <2>7, <2>8, FramesMoved
<1>25. CASE KeepAliveAnswered
  <2>1. /\ UNCHANGED <<fresh, task_queue, tasks, new_jobs, active_tasks,
                       requests, down, render_queue, current,
                       send_queue, up, reported>>
        /\ CountsKept /\ disconnects' = disconnects
    BY <1>25 DEF KeepAliveAnswered, clientVars, queueVars, managerVars, handlerVars,
      CountsKept
  <2> QED BY <2>1, AllKept, FramesKept
<1>26. CASE KeeperRemove
  <2>1. /\ UNCHANGED <<fresh, task_queue, tasks, new_jobs, active_tasks,
                       requests, down, render_queue, current,
                       send_queue, up, reported>>
        /\ CountsKept /\ disconnects' = disconnects
    BY <1>26 DEF KeeperRemove, clientVars, queueVars, managerVars, handlerVars,
      CountsKept
  <2> QED BY <2>1, AllKept, FramesKept
<1>27. CASE KeeperReturn
  <2> SUFFICES ASSUME disconnects' = 0 PROVE FrameInv'
    BY DEF FrameInv
  <2>1. disconnects = 0 /\ keeper = "remove"
    BY <1>27 DEF KeeperReturn, clientVars
  <2>2. kept \in Clients /\ main[kept] # "new" /\ ~ active[kept]
    BY <2>1 DEF HandlerInv, RunInv, Types
  <2>3. main[kept] = "gone"
    BY <2>2 DEF RunInv, Alive
  <2> QED BY <2>1, <2>2, <2>3 DEF RunInv
<1>28. CASE KeeperJoin
  <2>1. /\ UNCHANGED <<fresh, task_queue, tasks, new_jobs, active_tasks,
                       requests, down, render_queue, current,
                       send_queue, up, reported>>
        /\ CountsKept /\ disconnects' = disconnects
    BY <1>28 DEF KeeperJoin, clientVars, queueVars, managerVars, handlerVars, CountsKept
  <2> QED BY <2>1, AllKept, FramesKept
<1>29. CASE KeeperDelete
  <2>1. /\ UNCHANGED <<fresh, task_queue, tasks, new_jobs, active_tasks,
                       requests, down, render_queue, current,
                       send_queue, up, reported>>
        /\ CountsKept /\ disconnects' = disconnects
    BY <1>29 DEF KeeperDelete, clientVars, queueVars, managerVars, handlerVars,
      CountsKept
  <2> QED BY <2>1, AllKept, FramesKept
<1>30. CASE UNCHANGED vars
  <2>1. /\ UNCHANGED <<fresh, task_queue, tasks, new_jobs, active_tasks,
                       requests, down, render_queue, current,
                       send_queue, up, reported>>
        /\ CountsKept /\ disconnects' = disconnects
    BY <1>30 DEF vars, clientVars, queueVars, managerVars, handlerVars, CountsKept
  <2> QED BY <2>1, AllKept, FramesKept
<1> QED BY Actions, <1>1, <1>2, <1>3, <1>4, <1>5, <1>6, <1>7, <1>8, <1>9, <1>10,
    <1>11, <1>12, <1>13, <1>14, <1>15, <1>16, <1>17, <1>18, <1>19, <1>20, <1>21,
    <1>22, <1>23, <1>24, <1>25, <1>26, <1>27, <1>28, <1>29, <1>30


\* Before anything is submitted nothing is held, and nothing is counted.
LEMMA FrameInit == Init => FrameInv
<1> SUFFICES ASSUME Init PROVE FrameInv
  OBVIOUS
<1>1. \A k : Shown(<<>>, k) = <<>> /\ Shown(TasksOf(<<>>), k) = <<>> /\ Shown(<< <<>> >>, k) = <<>>
  <2>1. DOMAIN TasksOf(<<>>) = {}
    BY DEF TasksOf
  <2>2. \A k : k \in DOMAIN << <<>> >> => << <<>> >>[k] = <<>>
    OBVIOUS
  <2> QED BY <2>1, <2>2 DEF Shown
<1>2. ASSUME NEW p \in At PROVE Holds[p] = <<>>
  <2>1. CASE p \in InServerAt
    <3>1. PICK part \in InServer, k \in Index : p = <<part, Nobody, k>>
      BY <2>1 DEF InServerAt
    <3>2. part \in {"fresh", "task_queue", "tasks"}
      BY DEF InServer
    <3>3. fresh = <<>> /\ task_queue = <<>> /\ tasks = <<>>
      BY DEF Init
    <3>4. /\ Holds[<<"fresh", Nobody, k>>] = <<>> /\ Holds[<<"task_queue", Nobody, k>>] = <<>>
          /\ Holds[<<"tasks", Nobody, k>>] = <<>>
      BY <1>1, <3>3, HoldsServer
    <3> QED BY <3>1, <3>2, <3>4
  <2>2. CASE p \in WithClientAt
    <3>1. PICK part \in WithClient, d \in Clients, k \in Index : p = <<part, d, k>>
      BY <2>2 DEF WithClientAt
    <3>2. part \in {"new_jobs", "requests", "down", "render_queue", "current", "send_queue", "up", "reported"}
      BY DEF WithClient
    <3>3. /\ Untaken(d) = <<>> /\ requests[d] = <<>> /\ down[d] = <<>> /\ render_queue[d] = <<>>
          /\ current[d] = <<>> /\ send_queue[d] = <<>> /\ up[d] = <<>> /\ reported[d] = <<>>
      BY DEF Init, ClientInit, Untaken
    <3>4. /\ Holds[<<"new_jobs", d, k>>] = <<>> /\ Holds[<<"requests", d, k>>] = <<>>
          /\ Holds[<<"down", d, k>>] = <<>> /\ Holds[<<"render_queue", d, k>>] = <<>>
          /\ Holds[<<"current", d, k>>] = <<>> /\ Holds[<<"send_queue", d, k>>] = <<>>
          /\ Holds[<<"up", d, k>>] = <<>> /\ Holds[<<"reported", d, k>>] = <<>>
      BY <1>1, <3>3, HoldsClient
    <3> QED BY <3>1, <3>2, <3>4
  <2> QED BY <2>1, <2>2 DEF At
<1>3. Spots(At, Holds) = {}
  BY <1>2 DEF Spots
<1>4. Submitted = {}
  <2>1. \A t \in Task : ~ (t.job <= 0)
    BY TaskJob, DispatchAssumption DEF JobId
  <2> QED BY <2>1 DEF Submitted, Init
<1>5. CountInv
  <2>1. /\ frames_rendered = [j \in JobId |-> 0] /\ done = [j \in JobId |-> {}]
        /\ jobs = {} /\ submitted = 0
    BY DEF Init
  <2>2. \A j \in JobId : ~ (j <= 0)
    BY DispatchAssumption DEF JobId
  <2> QED BY <2>1, <2>2, FS_EmptySet DEF CountInv
<1>6. Once(At, Holds, Submitted \ Counted)
  BY <1>3, <1>4 DEF Once
<1> QED BY <1>5, <1>6 DEF FrameInv

\* The owners a part can have.
Owns(part, c) == (part \in InServer /\ c = Nobody) \/ (part \in WithClient /\ c \in Clients)

\* Every part keeps its batches under the indices of a sequence.
LEMMA HeldIndex ==
    ASSUME WireTypes, NEW part, NEW c, Owns(part, c)
    PROVE  DOMAIN Held(part, c) \subseteq Index
<1>1. \A s : DOMAIN <<s>> \subseteq Index /\ DOMAIN <<>> \subseteq Index
  BY DEF Index
<1>2. \A S : \A s \in Seq(S) : DOMAIN s \subseteq Index /\ DOMAIN TasksOf(s) \subseteq Index
  BY DEF Index, TasksOf
<1>3. CASE part \in InServer
  <2>1. part \in {"fresh", "task_queue", "tasks"}
    BY <1>3 DEF InServer
  <2> QED BY <1>1, <2>1 DEF Held
<1>4. CASE part \in WithClient /\ c \in Clients
  <2>1. part \in {"new_jobs", "requests", "down", "render_queue", "current", "send_queue", "up", "reported"}
    BY <1>4 DEF WithClient
  <2>2. /\ DOMAIN TasksOf(requests[c]) \subseteq Index /\ DOMAIN TasksOf(down[c]) \subseteq Index
        /\ DOMAIN render_queue[c] \subseteq Index /\ DOMAIN TasksOf(up[c]) \subseteq Index
    <3>1. /\ requests[c] \in Seq(JobPacket) /\ down[c] \in Seq(DownPacket)
          /\ render_queue[c] \in Seq(Batches) /\ up[c] \in Seq(UpPacket)
      BY <1>4 DEF WireTypes
    <3> QED BY <1>2, <3>1
  <2>3. DOMAIN Untaken(c) \subseteq Index
    BY <1>1 DEF Untaken
  <2>4. CASE part = "new_jobs"
    BY <2>3, <2>4 DEF Held, Untaken
  <2>5. CASE part = "requests"
    BY <2>2, <2>5 DEF Held
  <2>6. CASE part = "down"
    BY <2>2, <2>6 DEF Held
  <2>7. CASE part = "render_queue"
    BY <2>2, <2>7 DEF Held
  <2>8. CASE part = "current"
    BY <1>1, <2>8 DEF Held
  <2>9. CASE part = "send_queue"
    BY <1>1, <2>9 DEF Held
  <2>10. CASE part = "up"
    BY <2>2, <2>10 DEF Held
  <2>11. CASE part = "reported"
    BY <1>1, <2>11 DEF Held
  <2> QED BY <2>1, <2>4, <2>5, <2>6, <2>7, <2>8, <2>9, <2>10, <2>11
<1> QED BY <1>3, <1>4 DEF Owns

\* The positions of the proof are the places of the property.
LEMMA PlacesAreSpots ==
    ASSUME WireTypes
    PROVE  /\ \A p \in Place : \E part, c, k, i :
                /\ p = <<part, c, k, i>> /\ << <<part, c, k>>, i>> \in Spots(At, Holds)
                /\ TaskAt(p) = Holds[<<part, c, k>>][i]
           /\ \A z \in Spots(At, Holds) : \E p \in Place : TaskAt(p) = Holds[z[1]][z[2]]
<1>1. \A part, c : Owns(part, c) => \A k \in Index :
        <<part, c, k>> \in At /\ Holds[<<part, c, k>>] = Shown(Held(part, c), k)
  <2> SUFFICES ASSUME NEW part, NEW c, Owns(part, c), NEW k \in Index
               PROVE  <<part, c, k>> \in At /\ Holds[<<part, c, k>>] = Shown(Held(part, c), k)
    OBVIOUS
  <2>1. <<part, c, k>> \in At
    BY DEF Owns, At, InServerAt, WithClientAt
  <2> QED BY <2>1 DEF Holds
<1>2. \A p \in At : \E part, c : \E k \in Index : Owns(part, c) /\ p = <<part, c, k>>
  BY DEF Owns, At, InServerAt, WithClientAt
<1>3. \A p : p \in Place <=> \E part, c : Owns(part, c) /\ p \in PlacesIn(part, c)
  BY DEF Place, ServerPlaces, ClientPlaces, Owns
<1>4. \A part, c, p : p \in PlacesIn(part, c) <=>
        \E k \in DOMAIN Held(part, c) : \E i \in DOMAIN Held(part, c)[k] : p = <<part, c, k, i>>
  BY DEF PlacesIn
<1>5. \A part, c, k, i : TaskAt(<<part, c, k, i>>) = Held(part, c)[k][i]
  BY DEF TaskAt
<1>6. ASSUME NEW p \in Place
      PROVE  \E part, c, k, i :
                /\ p = <<part, c, k, i>> /\ << <<part, c, k>>, i>> \in Spots(At, Holds)
                /\ TaskAt(p) = Holds[<<part, c, k>>][i]
  <2>1. PICK part, c : Owns(part, c) /\ p \in PlacesIn(part, c)
    BY <1>3, <1>6
  <2>2. PICK k \in DOMAIN Held(part, c) : \E i \in DOMAIN Held(part, c)[k] : p = <<part, c, k, i>>
    BY <1>4, <2>1
  <2>3. PICK i \in DOMAIN Held(part, c)[k] : p = <<part, c, k, i>>
    BY <2>2
  <2>4. k \in Index
    BY <2>1, <2>2, HeldIndex
  <2>5. <<part, c, k>> \in At /\ Holds[<<part, c, k>>] = Held(part, c)[k]
    BY <1>1, <2>1, <2>2, <2>4 DEF Shown
  <2>6. << <<part, c, k>>, i>> \in Spots(At, Holds)
    BY <2>3, <2>5, PositionFacts
  <2>7. TaskAt(p) = Holds[<<part, c, k>>][i]
    BY <1>5, <2>3, <2>5
  <2> QED BY <2>3, <2>6, <2>7
<1>7. ASSUME NEW z \in Spots(At, Holds)
      PROVE  \E p \in Place : TaskAt(p) = Holds[z[1]][z[2]]
  <2>1. z[1] \in At /\ z[2] \in DOMAIN Holds[z[1]]
    BY <1>7, PositionFacts
  <2>2. PICK part, c : \E k \in Index : Owns(part, c) /\ z[1] = <<part, c, k>>
    BY <1>2, <2>1
  <2>3. PICK k \in Index : Owns(part, c) /\ z[1] = <<part, c, k>>
    BY <2>2
  <2> DEFINE i == z[2]
  <2>4. Holds[z[1]] = Shown(Held(part, c), k)
    BY <1>1, <2>3
  <2>5. k \in DOMAIN Held(part, c) /\ Holds[z[1]] = Held(part, c)[k]
    <3>1. DOMAIN <<>> = {}
      OBVIOUS
    <3> QED BY <2>1, <2>4, <3>1 DEF Shown
  <2>6. i \in DOMAIN Held(part, c)[k]
    BY <2>1, <2>5
  <2> HIDE DEF i
  <2>7. <<part, c, k, i>> \in Place
    BY <1>3, <1>4, <2>3, <2>5, <2>6
  <2>8. TaskAt(<<part, c, k, i>>) = Holds[z[1]][z[2]]
    BY <1>5, <2>5 DEF i
  <2> QED BY <2>7, <2>8
<1> QED BY <1>6, <1>7

\* What the invariant says of positions the property says of places.
LEMMA FramesHeld == WireTypes /\ FrameInv => EachFrameOnce
<1> SUFFICES ASSUME WireTypes, FrameInv, disconnects = 0
             PROVE  /\ \A p, q \in Place : TaskAt(p) = TaskAt(q) => p = q
                    /\ {TaskAt(p) : p \in Place} = Submitted \ Counted
  BY DEF EachFrameOnce
<1>1. Once(At, Holds, Submitted \ Counted)
  BY DEF FrameInv
<1>2. ASSUME NEW p \in Place, NEW q \in Place, TaskAt(p) = TaskAt(q) PROVE p = q
  <2>1. PICK part, c, k, i :
          /\ p = <<part, c, k, i>> /\ << <<part, c, k>>, i>> \in Spots(At, Holds)
          /\ TaskAt(p) = Holds[<<part, c, k>>][i]
    BY <1>2, PlacesAreSpots
  <2>2. PICK part2, c2, k2, i2 :
          /\ q = <<part2, c2, k2, i2>> /\ << <<part2, c2, k2>>, i2>> \in Spots(At, Holds)
          /\ TaskAt(q) = Holds[<<part2, c2, k2>>][i2]
    BY <1>2, PlacesAreSpots
  <2> DEFINE a == <<part, c, k>>
             b == <<part2, c2, k2>>
             y == <<a, i>>
             z == <<b, i2>>
  <2>3. y \in Spots(At, Holds) /\ z \in Spots(At, Holds)
    BY <2>1, <2>2
  <2>4. y[1] = a /\ y[2] = i /\ z[1] = b /\ z[2] = i2
    OBVIOUS
  <2>5. Holds[a][i] = Holds[b][i2]
    BY <1>2, <2>1, <2>2
  <2> HIDE DEF y, z, a, b
  <2>6. y = z
    BY <1>1, <2>3, <2>4, <2>5 DEF Once
  <2>7. a = b /\ i = i2
    BY <2>4, <2>6
  <2>8. part = part2 /\ c = c2 /\ k = k2
    <3>1. a[1] = part /\ a[2] = c /\ a[3] = k /\ b[1] = part2 /\ b[2] = c2 /\ b[3] = k2
      BY DEF a, b
    <3> QED BY <2>7, <3>1
  <2> QED BY <2>1, <2>2, <2>7, <2>8
<1>3. ASSUME NEW p \in Place PROVE TaskAt(p) \in Submitted \ Counted
  <2>1. PICK part, c, k, i :
          /\ p = <<part, c, k, i>> /\ << <<part, c, k>>, i>> \in Spots(At, Holds)
          /\ TaskAt(p) = Holds[<<part, c, k>>][i]
    BY <1>3, PlacesAreSpots
  <2> DEFINE z == << <<part, c, k>>, i>>
  <2>2. z \in Spots(At, Holds) /\ TaskAt(p) = Holds[z[1]][z[2]]
    BY <2>1
  <2> HIDE DEF z
  <2> QED BY <1>1, <2>2 DEF Once
<1>4. ASSUME NEW t \in Submitted \ Counted PROVE \E p \in Place : TaskAt(p) = t
  <2>1. PICK z \in Spots(At, Holds) : t = Holds[z[1]][z[2]]
    BY <1>1, <1>4 DEF Once
  <2>2. PICK p \in Place : TaskAt(p) = Holds[z[1]][z[2]]
    BY <2>1, PlacesAreSpots
  <2> QED BY <2>1, <2>2
<1> QED BY <1>2, <1>3, <1>4

\* All of it is kept by every step that starts with a batch of one job.
LEMMA FramesNext == FlowAll /\ FrameInv /\ BatchOfOneJob /\ [Next]_vars => FrameInv'
<1> SUFFICES ASSUME FlowAll, FrameInv, BatchOfOneJob, [Next]_vars PROVE FrameInv'
  OBVIOUS
<1>1. Types /\ HandlerInv /\ BatchInv /\ WireTypes /\ FlowInv /\ RunInv /\ TokenInv
  BY DEF FlowAll, IndInv
<1> QED BY <1>1, FrameStep

\* As long as every batch has the frames of one job and no client goes away,
\* every submitted frame that is not counted is in exactly one place of the
\* server, the wire or a client: no hand-over between the threads loses a frame
\* or renders it twice.
THEOREM FramesAreHeldOnce == Spec /\ []BatchOfOneJob => []EachFrameOnce
<1>1. FlowAll /\ FrameInv => EachFrameOnce
  BY FramesHeld DEF FlowAll
<1> QED BY <1>1, FlowInit, FlowNext, FrameInit, FramesNext, PTL DEF Spec

\* With one job, or with batches of one frame, it needs no hypothesis on the
\* behaviour.
THEOREM FramesOfOneJobAreHeldOnce ==
    ASSUME Len(Frames) = 1 \/ MAX_JOB_CAPABILITY = 1
    PROVE  Spec => []EachFrameOnce
<1>1. FlowAll /\ FrameInv => EachFrameOnce
  BY FramesHeld DEF FlowAll
<1>2. FlowAll /\ [Next]_vars => FlowAll'
  BY FlowNext, OneJobBatches
<1>3. FlowAll /\ FrameInv /\ [Next]_vars => FrameInv'
  BY FramesNext, OneJobBatches
<1> QED BY <1>1, <1>2, <1>3, FlowInit, FrameInit, PTL DEF Spec

\* notifyUpdate ends a job early only after a client went away: until then a job
\* that is no longer in the queue has all of its frames rendered.
THEOREM EarlyFinishNeedsDisconnect ==
    Spec /\ []BatchOfOneJob => [](disconnects = 0 => FinishedIsRendered)
<1>1. FlowAll /\ FrameInv => (disconnects = 0 => FinishedIsRendered)
  <2> SUFFICES ASSUME BatchInv, CountInv, NEW j \in 1 .. submitted, j \notin jobs
               PROVE  done[j] = 0 .. Frames[j] - 1
    BY DEF FlowAll, IndInv, FrameInv, FinishedIsRendered
  <2>1. j \in JobId /\ j <= submitted
    BY DispatchAssumption DEF BatchInv, JobId
  <2> QED BY <2>1 DEF CountInv
<1> QED BY <1>1, FlowInit, FlowNext, FrameInit, FramesNext, PTL DEF Spec

-----------------------------------------------------------------------------
(***************************************************************************)
(* Lost tasks.  When clients go away a frame may be in several places, or  *)
(* in none: what is shown is where a task that is somewhere can go.        *)
(***************************************************************************)

Packed(packets, t) == \E k \in DOMAIN packets : t \in Range(packets[k].tasks)
Queue(batches, t) == \E k \in DOMAIN batches : t \in Range(batches[k])

\* A task is with a client: in its handler's hands, on the wire or in its queues.
With(c, t) ==
    \/ new_jobs[c] /\ t \in Range(active_tasks[c])
    \/ Packed(requests[c], t) \/ Packed(down[c], t) \/ Queue(render_queue[c], t)
    \/ t \in Range(current[c]) \/ t \in Range(send_queue[c])
    \/ Packed(up[c], t) \/ t \in Range(reported[c])

InTheServer(t) == t \in Range(fresh) \/ t \in Range(task_queue) \/ t \in Range(tasks)

\* Nothing has to be rendered any more.
Settled(t) == t \in Counted \/ t.job \notin jobs

\* The handler has still to hand its batch back.
HandsBack(c) == response[c] \in {"recv", "count", "stop", "remove"}

\* What the handler of a client that is up remembers is with the client or done.
Remembered ==
    /\ done \in [JobId -> SUBSET Nat]
    /\ \A t : InTheServer(t) => t.job <= submitted
    /\ \A c \in Clients : \A t \in Range(active_tasks[c]) : t.job <= submitted
    /\ \A c \in Clients : main[c] = "new" => Range(active_tasks[c]) = {}
    /\ \A c \in Clients : Alive(c) => \A t \in Range(active_tasks[c]) : With(c, t) \/ Settled(t)

\* The client goes away in this step.
Leaves(c) == main'[c] = "gone" /\ disconnects' > disconnects

\* What a step may do with a task that is with a client, that is in the server,
\* and that a handler remembers.
WithKept == \A c \in Clients : \A t : Alive(c) /\ With(c, t) =>
    (Alive(c)' /\ With(c, t)') \/ Settled(t)' \/ Leaves(c)
ServerKept == \A t : InTheServer(t) =>
    InTheServer(t)' \/ \E c \in Clients : HandsBack(c)' /\ t \in Range(active_tasks[c])'
BatchKept == \A c \in Clients : \A t \in Range(active_tasks[c]) : HandsBack(c) =>
    \/ HandsBack(c)' /\ t \in Range(active_tasks'[c])
    \/ InTheServer(t)'
    \/ active_tasks'[c] # active_tasks[c] /\ main[c] # "new"

\* Where a task in the server, or one that a handler remembers, comes from.
Origin ==
    /\ \A t : InTheServer(t)' =>
        \/ InTheServer(t) \/ \E c \in Clients : t \in Range(active_tasks[c])
        \/ t.job = submitted + 1 /\ submitted' = submitted + 1
    /\ \A c \in Clients : \A t \in Range(active_tasks'[c]) :
        t \in Range(active_tasks[c]) \/ (InTheServer(t) /\ new_jobs'[c] /\ main[c] # "new")

TasksMove == ServerKept /\ BatchKept /\ Origin

\* Counts grow, and jobs are over for good.
CountsGrow ==
    /\ done' \in [JobId -> SUBSET Nat] /\ \A j \in JobId : done[j] \subseteq done'[j]
    /\ jobs' \subseteq jobs \cup {submitted + 1}
    /\ submitted' = submitted \/ submitted' = submitted + 1

\* A client starts once, and does not come back.
MainMoves == \A c \in Clients :
    /\ main'[c] = "new" => main[c] = "new"
    /\ main[c] = "gone" => main'[c] = "gone"

\* The elements of sequences that are joined, split and emptied.
LEMMA Ranges ==
    /\ Range(<<>>) = {} /\ \A x : Range(<<x>>) = {x}
    /\ \A S : \A s, r \in Seq(S) : Range(s \o r) = Range(s) \cup Range(r)
    /\ \A S : \A s \in Seq(S) : s # <<>> => Range(s) = {s[1]} \cup Range(Tail(s))
<1>1. Range(<<>>) = {} /\ \A x : Range(<<x>>) = {x}
  BY DEF Range
<1>2. ASSUME NEW S, NEW s \in Seq(S), NEW r \in Seq(S) PROVE Range(s \o r) = Range(s) \cup Range(r)
  <2>1. /\ Len(s) \in Nat /\ Len(r) \in Nat /\ DOMAIN s = 1 .. Len(s) /\ DOMAIN r = 1 .. Len(r)
        /\ DOMAIN (s \o r) = 1 .. Len(s) + Len(r)
        /\ \A i \in 1 .. Len(s) : (s \o r)[i] = s[i]
        /\ \A i \in 1 .. Len(r) : (s \o r)[Len(s) + i] = r[i]
    OBVIOUS
  <2> DEFINE n == Len(s)
             m == Len(r)
             q == s \o r
  <2>2. /\ n \in Nat /\ m \in Nat /\ DOMAIN s = 1 .. n /\ DOMAIN r = 1 .. m /\ DOMAIN q = 1 .. n + m
        /\ \A i \in 1 .. n : q[i] = s[i]
        /\ \A i \in 1 .. m : q[n + i] = r[i]
    BY <2>1
  <2> HIDE DEF n, m, q
  <2>3. Range(q) = Range(s) \cup Range(r)
    <3>1. ASSUME NEW i \in 1 .. n + m PROVE q[i] \in Range(s) \cup Range(r)
      <4>1. CASE i \in 1 .. n
        BY <2>2, <4>1 DEF Range
      <4>2. CASE i \notin 1 .. n
        <5>1. i - n \in 1 .. m /\ n + (i - n) = i
          BY <2>2, <4>2
        <5>2. q[i] = r[i - n]
          BY <2>2, <5>1
        <5> QED BY <2>2, <5>1, <5>2 DEF Range
      <4> QED BY <4>1, <4>2
    <3>2. ASSUME NEW i \in 1 .. n PROVE s[i] \in Range(q)
      <4>1. i \in 1 .. n + m
        BY <2>2
      <4> QED BY <2>2, <4>1 DEF Range
    <3>3. ASSUME NEW i \in 1 .. m PROVE r[i] \in Range(q)
      <4>1. n + i \in 1 .. n + m
        BY <2>2
      <4>2. q[n + i] = r[i]
        BY <2>2
      <4> QED BY <2>2, <4>1, <4>2 DEF Range
    <3> QED BY <2>2, <3>1, <3>2, <3>3 DEF Range
  <2> QED BY <2>3 DEF q
<1>3. ASSUME NEW S, NEW s \in Seq(S), s # <<>> PROVE Range(s) = {s[1]} \cup Range(Tail(s))
  <2>1. <<s[1]>> \in Seq(S) /\ Tail(s) \in Seq(S) /\ s = <<s[1]>> \o Tail(s)
    BY <1>3
  <2> DEFINE x == <<s[1]>>
             y == Tail(s)
  <2>2. x \in Seq(S) /\ y \in Seq(S)
    BY <2>1
  <2>3. s = x \o y /\ Range(x) = {s[1]}
    BY <1>1, <2>1
  <2> HIDE DEF x, y
  <2>4. Range(x \o y) = Range(x) \cup Range(y)
    BY <1>2, <2>2
  <2>5. Range(s) = {s[1]} \cup Range(y)
    BY <2>3, <2>4, Zenon
  <2> QED BY <2>5 DEF y
<1> QED BY <1>1, <1>2, <1>3

\* The tasks in a queue of packets that grows, shrinks or has its head replaced.
LEMMA PackedFacts ==
    ASSUME NEW S, NEW s \in Seq(S), NEW t
    PROVE  /\ ~ Packed(<<>>, t)
           /\ \A v \in S : Packed(s, t) \/ t \in Range(v.tasks) => Packed(Append(s, v), t)
           /\ s # <<>> /\ Packed(s, t) => t \in Range(s[1].tasks) \/ Packed(Tail(s), t)
           /\ \A v \in S : s # <<>> /\ Packed(s, t) =>
                t \in Range(s[1].tasks) \/ Packed([s EXCEPT ![1] = v], t)
           /\ \A v \in S : s # <<>> /\ t \in Range(v.tasks) => Packed([s EXCEPT ![1] = v], t)
<1>1. Len(s) \in Nat /\ DOMAIN s = 1 .. Len(s)
  OBVIOUS
<1>2. ~ Packed(<<>>, t)
  BY DEF Packed
<1>3. ASSUME NEW v \in S, Packed(s, t) \/ t \in Range(v.tasks) PROVE Packed(Append(s, v), t)
  <2> DEFINE q == Append(s, v)
             n == Len(s)
  <2>1. DOMAIN q = 1 .. n + 1 /\ q[n + 1] = v /\ (\A i \in 1 .. n : q[i] = s[i]) /\ n \in Nat
    BY Appended
  <2>2. DOMAIN s = 1 .. n
    BY <1>1
  <2> HIDE DEF q, n
  <2>3. n + 1 \in 1 .. n + 1 /\ \A i \in 1 .. n : i \in 1 .. n + 1
    BY <2>1
  <2>4. Packed(q, t)
    <3>1. CASE Packed(s, t)
      <4>1. PICK k \in 1 .. n : t \in Range(s[k].tasks)
        BY <2>2, <3>1 DEF Packed
      <4>2. k \in DOMAIN q /\ q[k] = s[k]
        BY <2>1, <2>3
      <4>3. t \in Range(q[k].tasks)
        BY <4>1, <4>2
      <4> QED BY <4>2, <4>3 DEF Packed
    <3>2. CASE t \in Range(v.tasks)
      <4>1. n + 1 \in DOMAIN q /\ t \in Range(q[n + 1].tasks)
        BY <2>1, <2>3, <3>2
      <4> QED BY <4>1 DEF Packed
    <3> QED BY <1>3, <3>1, <3>2
  <2> QED BY <2>4 DEF q
<1>4. ASSUME s # <<>>, Packed(s, t) PROVE t \in Range(s[1].tasks) \/ Packed(Tail(s), t)
  <2> DEFINE q == Tail(s)
             n == Len(s)
  <2>1. DOMAIN q = 1 .. n - 1 /\ (\A i \in 1 .. n - 1 : q[i] = s[i + 1]) /\ n \in Nat
    BY <1>1, <1>4, Tailed
  <2>2. PICK k \in 1 .. n : t \in Range(s[k].tasks)
    BY <1>1, <1>4 DEF Packed
  <2> HIDE DEF q, n
  <2>3. t \in Range(s[1].tasks) \/ Packed(q, t)
    <3>1. CASE k = 1
      BY <2>2, <3>1
    <3>2. CASE k # 1
      <4> DEFINE l == k - 1
      <4>1. l \in 1 .. n - 1 /\ l + 1 = k
        BY <2>1, <3>2
      <4> HIDE DEF l
      <4>2. l \in DOMAIN q /\ q[l] = s[k]
        BY <2>1, <4>1
      <4>3. t \in Range(q[l].tasks)
        BY <2>2, <4>2
      <4> QED BY <4>2, <4>3 DEF Packed
    <3> QED BY <3>1, <3>2
  <2> QED BY <2>3 DEF q
<1>5. ASSUME NEW v \in S, s # <<>>
      PROVE  /\ Packed(s, t) => t \in Range(s[1].tasks) \/ Packed([s EXCEPT ![1] = v], t)
             /\ t \in Range(v.tasks) => Packed([s EXCEPT ![1] = v], t)
  <2> DEFINE q == [s EXCEPT ![1] = v]
  <2>1. 1 \in DOMAIN s
    BY <1>5, Tailed
  <2>2. DOMAIN q = DOMAIN s /\ q[1] = v /\ \A i \in DOMAIN s : i # 1 => q[i] = s[i]
    BY <2>1
  <2> HIDE DEF q
  <2>3. /\ Packed(s, t) => t \in Range(s[1].tasks) \/ Packed(q, t)
        /\ t \in Range(v.tasks) => Packed(q, t)
    <3>1. ASSUME Packed(s, t) PROVE t \in Range(s[1].tasks) \/ Packed(q, t)
      <4>1. PICK k \in DOMAIN s : t \in Range(s[k].tasks)
        BY <3>1 DEF Packed
      <4>2. k # 1 => q[k] = s[k]
        BY <2>2
      <4>3. k # 1 => t \in Range(q[k].tasks)
        BY <4>1, <4>2
      <4> QED BY <2>2, <4>1, <4>3 DEF Packed
    <3>2. ASSUME t \in Range(v.tasks) PROVE Packed(q, t)
      <4>1. t \in Range(q[1].tasks) /\ 1 \in DOMAIN q
        BY <2>1, <2>2, <3>2
      <4> QED BY <4>1 DEF Packed
    <3> QED BY <3>1, <3>2
  <2> QED BY <2>3 DEF q
<1> QED BY <1>2, <1>3, <1>4, <1>5

\* The tasks in a queue of batches that grows or shrinks.
LEMMA QueueFacts ==
    ASSUME NEW S, NEW s \in Seq(S), NEW t
    PROVE  /\ \A v \in S : Queue(s, t) \/ t \in Range(v) => Queue(Append(s, v), t)
           /\ s # <<>> /\ Queue(s, t) => t \in Range(s[1]) \/ Queue(Tail(s), t)
<1>1. Len(s) \in Nat /\ DOMAIN s = 1 .. Len(s)
  OBVIOUS
<1>2. ASSUME NEW v \in S, Queue(s, t) \/ t \in Range(v) PROVE Queue(Append(s, v), t)
  <2> DEFINE q == Append(s, v)
             n == Len(s)
  <2>1. DOMAIN q = 1 .. n + 1 /\ q[n + 1] = v /\ (\A i \in 1 .. n : q[i] = s[i]) /\ n \in Nat
    BY Appended
  <2>2. DOMAIN s = 1 .. n
    BY <1>1
  <2> HIDE DEF q, n
  <2>3. n + 1 \in 1 .. n + 1 /\ \A i \in 1 .. n : i \in 1 .. n + 1
    BY <2>1
  <2>4. Queue(q, t)
    <3>1. CASE Queue(s, t)
      <4>1. PICK k \in 1 .. n : t \in Range(s[k])
        BY <2>2, <3>1 DEF Queue
      <4>2. k \in DOMAIN q /\ q[k] = s[k]
        BY <2>1, <2>3
      <4>3. t \in Range(q[k])
        BY <4>1, <4>2
      <4> QED BY <4>2, <4>3 DEF Queue
    <3>2. CASE t \in Range(v)
      <4>1. n + 1 \in DOMAIN q /\ t \in Range(q[n + 1])
        BY <2>1, <2>3, <3>2
      <4> QED BY <4>1 DEF Queue
    <3> QED BY <1>2, <3>1, <3>2
  <2> QED BY <2>4 DEF q
<1>3. ASSUME s # <<>>, Queue(s, t) PROVE t \in Range(s[1]) \/ Queue(Tail(s), t)
  <2> DEFINE q == Tail(s)
             n == Len(s)
  <2>1. DOMAIN q = 1 .. n - 1 /\ (\A i \in 1 .. n - 1 : q[i] = s[i + 1]) /\ n \in Nat
    BY <1>1, <1>3, Tailed
  <2>2. PICK k \in 1 .. n : t \in Range(s[k])
    BY <1>1, <1>3 DEF Queue
  <2> HIDE DEF q, n
  <2>3. t \in Range(s[1]) \/ Queue(q, t)
    <3>1. CASE k = 1
      BY <2>2, <3>1
    <3>2. CASE k # 1
      <4> DEFINE l == k - 1
      <4>1. l \in 1 .. n - 1 /\ l + 1 = k
        BY <2>1, <3>2
      <4> HIDE DEF l
      <4>2. l \in DOMAIN q /\ q[l] = s[k]
        BY <2>1, <4>1
      <4>3. t \in Range(q[l])
        BY <2>2, <4>2
      <4> QED BY <4>2, <4>3 DEF Queue
    <3> QED BY <3>1, <3>2
  <2> QED BY <2>3 DEF q
<1> QED BY <1>2, <1>3


\* What a client and its handler hold is not touched.
PartsKept(d) ==
    /\ main'[d] = main[d] /\ new_jobs'[d] = new_jobs[d] /\ active_tasks'[d] = active_tasks[d]
    /\ requests'[d] = requests[d] /\ down'[d] = down[d] /\ render_queue'[d] = render_queue[d]
    /\ current'[d] = current[d] /\ send_queue'[d] = send_queue[d]
    /\ up'[d] = up[d] /\ reported'[d] = reported[d]

\* A step of one client, or of its handler, keeps the tasks of all others.
LEMMA OneMoves ==
    ASSUME NEW c, \A d \in Clients : d # c => PartsKept(d),
           c \in Clients => \A t : Alive(c) /\ With(c, t) =>
                (Alive(c)' /\ With(c, t)') \/ Settled(t)' \/ Leaves(c)
    PROVE  WithKept
<1> SUFFICES ASSUME NEW d \in Clients, NEW t, Alive(d), With(d, t)
             PROVE  (Alive(d)' /\ With(d, t)') \/ Settled(t)' \/ Leaves(d)
  BY DEF WithKept
<1>1. CASE d = c
  BY <1>1
<1>2. CASE d # c
  <2>1. PartsKept(d)
    BY <1>2
  <2> QED BY <2>1 DEF PartsKept, With, Alive
<1> QED BY <1>1, <1>2

\* Nor is anything lost by a step that touches none.
LEMMA NoneMoves ==
    ASSUME UNCHANGED <<main, new_jobs, active_tasks, requests, down, render_queue, current,
                       send_queue, up, reported>>
    PROVE  WithKept
<1>1. \A d \in Clients : PartsKept(d)
  BY DEF PartsKept
<1> SUFFICES ASSUME NEW d \in Clients, NEW t, Alive(d), With(d, t)
             PROVE  Alive(d)' /\ With(d, t)'
  BY DEF WithKept
<1>2. PartsKept(d)
  BY <1>1
<1> QED BY <1>2 DEF PartsKept, With, Alive


\* A frame that is reported is counted, unless its job is over.
LEMMA Reported ==
    ASSUME done \in [JobId -> SUBSET Nat], NEW t \in Task, NotifyUpdate(t)
    PROVE  Settled(t)'
<1>1. CASE t.job \notin jobs
  <2>1. jobs' = jobs
    BY <1>1 DEF NotifyUpdate
  <2> QED BY <1>1, <2>1 DEF Settled
<1>2. CASE t.job \in jobs
  <2> DEFINE j == t.job
             f == t.frame
  <2>1. j \in JobId /\ t = [job |-> j, frame |-> f]
    <3>1. PICK l \in JobId : t \in [job : {l}, frame : 0 .. Frames[l] - 1]
      BY DEF Task
    <3>2. t.job = l /\ t = [job |-> l, frame |-> t.frame]
      BY <3>1
    <3> QED BY <3>2
  <2>2. done' = [done EXCEPT ![j] = done[j] \cup {f}]
    BY <1>2 DEF NotifyUpdate
  <2> HIDE DEF j, f
  <2>3. f \in done'[j]
    BY <2>1, <2>2
  <2>4. t \in Counted'
    BY <2>1, <2>3 DEF Counted
  <2> QED BY <2>4 DEF Settled
<1> QED BY <1>1, <1>2

\* What is with a client that is up stays with it until it is counted.
LEMMA WithStep ==
    ASSUME Types, HandlerInv, BatchInv, WireTypes, FlowInv, RunInv, TokenInv,
           done \in [JobId -> SUBSET Nat], [Next]_vars
    PROVE  WithKept
<1>1. ASSUME NEW c \in Clients, HandleClient(c) PROVE WithKept
  <2>1. /\ UNCHANGED <<new_jobs, active_tasks, requests, down, render_queue,
                       current, send_queue, reported>>
        /\ up' = [up EXCEPT ![c] = Append(up[c], Packet("CONNECT", <<>>))]
        /\ main' = [main EXCEPT ![c] = "get"] /\ main[c] = "new"
    BY <1>1 DEF HandleClient, Start, SendUp
  <2>2. \A d \in Clients : d # c => PartsKept(d)
    BY <2>1 DEF PartsKept, WireTypes, BatchInv, Types
  <2>9. ~ Alive(c)
    BY <2>1 DEF Alive
  <2> QED BY <2>2, <2>9, OneMoves
<1>2. ASSUME NEW c \in Clients, RemoteStep(c) PROVE WithKept
  <2>0. UNCHANGED queueVars /\ UNCHANGED managerVars /\ UNCHANGED handlerVars /\ ClientStep(c)
    BY <1>2 DEF RemoteStep
  <2>1. CASE RecvKeepAlive(c)
    <3>1. /\ UNCHANGED <<main, new_jobs, active_tasks, requests, render_queue,
                         current, send_queue, reported>>
          /\ up' = [up EXCEPT ![c] = Append(up[c], Packet("KEEPALIVE", <<>>))]
          /\ down' = [down EXCEPT ![c] = Tail(down[c])] /\ down[c] # <<>> /\ Head(down[c]).type = "KEEPALIVE"
      BY <2>0, <2>1 DEF RecvKeepAlive, SendUp, handlerVars
    <3>2. \A d \in Clients : d # c => PartsKept(d)
      BY <3>1 DEF PartsKept, WireTypes, BatchInv, Types
    <3>3. up[c] \in Seq(UpPacket) /\ up'[c] = Append(up[c], Packet("KEEPALIVE", <<>>))
      BY <3>1 DEF WireTypes
    <3>4. down[c] \in Seq(DownPacket) /\ down'[c] = Tail(down[c])
      BY <3>1 DEF WireTypes
    <3>5. down[c][1].tasks = <<>>
      <4>1. 1 \in DOMAIN down[c] /\ down[c][1].type = "KEEPALIVE"
        BY <3>1, <3>4, Tailed
      <4> QED BY <4>1 DEF FlowInv, DownCargo
    <3>6. Packet("KEEPALIVE", <<>>) \in UpPacket
      BY PacketTypes
    <3>9. ASSUME NEW t, Alive(c), With(c, t) PROVE Alive(c)' /\ With(c, t)'
      <4>1. Packed(down[c], t) => Packed(down'[c], t)
        BY <3>1, <3>4, <3>5, PackedFacts, Ranges
      <4>2. Packed(up[c], t) => Packed(up'[c], t)
        BY <3>3, <3>6, PackedFacts
      <4> QED BY <3>1, <3>9, <4>1, <4>2 DEF With, Alive
    <3> QED BY <3>2, <3>9, OneMoves
  <2>2. CASE RecvIssueJob(c)
    <3>1. /\ UNCHANGED <<main, new_jobs, active_tasks, requests, current,
                         send_queue, up, reported>>
          /\ render_queue' = [render_queue EXCEPT ![c] = Append(render_queue[c], Head(down[c]).tasks)]
          /\ down' = [down EXCEPT ![c] = Tail(down[c])] /\ down[c] # <<>>
      BY <2>0, <2>2 DEF RecvIssueJob, AddTask, handlerVars
    <3>2. \A d \in Clients : d # c => PartsKept(d)
      BY <3>1 DEF PartsKept, WireTypes, BatchInv, Types
    <3> DEFINE v == down[c][1].tasks
    <3>3. down[c] \in Seq(DownPacket) /\ down'[c] = Tail(down[c]) /\ Head(down[c]) = down[c][1] /\ v \in Batches
      <4>1. down[c] \in Seq(DownPacket) /\ down'[c] = Tail(down[c])
        BY <3>1 DEF WireTypes
      <4>2. Head(down[c]) = down[c][1] /\ down[c][1] \in DownPacket
        BY <3>1, <4>1, Tailed
      <4> QED BY <4>1, <4>2, PacketTypes
    <3>4. render_queue[c] \in Seq(Batches) /\ render_queue'[c] = Append(render_queue[c], v)
      BY <3>1, <3>3 DEF WireTypes
    <3>9. ASSUME NEW t, Alive(c), With(c, t) PROVE Alive(c)' /\ With(c, t)'
      <4>1. Packed(down[c], t) => t \in Range(v) \/ Packed(down'[c], t)
        BY <3>1, <3>3, PackedFacts
      <4> HIDE DEF v
      <4>2. Queue(render_queue[c], t) \/ t \in Range(v) => Queue(render_queue'[c], t)
        BY <3>3, <3>4, QueueFacts
      <4> QED BY <3>1, <3>9, <4>1, <4>2 DEF With, Alive
    <3> QED BY <3>2, <3>9, OneMoves
  <2>3. CASE GetTask(c)
    <3>1. /\ UNCHANGED <<new_jobs, active_tasks, requests, down, send_queue, up,
                         reported>>
          /\ current' = [current EXCEPT ![c] = Head(render_queue[c])]
          /\ render_queue' = [render_queue EXCEPT ![c] = Tail(render_queue[c])] /\ render_queue[c] # <<>>
          /\ main[c] = "get" /\ \E m \in {"ask", "render"} : main' = [main EXCEPT ![c] = m]
      BY <2>0, <2>3 DEF GetTask, handlerVars
    <3>2. \A d \in Clients : d # c => PartsKept(d)
      BY <3>1 DEF PartsKept, WireTypes, BatchInv, Types
    <3> DEFINE v == render_queue[c][1]
    <3>3. /\ render_queue[c] \in Seq(Batches) /\ render_queue'[c] = Tail(render_queue[c])
          /\ Head(render_queue[c]) = v
      <4>1. render_queue[c] \in Seq(Batches) /\ render_queue'[c] = Tail(render_queue[c])
        BY <3>1 DEF WireTypes
      <4> QED BY <3>1, <4>1, Tailed
    <3>4. current'[c] = v /\ Range(current[c]) = {} /\ main'[c] \in {"ask", "render"}
      BY <3>1, <3>3, Ranges DEF WireTypes, FlowInv, Types
    <3>9. ASSUME NEW t, Alive(c), With(c, t) PROVE Alive(c)' /\ With(c, t)'
      <4>1. Queue(render_queue[c], t) => t \in Range(v) \/ Queue(render_queue'[c], t)
        BY <3>1, <3>3, QueueFacts
      <4> HIDE DEF v
      <4> QED BY <3>1, <3>4, <3>9, <4>1 DEF With, Alive
    <3> QED BY <3>2, <3>9, OneMoves
  <2>4. CASE RequestMoreJobs(c)
    <3>1. /\ UNCHANGED <<new_jobs, active_tasks, requests, down, render_queue,
                         current, send_queue, reported>>
          /\ up' = [up EXCEPT ![c] = Append(up[c], Packet("FINISH_JOB", <<>>))]
          /\ main' = [main EXCEPT ![c] = "render"]
      BY <2>0, <2>4 DEF RequestMoreJobs, SendUp, handlerVars
    <3>2. \A d \in Clients : d # c => PartsKept(d)
      BY <3>1 DEF PartsKept, WireTypes, BatchInv, Types
    <3>3. up[c] \in Seq(UpPacket) /\ up'[c] = Append(up[c], Packet("FINISH_JOB", <<>>)) /\ main'[c] = "render"
      BY <3>1 DEF WireTypes, Types
    <3>4. Packet("FINISH_JOB", <<>>) \in UpPacket
      BY PacketTypes
    <3>9. ASSUME NEW t, Alive(c), With(c, t) PROVE Alive(c)' /\ With(c, t)'
      <4>1. Packed(up[c], t) => Packed(up'[c], t)
        BY <3>3, <3>4, PackedFacts
      <4> QED BY <3>1, <3>3, <3>9, <4>1 DEF With, Alive
    <3> QED BY <3>2, <3>9, OneMoves
  <2>5. CASE UpdateServer(c)
    <3>1. /\ UNCHANGED <<new_jobs, active_tasks, requests, down, render_queue, up,
                         reported>>
          /\ send_queue' = [send_queue EXCEPT ![c] = send_queue[c] \o current[c]]
          /\ current' = [current EXCEPT ![c] = <<>>]
          /\ main' = [main EXCEPT ![c] = "get"]
      BY <2>0, <2>5 DEF UpdateServer, handlerVars
    <3>2. \A d \in Clients : d # c => PartsKept(d)
      BY <3>1 DEF PartsKept, WireTypes, BatchInv, Types
    <3>3. /\ send_queue[c] \in Seq(Task) /\ current[c] \in Seq(Task)
          /\ send_queue'[c] = send_queue[c] \o current[c] /\ main'[c] = "get"
      BY <3>1 DEF WireTypes, Batches, Types
    <3>4. Range(send_queue'[c]) = Range(send_queue[c]) \cup Range(current[c])
      BY <3>3, Ranges
    <3>9. ASSUME NEW t, Alive(c), With(c, t) PROVE Alive(c)' /\ With(c, t)'
      BY <3>1, <3>3, <3>4, <3>9 DEF With, Alive
    <3> QED BY <3>2, <3>9, OneMoves
  <2>6. CASE SendUpdate(c)
    <3>1. /\ UNCHANGED <<main, new_jobs, active_tasks, requests, down,
                         render_queue, current, reported>>
          /\ up' = [up EXCEPT ![c] = Append(up[c], Packet("UPDATE_JOB", send_queue[c]))]
          /\ send_queue' = [send_queue EXCEPT ![c] = <<>>]
      BY <2>0, <2>6 DEF SendUpdate, SendUp, handlerVars
    <3>2. \A d \in Clients : d # c => PartsKept(d)
      BY <3>1 DEF PartsKept, WireTypes, BatchInv, Types
    <3> DEFINE v == Packet("UPDATE_JOB", send_queue[c])
    <3>3. up[c] \in Seq(UpPacket) /\ up'[c] = Append(up[c], v)
      BY <3>1 DEF WireTypes
    <3>4. v \in UpPacket /\ v.tasks = send_queue[c]
      BY PacketTypes DEF WireTypes
    <3> HIDE DEF v
    <3>9. ASSUME NEW t, Alive(c), With(c, t) PROVE Alive(c)' /\ With(c, t)'
      <4>1. Packed(up[c], t) \/ t \in Range(send_queue[c]) => Packed(up'[c], t)
        BY <3>3, <3>4, PackedFacts
      <4> QED BY <3>1, <3>9, <4>1 DEF With, Alive
    <3> QED BY <3>2, <3>9, OneMoves
  <2>7. CASE Disconnect(c)
    <3>1. disconnects' = disconnects + 1 /\ disconnects \in Nat
      BY <2>7 DEF Disconnect, WireTypes
    <3>2. disconnects' > disconnects
      BY <3>1
    <3>3. UNCHANGED handlerVars /\ \E n \in 0 .. Len(up[c]) : up' = [up EXCEPT ![c] = SubSeq(up[c], 1, n)]
      BY <2>0, <2>7 DEF Disconnect
    <3>4. /\ main' = [main EXCEPT ![c] = "gone"] /\ down' = [down EXCEPT ![c] = <<>>]
          /\ render_queue' = [render_queue EXCEPT ![c] = <<>>] /\ current' = [current EXCEPT ![c] = <<>>]
          /\ send_queue' = [send_queue EXCEPT ![c] = <<>>]
      BY <2>7 DEF Disconnect
    <3>5. \A d \in Clients : d # c => PartsKept(d)
      BY <3>3, <3>4 DEF PartsKept, WireTypes, BatchInv, Types, handlerVars
    <3>6. Leaves(c)
      BY <3>2, <3>4 DEF Leaves, Types
    <3> QED BY <3>5, <3>6, OneMoves
  <2> QED BY <2>0, <2>1, <2>2, <2>3, <2>4, <2>5, <2>6, <2>7 DEF ClientStep
<1>3. ASSUME NEW c \in Clients, HandleConnect(c) PROVE WithKept
  <2>1. /\ UNCHANGED <<main, new_jobs, active_tasks, requests, down,
                       render_queue, current, send_queue, reported>>
        /\ up' = [up EXCEPT ![c] = Tail(up[c])] /\ up[c] # <<>> /\ Head(up[c]).type = "CONNECT"
    BY <1>3 DEF HandleConnect, Received, Consume, NotifyFinish, clientVars, queueVars, managerVars, handlerVars
  <2>2. \A d \in Clients : d # c => PartsKept(d)
    BY <2>1 DEF PartsKept, WireTypes, BatchInv, Types
  <2>3. up[c] \in Seq(UpPacket) /\ up'[c] = Tail(up[c])
    BY <2>1 DEF WireTypes
  <2>4. up[c][1].tasks = <<>>
    <3>1. 1 \in DOMAIN up[c] /\ up[c][1].type # "UPDATE_JOB"
      BY <2>1, <2>3, Tailed
    <3> QED BY <3>1 DEF FlowInv, UpCargo
  <2>9. ASSUME NEW t, Alive(c), With(c, t) PROVE Alive(c)' /\ With(c, t)'
    <3>1. Packed(up[c], t) => Packed(up'[c], t)
      BY <2>1, <2>3, <2>4, PackedFacts, Ranges
    <3> QED BY <2>1, <2>9, <3>1 DEF With, Alive
  <2> QED BY <2>2, <2>9, OneMoves
<1>4. ASSUME NEW c \in Clients, HandleKeepAlive(c) PROVE WithKept
  <2>1. /\ UNCHANGED <<main, new_jobs, active_tasks, requests, down,
                       render_queue, current, send_queue, reported>>
        /\ up' = [up EXCEPT ![c] = Tail(up[c])] /\ up[c] # <<>> /\ Head(up[c]).type = "KEEPALIVE"
    BY <1>4 DEF HandleKeepAlive, Received, Consume, NotifyFinish, clientVars, queueVars, managerVars, handlerVars
  <2>2. \A d \in Clients : d # c => PartsKept(d)
    BY <2>1 DEF PartsKept, WireTypes, BatchInv, Types
  <2>3. up[c] \in Seq(UpPacket) /\ up'[c] = Tail(up[c])
    BY <2>1 DEF WireTypes
  <2>4. up[c][1].tasks = <<>>
    <3>1. 1 \in DOMAIN up[c] /\ up[c][1].type # "UPDATE_JOB"
      BY <2>1, <2>3, Tailed
    <3> QED BY <3>1 DEF FlowInv, UpCargo
  <2>9. ASSUME NEW t, Alive(c), With(c, t) PROVE Alive(c)' /\ With(c, t)'
    <3>1. Packed(up[c], t) => Packed(up'[c], t)
      BY <2>1, <2>3, <2>4, PackedFacts, Ranges
    <3> QED BY <2>1, <2>9, <3>1 DEF With, Alive
  <2> QED BY <2>2, <2>9, OneMoves
<1>5. ASSUME NEW c \in Clients, ReadUpdate(c) PROVE WithKept
  <2> DEFINE frames == up[c][1].tasks
             y == Tail(frames)
             v == Packet("UPDATE_JOB", y)
  <2>1. /\ UNCHANGED <<main, new_jobs, active_tasks, requests, down,
                       render_queue, current, send_queue>>
        /\ response[c] = "recv"
    BY <1>5, UpdateFacts, ReadFacts DEF managerVars, queueVars
  <2>2. /\ up[c] \in Seq(UpPacket) /\ up[c] # <<>> /\ 1 \in DOMAIN up[c]
        /\ frames \in Seq(Task) /\ frames # <<>> /\ Len(frames) \in Nat
        /\ y \in Seq(Task) /\ Len(y) = Len(frames) - 1 /\ v \in UpPacket
        /\ reported' = [reported EXCEPT ![c] = <<frames[1]>>]
        /\ Len(frames) = 1 => up' = [up EXCEPT ![c] = Tail(up[c])]
        /\ Len(frames) # 1 => up' = [up EXCEPT ![c] = [up[c] EXCEPT ![1] = v]]
    BY <1>5, UpdateFacts
  <2>3. v.tasks = y /\ Range(frames) = {frames[1]} \cup Range(y)
    BY <2>2, Ranges, PacketTypes
  <2>4. \A d \in Clients : d # c => PartsKept(d)
    <3> HIDE DEF frames, v
    <3> QED BY <2>1, <2>2 DEF PartsKept, WireTypes
  <2>5. /\ reported'[c] = <<frames[1]>> /\ Range(reported'[c]) = {frames[1]}
        /\ reported[c] = <<>> /\ Range(reported[c]) = {}
    <3>1. Len(reported[c]) = 0 /\ reported[c] \in Seq(Task)
      BY <2>1 DEF FlowInv, WireTypes, Batches
    <3>2. reported[c] = <<>>
      BY <3>1, EmptySeq
    <3>3. reported'[c] = <<frames[1]>>
      BY <2>2 DEF WireTypes
    <3> QED BY <3>2, <3>3, Ranges
  <2>6. \A t : Packed(up[c], t) => t = frames[1] \/ Packed(up'[c], t)
    <3>1. CASE Len(frames) = 1
      <4>1. up'[c] = Tail(up[c]) /\ Len(y) = 0
        BY <2>2, <3>1 DEF WireTypes
      <4> HIDE DEF y, v
      <4>2. y = <<>>
        BY <2>2, <4>1, EmptySeq
      <4>3. Range(frames) = {frames[1]}
        BY <2>3, <4>2, Ranges
      <4>4. \A t : Packed(up[c], t) => t \in Range(frames) \/ Packed(Tail(up[c]), t)
        BY <2>2, PackedFacts
      <4> QED BY <4>1, <4>3, <4>4
    <3>2. CASE Len(frames) # 1
      <4> DEFINE u == up[c]
      <4>1. up'[c] = [u EXCEPT ![1] = v]
        BY <2>2, <3>2 DEF WireTypes
      <4>2. u \in Seq(UpPacket) /\ u # <<>> /\ v \in UpPacket /\ u[1].tasks = frames
        BY <2>2
      <4> HIDE DEF u, v, y, frames
      <4>3. \A t : /\ Packed(u, t) => t \in Range(u[1].tasks) \/ Packed([u EXCEPT ![1] = v], t)
                   /\ t \in Range(v.tasks) => Packed([u EXCEPT ![1] = v], t)
        BY <4>2, PackedFacts
      <4>4. \A t : Packed(u, t) => t = frames[1] \/ Packed([u EXCEPT ![1] = v], t)
        BY <2>3, <4>2, <4>3
      <4> QED BY <4>1, <4>4 DEF u
    <3> QED BY <3>1, <3>2
  <2> HIDE DEF frames, y, v
  <2>7. ASSUME NEW t, Alive(c), With(c, t) PROVE Alive(c)' /\ With(c, t)'
    BY <2>1, <2>5, <2>6, <2>7 DEF With, Alive
  <2> QED BY <2>4, <2>7, OneMoves
<1>6. ASSUME NEW c \in Clients, CountUpdate(c) PROVE WithKept
  <2>1. /\ UNCHANGED <<main, new_jobs, active_tasks, requests, down,
                       render_queue, current, send_queue, up>>
        /\ reported' = [reported EXCEPT ![c] = <<>>]
        /\ response[c] = "count" /\ NotifyUpdate(reported[c][1])
    BY <1>6 DEF CountUpdate, clientVars
  <2>2. \A d \in Clients : d # c => PartsKept(d)
    BY <2>1 DEF PartsKept, WireTypes, BatchInv, Types
  <2>3. reported[c] \in Seq(Task) /\ Len(reported[c]) = 1
    BY <2>1 DEF FlowInv, WireTypes, Batches
  <2>4. PICK x \in Task : reported[c] = <<x>> /\ NotifyUpdate(x)
    BY <2>1, <2>3
  <2>5. Settled(x)'
    BY <2>4, Reported
  <2>9. ASSUME NEW t, Alive(c), With(c, t) PROVE (Alive(c)' /\ With(c, t)') \/ Settled(t)'
    <3>1. t \in Range(reported[c]) => Settled(t)'
      BY <2>4, <2>5, Ranges
    <3> QED BY <2>1, <2>9, <3>1 DEF With, Alive
  <2> QED BY <2>2, <2>9, OneMoves
<1>7. ASSUME NEW c \in Clients, HandleFinish(c) PROVE WithKept
  <2>1. /\ UNCHANGED <<main, new_jobs, active_tasks, requests, down,
                       render_queue, current, send_queue, reported>>
        /\ up' = [up EXCEPT ![c] = Tail(up[c])] /\ up[c] # <<>> /\ Head(up[c]).type = "FINISH_JOB"
    BY <1>7 DEF HandleFinish, Received, Consume, NotifyFinish, clientVars, queueVars, managerVars, handlerVars
  <2>2. \A d \in Clients : d # c => PartsKept(d)
    BY <2>1 DEF PartsKept, WireTypes, BatchInv, Types
  <2>3. up[c] \in Seq(UpPacket) /\ up'[c] = Tail(up[c])
    BY <2>1 DEF WireTypes
  <2>4. up[c][1].tasks = <<>>
    <3>1. 1 \in DOMAIN up[c] /\ up[c][1].type # "UPDATE_JOB"
      BY <2>1, <2>3, Tailed
    <3> QED BY <3>1 DEF FlowInv, UpCargo
  <2>9. ASSUME NEW t, Alive(c), With(c, t) PROVE Alive(c)' /\ With(c, t)'
    <3>1. Packed(up[c], t) => Packed(up'[c], t)
      BY <2>1, <2>3, <2>4, PackedFacts, Ranges
    <3> QED BY <2>1, <2>9, <3>1 DEF With, Alive
  <2> QED BY <2>2, <2>9, OneMoves
<1>8. ASSUME NEW c \in Clients, ResponseEnd(c) PROVE WithKept
  <2>1. UNCHANGED <<main, new_jobs, active_tasks, requests, down,
                    render_queue, current, send_queue, up, reported>>
    BY <1>8 DEF ResponseEnd, clientVars, queueVars, managerVars, handlerVars
  <2> QED BY <2>1, NoneMoves
<1>9. ASSUME NEW c \in Clients, ResponseRemove(c) PROVE WithKept
  <2>1. UNCHANGED <<main, new_jobs, active_tasks, requests, down,
                    render_queue, current, send_queue, up, reported>>
    BY <1>9 DEF ResponseRemove, clientVars, queueVars, managerVars, handlerVars
  <2> QED BY <2>1, NoneMoves
<1>10. ASSUME NEW c \in Clients, ResponseReturn(c) PROVE WithKept
  <2>1. UNCHANGED <<main, new_jobs, active_tasks, requests, down,
                    render_queue, current, send_queue, up, reported>>
    BY <1>10 DEF ResponseReturn, clientVars, queueVars, managerVars, handlerVars
  <2> QED BY <2>1, NoneMoves
<1>11. ASSUME NEW c \in Clients, IssueTake(c) PROVE WithKept
  <2>1. /\ UNCHANGED <<main, active_tasks, down, render_queue, current,
                       send_queue, up, reported>>
        /\ new_jobs' = [new_jobs EXCEPT ![c] = FALSE]
        /\ requests' = [requests EXCEPT ![c] = Requests(active_tasks[c])]
        /\ new_jobs[c] /\ issue[c] = "wait"
    BY <1>11 DEF IssueTake, clientVars
  <2>2. \A d \in Clients : d # c => PartsKept(d)
    BY <2>1 DEF PartsKept, WireTypes, BatchInv, Types
  <2>3. /\ requests[c] = <<>>
        /\ requests'[c] = <<[type |-> "ISSUE_JOB", tasks |-> active_tasks[c]]>>
    <3>1. active_tasks[c] \in Seq(Task) /\ SingleJob(active_tasks[c])
      BY <2>1 DEF FlowInv, BatchInv
    <3>2. Len(active_tasks[c]) \in 1 .. MAX_JOB_CAPABILITY
      BY <2>1 DEF BatchInv
    <3>3. active_tasks[c] # <<>>
      BY <3>2
    <3>4. requests'[c] = Requests(active_tasks[c])
      BY <2>1 DEF WireTypes
    <3> QED BY <2>1, <3>1, <3>3, <3>4, RequestsOfOne DEF FlowInv
  <2>9. ASSUME NEW t, Alive(c), With(c, t) PROVE Alive(c)' /\ With(c, t)'
    <3>1. ~ Packed(requests[c], t)
      BY <2>3 DEF Packed
    <3> DEFINE s == active_tasks[c]
    <3> HIDE DEF s
    <3>2. t \in Range(s) => Packed(<<[type |-> "ISSUE_JOB", tasks |-> s]>>, t)
      BY DEF Packed
    <3>3. t \in Range(active_tasks[c]) => Packed(requests'[c], t)
      BY <2>3, <3>2 DEF s
    <3> QED BY <2>1, <2>9, <3>1, <3>3 DEF With, Alive
  <2> QED BY <2>2, <2>9, OneMoves
<1>12. ASSUME NEW c \in Clients, IssueSend(c) PROVE WithKept
  <2>1. /\ UNCHANGED <<main, new_jobs, active_tasks, render_queue, current,
                       send_queue, up, reported>>
        /\ Alive(c) => down' = [down EXCEPT ![c] = Append(down[c], Head(requests[c]))]
        /\ ~ Alive(c) => down' = down
        /\ requests' = [requests EXCEPT ![c] = Tail(requests[c])] /\ issue[c] = "send"
    BY <1>12 DEF IssueSend, SendDown, managerVars
  <2>2. \A d \in Clients : d # c => PartsKept(d)
    BY <2>1 DEF PartsKept, WireTypes, BatchInv, Types
  <2>9. ASSUME NEW t, Alive(c), With(c, t) PROVE Alive(c)' /\ With(c, t)'
    <3>1. down[c] \in Seq(DownPacket) /\ down'[c] = Append(down[c], Head(requests[c]))
      BY <2>1, <2>9 DEF WireTypes
    <3>2. requests[c] \in Seq(JobPacket) /\ requests'[c] = Tail(requests[c]) /\ Len(requests[c]) = 1
      BY <2>1 DEF WireTypes, FlowInv
    <3>3. requests[c] # <<>> /\ Head(requests[c]) = requests[c][1] /\ requests[c][1] \in DownPacket
      <4>1. requests[c] # <<>>
        BY <3>2
      <4>2. Head(requests[c]) = requests[c][1] /\ requests[c][1] \in JobPacket
        BY <3>2, <4>1, Tailed
      <4> QED BY <4>1, <4>2, PacketTypes
    <3> DEFINE v == requests[c][1]
    <3>4. v \in DownPacket /\ down'[c] = Append(down[c], v)
      BY <3>1, <3>3
    <3>5. Packed(requests[c], t) => t \in Range(v.tasks) \/ Packed(requests'[c], t)
      BY <3>2, <3>3, PackedFacts
    <3> HIDE DEF v
    <3>6. Packed(down[c], t) \/ t \in Range(v.tasks) => Packed(down'[c], t)
      BY <3>1, <3>4, PackedFacts
    <3> QED BY <2>1, <2>9, <3>5, <3>6 DEF With, Alive
  <2> QED BY <2>2, <2>9, OneMoves
<1>13. ASSUME NEW c \in Clients, IssueFail(c) PROVE WithKept
  <2>1. /\ UNCHANGED <<main, new_jobs, requests, down, render_queue, current,
                       send_queue, up, reported>>
        /\ active_tasks' = [active_tasks EXCEPT ![c] = <<>>]
        /\ issue[c] = "send" /\ (~ active[c] \/ main[c] = "gone")
    BY <1>13 DEF IssueFail, clientVars, queueVars, managerVars, handlerVars
  <2>2. \A d \in Clients : d # c => PartsKept(d)
    BY <2>1 DEF PartsKept, WireTypes, BatchInv, Types
  <2>9. ~ Alive(c)
    BY <2>1 DEF RunInv, Alive
  <2> QED BY <2>2, <2>9, OneMoves
<1>14. ASSUME NEW c \in Clients, IssueRemove(c) PROVE WithKept
  <2>1. UNCHANGED <<main, new_jobs, active_tasks, requests, down,
                    render_queue, current, send_queue, up, reported>>
    BY <1>14 DEF IssueRemove, clientVars, queueVars, managerVars, handlerVars
  <2> QED BY <2>1, NoneMoves
<1>15. ASSUME NEW c \in Clients, IssueEnd(c) PROVE WithKept
  <2>1. UNCHANGED <<main, new_jobs, active_tasks, requests, down,
                    render_queue, current, send_queue, up, reported>>
    BY <1>15 DEF IssueEnd, clientVars, queueVars, managerVars, handlerVars
  <2> QED BY <2>1, NoneMoves
<1>16. ASSUME NEW c \in Clients, TryKeepAlive(c) PROVE WithKept
  <2>1. /\ UNCHANGED <<main, new_jobs, active_tasks, requests, render_queue,
                       current, send_queue, up, reported>>
        /\ Alive(c) => down' = [down EXCEPT ![c] = Append(down[c], Packet("KEEPALIVE", <<>>))]
        /\ ~ Alive(c) => down' = down
    BY <1>16 DEF TryKeepAlive, SendDown
  <2>2. \A d \in Clients : d # c => PartsKept(d)
    BY <2>1 DEF PartsKept, WireTypes, BatchInv, Types
  <2>9. ASSUME NEW t, Alive(c), With(c, t) PROVE Alive(c)' /\ With(c, t)'
    <3>1. down[c] \in Seq(DownPacket) /\ down'[c] = Append(down[c], Packet("KEEPALIVE", <<>>))
      BY <2>1, <2>9 DEF WireTypes
    <3>2. Packet("KEEPALIVE", <<>>) \in DownPacket
      BY PacketTypes
    <3>3. Packed(down[c], t) => Packed(down'[c], t)
      BY <3>1, <3>2, PackedFacts
    <3> QED BY <2>1, <2>9, <3>3 DEF With, Alive
  <2> QED BY <2>2, <2>9, OneMoves
<1>17. ASSUME NEW c \in Clients, KeepAliveFailed(c) PROVE WithKept
  <2>1. UNCHANGED <<main, new_jobs, active_tasks, requests, down,
                    render_queue, current, send_queue, up, reported>>
    BY <1>17 DEF KeepAliveFailed, clientVars, queueVars, managerVars, handlerVars
  <2> QED BY <2>1, NoneMoves
<1>18. CASE AddJob
  <2>1. UNCHANGED <<main, new_jobs, active_tasks, requests, down,
                    render_queue, current, send_queue, up, reported>>
    BY <1>18 DEF AddJob, clientVars, queueVars, managerVars, handlerVars
  <2> QED BY <2>1, NoneMoves
<1>19. CASE DistWait
  <2>1. UNCHANGED <<main, new_jobs, active_tasks, requests, down,
                    render_queue, current, send_queue, up, reported>>
    BY <1>19 DEF DistWait, clientVars, queueVars, managerVars, handlerVars
  <2> QED BY <2>1, NoneMoves
<1>20. CASE DistLookup
  <2>1. UNCHANGED <<main, new_jobs, active_tasks, requests, down,
                    render_queue, current, send_queue, up, reported>>
    BY <1>20 DEF DistLookup, clientVars, queueVars, managerVars, handlerVars
  <2> QED BY <2>1, NoneMoves
<1>21. CASE DistFetch
  <2>1. UNCHANGED <<main, new_jobs, active_tasks, requests, down,
                    render_queue, current, send_queue, up, reported>>
    BY <1>21 DEF DistFetch, clientVars, queueVars, managerVars, handlerVars
  <2> QED BY <2>1, NoneMoves
<1>22. CASE DistRefused
  <2>1. UNCHANGED <<main, new_jobs, active_tasks, requests, down,
                    render_queue, current, send_queue, up, reported>>
    BY <1>22 DEF DistRefused, clientVars, queueVars, managerVars, handlerVars
  <2> QED BY <2>1, NoneMoves
<1>23. CASE DistSubmit
  <2>1. UNCHANGED <<main, new_jobs, active_tasks, requests, down,
                    render_queue, current, send_queue, up, reported>>
    BY <1>23 DEF DistSubmit, clientVars, queueVars, managerVars, handlerVars
  <2> QED BY <2>1, NoneMoves
<1>24. CASE DistStore
  <2>0. dist # "wait"
    BY <1>24 DEF DistStore
  <2>c. PICK c \in Clients : c = dist_client
    BY <2>0, Served
  <2>1. /\ UNCHANGED <<main, requests, down, render_queue, current, send_queue,
                       up, reported>>
        /\ new_jobs' = [new_jobs EXCEPT ![c] = TRUE]
        /\ active_tasks' = [active_tasks EXCEPT ![c] = tasks]
        /\ dist # "wait"
    BY <1>24, <2>c DEF DistStore, clientVars
  <2>2. \A d \in Clients : d # c => PartsKept(d)
    BY <2>1 DEF PartsKept, WireTypes, BatchInv, Types
  <2>9. ASSUME NEW t, Alive(c), With(c, t) PROVE Alive(c)' /\ With(c, t)'
    <3>1. ~ new_jobs[c]
      BY <2>c, <2>1, <2>9, Served
    <3> QED BY <2>1, <2>9, <3>1 DEF With, Alive
  <2> QED BY <2>2, <2>9, OneMoves
<1>25. CASE KeepAliveAnswered
  <2>1. UNCHANGED <<main, new_jobs, active_tasks, requests, down,
                    render_queue, current, send_queue, up, reported>>
    BY <1>25 DEF KeepAliveAnswered, clientVars, queueVars, managerVars, handlerVars
  <2> QED BY <2>1, NoneMoves
<1>26. CASE KeeperRemove
  <2>1. UNCHANGED <<main, new_jobs, active_tasks, requests, down,
                    render_queue, current, send_queue, up, reported>>
    BY <1>26 DEF KeeperRemove, clientVars, queueVars, managerVars, handlerVars
  <2> QED BY <2>1, NoneMoves
<1>27. CASE KeeperReturn
  <2>1. UNCHANGED <<main, new_jobs, active_tasks, requests, down,
                    render_queue, current, send_queue, up, reported>>
    BY <1>27 DEF KeeperReturn, clientVars, queueVars, managerVars, handlerVars
  <2> QED BY <2>1, NoneMoves
<1>28. CASE KeeperJoin
  <2>1. UNCHANGED <<main, new_jobs, active_tasks, requests, down,
                    render_queue, current, send_queue, up, reported>>
    BY <1>28 DEF KeeperJoin, clientVars, queueVars, managerVars, handlerVars
  <2> QED BY <2>1, NoneMoves
<1>29. CASE KeeperDelete
  <2>1. UNCHANGED <<main, new_jobs, active_tasks, requests, down,
                    render_queue, current, send_queue, up, reported>>
    BY <1>29 DEF KeeperDelete, clientVars, queueVars, managerVars, handlerVars
  <2> QED BY <2>1, NoneMoves
<1>30. CASE UNCHANGED vars
  <2>1. UNCHANGED <<main, new_jobs, active_tasks, requests, down,
                    render_queue, current, send_queue, up, reported>>
    BY <1>30 DEF vars, clientVars, queueVars, managerVars, handlerVars
  <2> QED BY <2>1, NoneMoves
<1> QED BY Actions, <1>1, <1>2, <1>3, <1>4, <1>5, <1>6, <1>7, <1>8, <1>9, <1>10,
    <1>11, <1>12, <1>13, <1>14, <1>15, <1>16, <1>17, <1>18, <1>19, <1>20, <1>21,
    <1>22, <1>23, <1>24, <1>25, <1>26, <1>27, <1>28, <1>29, <1>30


\* A step that touches neither the queue nor a handler's batch.
LEMMA TasksStay ==
    ASSUME UNCHANGED <<fresh, task_queue, tasks, active_tasks>>,
           \A c \in Clients : HandsBack(c) => HandsBack(c)'
    PROVE  TasksMove
<1>1. \A t : InTheServer(t)' <=> InTheServer(t)
  BY DEF InTheServer
<1> QED BY <1>1 DEF TasksMove, ServerKept, BatchKept, Origin

\* Where tasks go, and where they come from.
LEMMA TaskStep ==
    ASSUME Types, HandlerInv, StoreInv, BatchInv, FlowInv, [Next]_vars
    PROVE  TasksMove
<1>1. ASSUME NEW c \in Clients, HandleClient(c) PROVE TasksMove
  <2>1. UNCHANGED <<fresh, task_queue, tasks, active_tasks>>
    BY <1>1 DEF HandleClient, clientVars, queueVars, managerVars, handlerVars
  <2>2. \A d \in Clients : HandsBack(d) => HandsBack(d)'
    BY <1>1 DEF HandsBack, Types, HandleClient, clientVars, queueVars, managerVars, handlerVars
  <2> QED BY <2>1, <2>2, TasksStay
<1>2. ASSUME NEW c \in Clients, RemoteStep(c) PROVE TasksMove
  <2>1. UNCHANGED <<fresh, task_queue, tasks, active_tasks>>
    BY <1>2 DEF RemoteStep, queueVars, managerVars, handlerVars
  <2>2. \A d \in Clients : HandsBack(d) => HandsBack(d)'
    BY <1>2 DEF RemoteStep, handlerVars, HandsBack
  <2> QED BY <2>1, <2>2, TasksStay
<1>3. ASSUME NEW c \in Clients, HandleConnect(c) PROVE TasksMove
  <2>1. UNCHANGED <<fresh, task_queue, tasks, active_tasks>>
    BY <1>3 DEF HandleConnect, clientVars, queueVars, managerVars, handlerVars
  <2>2. \A d \in Clients : HandsBack(d) => HandsBack(d)'
    BY <1>3 DEF HandsBack, Types, HandleConnect, clientVars, queueVars, managerVars, handlerVars
  <2> QED BY <2>1, <2>2, TasksStay
<1>4. ASSUME NEW c \in Clients, HandleKeepAlive(c) PROVE TasksMove
  <2>1. UNCHANGED <<fresh, task_queue, tasks, active_tasks>>
    BY <1>4 DEF HandleKeepAlive, clientVars, queueVars, managerVars, handlerVars
  <2>2. \A d \in Clients : HandsBack(d) => HandsBack(d)'
    BY <1>4 DEF HandsBack, Types, HandleKeepAlive, clientVars, queueVars, managerVars, handlerVars
  <2> QED BY <2>1, <2>2, TasksStay
<1>5. ASSUME NEW c \in Clients, ReadUpdate(c) PROVE TasksMove
  <2>1. UNCHANGED <<fresh, task_queue, tasks, active_tasks>>
    BY <1>5, ReadFacts DEF queueVars, managerVars
  <2>2. \A d \in Clients : HandsBack(d) => HandsBack(d)'
    BY <1>5, ReadFacts DEF HandsBack, Types
  <2> QED BY <2>1, <2>2, TasksStay
<1>6. ASSUME NEW c \in Clients, CountUpdate(c) PROVE TasksMove
  <2>1. UNCHANGED <<fresh, task_queue, tasks, active_tasks>>
    BY <1>6 DEF CountUpdate, clientVars, queueVars, managerVars, handlerVars, NotifyUpdate
  <2>2. \A d \in Clients : HandsBack(d) => HandsBack(d)'
    BY <1>6 DEF HandsBack, Types, CountUpdate, clientVars, queueVars, managerVars, handlerVars
  <2> QED BY <2>1, <2>2, TasksStay
<1>7. ASSUME NEW c \in Clients, HandleFinish(c) PROVE TasksMove
  <2>1. UNCHANGED <<fresh, task_queue, tasks, active_tasks>>
    BY <1>7 DEF HandleFinish, clientVars, queueVars, managerVars, handlerVars
  <2>2. \A d \in Clients : HandsBack(d) => HandsBack(d)'
    BY <1>7 DEF HandsBack, Types, HandleFinish, clientVars, queueVars, managerVars, handlerVars
  <2> QED BY <2>1, <2>2, TasksStay
<1>8. ASSUME NEW c \in Clients, ResponseEnd(c) PROVE TasksMove
  <2>1. UNCHANGED <<fresh, task_queue, tasks, active_tasks>>
    BY <1>8 DEF ResponseEnd, clientVars, queueVars, managerVars, handlerVars
  <2>2. \A d \in Clients : HandsBack(d) => HandsBack(d)'
    BY <1>8 DEF HandsBack, Types, ResponseEnd, clientVars, queueVars, managerVars, handlerVars
  <2> QED BY <2>1, <2>2, TasksStay
<1>9. ASSUME NEW c \in Clients, ResponseRemove(c) PROVE TasksMove
  <2>1. UNCHANGED <<fresh, task_queue, tasks, active_tasks>>
    BY <1>9 DEF ResponseRemove, clientVars, queueVars, managerVars, handlerVars
  <2>2. \A d \in Clients : HandsBack(d) => HandsBack(d)'
    BY <1>9 DEF HandsBack, Types, ResponseRemove, clientVars, queueVars, managerVars, handlerVars
  <2> QED BY <2>1, <2>2, TasksStay
<1>10. ASSUME NEW c \in Clients, ResponseReturn(c) PROVE TasksMove
  <2>1. /\ UNCHANGED <<fresh, tasks, active_tasks>>
        /\ task_queue' = task_queue \o active_tasks[c]
        /\ response' = [response EXCEPT ![c] = "exited"]
    BY <1>10 DEF ResponseReturn, AddTasks
  <2>2. Range(task_queue') = Range(task_queue) \cup Range(active_tasks[c])
    BY <2>1, Ranges DEF BatchInv
  <2>3. \A t : InTheServer(t)' <=> InTheServer(t) \/ t \in Range(active_tasks[c])
    BY <2>1, <2>2 DEF InTheServer
  <2>4. \A d \in Clients : d # c => response'[d] = response[d]
    BY <2>1 DEF Types
  <2>5. BatchKept
    BY <2>1, <2>3, <2>4 DEF BatchKept, HandsBack
  <2> QED BY <2>1, <2>3, <2>5 DEF TasksMove, ServerKept, Origin
<1>11. ASSUME NEW c \in Clients, IssueTake(c) PROVE TasksMove
  <2>1. UNCHANGED <<fresh, task_queue, tasks, active_tasks>>
    BY <1>11 DEF IssueTake, clientVars, queueVars, managerVars, handlerVars
  <2>2. \A d \in Clients : HandsBack(d) => HandsBack(d)'
    BY <1>11 DEF HandsBack, Types, IssueTake, clientVars, queueVars, managerVars, handlerVars
  <2> QED BY <2>1, <2>2, TasksStay
<1>12. ASSUME NEW c \in Clients, IssueSend(c) PROVE TasksMove
  <2>1. UNCHANGED <<fresh, task_queue, tasks, active_tasks>>
    BY <1>12 DEF IssueSend, clientVars, queueVars, managerVars, handlerVars
  <2>2. \A d \in Clients : HandsBack(d) => HandsBack(d)'
    BY <1>12 DEF HandsBack, Types, IssueSend, clientVars, queueVars, managerVars, handlerVars
  <2> QED BY <2>1, <2>2, TasksStay
<1>13. ASSUME NEW c \in Clients, IssueFail(c) PROVE TasksMove
  <2>1. /\ UNCHANGED <<fresh, task_queue, tasks, response>> /\ main[c] # "new"
        /\ active_tasks' = [active_tasks EXCEPT ![c] = <<>>]
    BY <1>13 DEF IssueFail, queueVars, managerVars, HandlerInv
  <2>2. \A t : InTheServer(t)' <=> InTheServer(t)
    BY <2>1 DEF InTheServer
  <2>3. active_tasks'[c] = <<>> /\ \A d \in Clients : d # c => active_tasks'[d] = active_tasks[d]
    BY <2>1 DEF BatchInv
  <2>4. BatchKept
    <3>1. \A t \in Range(active_tasks[c]) : active_tasks'[c] # active_tasks[c]
      BY <2>3, Ranges
    <3> QED BY <2>1, <2>3, <3>1 DEF BatchKept, HandsBack
  <2>5. Origin
    BY <2>2, <2>3, Ranges DEF Origin
  <2> QED BY <2>2, <2>4, <2>5 DEF TasksMove, ServerKept
<1>14. ASSUME NEW c \in Clients, IssueRemove(c) PROVE TasksMove
  <2>1. UNCHANGED <<fresh, task_queue, tasks, active_tasks>>
    BY <1>14 DEF IssueRemove, clientVars, queueVars, managerVars, handlerVars
  <2>2. \A d \in Clients : HandsBack(d) => HandsBack(d)'
    BY <1>14 DEF HandsBack, Types, IssueRemove, clientVars, queueVars, managerVars, handlerVars
  <2> QED BY <2>1, <2>2, TasksStay
<1>15. ASSUME NEW c \in Clients, IssueEnd(c) PROVE TasksMove
  <2>1. UNCHANGED <<fresh, task_queue, tasks, active_tasks>>
    BY <1>15 DEF IssueEnd, clientVars, queueVars, managerVars, handlerVars
  <2>2. \A d \in Clients : HandsBack(d) => HandsBack(d)'
    BY <1>15 DEF HandsBack, Types, IssueEnd, clientVars, queueVars, managerVars, handlerVars
  <2> QED BY <2>1, <2>2, TasksStay
<1>16. ASSUME NEW c \in Clients, TryKeepAlive(c) PROVE TasksMove
  <2>1. UNCHANGED <<fresh, task_queue, tasks, active_tasks>>
    BY <1>16 DEF TryKeepAlive, clientVars, queueVars, managerVars, handlerVars
  <2>2. \A d \in Clients : HandsBack(d) => HandsBack(d)'
    BY <1>16 DEF HandsBack, Types, TryKeepAlive, clientVars, queueVars, managerVars, handlerVars
  <2> QED BY <2>1, <2>2, TasksStay
<1>17. ASSUME NEW c \in Clients, KeepAliveFailed(c) PROVE TasksMove
  <2>1. UNCHANGED <<fresh, task_queue, tasks, active_tasks>>
    BY <1>17 DEF KeepAliveFailed, clientVars, queueVars, managerVars, handlerVars
  <2>2. \A d \in Clients : HandsBack(d) => HandsBack(d)'
    BY <1>17 DEF HandsBack, Types, KeepAliveFailed, clientVars, queueVars, managerVars, handlerVars
  <2> QED BY <2>1, <2>2, TasksStay
<1>18. CASE AddJob
  <2>1. /\ UNCHANGED <<task_queue, tasks, active_tasks, response>>
        /\ fresh' = fresh \o FramesOf(submitted + 1) /\ submitted' = submitted + 1 /\ submitted < Len(Frames)
    BY <1>18 DEF AddJob, managerVars, handlerVars
  <2>2. submitted + 1 \in JobId /\ fresh \in Seq(Task)
    BY <2>1, DispatchAssumption DEF BatchInv, JobId
  <2> DEFINE new == FramesOf(submitted + 1)
  <2>3. new \in Seq(Task) /\ \A t \in Range(new) : t.job = submitted + 1
    <3>1. new \in Seq(Task)
      BY <2>2, FramesOfType
    <3>2. \A i \in DOMAIN FramesOf(submitted + 1) : FramesOf(submitted + 1)[i].job = submitted + 1
      BY DEF FramesOf
    <3> HIDE DEF new
    <3>3. \A i \in DOMAIN new : new[i].job = submitted + 1
      BY <3>2 DEF new
    <3> QED BY <3>1, <3>3 DEF Range
  <2> HIDE DEF new
  <2>4. Range(fresh') = Range(fresh) \cup Range(new)
    <3>1. fresh' = fresh \o new
      BY <2>1 DEF new
    <3> QED BY <2>2, <2>3, <3>1, Ranges
  <2>5. ServerKept
    BY <2>1, <2>4 DEF ServerKept, InTheServer
  <2>6. BatchKept
    BY <2>1 DEF BatchKept, HandsBack
  <2>7. Origin
    BY <2>1, <2>3, <2>4 DEF Origin, InTheServer
  <2> QED BY <2>5, <2>6, <2>7 DEF TasksMove
<1>19. CASE DistWait
  <2>1. UNCHANGED <<fresh, task_queue, tasks, active_tasks>>
    BY <1>19 DEF DistWait, clientVars, queueVars, managerVars, handlerVars
  <2>2. \A d \in Clients : HandsBack(d) => HandsBack(d)'
    BY <1>19 DEF HandsBack, Types, DistWait, clientVars, queueVars, managerVars, handlerVars
  <2> QED BY <2>1, <2>2, TasksStay
<1>20. CASE DistLookup
  <2>1. UNCHANGED <<fresh, task_queue, tasks, active_tasks>>
    <3>1. tasks = <<>>
      BY <1>20 DEF DistLookup, FlowInv
    <3> QED BY <1>20, <3>1 DEF DistLookup, DistAgain, queueVars, handlerVars
  <2>2. \A d \in Clients : HandsBack(d) => HandsBack(d)'
    BY <1>20 DEF DistLookup, handlerVars, HandsBack
  <2> QED BY <2>1, <2>2, TasksStay
<1>21. CASE DistFetch
  <2> DEFINE n == Min({Len(task_queue), max_jobs})
             back == SubSeq(task_queue, 1, n)
             rest == SubSeq(task_queue, n + 1, Len(task_queue))
             m == Min({Len(fresh), max_jobs - Len(back)})
             new == SubSeq(fresh, 1, m)
             left == SubSeq(fresh, m + 1, Len(fresh))
  <2>1. /\ UNCHANGED <<active_tasks, response>> /\ dist = "fetch"
    BY <1>21 DEF DistFetch, handlerVars
  <2>2. max_jobs \in Nat /\ task_queue \in Seq(Task) /\ fresh \in Seq(Task) /\ tasks = <<>>
    BY <2>1 DEF BatchInv, FlowInv
  <2>3. Len(task_queue) \in Nat /\ n \in 0 .. Len(task_queue) /\ n <= max_jobs
    BY <2>2, MinOfTwo
  <2>4. back \in Seq(Task) /\ Len(back) = n /\ rest \in Seq(Task) /\ task_queue = back \o rest
    BY <2>2, <2>3, Split, Halves
  <2>5. Len(fresh) \in Nat /\ max_jobs - Len(back) \in Nat
    BY <2>2, <2>3, <2>4
  <2>6. m \in 0 .. Len(fresh)
    <3> DEFINE k == max_jobs - Len(back)
               l == Len(fresh)
    <3> HIDE DEF k, l
    <3>1. k \in Nat /\ l \in Nat
      BY <2>5 DEF k, l
    <3>2. Min({l, k}) \in 0 .. l
      BY <3>1, MinOfTwo
    <3> QED BY <3>2 DEF k, l
  <2>7. new \in Seq(Task) /\ Len(new) = m /\ left \in Seq(Task) /\ fresh = new \o left
    BY <2>2, <2>6, Split, Halves
  <2>8. task_queue' = rest /\ fresh' = left /\ tasks' = back \o new
    BY <1>21, <2>4, <2>7 DEF DistFetch
  <2> HIDE DEF n, m, back, rest, new, left
  <2>9. /\ Range(task_queue) = Range(back) \cup Range(rest) /\ Range(fresh) = Range(new) \cup Range(left)
        /\ Range(tasks') = Range(back) \cup Range(new)
        /\ Range(task_queue') = Range(rest) /\ Range(fresh') = Range(left)
    <3>1. /\ Range(back \o rest) = Range(back) \cup Range(rest)
          /\ Range(new \o left) = Range(new) \cup Range(left)
          /\ Range(back \o new) = Range(back) \cup Range(new)
      BY <2>4, <2>7, Ranges
    <3> QED BY <2>4, <2>7, <2>8, <3>1, Zenon
  <2>10. \A t : InTheServer(t)' <=> InTheServer(t)
    BY <2>2, <2>9, Ranges DEF InTheServer
  <2> QED BY <2>1, <2>10 DEF TasksMove, ServerKept, BatchKept, Origin, HandsBack
<1>22. CASE DistRefused
  <2>1. /\ UNCHANGED <<fresh, active_tasks, response>>
        /\ task_queue' = task_queue \o tasks /\ tasks' = <<>>
    BY <1>22 DEF DistRefused, DistAgain, AddTasks, handlerVars
  <2>2. Range(task_queue') = Range(task_queue) \cup Range(tasks) /\ Range(tasks') = {}
    BY <2>1, Ranges DEF BatchInv
  <2>3. \A t : InTheServer(t)' <=> InTheServer(t)
    BY <2>1, <2>2 DEF InTheServer
  <2> QED BY <2>1, <2>3 DEF TasksMove, ServerKept, BatchKept, Origin, HandsBack
<1>23. CASE DistSubmit
  <2>1. UNCHANGED <<fresh, task_queue, tasks, active_tasks>>
    BY <1>23 DEF DistSubmit, clientVars, queueVars, managerVars, handlerVars
  <2>2. \A d \in Clients : HandsBack(d) => HandsBack(d)'
    BY <1>23 DEF HandsBack, Types, DistSubmit, clientVars, queueVars, managerVars, handlerVars
  <2> QED BY <2>1, <2>2, TasksStay
<1>24. CASE DistStore
  <2>1. /\ UNCHANGED <<fresh, task_queue, response>> /\ dist = "store" /\ tasks' = <<>>
        /\ active_tasks' = [active_tasks EXCEPT ![dist_client] = tasks]
        /\ new_jobs' = [new_jobs EXCEPT ![dist_client] = TRUE]
    BY <1>24 DEF DistStore, DistAgain, queueVars
  <2>2. PICK c \in Clients : c = dist_client
    BY <2>1 DEF Types
  <2>3. response[c] \in {"recv", "count", "stop"} /\ main[c] # "new"
    BY <2>1, <2>2 DEF StoreInv, HandlerInv
  <2>4. /\ active_tasks'[c] = tasks /\ new_jobs'[c] = TRUE
        /\ \A d \in Clients : d # c => active_tasks'[d] = active_tasks[d]
    BY <2>1, <2>2 DEF BatchInv
  <2>5. ServerKept
    <3>1. HandsBack(c)'
      BY <2>1, <2>3 DEF HandsBack
    <3>2. Range(active_tasks[c])' = Range(tasks)
      BY <2>4
    <3> QED BY <2>1, <3>1, <3>2 DEF ServerKept, InTheServer
  <2>6. BatchKept
    BY <2>1, <2>3, <2>4 DEF BatchKept, HandsBack
  <2>7. Origin
    <3>1. \A t : InTheServer(t)' => InTheServer(t)
      BY <2>1, Ranges DEF InTheServer
    <3>2. \A t \in Range(tasks) : InTheServer(t)
      BY DEF InTheServer
    <3> QED BY <2>3, <2>4, <3>1, <3>2 DEF Origin
  <2> QED BY <2>5, <2>6, <2>7 DEF TasksMove
<1>25. CASE KeepAliveAnswered
  <2>1. UNCHANGED <<fresh, task_queue, tasks, active_tasks>>
    BY <1>25 DEF KeepAliveAnswered, clientVars, queueVars, managerVars, handlerVars
  <2>2. \A d \in Clients : HandsBack(d) => HandsBack(d)'
    BY <1>25 DEF HandsBack, Types, KeepAliveAnswered, clientVars, queueVars, managerVars, handlerVars
  <2> QED BY <2>1, <2>2, TasksStay
<1>26. CASE KeeperRemove
  <2>1. UNCHANGED <<fresh, task_queue, tasks, active_tasks>>
    BY <1>26 DEF KeeperRemove, clientVars, queueVars, managerVars, handlerVars
  <2>2. \A d \in Clients : HandsBack(d) => HandsBack(d)'
    BY <1>26 DEF HandsBack, Types, KeeperRemove, clientVars, queueVars, managerVars, handlerVars
  <2> QED BY <2>1, <2>2, TasksStay
<1>27. CASE KeeperReturn
  <2>1. /\ UNCHANGED <<fresh, tasks, active_tasks, response>> /\ kept \in Clients
        /\ task_queue' = task_queue \o active_tasks[kept]
    BY <1>27 DEF KeeperReturn, AddTasks, handlerVars, Types
  <2>2. Range(task_queue') = Range(task_queue) \cup Range(active_tasks[kept])
    BY <2>1, Ranges DEF BatchInv
  <2>3. \A t : InTheServer(t)' <=> InTheServer(t) \/ t \in Range(active_tasks[kept])
    BY <2>1, <2>2 DEF InTheServer
  <2> QED BY <2>1, <2>3 DEF TasksMove, ServerKept, BatchKept, Origin, HandsBack
<1>28. CASE KeeperJoin
  <2>1. UNCHANGED <<fresh, task_queue, tasks, active_tasks>>
    BY <1>28 DEF KeeperJoin, clientVars, queueVars, managerVars, handlerVars
  <2>2. \A d \in Clients : HandsBack(d) => HandsBack(d)'
    BY <1>28 DEF HandsBack, Types, KeeperJoin, clientVars, queueVars, managerVars, handlerVars
  <2> QED BY <2>1, <2>2, TasksStay
<1>29. CASE KeeperDelete
  <2>1. UNCHANGED <<fresh, task_queue, tasks, active_tasks>>
    BY <1>29 DEF KeeperDelete, clientVars, queueVars, managerVars, handlerVars
  <2>2. \A d \in Clients : HandsBack(d) => HandsBack(d)'
    BY <1>29 DEF HandsBack, Types, KeeperDelete, clientVars, queueVars, managerVars, handlerVars
  <2> QED BY <2>1, <2>2, TasksStay
<1>30. CASE UNCHANGED vars
  <2>1. UNCHANGED <<fresh, task_queue, tasks, active_tasks>>
    BY <1>30 DEF vars, queueVars, managerVars, handlerVars
  <2>2. \A d \in Clients : HandsBack(d) => HandsBack(d)'
    BY <1>30 DEF vars, handlerVars, HandsBack
  <2> QED BY <2>1, <2>2, TasksStay
<1> QED BY Actions, <1>1, <1>2, <1>3, <1>4, <1>5, <1>6, <1>7, <1>8, <1>9, <1>10,
    <1>11, <1>12, <1>13, <1>14, <1>15, <1>16, <1>17, <1>18, <1>19, <1>20, <1>21,
    <1>22, <1>23, <1>24, <1>25, <1>26, <1>27, <1>28, <1>29, <1>30

\* Counts grow.
LEMMA CountStep ==
    ASSUME WireTypes, FlowInv, done \in [JobId -> SUBSET Nat], [Next]_vars
    PROVE  CountsGrow
<1>1. ASSUME NEW c \in Clients, HandleClient(c) PROVE CountsGrow
  <2>1. UNCHANGED <<submitted, jobs, done>>
    BY <1>1 DEF HandleClient, queueVars, AddTasks
  <2> QED BY <2>1 DEF CountsGrow
<1>2. ASSUME NEW c \in Clients, RemoteStep(c) PROVE CountsGrow
  <2>1. UNCHANGED <<submitted, jobs, done>>
    BY <1>2 DEF RemoteStep, queueVars
  <2> QED BY <2>1 DEF CountsGrow
<1>3. ASSUME NEW c \in Clients, HandleConnect(c) PROVE CountsGrow
  <2>1. UNCHANGED <<submitted, jobs, done>>
    BY <1>3 DEF HandleConnect, queueVars, AddTasks
  <2> QED BY <2>1 DEF CountsGrow
<1>4. ASSUME NEW c \in Clients, HandleKeepAlive(c) PROVE CountsGrow
  <2>1. UNCHANGED <<submitted, jobs, done>>
    BY <1>4 DEF HandleKeepAlive, queueVars, AddTasks
  <2> QED BY <2>1 DEF CountsGrow
<1>5. ASSUME NEW c \in Clients, ReadUpdate(c) PROVE CountsGrow
  <2>1. UNCHANGED <<submitted, jobs, done>>
    BY <1>5, ReadFacts DEF queueVars
  <2> QED BY <2>1 DEF CountsGrow
<1>6. ASSUME NEW c \in Clients, CountUpdate(c) PROVE CountsGrow
  <2>1. response[c] = "count" /\ NotifyUpdate(reported[c][1])
    BY <1>6 DEF CountUpdate
  <2>2. reported[c] \in Seq(Task) /\ Len(reported[c]) = 1
    BY <2>1 DEF FlowInv, WireTypes, Batches
  <2>3. PICK t \in Task : NotifyUpdate(t)
    BY <2>1, <2>2
  <2>4. t.frame \in Nat
    <3>1. PICK l \in JobId : t \in [job : {l}, frame : 0 .. Frames[l] - 1]
      BY DEF Task
    <3>2. t.frame \in 0 .. Frames[l] - 1
      BY <3>1
    <3> QED BY <3>2
  <2>5. done' = done \/ done' = [done EXCEPT ![t.job] = done[t.job] \cup {t.frame}]
    BY <2>3 DEF NotifyUpdate
  <2>6. jobs' \subseteq jobs /\ submitted' = submitted
    BY <2>3 DEF NotifyUpdate
  <2>7. done' \in [JobId -> SUBSET Nat] /\ \A j \in JobId : done[j] \subseteq done'[j]
    BY <2>4, <2>5
  <2> QED BY <2>6, <2>7 DEF CountsGrow
<1>7. ASSUME NEW c \in Clients, HandleFinish(c) PROVE CountsGrow
  <2>1. UNCHANGED <<submitted, jobs, done>>
    BY <1>7 DEF HandleFinish, queueVars, AddTasks
  <2> QED BY <2>1 DEF CountsGrow
<1>8. ASSUME NEW c \in Clients, ResponseEnd(c) PROVE CountsGrow
  <2>1. UNCHANGED <<submitted, jobs, done>>
    BY <1>8 DEF ResponseEnd, queueVars, AddTasks
  <2> QED BY <2>1 DEF CountsGrow
<1>9. ASSUME NEW c \in Clients, ResponseRemove(c) PROVE CountsGrow
  <2>1. UNCHANGED <<submitted, jobs, done>>
    BY <1>9 DEF ResponseRemove, queueVars, AddTasks
  <2> QED BY <2>1 DEF CountsGrow
<1>10. ASSUME NEW c \in Clients, ResponseReturn(c) PROVE CountsGrow
  <2>1. UNCHANGED <<submitted, jobs, done>>
    BY <1>10 DEF ResponseReturn, queueVars, AddTasks
  <2> QED BY <2>1 DEF CountsGrow
<1>11. ASSUME NEW c \in Clients, IssueTake(c) PROVE CountsGrow
  <2>1. UNCHANGED <<submitted, jobs, done>>
    BY <1>11 DEF IssueTake, queueVars, AddTasks
  <2> QED BY <2>1 DEF CountsGrow
<1>12. ASSUME NEW c \in Clients, IssueSend(c) PROVE CountsGrow
  <2>1. UNCHANGED <<submitted, jobs, done>>
    BY <1>12 DEF IssueSend, queueVars, AddTasks
  <2> QED BY <2>1 DEF CountsGrow
<1>13. ASSUME NEW c \in Clients, IssueFail(c) PROVE CountsGrow
  <2>1. UNCHANGED <<submitted, jobs, done>>
    BY <1>13 DEF IssueFail, queueVars, AddTasks
  <2> QED BY <2>1 DEF CountsGrow
<1>14. ASSUME NEW c \in Clients, IssueRemove(c) PROVE CountsGrow
  <2>1. UNCHANGED <<submitted, jobs, done>>
    BY <1>14 DEF IssueRemove, queueVars, AddTasks
  <2> QED BY <2>1 DEF CountsGrow
<1>15. ASSUME NEW c \in Clients, IssueEnd(c) PROVE CountsGrow
  <2>1. UNCHANGED <<submitted, jobs, done>>
    BY <1>15 DEF IssueEnd, queueVars, AddTasks
  <2> QED BY <2>1 DEF CountsGrow
<1>16. ASSUME NEW c \in Clients, TryKeepAlive(c) PROVE CountsGrow
  <2>1. UNCHANGED <<submitted, jobs, done>>
    BY <1>16 DEF TryKeepAlive, queueVars, AddTasks
  <2> QED BY <2>1 DEF CountsGrow
<1>17. ASSUME NEW c \in Clients, KeepAliveFailed(c) PROVE CountsGrow
  <2>1. UNCHANGED <<submitted, jobs, done>>
    BY <1>17 DEF KeepAliveFailed, queueVars, AddTasks
  <2> QED BY <2>1 DEF CountsGrow
<1>18. CASE AddJob
  <2>1. UNCHANGED done /\ submitted' = submitted + 1 /\ jobs' = jobs \cup {submitted + 1}
    BY <1>18 DEF AddJob
  <2> QED BY <2>1 DEF CountsGrow
<1>19. CASE DistWait
  <2>1. UNCHANGED <<submitted, jobs, done>>
    BY <1>19 DEF DistWait, queueVars, AddTasks
  <2> QED BY <2>1 DEF CountsGrow
<1>20. CASE DistLookup
  <2>1. UNCHANGED <<submitted, jobs, done>>
    BY <1>20 DEF DistLookup, queueVars, AddTasks
  <2> QED BY <2>1 DEF CountsGrow
<1>21. CASE DistFetch
  <2>1. UNCHANGED <<submitted, jobs, done>>
    BY <1>21 DEF DistFetch, queueVars, AddTasks
  <2> QED BY <2>1 DEF CountsGrow
<1>22. CASE DistRefused
  <2>1. UNCHANGED <<submitted, jobs, done>>
    BY <1>22 DEF DistRefused, queueVars, AddTasks
  <2> QED BY <2>1 DEF CountsGrow
<1>23. CASE DistSubmit
  <2>1. UNCHANGED <<submitted, jobs, done>>
    BY <1>23 DEF DistSubmit, queueVars, AddTasks
  <2> QED BY <2>1 DEF CountsGrow
<1>24. CASE DistStore
  <2>1. UNCHANGED <<submitted, jobs, done>>
    BY <1>24 DEF DistStore, queueVars, AddTasks
  <2> QED BY <2>1 DEF CountsGrow
<1>25. CASE KeepAliveAnswered
  <2>1. UNCHANGED <<submitted, jobs, done>>
    BY <1>25 DEF KeepAliveAnswered, queueVars, AddTasks
  <2> QED BY <2>1 DEF CountsGrow
<1>26. CASE KeeperRemove
  <2>1. UNCHANGED <<submitted, jobs, done>>
    BY <1>26 DEF KeeperRemove, queueVars, AddTasks
  <2> QED BY <2>1 DEF CountsGrow
<1>27. CASE KeeperReturn
  <2>1. UNCHANGED <<submitted, jobs, done>>
    BY <1>27 DEF KeeperReturn, queueVars, AddTasks
  <2> QED BY <2>1 DEF CountsGrow
<1>28. CASE KeeperJoin
  <2>1. UNCHANGED <<submitted, jobs, done>>
    BY <1>28 DEF KeeperJoin, queueVars, AddTasks
  <2> QED BY <2>1 DEF CountsGrow
<1>29. CASE KeeperDelete
  <2>1. UNCHANGED <<submitted, jobs, done>>
    BY <1>29 DEF KeeperDelete, queueVars, AddTasks
  <2> QED BY <2>1 DEF CountsGrow
<1>30. CASE UNCHANGED vars
  <2>1. UNCHANGED <<submitted, jobs, done>>
    BY <1>30 DEF vars, queueVars
  <2> QED BY <2>1 DEF CountsGrow
<1> QED BY Actions, <1>1, <1>2, <1>3, <1>4, <1>5, <1>6, <1>7, <1>8, <1>9, <1>10,
    <1>11, <1>12, <1>13, <1>14, <1>15, <1>16, <1>17, <1>18, <1>19, <1>20, <1>21,
    <1>22, <1>23, <1>24, <1>25, <1>26, <1>27, <1>28, <1>29, <1>30

\* Clients start and go away.
LEMMA MainStep ==
    ASSUME Types, [Next]_vars
    PROVE  MainMoves
<1>1. ASSUME NEW c \in Clients, HandleClient(c) PROVE MainMoves
  BY <1>1 DEF HandleClient, Start, MainMoves, Types
<1>2. ASSUME NEW c \in Clients, RemoteStep(c) PROVE MainMoves
  <2>1. main[c] \notin {"new", "gone"}
    BY <1>2 DEF RemoteStep, ClientStep, RecvKeepAlive, RecvIssueJob, GetTask, RequestMoreJobs,
       UpdateServer, SendUpdate, Disconnect, Alive
  <2>2. main' = main \/ \E m \in {"get", "ask", "render", "gone"} : main' = [main EXCEPT ![c] = m]
    BY <1>2 DEF RemoteStep, ClientStep, RecvKeepAlive, RecvIssueJob, GetTask, RequestMoreJobs,
       UpdateServer, SendUpdate, Disconnect
  <2> QED BY <2>1, <2>2 DEF MainMoves, Types
<1>3. ASSUME NEW c \in Clients, HandleConnect(c) PROVE MainMoves
  <2>1. main' = main
    BY <1>3 DEF HandleConnect, clientVars, Consume
  <2> QED BY <2>1 DEF MainMoves
<1>4. ASSUME NEW c \in Clients, HandleKeepAlive(c) PROVE MainMoves
  <2>1. main' = main
    BY <1>4 DEF HandleKeepAlive, clientVars, Consume
  <2> QED BY <2>1 DEF MainMoves
<1>5. ASSUME NEW c \in Clients, ReadUpdate(c) PROVE MainMoves
  <2>1. main' = main
    BY <1>5, ReadFacts
  <2> QED BY <2>1 DEF MainMoves
<1>6. ASSUME NEW c \in Clients, CountUpdate(c) PROVE MainMoves
  <2>1. main' = main
    BY <1>6 DEF CountUpdate, clientVars
  <2> QED BY <2>1 DEF MainMoves
<1>7. ASSUME NEW c \in Clients, HandleFinish(c) PROVE MainMoves
  <2>1. main' = main
    BY <1>7 DEF HandleFinish, clientVars, Consume
  <2> QED BY <2>1 DEF MainMoves
<1>8. ASSUME NEW c \in Clients, ResponseEnd(c) PROVE MainMoves
  <2>1. main' = main
    BY <1>8 DEF ResponseEnd, clientVars
  <2> QED BY <2>1 DEF MainMoves
<1>9. ASSUME NEW c \in Clients, ResponseRemove(c) PROVE MainMoves
  <2>1. main' = main
    BY <1>9 DEF ResponseRemove, clientVars
  <2> QED BY <2>1 DEF MainMoves
<1>10. ASSUME NEW c \in Clients, ResponseReturn(c) PROVE MainMoves
  <2>1. main' = main
    BY <1>10 DEF ResponseReturn, clientVars
  <2> QED BY <2>1 DEF MainMoves
<1>11. ASSUME NEW c \in Clients, IssueTake(c) PROVE MainMoves
  <2>1. main' = main
    BY <1>11 DEF IssueTake, clientVars
  <2> QED BY <2>1 DEF MainMoves
<1>12. ASSUME NEW c \in Clients, IssueSend(c) PROVE MainMoves
  <2>1. main' = main
    BY <1>12 DEF IssueSend, clientVars
  <2> QED BY <2>1 DEF MainMoves
<1>13. ASSUME NEW c \in Clients, IssueFail(c) PROVE MainMoves
  <2>1. main' = main
    BY <1>13 DEF IssueFail, clientVars
  <2> QED BY <2>1 DEF MainMoves
<1>14. ASSUME NEW c \in Clients, IssueRemove(c) PROVE MainMoves
  <2>1. main' = main
    BY <1>14 DEF IssueRemove, clientVars
  <2> QED BY <2>1 DEF MainMoves
<1>15. ASSUME NEW c \in Clients, IssueEnd(c) PROVE MainMoves
  <2>1. main' = main
    BY <1>15 DEF IssueEnd, clientVars
  <2> QED BY <2>1 DEF MainMoves
<1>16. ASSUME NEW c \in Clients, TryKeepAlive(c) PROVE MainMoves
  <2>1. main' = main
    BY <1>16 DEF TryKeepAlive, clientVars
  <2> QED BY <2>1 DEF MainMoves
<1>17. ASSUME NEW c \in Clients, KeepAliveFailed(c) PROVE MainMoves
  <2>1. main' = main
    BY <1>17 DEF KeepAliveFailed, clientVars
  <2> QED BY <2>1 DEF MainMoves
<1>18. CASE AddJob
  <2>1. main' = main
    BY <1>18 DEF AddJob, clientVars
  <2> QED BY <2>1 DEF MainMoves
<1>19. CASE DistWait
  <2>1. main' = main
    BY <1>19 DEF DistWait, clientVars
  <2> QED BY <2>1 DEF MainMoves
<1>20. CASE DistLookup
  <2>1. main' = main
    BY <1>20 DEF DistLookup, clientVars
  <2> QED BY <2>1 DEF MainMoves
<1>21. CASE DistFetch
  <2>1. main' = main
    BY <1>21 DEF DistFetch, clientVars
  <2> QED BY <2>1 DEF MainMoves
<1>22. CASE DistRefused
  <2>1. main' = main
    BY <1>22 DEF DistRefused, clientVars
  <2> QED BY <2>1 DEF MainMoves
<1>23. CASE DistSubmit
  <2>1. main' = main
    BY <1>23 DEF DistSubmit, clientVars
  <2> QED BY <2>1 DEF MainMoves
<1>24. CASE DistStore
  <2>1. main' = main
    BY <1>24 DEF DistStore, clientVars
  <2> QED BY <2>1 DEF MainMoves
<1>25. CASE KeepAliveAnswered
  <2>1. main' = main
    BY <1>25 DEF KeepAliveAnswered, clientVars
  <2> QED BY <2>1 DEF MainMoves
<1>26. CASE KeeperRemove
  <2>1. main' = main
    BY <1>26 DEF KeeperRemove, clientVars
  <2> QED BY <2>1 DEF MainMoves
<1>27. CASE KeeperReturn
  <2>1. main' = main
    BY <1>27 DEF KeeperReturn, clientVars
  <2> QED BY <2>1 DEF MainMoves
<1>28. CASE KeeperJoin
  <2>1. main' = main
    BY <1>28 DEF KeeperJoin, clientVars
  <2> QED BY <2>1 DEF MainMoves
<1>29. CASE KeeperDelete
  <2>1. main' = main
    BY <1>29 DEF KeeperDelete, clientVars
  <2> QED BY <2>1 DEF MainMoves
<1>30. CASE UNCHANGED vars
  <2>1. main' = main
    BY <1>30 DEF vars, clientVars
  <2> QED BY <2>1 DEF MainMoves
<1> QED BY Actions, <1>1, <1>2, <1>3, <1>4, <1>5, <1>6, <1>7, <1>8, <1>9, <1>10,
    <1>11, <1>12, <1>13, <1>14, <1>15, <1>16, <1>17, <1>18, <1>19, <1>20, <1>21,
    <1>22, <1>23, <1>24, <1>25, <1>26, <1>27, <1>28, <1>29, <1>30


\* Where a task is not lost.
SafeTask(t) ==
    \/ InTheServer(t)
    \/ \E c \in Clients : Alive(c) /\ With(c, t)
    \/ \E c \in Clients : HandsBack(c) /\ t \in Range(active_tasks[c])

\* The tasks the property calls safe, before a step and after it.
LEMMA SafeTasks == /\ \A t : t \in Safe <=> SafeTask(t)
                   /\ \A t : t \in Safe' <=> SafeTask(t)'
<1>1. \A t, b : /\ (\E k \in DOMAIN <<b>> : t \in Range(<<b>>[k])) <=> t \in Range(b)
                /\ ~ \E k \in DOMAIN <<>> : t \in Range(<<>>[k])
  OBVIOUS
<1>2. \A t, s : (\E k \in DOMAIN TasksOf(s) : t \in Range(TasksOf(s)[k])) <=> Packed(s, t)
  BY DEF TasksOf, Packed
<1>3. \A t : t \in Safe <=> SafeTask(t)
  <2>1. \A part, c, t : t \in {TaskAt(p) : p \in PlacesIn(part, c)} <=>
          \E k \in DOMAIN Held(part, c) : t \in Range(Held(part, c)[k])
    <3> SUFFICES ASSUME NEW part, NEW c, NEW t
                 PROVE  t \in {TaskAt(p) : p \in PlacesIn(part, c)} <=>
                        \E k \in DOMAIN Held(part, c) : t \in Range(Held(part, c)[k])
      OBVIOUS
    <3>1. \A p : p \in PlacesIn(part, c) <=>
            \E k \in DOMAIN Held(part, c) : \E i \in DOMAIN Held(part, c)[k] : p = <<part, c, k, i>>
      BY DEF PlacesIn
    <3>2. \A k, i : TaskAt(<<part, c, k, i>>) = Held(part, c)[k][i]
      BY DEF TaskAt
    <3>3. ASSUME t \in {TaskAt(p) : p \in PlacesIn(part, c)}
          PROVE  \E k \in DOMAIN Held(part, c) : t \in Range(Held(part, c)[k])
      <4>1. PICK p \in PlacesIn(part, c) : t = TaskAt(p)
        BY <3>3
      <4>0. PICK k \in DOMAIN Held(part, c) : \E i \in DOMAIN Held(part, c)[k] : p = <<part, c, k, i>>
        BY <3>1, <4>1
      <4>2. PICK i \in DOMAIN Held(part, c)[k] : p = <<part, c, k, i>>
        BY <4>0
      <4>3. t = Held(part, c)[k][i]
        BY <3>2, <4>1, <4>2
      <4> QED BY <4>2, <4>3 DEF Range
    <3>4. ASSUME NEW k \in DOMAIN Held(part, c), t \in Range(Held(part, c)[k])
          PROVE  t \in {TaskAt(p) : p \in PlacesIn(part, c)}
      <4>1. PICK i \in DOMAIN Held(part, c)[k] : t = Held(part, c)[k][i]
        BY <3>4 DEF Range
      <4>2. <<part, c, k, i>> \in PlacesIn(part, c) /\ TaskAt(<<part, c, k, i>>) = t
        BY <3>1, <3>2, <4>1
      <4> QED BY <4>2
    <3> QED BY <3>3, <3>4
  <2>2. \A t : InTheServer(t) <=>
          \E part \in InServer : \E k \in DOMAIN Held(part, Nobody) : t \in Range(Held(part, Nobody)[k])
    <3> SUFFICES ASSUME NEW t
                 PROVE  InTheServer(t) <=> \E part \in InServer :
                            \E k \in DOMAIN Held(part, Nobody) : t \in Range(Held(part, Nobody)[k])
      OBVIOUS
    <3>1. /\ Held("fresh", Nobody) = <<fresh>> /\ Held("task_queue", Nobody) = <<task_queue>>
          /\ Held("tasks", Nobody) = <<tasks>>
      BY DEF Held
    <3>2. InServer = {"fresh", "task_queue", "tasks"}
      BY DEF InServer
    <3> QED BY <1>1, <3>1, <3>2 DEF InTheServer
  <2>3. \A c \in Clients : \A t : With(c, t) <=>
          \E part \in WithClient : \E k \in DOMAIN Held(part, c) : t \in Range(Held(part, c)[k])
    <3> SUFFICES ASSUME NEW c \in Clients, NEW t
                 PROVE  With(c, t) <=> \E part \in WithClient :
                            \E k \in DOMAIN Held(part, c) : t \in Range(Held(part, c)[k])
      OBVIOUS
    <3> DEFINE In(part) == \E k \in DOMAIN Held(part, c) : t \in Range(Held(part, c)[k])
    <3>1. In("new_jobs") <=> new_jobs[c] /\ t \in Range(active_tasks[c])
      <4>1. Held("new_jobs", c) = IF new_jobs[c] THEN <<active_tasks[c]>> ELSE <<>>
        BY DEF Held
      <4> QED BY <1>1, <4>1
    <3>2. (In("requests") <=> Packed(requests[c], t)) /\ (In("down") <=> Packed(down[c], t))
          /\ (In("up") <=> Packed(up[c], t))
      <4>1. /\ Held("requests", c) = TasksOf(requests[c]) /\ Held("down", c) = TasksOf(down[c])
            /\ Held("up", c) = TasksOf(up[c])
        BY DEF Held
      <4> QED BY <1>2, <4>1
    <3>3. In("render_queue") <=> Queue(render_queue[c], t)
      BY DEF Held, Queue
    <3>4. (In("current") <=> t \in Range(current[c])) /\ (In("send_queue") <=> t \in Range(send_queue[c]))
          /\ (In("reported") <=> t \in Range(reported[c]))
      <4>1. /\ Held("current", c) = <<current[c]>> /\ Held("send_queue", c) = <<send_queue[c]>>
            /\ Held("reported", c) = <<reported[c]>>
        BY DEF Held
      <4> QED BY <1>1, <4>1
    <3>5. WithClient = {"new_jobs", "requests", "down", "render_queue", "current", "send_queue", "up", "reported"}
      BY DEF WithClient
    <3> HIDE DEF In
    <3>6. With(c, t) <=> \E part \in WithClient : In(part)
      BY <3>1, <3>2, <3>3, <3>4, <3>5 DEF With
    <3> QED BY <3>6 DEF In
  <2>4. \A t : t \in Safe <=> SafeTask(t)
    <3>1. \A t : t \in Safe <=>
            \/ \E part \in InServer : t \in {TaskAt(p) : p \in PlacesIn(part, Nobody)}
            \/ \E c \in Clients : Alive(c) /\ \E part \in WithClient :
                    t \in {TaskAt(p) : p \in PlacesIn(part, c)}
            \/ \E c \in Clients : HandsBack(c) /\ t \in Range(active_tasks[c])
      BY DEF Safe, ServerPlaces, ClientPlaces, HandsBack
    <3> QED BY <2>1, <2>2, <2>3, <3>1 DEF SafeTask
  <2> QED BY <2>4
<1>4. \A t : t \in Safe' <=> SafeTask(t)'
  <2>1. \A part, c, t : t \in {TaskAt(p) : p \in PlacesIn(part, c)}' <=>
          \E k \in DOMAIN Held(part, c)' : t \in Range(Held(part, c)'[k])
    <3> SUFFICES ASSUME NEW part, NEW c, NEW t
                 PROVE  t \in {TaskAt(p) : p \in PlacesIn(part, c)}' <=>
                        \E k \in DOMAIN Held(part, c)' : t \in Range(Held(part, c)'[k])
      OBVIOUS
    <3>1. \A p : p \in PlacesIn(part, c)' <=>
            \E k \in DOMAIN Held(part, c)' : \E i \in DOMAIN Held(part, c)'[k] : p = <<part, c, k, i>>
      BY DEF PlacesIn
    <3>2. \A k, i : TaskAt(<<part, c, k, i>>)' = Held(part, c)'[k][i]
      BY DEF TaskAt
    <3>3. ASSUME t \in {TaskAt(p) : p \in PlacesIn(part, c)}'
          PROVE  \E k \in DOMAIN Held(part, c)' : t \in Range(Held(part, c)'[k])
      <4>1. PICK p \in PlacesIn(part, c)' : t = TaskAt(p)'
        BY <3>3
      <4>0. PICK k \in DOMAIN Held(part, c)' : \E i \in DOMAIN Held(part, c)'[k] : p = <<part, c, k, i>>
        BY <3>1, <4>1
      <4>2. PICK i \in DOMAIN Held(part, c)'[k] : p = <<part, c, k, i>>
        BY <4>0
      <4>3. t = Held(part, c)'[k][i]
        BY <3>2, <4>1, <4>2
      <4> QED BY <4>2, <4>3 DEF Range
    <3>4. ASSUME NEW k \in DOMAIN Held(part, c)', t \in Range(Held(part, c)'[k])
          PROVE  t \in {TaskAt(p) : p \in PlacesIn(part, c)}'
      <4>1. PICK i \in DOMAIN Held(part, c)'[k] : t = Held(part, c)'[k][i]
        BY <3>4 DEF Range
      <4>2. <<part, c, k, i>> \in PlacesIn(part, c)' /\ TaskAt(<<part, c, k, i>>)' = t
        BY <3>1, <3>2, <4>1
      <4> QED BY <4>2
    <3> QED BY <3>3, <3>4
  <2>2. \A t : InTheServer(t)' <=>
          \E part \in InServer : \E k \in DOMAIN Held(part, Nobody)' : t \in Range(Held(part, Nobody)'[k])
    <3> SUFFICES ASSUME NEW t
                 PROVE  InTheServer(t)' <=> \E part \in InServer :
                            \E k \in DOMAIN Held(part, Nobody)' : t \in Range(Held(part, Nobody)'[k])
      OBVIOUS
    <3>1. /\ Held("fresh", Nobody)' = <<fresh'>> /\ Held("task_queue", Nobody)' = <<task_queue'>>
          /\ Held("tasks", Nobody)' = <<tasks'>>
      BY DEF Held
    <3>2. InServer = {"fresh", "task_queue", "tasks"}
      BY DEF InServer
    <3> QED BY <1>1, <3>1, <3>2 DEF InTheServer
  <2>3. \A c \in Clients : \A t : With(c, t)' <=>
          \E part \in WithClient : \E k \in DOMAIN Held(part, c)' : t \in Range(Held(part, c)'[k])
    <3> SUFFICES ASSUME NEW c \in Clients, NEW t
                 PROVE  With(c, t)' <=> \E part \in WithClient :
                            \E k \in DOMAIN Held(part, c)' : t \in Range(Held(part, c)'[k])
      OBVIOUS
    <3> DEFINE In(part) == \E k \in DOMAIN Held(part, c)' : t \in Range(Held(part, c)'[k])
    <3>1. In("new_jobs") <=> new_jobs'[c] /\ t \in Range(active_tasks'[c])
      <4>1. Held("new_jobs", c)' = IF new_jobs'[c] THEN <<active_tasks'[c]>> ELSE <<>>
        BY DEF Held
      <4> QED BY <1>1, <4>1
    <3>2. (In("requests") <=> Packed(requests'[c], t)) /\ (In("down") <=> Packed(down'[c], t))
          /\ (In("up") <=> Packed(up'[c], t))
      <4>1. /\ Held("requests", c)' = TasksOf(requests'[c]) /\ Held("down", c)' = TasksOf(down'[c])
            /\ Held("up", c)' = TasksOf(up'[c])
        BY DEF Held
      <4> QED BY <1>2, <4>1
    <3>3. In("render_queue") <=> Queue(render_queue'[c], t)
      BY DEF Held, Queue
    <3>4. (In("current") <=> t \in Range(current'[c])) /\ (In("send_queue") <=> t \in Range(send_queue'[c]))
          /\ (In("reported") <=> t \in Range(reported'[c]))
      <4>1. /\ Held("current", c)' = <<current'[c]>> /\ Held("send_queue", c)' = <<send_queue'[c]>>
            /\ Held("reported", c)' = <<reported'[c]>>
        BY DEF Held
      <4> QED BY <1>1, <4>1
    <3>5. WithClient = {"new_jobs", "requests", "down", "render_queue", "current", "send_queue", "up", "reported"}
      BY DEF WithClient
    <3> HIDE DEF In
    <3>6. With(c, t)' <=> \E part \in WithClient : In(part)
      BY <3>1, <3>2, <3>3, <3>4, <3>5 DEF With
    <3> QED BY <3>6 DEF In
  <2>4. \A t : t \in Safe' <=> SafeTask(t)'
    <3>1. \A t : t \in Safe' <=>
            \/ \E part \in InServer : t \in {TaskAt(p) : p \in PlacesIn(part, Nobody)}'
            \/ \E c \in Clients : Alive(c)' /\ \E part \in WithClient :
                    t \in {TaskAt(p) : p \in PlacesIn(part, c)}'
            \/ \E c \in Clients : HandsBack(c)' /\ t \in Range(active_tasks'[c])
      BY DEF Safe, ServerPlaces, ClientPlaces, HandsBack
    <3> QED BY <2>1, <2>2, <2>3, <3>1 DEF SafeTask
  <2> QED BY <2>4
<1> QED BY <1>3, <1>4

\* Nothing is remembered at first.
LEMMA RememberedInit == Init => Remembered
<1> SUFFICES ASSUME Init PROVE Remembered
  OBVIOUS
<1>1. /\ done = [j \in JobId |-> {}] /\ fresh = <<>> /\ task_queue = <<>> /\ tasks = <<>>
      /\ active_tasks = [c \in Clients |-> <<>>]
  BY DEF Init
<1>2. \A t : ~ InTheServer(t)
  BY <1>1, Ranges DEF InTheServer
<1>3. \A c \in Clients : Range(active_tasks[c]) = {}
  BY <1>1, Ranges
<1>4. done \in [JobId -> SUBSET Nat]
  BY <1>1
<1> QED BY <1>2, <1>3, <1>4 DEF Remembered

\* A task that needs no rendering needs none later.
LEMMA SettledKept ==
    ASSUME CountsGrow, submitted \in Nat, NEW t, t.job <= submitted, t.job \in Int, Settled(t)
    PROVE  Settled(t)'
<1>1. CASE t \in Counted
  <2>1. PICK j \in JobId : \E f \in done[j] : t = [job |-> j, frame |-> f]
    BY <1>1 DEF Counted
  <2>2. done[j] \subseteq done'[j]
    BY DEF CountsGrow
  <2>3. t \in Counted'
    BY <2>1, <2>2 DEF Counted
  <2> QED BY <2>3 DEF Settled
<1>2. CASE t.job \notin jobs
  <2>1. t.job # submitted + 1
    OBVIOUS
  <2>2. t.job \notin jobs'
    BY <1>2, <2>1 DEF CountsGrow
  <2> QED BY <2>2 DEF Settled
<1> QED BY <1>1, <1>2 DEF Settled

\* The tasks of a batch have a job.
LEMMA BatchJobs ==
    ASSUME BatchInv
    PROVE  /\ submitted \in Nat
           /\ \A t : InTheServer(t) => t.job \in Int
           /\ \A c \in Clients : \A t \in Range(active_tasks[c]) : t.job \in Int
<1>1. \A s \in Seq(Task) : \A t \in Range(s) : t.job \in Int
  <2> SUFFICES ASSUME NEW s \in Seq(Task), NEW i \in DOMAIN s PROVE s[i].job \in Int
    BY DEF Range
  <2>1. s[i] \in Task
    OBVIOUS
  <2> QED BY <2>1, TaskJob
<1>2. submitted \in Nat
  BY DEF BatchInv
<1> QED BY <1>1, <1>2 DEF BatchInv, InTheServer

\* What a handler remembers stays with its client or is done with.
LEMMA RememberedStep ==
    ASSUME BatchInv, Remembered, WithKept, TasksMove, CountsGrow, MainMoves
    PROVE  Remembered'
<1>1. done' \in [JobId -> SUBSET Nat]
  BY DEF CountsGrow
<1>2. submitted \in Nat /\ (submitted' = submitted \/ submitted' = submitted + 1)
  BY BatchJobs DEF CountsGrow
<1>3. ASSUME NEW t, InTheServer(t)' PROVE t.job <= submitted'
  <2>1. \/ InTheServer(t) \/ \E c \in Clients : t \in Range(active_tasks[c])
        \/ t.job = submitted + 1 /\ submitted' = submitted + 1
    BY <1>3 DEF TasksMove, Origin
  <2>2. CASE t.job = submitted + 1 /\ submitted' = submitted + 1
    BY <1>2, <2>2
  <2>3. CASE InTheServer(t) \/ \E c \in Clients : t \in Range(active_tasks[c])
    <3>1. t.job <= submitted /\ t.job \in Int
      BY <2>3, BatchJobs DEF Remembered
    <3> QED BY <1>2, <3>1
  <2> QED BY <2>1, <2>2, <2>3
<1>4. ASSUME NEW c \in Clients, NEW t \in Range(active_tasks'[c])
      PROVE  /\ t \in Range(active_tasks[c]) \/ (InTheServer(t) /\ new_jobs'[c] /\ main[c] # "new")
             /\ t.job <= submitted /\ t.job \in Int /\ t.job <= submitted'
  <2>1. t \in Range(active_tasks[c]) \/ (InTheServer(t) /\ new_jobs'[c] /\ main[c] # "new")
    BY DEF TasksMove, Origin
  <2>2. t.job <= submitted /\ t.job \in Int
    BY <2>1, BatchJobs DEF Remembered
  <2> QED BY <1>2, <2>1, <2>2
<1>5. ASSUME NEW c \in Clients, main'[c] = "new" PROVE Range(active_tasks'[c]) = {}
  <2>1. main[c] = "new" /\ Range(active_tasks[c]) = {}
    BY <1>5 DEF MainMoves, Remembered
  <2> QED BY <1>4, <2>1
<1>6. ASSUME NEW c \in Clients, Alive(c)', NEW t \in Range(active_tasks'[c])
      PROVE  With(c, t)' \/ Settled(t)'
  <2>1. CASE new_jobs'[c]
    BY <2>1 DEF With
  <2>2. CASE ~ new_jobs'[c]
    <3>1. t \in Range(active_tasks[c])
      BY <1>4, <2>2
    <3>2. Alive(c)
      BY <1>6, <3>1 DEF Alive, MainMoves, Remembered
    <3>3. With(c, t) \/ Settled(t)
      BY <3>1, <3>2 DEF Remembered
    <3>4. CASE With(c, t)
      <4>1. ~ Leaves(c)
        BY <1>6 DEF Leaves, Alive
      <4> QED BY <3>2, <3>4, <4>1 DEF WithKept
    <3>5. CASE Settled(t)
      BY <1>2, <1>4, <3>5, SettledKept
    <3> QED BY <3>3, <3>4, <3>5
  <2> QED BY <2>1, <2>2
<1> QED BY <1>1, <1>3, <1>4, <1>5, <1>6 DEF Remembered

\* All a step does with the tasks, and what is known of them after it.
LEMMA LossNext ==
    ASSUME FlowAll, Remembered, BatchOfOneJob, [Next]_vars
    PROVE  Remembered' /\ WithKept /\ TasksMove /\ CountsGrow
<1>1. Types /\ HandlerInv /\ StoreInv /\ BatchInv /\ WireTypes /\ FlowInv /\ RunInv /\ TokenInv
  BY DEF FlowAll, IndInv
<1>2. done \in [JobId -> SUBSET Nat]
  BY DEF Remembered
<1>3. WithKept
  BY <1>1, <1>2, WithStep
<1>4. TasksMove
  BY <1>1, TaskStep
<1>5. CountsGrow
  BY <1>1, <1>2, CountStep
<1>6. MainMoves
  BY <1>1, MainStep
<1> QED BY <1>1, <1>3, <1>4, <1>5, <1>6, RememberedStep

\* The step that loses a task is a client's, or replaces what a handler of a
\* client that is gone remembers.
LossStep ==
    \A t \in Safe \ (Safe' \cup Counted') :
        \/ t.job \notin jobs'
        \/ disconnects' > disconnects
        \/ \E c \in Clients : /\ main[c] = "gone"
                             /\ t \in Range(active_tasks[c])
                             /\ active_tasks'[c] # active_tasks[c]

\* A task that was safe is safe, done with, or lost with its client.
LEMMA LossNeedsDisconnect ==
    ASSUME FlowAll, Remembered, BatchOfOneJob, [Next]_vars
    PROVE  LossStep
<1>1. Remembered' /\ WithKept /\ TasksMove /\ CountsGrow
  BY LossNext
<1> SUFFICES ASSUME NEW t, SafeTask(t), ~ SafeTask(t)', ~ Settled(t)', ~ disconnects' > disconnects
             PROVE  \E c \in Clients : /\ main[c] = "gone"
                                       /\ t \in Range(active_tasks[c])
                                       /\ active_tasks'[c] # active_tasks[c]
  BY SafeTasks DEF LossStep, Settled
<1>2. /\ ~ InTheServer(t)'
      /\ \A c \in Clients : ~ (Alive(c)' /\ With(c, t)')
      /\ \A c \in Clients : ~ (HandsBack(c)' /\ t \in Range(active_tasks'[c]))
  BY DEF SafeTask
<1>3. ~ InTheServer(t)
  BY <1>1, <1>2 DEF TasksMove, ServerKept
<1>4. \A c \in Clients : ~ (Alive(c) /\ With(c, t))
  BY <1>1, <1>2 DEF WithKept, Leaves
<1>5. PICK c \in Clients : HandsBack(c) /\ t \in Range(active_tasks[c])
  BY <1>3, <1>4 DEF SafeTask
<1>6. active_tasks'[c] # active_tasks[c] /\ main[c] # "new"
  BY <1>1, <1>2, <1>5 DEF TasksMove, BatchKept
<1>7. ~ Alive(c)
  <2> SUFFICES ASSUME Alive(c) PROVE FALSE
    OBVIOUS
  <2>1. Settled(t)
    BY <1>4, <1>5 DEF Remembered
  <2>2. t.job <= submitted /\ t.job \in Int /\ submitted \in Nat
    BY <1>5, BatchJobs DEF Remembered, FlowAll, IndInv
  <2> QED BY <1>1, <2>1, <2>2, SettledKept
<1>8. main[c] = "gone"
  BY <1>6, <1>7 DEF Alive
<1> QED BY <1>5, <1>6, <1>8

\* As long as every batch has the frames of one job, the server loses no task on
\* its own: a task that is lost is lost with a client that goes away, or when
\* submitTasks or a failed send replaces what the handler of such a client keeps.
THEOREM ServerLosesNothing == Spec /\ []BatchOfOneJob => LossOnlyByDisconnect
<1>1. FlowAll /\ Remembered /\ BatchOfOneJob /\ [Next]_vars => Remembered'
  BY LossNext
<1>2. FlowAll /\ Remembered /\ BatchOfOneJob /\ [Next]_vars => [LossStep]_vars
  BY LossNeedsDisconnect
<1> QED BY <1>1, <1>2, FlowInit, FlowNext, RememberedInit, PTL DEF Spec, LossOnlyByDisconnect, LossStep

\* With one job, or with batches of one frame, it needs no hypothesis on the
\* behaviour.
THEOREM ServerLosesNothingOfOneJob ==
    ASSUME Len(Frames) = 1 \/ MAX_JOB_CAPABILITY = 1
    PROVE  Spec => LossOnlyByDisconnect
<1>1. FlowAll /\ [Next]_vars => FlowAll'
  BY FlowNext, OneJobBatches
<1>2. FlowAll /\ Remembered /\ [Next]_vars => Remembered'
  BY LossNext, OneJobBatches
<1>3. FlowAll /\ Remembered /\ [Next]_vars => [LossStep]_vars
  BY LossNeedsDisconnect, OneJobBatches
<1> QED BY <1>1, <1>2, <1>3, FlowInit, RememberedInit, PTL DEF Spec, LossOnlyByDisconnect, LossStep



=============================================================================
