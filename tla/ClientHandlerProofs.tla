------------------------ MODULE ClientHandlerProofs ------------------------
(***************************************************************************)
(* Proofs about ClientHandler, for every number of parts, batches and      *)
(* keepalive rounds.                                                       *)
(*                                                                         *)
(* The inductive invariant IndInv has one part per argument: who holds     *)
(* which mutex (LocksInv), what stop() has done when the handler is        *)
(* deleted (RemovalInv), how batch numbers grow on the way to the wire     *)
(* (NumbersInv), how what is sent next goes on from what was sent last     *)
(* (SendingInv), and that at most one keepalive is under way (RoundInv).   *)
(***************************************************************************)
EXTENDS ClientHandler, TLAPS

\* The places of the threads, and the client's packets.
Labels == {"rest", "ping", "lock", "test", "drowsy", "asleep", "stop", "close", "notify",
           "remove", "getJobs", "join", "fence", "delete", "deleted", "erased", "loop",
           "recv", "end", "tell", "send", "exited"}
Packets == {"CONNECT", "KEEPALIVE", "FINISH_JOB"}

\* The kinds of the variables the arguments below rely on.
HandlerTypes ==
    /\ pc \in [Threads -> Labels]
    /\ active \in BOOLEAN
    /\ keepalive \in BOOLEAN
    /\ new_jobs \in BOOLEAN
    /\ active_tasks \in Nat
    /\ batches \in Nat
    /\ keepalive_mutex \in {Free, "keeper"}
    /\ task_mutex \in {Free, "issue"}
    /\ client_map_mutex \in Threads \cup {Free}
    /\ sending \in Nat \X Nat
    /\ wire \in Seq(Nat \X Nat)
    /\ read \in Nat
    /\ up \in Seq(Packets)
    /\ pings \in Nat
    /\ pongs \in Nat

\* Who holds which mutex can be told from where the threads are.
LocksInv ==
    /\ keepalive_mutex = "keeper" <=> pc["keeper"] \in {"test", "drowsy"}
    /\ task_mutex = "issue" <=>
        pc["issue"] \in {"test", "drowsy", "send", "stop", "close", "notify", "remove", "getJobs"}
    /\ \A t \in Threads : client_map_mutex = t <=> pc[t] = "getJobs"

\* From stop() to the deletion, step by step: where the keepalive thread is after
\* each of the steps that the argument needs.
Joined == {"fence", "delete", "deleted", "erased"}
Emptied == {"join"} \cup Joined
Removing == {"getJobs"} \cup Emptied
Stopping == {"close", "notify", "remove"} \cup Removing

RemovalInv ==
    /\ pc["keeper"] \in Stopping => ~ active
    /\ pc["keeper"] \in Removing => dist # "store"
    /\ pc["keeper"] \in Emptied => active_tasks \in returned \cup {0}
    /\ pc["keeper"] \in Joined => pc["response"] = "exited" /\ pc["issue"] = "exited"

IsPart(i) == wire[i] # Ping
Follows(p, q) == IF p[2] = Parts THEN q[1] > p[1] /\ q[2] = 1
                                 ELSE q = <<p[1], p[2] + 1>>

\* Apart from the keepalives, which no lock keeps out, the packets of the batches
\* leave the server whole, in order and once.
IssueStreamIntact ==
    \A j \in DOMAIN wire : IsPart(j) =>
        /\ (\A i \in 1 .. j - 1 : ~ IsPart(i)) => wire[j][2] = 1
        /\ \A i \in 1 .. j - 1 :
            IsPart(i) /\ (\A k \in i + 1 .. j - 1 : ~ IsPart(k)) => Follows(wire[i], wire[j])

\* i is the last part of a batch that was sent.
LastPart(i) ==
    /\ i \in DOMAIN wire
    /\ IsPart(i)
    /\ \A k \in DOMAIN wire : k > i => ~ IsPart(k)

\* The packet before this one, if any, was sent to its end.
LastIsWhole == \A i \in DOMAIN wire : LastPart(i) => wire[i][2] = Parts
SentBelow(n) == \A i \in DOMAIN wire : wire[i][1] < n

\* Batch numbers grow along the way from the distribution thread to the wire.
NumbersInv ==
    /\ active_tasks <= batches
    /\ SentBelow(batches + 1)
    /\ dist \in {"find", "submit", "store", "stray"} =>
        active_tasks < batches /\ SentBelow(batches)
    /\ new_jobs => active_tasks > 0 /\ SentBelow(active_tasks)

\* What the issue thread sends next goes on from what it sent last.
SendingInv ==
    /\ pc["issue"] \in {"loop", "lock", "test", "drowsy", "asleep"} => LastIsWhole
    /\ pc["issue"] = "send" =>
        /\ ~ new_jobs
        /\ sending[1] = active_tasks
        /\ active_tasks > 0
        /\ sending[2] \in 1 .. Parts
        /\ IF sending[2] = 1
           THEN LastIsWhole /\ SentBelow(sending[1])
           ELSE \E i \in DOMAIN wire :
                    LastPart(i) /\ wire[i] = <<sending[1], sending[2] - 1>>

Unread(i) == i \in DOMAIN wire /\ i > read /\ wire[i] = Ping
Answer(i) == i \in DOMAIN up /\ up[i] = "KEEPALIVE"

\* A keepalive that is under way: not yet read, or read and answered.
Quiet == (\A i \in DOMAIN wire : ~ Unread(i)) /\ (\A i \in DOMAIN up : ~ Answer(i))

\* There is at most one, and none when the last one was answered.
RoundInv ==
    /\ pings = pongs \/ pings = pongs + 1
    /\ keepalive => pings = pongs
    /\ pc["keeper"] = "rest" => pings = pongs
    /\ pc["keeper"] = "ping" => pings = pongs + 1
    /\ pings = pongs \/ pc["keeper"] = "ping" => Quiet
    /\ \A i, j \in DOMAIN wire : Unread(i) /\ Unread(j) => i = j
    /\ \A i, j \in DOMAIN up : Answer(i) /\ Answer(j) => i = j
    /\ \A i \in DOMAIN wire, j \in DOMAIN up : ~ (Unread(i) /\ Answer(j))

IndInv == HandlerTypes /\ LocksInv /\ RemovalInv /\ NumbersInv /\ SendingInv /\ RoundInv
          /\ IssueStreamIntact


\* Every step is one of the named actions, or stutters.
LEMMA Actions ==
    ASSUME [Next]_vars
    PROVE  \/ \E t \in Threads : \/ StopClear(t) \/ StopClose(t) \/ StopNotify(t)
                                 \/ RemoveLock(t) \/ RemoveReturn(t) \/ SpuriousWakeUp(t)
           \/ KeeperClear \/ KeeperSend \/ KeeperSendFails \/ KeeperLock \/ KeeperReturns
           \/ KeeperDecides \/ KeeperSleeps \/ KeeperJoin \/ KeeperFence \/ KeeperDelete
           \/ KeeperErase
           \/ ResponseLoop \/ RecvRequest \/ RecvKeepAlive \/ RecvFails \/ ResponseClear
           \/ ResponseNotify
           \/ IssueLoop \/ IssueLock \/ IssueDecides \/ IssueSleeps \/ IssueEnds
           \/ IssueTakes \/ SendFully \/ IssueFails
           \/ DistWait \/ DistLookup \/ DistFetch \/ DistFind \/ DistSubmit \/ DistStore
           \/ DistStray \/ ClientReads \/ ClientLeaves
           \/ UNCHANGED vars
  BY DEF Next, KeeperStep, ResponseStep, IssueStep, DistStep, Stop, Threads


\* Appending to a sequence.
LEMMA AppendFacts ==
    ASSUME NEW S, NEW s \in Seq(S), NEW e \in S
    PROVE  /\ Len(s) \in Nat
           /\ DOMAIN s = 1 .. Len(s)
           /\ DOMAIN Append(s, e) = 1 .. Len(s) + 1
           /\ Append(s, e)[Len(s) + 1] = e
           /\ \A i \in DOMAIN s : Append(s, e)[i] = s[i]
<1>1. /\ Len(s) \in Nat
      /\ DOMAIN s = 1 .. Len(s)
      /\ DOMAIN Append(s, e) = 1 .. Len(s) + 1
      /\ Append(s, e)[Len(s) + 1] = e
  OBVIOUS
<1>2. \A i \in DOMAIN s : Append(s, e)[i] = s[i]
  OBVIOUS
<1> QED BY <1>1, <1>2

\* A part more on the wire.
LEMMA WireAppended ==
    ASSUME HandlerTypes, NEW part \in Nat \X Nat, wire' = Append(wire, part)
    PROVE  /\ Len(wire) \in Nat
           /\ DOMAIN wire = 1 .. Len(wire)
           /\ DOMAIN wire' = 1 .. Len(wire) + 1
           /\ wire'[Len(wire) + 1] = part
           /\ \A i \in DOMAIN wire : wire'[i] = wire[i]
<1>1. wire \in Seq(Nat \X Nat)
  BY DEF HandlerTypes
<1> QED BY <1>1, AppendFacts

\* A packet more on its way to the server.
LEMMA UpAppended ==
    ASSUME HandlerTypes, NEW p \in Packets, up' = Append(up, p)
    PROVE  /\ Len(up) \in Nat
           /\ DOMAIN up = 1 .. Len(up)
           /\ DOMAIN up' = 1 .. Len(up) + 1
           /\ up'[Len(up) + 1] = p
           /\ \A i \in DOMAIN up : up'[i] = up[i]
<1>1. up \in Seq(Packets)
  BY DEF HandlerTypes
<1> QED BY <1>1, AppendFacts

\* The variables keep their kinds.
LEMMA TypesStep ==
    ASSUME HandlerTypes, [Next]_vars
    PROVE  HandlerTypes'
<1> USE DEF HandlerTypes, Labels, Packets, Ping, Goto, Threads, Free, Woken, Send,
    locks, remoteVars
<1>1. ASSUME NEW t \in Threads, StopClear(t) PROVE HandlerTypes'
  BY <1>1 DEF StopClear
<1>2. ASSUME NEW t \in Threads, StopClose(t) PROVE HandlerTypes'
  BY <1>2 DEF StopClose
<1>3. ASSUME NEW t \in Threads, StopNotify(t) PROVE HandlerTypes'
  BY <1>3 DEF StopNotify
<1>4. ASSUME NEW t \in Threads, RemoveLock(t) PROVE HandlerTypes'
  BY <1>4 DEF RemoveLock
<1>5. ASSUME NEW t \in Threads, RemoveReturn(t) PROVE HandlerTypes'
  BY <1>5 DEF RemoveReturn
<1>6. ASSUME NEW t \in Threads, SpuriousWakeUp(t) PROVE HandlerTypes'
  BY <1>6 DEF SpuriousWakeUp
<1>7. CASE KeeperClear
  <2>1. pings' \in Nat
    BY <1>7 DEF KeeperClear
  <2> QED BY <1>7, <2>1 DEF KeeperClear
<1>8. CASE KeeperSend
  BY <1>8 DEF KeeperSend
<1>9. CASE KeeperSendFails
  BY <1>9 DEF KeeperSendFails
<1>10. CASE KeeperLock
  BY <1>10 DEF KeeperLock
<1>11. CASE KeeperReturns
  BY <1>11 DEF KeeperReturns
<1>12. CASE KeeperDecides
  BY <1>12 DEF KeeperDecides
<1>13. CASE KeeperSleeps
  BY <1>13 DEF KeeperSleeps
<1>14. CASE KeeperJoin
  BY <1>14 DEF KeeperJoin
<1>15. CASE KeeperFence
  BY <1>15 DEF KeeperFence
<1>16. CASE KeeperDelete
  BY <1>16 DEF KeeperDelete
<1>17. CASE KeeperErase
  BY <1>17 DEF KeeperErase
<1>18. CASE ResponseLoop
  BY <1>18 DEF ResponseLoop
<1>19. CASE RecvRequest
  BY <1>19 DEF RecvRequest
<1>20. CASE RecvKeepAlive
  BY <1>20 DEF RecvKeepAlive
<1>21. CASE RecvFails
  BY <1>21 DEF RecvFails
<1>22. CASE ResponseClear
  BY <1>22 DEF ResponseClear
<1>23. CASE ResponseNotify
  BY <1>23 DEF ResponseNotify
<1>24. CASE IssueLoop
  BY <1>24 DEF IssueLoop
<1>25. CASE IssueLock
  BY <1>25 DEF IssueLock
<1>26. CASE IssueDecides
  BY <1>26 DEF IssueDecides
<1>27. CASE IssueSleeps
  BY <1>27 DEF IssueSleeps
<1>28. CASE IssueEnds
  BY <1>28 DEF IssueEnds
<1>29. CASE IssueTakes
  BY <1>29 DEF IssueTakes
<1>30. CASE SendFully
  BY <1>30 DEF SendFully
<1>31. CASE IssueFails
  BY <1>31 DEF IssueFails
<1>32. CASE DistWait
  BY <1>32 DEF DistWait
<1>33. CASE DistLookup
  BY <1>33 DEF DistLookup
<1>34. CASE DistFetch
  BY <1>34 DEF DistFetch
<1>35. CASE DistFind
  BY <1>35 DEF DistFind
<1>36. CASE DistSubmit
  BY <1>36 DEF DistSubmit
<1>37. CASE DistStore
  BY <1>37 DEF DistStore
<1>38. CASE DistStray
  BY <1>38 DEF DistStray
<1>39. CASE ClientReads
  <2>1. up' \in {up, Append(up, "KEEPALIVE"), Append(up, "FINISH_JOB")}
    BY <1>39 DEF ClientReads
  <2>2. up' \in Seq(Packets)
    <3>1. \A p \in Packets : Append(up, p) \in Seq(Packets)
      OBVIOUS
    <3> QED BY <2>1, <3>1
  <2>3. read' \in Nat
    BY <1>39 DEF ClientReads
  <2> QED BY <1>39, <2>2, <2>3 DEF ClientReads
<1>40. CASE ClientLeaves
  BY <1>40 DEF ClientLeaves
<1>41. CASE UNCHANGED vars
  BY <1>41 DEF vars
<1> QED BY Actions, <1>1, <1>2, <1>3, <1>4, <1>5, <1>6, <1>7, <1>8, <1>9, <1>10,
    <1>11, <1>12, <1>13, <1>14, <1>15, <1>16, <1>17, <1>18, <1>19, <1>20, <1>21,
    <1>22, <1>23, <1>24, <1>25, <1>26, <1>27, <1>28, <1>29, <1>30, <1>31, <1>32,
    <1>33, <1>34, <1>35, <1>36, <1>37, <1>38, <1>39, <1>40, <1>41

\* Every step keeps the account of the mutexes.
LEMMA LocksStep ==
    ASSUME HandlerTypes, LocksInv, [Next]_vars
    PROVE  LocksInv'
<1> USE DEF HandlerTypes, LocksInv, Goto, Threads, Free, Woken, Send, locks,
    remoteVars
<1>1. ASSUME NEW t \in Threads, StopClear(t) PROVE LocksInv'
  BY <1>1 DEF StopClear
<1>2. ASSUME NEW t \in Threads, StopClose(t) PROVE LocksInv'
  BY <1>2 DEF StopClose
<1>3. ASSUME NEW t \in Threads, StopNotify(t) PROVE LocksInv'
  BY <1>3 DEF StopNotify
<1>4. ASSUME NEW t \in Threads, RemoveLock(t) PROVE LocksInv'
  BY <1>4 DEF RemoveLock, MapFree
<1>5. ASSUME NEW t \in Threads, RemoveReturn(t) PROVE LocksInv'
  BY <1>5 DEF RemoveReturn
<1>6. ASSUME NEW t \in Threads, SpuriousWakeUp(t) PROVE LocksInv'
  BY <1>6 DEF SpuriousWakeUp
<1>7. CASE KeeperClear
  BY <1>7 DEF KeeperClear
<1>8. CASE KeeperSend
  BY <1>8 DEF KeeperSend
<1>9. CASE KeeperSendFails
  BY <1>9 DEF KeeperSendFails
<1>10. CASE KeeperLock
  BY <1>10 DEF KeeperLock
<1>11. CASE KeeperReturns
  BY <1>11 DEF KeeperReturns
<1>12. CASE KeeperDecides
  BY <1>12 DEF KeeperDecides
<1>13. CASE KeeperSleeps
  BY <1>13 DEF KeeperSleeps
<1>14. CASE KeeperJoin
  BY <1>14 DEF KeeperJoin
<1>15. CASE KeeperFence
  BY <1>15 DEF KeeperFence
<1>16. CASE KeeperDelete
  BY <1>16 DEF KeeperDelete
<1>17. CASE KeeperErase
  BY <1>17 DEF KeeperErase
<1>18. CASE ResponseLoop
  BY <1>18 DEF ResponseLoop
<1>19. CASE RecvRequest
  BY <1>19 DEF RecvRequest
<1>20. CASE RecvKeepAlive
  BY <1>20 DEF RecvKeepAlive
<1>21. CASE RecvFails
  BY <1>21 DEF RecvFails
<1>22. CASE ResponseClear
  BY <1>22 DEF ResponseClear
<1>23. CASE ResponseNotify
  BY <1>23 DEF ResponseNotify
<1>24. CASE IssueLoop
  BY <1>24 DEF IssueLoop
<1>25. CASE IssueLock
  BY <1>25 DEF IssueLock
<1>26. CASE IssueDecides
  BY <1>26 DEF IssueDecides
<1>27. CASE IssueSleeps
  BY <1>27 DEF IssueSleeps
<1>28. CASE IssueEnds
  BY <1>28 DEF IssueEnds
<1>29. CASE IssueTakes
  BY <1>29 DEF IssueTakes
<1>30. CASE SendFully
  BY <1>30 DEF SendFully
<1>31. CASE IssueFails
  BY <1>31 DEF IssueFails
<1>32. CASE DistWait
  BY <1>32 DEF DistWait
<1>33. CASE DistLookup
  BY <1>33 DEF DistLookup
<1>34. CASE DistFetch
  BY <1>34 DEF DistFetch
<1>35. CASE DistFind
  BY <1>35 DEF DistFind
<1>36. CASE DistSubmit
  BY <1>36 DEF DistSubmit
<1>37. CASE DistStore
  BY <1>37 DEF DistStore
<1>38. CASE DistStray
  BY <1>38 DEF DistStray
<1>39. CASE ClientReads
  BY <1>39 DEF ClientReads
<1>40. CASE ClientLeaves
  BY <1>40 DEF ClientLeaves
<1>41. CASE UNCHANGED vars
  BY <1>41 DEF vars
<1> QED BY Actions, <1>1, <1>2, <1>3, <1>4, <1>5, <1>6, <1>7, <1>8, <1>9, <1>10,
    <1>11, <1>12, <1>13, <1>14, <1>15, <1>16, <1>17, <1>18, <1>19, <1>20, <1>21,
    <1>22, <1>23, <1>24, <1>25, <1>26, <1>27, <1>28, <1>29, <1>30, <1>31, <1>32,
    <1>33, <1>34, <1>35, <1>36, <1>37, <1>38, <1>39, <1>40, <1>41

\* Every step keeps what stop() and join() have achieved.
LEMMA RemovalStep ==
    ASSUME HandlerTypes, LocksInv, RemovalInv, [Next]_vars
    PROVE  RemovalInv'
<1> USE DEF HandlerTypes, LocksInv, RemovalInv, Stopping, Removing, Emptied, Joined,
    MapFree, Freed, HandBack, Goto, Threads, Free, Woken, Send, locks, remoteVars
<1>1. ASSUME NEW t \in Threads, StopClear(t) PROVE RemovalInv'
  BY <1>1 DEF StopClear
<1>2. ASSUME NEW t \in Threads, StopClose(t) PROVE RemovalInv'
  BY <1>2 DEF StopClose
<1>3. ASSUME NEW t \in Threads, StopNotify(t) PROVE RemovalInv'
  BY <1>3 DEF StopNotify
<1>4. ASSUME NEW t \in Threads, RemoveLock(t) PROVE RemovalInv'
  BY <1>4 DEF RemoveLock
<1>5. ASSUME NEW t \in Threads, RemoveReturn(t) PROVE RemovalInv'
  BY <1>5 DEF RemoveReturn
<1>6. ASSUME NEW t \in Threads, SpuriousWakeUp(t) PROVE RemovalInv'
  BY <1>6 DEF SpuriousWakeUp
<1>7. CASE KeeperClear
  BY <1>7 DEF KeeperClear
<1>8. CASE KeeperSend
  BY <1>8 DEF KeeperSend
<1>9. CASE KeeperSendFails
  BY <1>9 DEF KeeperSendFails
<1>10. CASE KeeperLock
  BY <1>10 DEF KeeperLock
<1>11. CASE KeeperReturns
  BY <1>11 DEF KeeperReturns
<1>12. CASE KeeperDecides
  BY <1>12 DEF KeeperDecides
<1>13. CASE KeeperSleeps
  BY <1>13 DEF KeeperSleeps
<1>14. CASE KeeperJoin
  BY <1>14 DEF KeeperJoin
<1>15. CASE KeeperFence
  BY <1>15 DEF KeeperFence
<1>16. CASE KeeperDelete
  BY <1>16 DEF KeeperDelete
<1>17. CASE KeeperErase
  BY <1>17 DEF KeeperErase
<1>18. CASE ResponseLoop
  BY <1>18 DEF ResponseLoop
<1>19. CASE RecvRequest
  BY <1>19 DEF RecvRequest
<1>20. CASE RecvKeepAlive
  BY <1>20 DEF RecvKeepAlive
<1>21. CASE RecvFails
  BY <1>21 DEF RecvFails
<1>22. CASE ResponseClear
  BY <1>22 DEF ResponseClear
<1>23. CASE ResponseNotify
  BY <1>23 DEF ResponseNotify
<1>24. CASE IssueLoop
  BY <1>24 DEF IssueLoop
<1>25. CASE IssueLock
  BY <1>25 DEF IssueLock
<1>26. CASE IssueDecides
  BY <1>26 DEF IssueDecides
<1>27. CASE IssueSleeps
  BY <1>27 DEF IssueSleeps
<1>28. CASE IssueEnds
  BY <1>28 DEF IssueEnds
<1>29. CASE IssueTakes
  BY <1>29 DEF IssueTakes
<1>30. CASE SendFully
  BY <1>30 DEF SendFully
<1>31. CASE IssueFails
  BY <1>31 DEF IssueFails
<1>32. CASE DistWait
  BY <1>32 DEF DistWait
<1>33. CASE DistLookup
  BY <1>33 DEF DistLookup
<1>34. CASE DistFetch
  BY <1>34 DEF DistFetch
<1>35. CASE DistFind
  BY <1>35 DEF DistFind
<1>36. CASE DistSubmit
  BY <1>36 DEF DistSubmit
<1>37. CASE DistStore
  BY <1>37 DEF DistStore
<1>38. CASE DistStray
  BY <1>38 DEF DistStray
<1>39. CASE ClientReads
  BY <1>39 DEF ClientReads
<1>40. CASE ClientLeaves
  BY <1>40 DEF ClientLeaves
<1>41. CASE UNCHANGED vars
  BY <1>41 DEF vars
<1> QED BY Actions, <1>1, <1>2, <1>3, <1>4, <1>5, <1>6, <1>7, <1>8, <1>9, <1>10,
    <1>11, <1>12, <1>13, <1>14, <1>15, <1>16, <1>17, <1>18, <1>19, <1>20, <1>21,
    <1>22, <1>23, <1>24, <1>25, <1>26, <1>27, <1>28, <1>29, <1>30, <1>31, <1>32,
    <1>33, <1>34, <1>35, <1>36, <1>37, <1>38, <1>39, <1>40, <1>41


\* What appending a part does to the numbers on the wire.
LEMMA AppendBelow ==
    ASSUME HandlerTypes, NEW part \in Nat \X Nat, wire' = Append(wire, part),
           NEW n \in Nat, part[1] < n, SentBelow(n)
    PROVE  SentBelow(n)'
<1>1. wire \in Seq(Nat \X Nat)
  BY DEF HandlerTypes
<1>2. DOMAIN wire' = 1 .. Len(wire) + 1
  BY <1>1
<1>3. \A i \in DOMAIN wire' : wire'[i] = IF i \in DOMAIN wire THEN wire[i] ELSE part
  BY <1>1
<1> QED BY <1>2, <1>3 DEF SentBelow

\* Batch numbers only grow.
LEMMA NumbersStep ==
    ASSUME HandlerTypes, HandlerTypes', LocksInv, NumbersInv, SendingInv, [Next]_vars
    PROVE  NumbersInv'
<1> USE DEF HandlerTypes, NumbersInv, SentBelow, Goto, Threads, Free, Woken, Send,
    locks, remoteVars
<1>1. ASSUME NEW t \in Threads, StopClear(t) PROVE NumbersInv'
  BY <1>1 DEF StopClear
<1>2. ASSUME NEW t \in Threads, StopClose(t) PROVE NumbersInv'
  BY <1>2 DEF StopClose
<1>3. ASSUME NEW t \in Threads, StopNotify(t) PROVE NumbersInv'
  BY <1>3 DEF StopNotify
<1>4. ASSUME NEW t \in Threads, RemoveLock(t) PROVE NumbersInv'
  BY <1>4 DEF RemoveLock
<1>5. ASSUME NEW t \in Threads, RemoveReturn(t) PROVE NumbersInv'
  BY <1>5 DEF RemoveReturn
<1>6. ASSUME NEW t \in Threads, SpuriousWakeUp(t) PROVE NumbersInv'
  BY <1>6 DEF SpuriousWakeUp
<1>7. CASE KeeperClear
  BY <1>7 DEF KeeperClear
<1>8. CASE KeeperSend
  <2> HIDE DEF SentBelow
  <2>1. wire' = Append(wire, Ping) /\ Ping \in Nat \X Nat /\ Ping[1] = 0
    BY <1>8 DEF KeeperSend, Ping
  <2>2. \A n \in Nat \ {0} : SentBelow(n) => SentBelow(n)'
    BY <2>1, AppendBelow
  <2> QED BY <1>8, <2>2 DEF KeeperSend
<1>9. CASE KeeperSendFails
  BY <1>9 DEF KeeperSendFails
<1>10. CASE KeeperLock
  BY <1>10 DEF KeeperLock
<1>11. CASE KeeperReturns
  BY <1>11 DEF KeeperReturns
<1>12. CASE KeeperDecides
  BY <1>12 DEF KeeperDecides
<1>13. CASE KeeperSleeps
  BY <1>13 DEF KeeperSleeps
<1>14. CASE KeeperJoin
  BY <1>14 DEF KeeperJoin
<1>15. CASE KeeperFence
  BY <1>15 DEF KeeperFence
<1>16. CASE KeeperDelete
  BY <1>16 DEF KeeperDelete
<1>17. CASE KeeperErase
  BY <1>17 DEF KeeperErase
<1>18. CASE ResponseLoop
  BY <1>18 DEF ResponseLoop
<1>19. CASE RecvRequest
  BY <1>19 DEF RecvRequest
<1>20. CASE RecvKeepAlive
  BY <1>20 DEF RecvKeepAlive
<1>21. CASE RecvFails
  BY <1>21 DEF RecvFails
<1>22. CASE ResponseClear
  BY <1>22 DEF ResponseClear
<1>23. CASE ResponseNotify
  BY <1>23 DEF ResponseNotify
<1>24. CASE IssueLoop
  BY <1>24 DEF IssueLoop
<1>25. CASE IssueLock
  BY <1>25 DEF IssueLock
<1>26. CASE IssueDecides
  BY <1>26 DEF IssueDecides
<1>27. CASE IssueSleeps
  BY <1>27 DEF IssueSleeps
<1>28. CASE IssueEnds
  BY <1>28 DEF IssueEnds
<1>29. CASE IssueTakes
  BY <1>29 DEF IssueTakes
<1>30. CASE SendFully
  <2> HIDE DEF SentBelow
  <2>1. wire' = Append(wire, sending) /\ sending \in Nat \X Nat /\ sending[1] = active_tasks /\ ~ new_jobs
    BY <1>30 DEF SendFully, SendingInv
  <2>2. \A n \in Nat : active_tasks < n /\ SentBelow(n) => SentBelow(n)'
    BY <2>1, AppendBelow
  <2> QED BY <1>30, <2>1, <2>2 DEF SendFully
<1>31. CASE IssueFails
  <2>1. ~ new_jobs
    BY <1>31 DEF IssueFails, SendingInv
  <2> QED BY <1>31, <2>1 DEF IssueFails
<1>32. CASE DistWait
  BY <1>32 DEF DistWait
<1>33. CASE DistLookup
  BY <1>33 DEF DistLookup
<1>34. CASE DistFetch
  BY <1>34 DEF DistFetch
<1>35. CASE DistFind
  BY <1>35 DEF DistFind
<1>36. CASE DistSubmit
  BY <1>36 DEF DistSubmit
<1>37. CASE DistStore
  BY <1>37 DEF DistStore
<1>38. CASE DistStray
  BY <1>38 DEF DistStray
<1>39. CASE ClientReads
  BY <1>39 DEF ClientReads
<1>40. CASE ClientLeaves
  BY <1>40 DEF ClientLeaves
<1>41. CASE UNCHANGED vars
  BY <1>41 DEF vars
<1> QED BY Actions, <1>1, <1>2, <1>3, <1>4, <1>5, <1>6, <1>7, <1>8, <1>9, <1>10,
    <1>11, <1>12, <1>13, <1>14, <1>15, <1>16, <1>17, <1>18, <1>19, <1>20, <1>21,
    <1>22, <1>23, <1>24, <1>25, <1>26, <1>27, <1>28, <1>29, <1>30, <1>31, <1>32,
    <1>33, <1>34, <1>35, <1>36, <1>37, <1>38, <1>39, <1>40, <1>41


\* A keepalive on the wire leaves the last part of a batch where it was.
LEMMA LastAfterPing ==
    ASSUME HandlerTypes, wire' = Append(wire, Ping)
    PROVE  /\ \A i \in DOMAIN wire' : LastPart(i)' => i \in DOMAIN wire /\ LastPart(i)
           /\ \A i \in DOMAIN wire : wire'[i] = wire[i] /\ (LastPart(i) => LastPart(i)')
           /\ DOMAIN wire \subseteq DOMAIN wire'
<1>1. wire \in Seq(Nat \X Nat)
  BY DEF HandlerTypes
<1>2. DOMAIN wire = 1 .. Len(wire) /\ DOMAIN wire' = 1 .. Len(wire) + 1
  BY <1>1
<1>3. \A i \in DOMAIN wire' : wire'[i] = IF i \in DOMAIN wire THEN wire[i] ELSE Ping
  BY <1>1
<1> QED BY <1>2, <1>3 DEF LastPart, IsPart

\* A part of a batch that is sent is the last one.
LEMMA LastAfterPart ==
    ASSUME HandlerTypes, NEW part \in Nat \X Nat, part # Ping, wire' = Append(wire, part)
    PROVE  /\ DOMAIN wire' = DOMAIN wire \cup {Len(wire) + 1}
           /\ wire'[Len(wire) + 1] = part
           /\ \A i \in DOMAIN wire' : LastPart(i)' <=> i = Len(wire) + 1
<1>1. wire \in Seq(Nat \X Nat)
  BY DEF HandlerTypes
<1>2. Len(wire) \in Nat /\ DOMAIN wire = 1 .. Len(wire) /\ DOMAIN wire' = 1 .. Len(wire) + 1
  BY <1>1
<1>3. wire'[Len(wire) + 1] = part
  BY <1>1
<1> QED BY <1>2, <1>3 DEF LastPart, IsPart

\* What is sent next goes on from what was sent last.
LEMMA SendingStep ==
    ASSUME HandlerTypes, HandlerTypes', LocksInv, NumbersInv, SendingInv, [Next]_vars
    PROVE  SendingInv'
<1> USE DEF HandlerTypes, LocksInv, NumbersInv, SendingInv, SentBelow, LastIsWhole,
    LastPart, IsPart, Goto, Threads, Free, Woken, Send, locks, remoteVars
<1>1. ASSUME NEW t \in Threads, StopClear(t) PROVE SendingInv'
  BY <1>1 DEF StopClear
<1>2. ASSUME NEW t \in Threads, StopClose(t) PROVE SendingInv'
  BY <1>2 DEF StopClose
<1>3. ASSUME NEW t \in Threads, StopNotify(t) PROVE SendingInv'
  BY <1>3 DEF StopNotify
<1>4. ASSUME NEW t \in Threads, RemoveLock(t) PROVE SendingInv'
  BY <1>4 DEF RemoveLock
<1>5. ASSUME NEW t \in Threads, RemoveReturn(t) PROVE SendingInv'
  BY <1>5 DEF RemoveReturn
<1>6. ASSUME NEW t \in Threads, SpuriousWakeUp(t) PROVE SendingInv'
  BY <1>6 DEF SpuriousWakeUp
<1>7. CASE KeeperClear
  BY <1>7 DEF KeeperClear
<1>8. CASE KeeperSend
  <2> HIDE DEF SentBelow, LastPart, IsPart
  <2>1. wire' = Append(wire, Ping) /\ Ping \in Nat \X Nat /\ Ping[1] = 0
    BY <1>8 DEF KeeperSend, Ping
  <2>2. LastIsWhole => LastIsWhole'
    BY <2>1, LastAfterPing
  <2>3. sending' = sending /\ new_jobs' = new_jobs /\ active_tasks' = active_tasks
        /\ pc'["issue"] = pc["issue"]
    BY <1>8 DEF KeeperSend
  <2>4. ASSUME pc["issue"] = "send", sending[2] = 1 PROVE SentBelow(sending[1])'
    BY <2>1, <2>3, <2>4, AppendBelow
  <2>5. ASSUME pc["issue"] = "send", sending[2] # 1
        PROVE  \E i \in DOMAIN wire' : LastPart(i)' /\ wire'[i] = <<sending[1], sending[2] - 1>>
    BY <2>1, <2>5, LastAfterPing
  <2> HIDE DEF LastIsWhole
  <2> QED BY <2>2, <2>3, <2>4, <2>5
<1>9. CASE KeeperSendFails
  BY <1>9 DEF KeeperSendFails
<1>10. CASE KeeperLock
  BY <1>10 DEF KeeperLock
<1>11. CASE KeeperReturns
  BY <1>11 DEF KeeperReturns
<1>12. CASE KeeperDecides
  BY <1>12 DEF KeeperDecides
<1>13. CASE KeeperSleeps
  BY <1>13 DEF KeeperSleeps
<1>14. CASE KeeperJoin
  BY <1>14 DEF KeeperJoin
<1>15. CASE KeeperFence
  BY <1>15 DEF KeeperFence
<1>16. CASE KeeperDelete
  BY <1>16 DEF KeeperDelete
<1>17. CASE KeeperErase
  BY <1>17 DEF KeeperErase
<1>18. CASE ResponseLoop
  BY <1>18 DEF ResponseLoop
<1>19. CASE RecvRequest
  BY <1>19 DEF RecvRequest
<1>20. CASE RecvKeepAlive
  BY <1>20 DEF RecvKeepAlive
<1>21. CASE RecvFails
  BY <1>21 DEF RecvFails
<1>22. CASE ResponseClear
  BY <1>22 DEF ResponseClear
<1>23. CASE ResponseNotify
  BY <1>23 DEF ResponseNotify
<1>24. CASE IssueLoop
  BY <1>24 DEF IssueLoop
<1>25. CASE IssueLock
  BY <1>25 DEF IssueLock
<1>26. CASE IssueDecides
  BY <1>26 DEF IssueDecides
<1>27. CASE IssueSleeps
  BY <1>27 DEF IssueSleeps
<1>28. CASE IssueEnds
  BY <1>28 DEF IssueEnds
<1>29. CASE IssueTakes
  <2>1. pc["issue"] = "test" /\ pc'["issue"] = "send" /\ sending' = <<active_tasks, 1>>
    BY <1>29 DEF IssueTakes
  <2>2. wire' = wire /\ active_tasks' = active_tasks /\ new_jobs /\ new_jobs' = FALSE
    BY <1>29 DEF IssueTakes
  <2>3. LastIsWhole' /\ SentBelow(active_tasks)'
    BY <2>1, <2>2
  <2> HIDE DEF LastIsWhole, SentBelow
  <2> QED BY <2>1, <2>2, <2>3, HandlerAssumption
<1>30. CASE SendFully
  <2> HIDE DEF SentBelow, LastPart, IsPart
  <2>1. /\ wire' = Append(wire, sending) /\ sending # Ping /\ sending \in Nat \X Nat
        /\ sending[2] \in 1 .. Parts /\ sending[1] = active_tasks /\ ~ new_jobs
        /\ active_tasks' = active_tasks /\ new_jobs' = new_jobs
    BY <1>30 DEF SendFully, Ping
  <2>2. wire'[Len(wire) + 1] = sending /\ Len(wire) + 1 \in DOMAIN wire'
        /\ \A i \in DOMAIN wire' : LastPart(i)' <=> i = Len(wire) + 1
    BY <2>1, LastAfterPart
  <2>3. CASE sending[2] = Parts
    <3>1. pc'["issue"] = "loop"
      BY <1>30, <2>3 DEF SendFully
    <3>2. LastIsWhole'
      BY <2>2, <2>3, HandlerAssumption
    <3> HIDE DEF LastIsWhole
    <3> QED BY <3>1, <3>2
  <2>4. CASE sending[2] # Parts
    <3>1. pc' = pc /\ pc["issue"] = "send" /\ sending' = <<sending[1], sending[2] + 1>>
      BY <1>30, <2>4 DEF SendFully
    <3>2. sending'[2] \in 1 .. Parts /\ sending'[2] # 1 /\ sending'[1] = sending[1]
      <4>1. sending[2] + 1 \in 1 .. Parts /\ sending[2] + 1 # 1
        BY <2>1, <2>4, HandlerAssumption
      <4>2. sending'[2] = sending[2] + 1 /\ sending'[1] = sending[1]
        BY <3>1
      <4> QED BY <4>1, <4>2
    <3>3. sending = <<sending'[1], sending'[2] - 1>>
      BY <2>1, <3>1
    <3>4. \E i \in DOMAIN wire' : LastPart(i)' /\ wire'[i] = <<sending'[1], sending'[2] - 1>>
      BY <2>2, <3>3
    <3> HIDE DEF LastIsWhole
    <3> QED BY <2>1, <3>1, <3>2, <3>4
  <2> QED BY <2>3, <2>4
<1>31. CASE IssueFails
  BY <1>31 DEF IssueFails
<1>32. CASE DistWait
  BY <1>32 DEF DistWait
<1>33. CASE DistLookup
  BY <1>33 DEF DistLookup
<1>34. CASE DistFetch
  BY <1>34 DEF DistFetch
<1>35. CASE DistFind
  BY <1>35 DEF DistFind
<1>36. CASE DistSubmit
  BY <1>36 DEF DistSubmit
<1>37. CASE DistStore
  BY <1>37 DEF DistStore
<1>38. CASE DistStray
  BY <1>38 DEF DistStray
<1>39. CASE ClientReads
  BY <1>39 DEF ClientReads
<1>40. CASE ClientLeaves
  BY <1>40 DEF ClientLeaves
<1>41. CASE UNCHANGED vars
  BY <1>41 DEF vars
<1> QED BY Actions, <1>1, <1>2, <1>3, <1>4, <1>5, <1>6, <1>7, <1>8, <1>9, <1>10,
    <1>11, <1>12, <1>13, <1>14, <1>15, <1>16, <1>17, <1>18, <1>19, <1>20, <1>21,
    <1>22, <1>23, <1>24, <1>25, <1>26, <1>27, <1>28, <1>29, <1>30, <1>31, <1>32,
    <1>33, <1>34, <1>35, <1>36, <1>37, <1>38, <1>39, <1>40, <1>41

\* At most one keepalive is under way.
LEMMA RoundStep ==
    ASSUME HandlerTypes, HandlerTypes', LocksInv, SendingInv, RoundInv, [Next]_vars
    PROVE  RoundInv'
<1> USE DEF HandlerTypes, RoundInv, Quiet, Unread, Answer, Goto, Threads, Free,
    Woken, Send, locks, remoteVars
<1>1. ASSUME NEW t \in Threads, StopClear(t) PROVE RoundInv'
  BY <1>1 DEF StopClear
<1>2. ASSUME NEW t \in Threads, StopClose(t) PROVE RoundInv'
  BY <1>2 DEF StopClose
<1>3. ASSUME NEW t \in Threads, StopNotify(t) PROVE RoundInv'
  BY <1>3 DEF StopNotify
<1>4. ASSUME NEW t \in Threads, RemoveLock(t) PROVE RoundInv'
  BY <1>4 DEF RemoveLock
<1>5. ASSUME NEW t \in Threads, RemoveReturn(t) PROVE RoundInv'
  BY <1>5 DEF RemoveReturn
<1>6. ASSUME NEW t \in Threads, SpuriousWakeUp(t) PROVE RoundInv'
  BY <1>6 DEF SpuriousWakeUp
<1>7. CASE KeeperClear
  BY <1>7 DEF KeeperClear
<1>8. CASE KeeperSend
  <2>1. wire' = Append(wire, Ping) /\ Ping \in Nat \X Nat
    BY <1>8 DEF KeeperSend, Ping
  <2>2. /\ Len(wire) \in Nat /\ DOMAIN wire = 1 .. Len(wire)
        /\ DOMAIN wire' = 1 .. Len(wire) + 1
        /\ \A i \in DOMAIN wire : wire'[i] = wire[i]
    BY <2>1, WireAppended
  <2>3. /\ read' = read /\ up' = up /\ pings' = pings /\ pongs' = pongs
        /\ keepalive' = keepalive /\ pc["keeper"] = "ping" /\ pc'["keeper"] = "lock"
    BY <1>8 DEF KeeperSend
  <2>4. pings = pongs + 1 /\ Quiet
    BY <2>3
  <2>5. \A i \in DOMAIN wire' : Unread(i)' => i = Len(wire) + 1
    <3>1. \A i \in DOMAIN wire' : i \in DOMAIN wire \/ i = Len(wire) + 1
      BY <2>2 DEF HandlerTypes
    <3>2. \A i \in DOMAIN wire : ~ Unread(i)'
      BY <2>2, <2>3, <2>4
    <3> QED BY <3>1, <3>2, Zenon
  <2>6. \A i \in DOMAIN up' : ~ Answer(i)'
    BY <2>3, <2>4
  <2> HIDE DEF Unread, Answer, Quiet
  <2> QED BY <2>3, <2>4, <2>5, <2>6
<1>9. CASE KeeperSendFails
  BY <1>9 DEF KeeperSendFails
<1>10. CASE KeeperLock
  BY <1>10 DEF KeeperLock
<1>11. CASE KeeperReturns
  BY <1>11 DEF KeeperReturns
<1>12. CASE KeeperDecides
  BY <1>12 DEF KeeperDecides
<1>13. CASE KeeperSleeps
  BY <1>13 DEF KeeperSleeps
<1>14. CASE KeeperJoin
  BY <1>14 DEF KeeperJoin
<1>15. CASE KeeperFence
  BY <1>15 DEF KeeperFence
<1>16. CASE KeeperDelete
  BY <1>16 DEF KeeperDelete
<1>17. CASE KeeperErase
  BY <1>17 DEF KeeperErase
<1>18. CASE ResponseLoop
  BY <1>18 DEF ResponseLoop
<1>19. CASE RecvRequest
  <2>1. up' = Tail(up) /\ up # <<>> /\ Len(up) \in Nat \ {0}
    BY <1>19 DEF RecvRequest
  <2>2. \A i \in DOMAIN up' : i + 1 \in DOMAIN up /\ up'[i] = up[i + 1]
    BY <2>1
  <2>3. \A i \in DOMAIN up' : Answer(i)' => i + 1 \in DOMAIN up /\ Answer(i + 1)
    BY <2>2
  <2>4. DOMAIN up' \subseteq Int
    BY <2>1
  <2>5. wire' = wire /\ read' = read /\ pings' = pings /\ pongs' = pongs
        /\ keepalive' = keepalive /\ pc'["keeper"] = pc["keeper"]
    BY <1>19 DEF RecvRequest
  <2>6. \A i \in DOMAIN wire' : Unread(i)' => i \in DOMAIN wire /\ Unread(i)
    BY <2>5
  <2> HIDE DEF Answer, Unread
  <2>7. Quiet => Quiet'
    BY <2>3, <2>6
  <2>8. ASSUME NEW i \in DOMAIN up', NEW j \in DOMAIN up', Answer(i)', Answer(j)' PROVE i = j
    <3>1. i \in Int /\ j \in Int
      BY <2>4
    <3>2. i + 1 = j + 1
      BY <2>3, <2>8
    <3> QED BY ONLY <3>1, <3>2
  <2>9. \A i \in DOMAIN wire', j \in DOMAIN up' : ~ (Unread(i)' /\ Answer(j)')
    BY <2>3, <2>6
  <2> HIDE DEF Quiet
  <2> QED BY <2>5, <2>6, <2>7, <2>8, <2>9
<1>20. CASE RecvKeepAlive
  BY <1>20 DEF RecvKeepAlive
<1>21. CASE RecvFails
  BY <1>21 DEF RecvFails
<1>22. CASE ResponseClear
  BY <1>22 DEF ResponseClear
<1>23. CASE ResponseNotify
  BY <1>23 DEF ResponseNotify
<1>24. CASE IssueLoop
  BY <1>24 DEF IssueLoop
<1>25. CASE IssueLock
  BY <1>25 DEF IssueLock
<1>26. CASE IssueDecides
  BY <1>26 DEF IssueDecides
<1>27. CASE IssueSleeps
  BY <1>27 DEF IssueSleeps
<1>28. CASE IssueEnds
  BY <1>28 DEF IssueEnds
<1>29. CASE IssueTakes
  BY <1>29 DEF IssueTakes
<1>30. CASE SendFully
  <2>1. wire' = Append(wire, sending) /\ sending # Ping /\ sending \in Nat \X Nat
    BY <1>30 DEF SendFully, SendingInv, Ping
  <2>2. DOMAIN wire' = DOMAIN wire \cup {Len(wire) + 1} /\ wire'[Len(wire) + 1] = sending
    BY <2>1, LastAfterPart
  <2>3. \A i \in DOMAIN wire : wire'[i] = wire[i]
    BY <2>1, WireAppended
  <2>4. read' = read /\ up' = up /\ pings' = pings /\ pongs' = pongs
        /\ keepalive' = keepalive /\ pc'["keeper"] = pc["keeper"]
    BY <1>30 DEF SendFully
  <2>5. \A i \in DOMAIN wire' : Unread(i)' => i \in DOMAIN wire /\ Unread(i)
    BY <2>1, <2>2, <2>3, <2>4
  <2> HIDE DEF Unread
  <2> QED BY <2>4, <2>5
<1>31. CASE IssueFails
  BY <1>31 DEF IssueFails
<1>32. CASE DistWait
  BY <1>32 DEF DistWait
<1>33. CASE DistLookup
  BY <1>33 DEF DistLookup
<1>34. CASE DistFetch
  BY <1>34 DEF DistFetch
<1>35. CASE DistFind
  BY <1>35 DEF DistFind
<1>36. CASE DistSubmit
  BY <1>36 DEF DistSubmit
<1>37. CASE DistStore
  BY <1>37 DEF DistStore
<1>38. CASE DistStray
  BY <1>38 DEF DistStray
<1>39. CASE ClientReads
  <2>1. wire' = wire /\ read' = read + 1 /\ read + 1 \in DOMAIN wire
        /\ pings' = pings /\ pongs' = pongs /\ keepalive' = keepalive /\ pc' = pc
    BY <1>39 DEF ClientReads
  <2>2. \A i \in DOMAIN wire' : Unread(i)' => Unread(i) /\ i # read + 1
    <3>1. wire \in Seq(Nat \X Nat) /\ DOMAIN wire = 1 .. Len(wire) /\ read \in Nat
      OBVIOUS
    <3>2. \A i \in DOMAIN wire : i > read + 1 => i > read /\ i # read + 1
      <4> HIDE DEF HandlerTypes, RoundInv
      <4> QED BY <3>1
    <3> QED BY <2>1, <3>2
  <2>3. CASE up' = Append(up, "KEEPALIVE") /\ Unread(read + 1)
    <3>1. DOMAIN up' = DOMAIN up \cup {Len(up) + 1}
          /\ \A i \in DOMAIN up : up'[i] = up[i]
      <4>1. /\ Len(up) \in Nat /\ DOMAIN up = 1 .. Len(up)
            /\ DOMAIN up' = 1 .. Len(up) + 1
            /\ \A i \in DOMAIN up : up'[i] = up[i]
        BY <2>3, UpAppended DEF Packets
      <4> QED BY <4>1
    <3>2. \A i \in DOMAIN up' : Answer(i)' => i = Len(up) + 1
      BY <2>1, <2>3, <3>1
    <3>3. \A i \in DOMAIN wire' : ~ Unread(i)'
      BY <2>1, <2>2, <2>3
    <3>4. ~ (pings = pongs \/ pc["keeper"] = "ping")
      BY <2>1, <2>3
    <3> HIDE DEF Unread, Answer
    <3> QED BY <2>1, <3>2, <3>3, <3>4
  <2>4. CASE up' = Append(up, "FINISH_JOB") \/ up' = up
    <3> DEFINE Goal == \A i \in DOMAIN up' : Answer(i)' => i \in DOMAIN up /\ Answer(i)
    <3>1. ASSUME up' = Append(up, "FINISH_JOB") PROVE Goal
      <4>1. /\ DOMAIN up = 1 .. Len(up) /\ DOMAIN up' = 1 .. Len(up) + 1
            /\ up'[Len(up) + 1] = "FINISH_JOB" /\ Len(up) \in Nat
            /\ \A i \in DOMAIN up : up'[i] = up[i]
        BY <3>1, UpAppended DEF Packets
      <4> QED BY <4>1
    <3>2. ASSUME up' = up PROVE Goal
      BY <3>2
    <3>3. Goal
      BY <2>4, <3>1, <3>2
    <3> HIDE DEF Unread, Answer
    <3> QED BY <2>1, <2>2, <3>3
  <2>5. \/ up' = Append(up, "KEEPALIVE") /\ wire[read + 1] = Ping
        \/ up' = Append(up, "FINISH_JOB") \/ up' = up
    BY <1>39 DEF ClientReads
  <2> QED BY <2>1, <2>3, <2>4, <2>5
<1>40. CASE ClientLeaves
  <2>1. PICK n \in 0 .. Len(up) : up' = SubSeq(up, 1, n)
    BY <1>40 DEF ClientLeaves
  <2>2. \A i \in DOMAIN up' : i \in DOMAIN up /\ up'[i] = up[i]
    BY <2>1
  <2>3. \A i \in DOMAIN up' : Answer(i)' => i \in DOMAIN up /\ Answer(i)
    BY <2>2
  <2>4. wire' = wire /\ read' = read /\ pings' = pings /\ pongs' = pongs
        /\ keepalive' = keepalive /\ pc' = pc
    BY <1>40 DEF ClientLeaves
  <2> HIDE DEF Answer
  <2> QED BY <2>3, <2>4
<1>41. CASE UNCHANGED vars
  BY <1>41 DEF vars
<1> QED BY Actions, <1>1, <1>2, <1>3, <1>4, <1>5, <1>6, <1>7, <1>8, <1>9, <1>10,
    <1>11, <1>12, <1>13, <1>14, <1>15, <1>16, <1>17, <1>18, <1>19, <1>20, <1>21,
    <1>22, <1>23, <1>24, <1>25, <1>26, <1>27, <1>28, <1>29, <1>30, <1>31, <1>32,
    <1>33, <1>34, <1>35, <1>36, <1>37, <1>38, <1>39, <1>40, <1>41

\* The packets of the batches stay whole and in order.
LEMMA StreamStep ==
    ASSUME HandlerTypes, HandlerTypes', SendingInv, IssueStreamIntact, [Next]_vars
    PROVE  IssueStreamIntact'
<1> USE DEF HandlerTypes, IssueStreamIntact, IsPart, Follows, Goto, Threads, Free,
    Woken, Send, locks, remoteVars
<1>1. ASSUME NEW t \in Threads, StopClear(t) PROVE IssueStreamIntact'
  BY <1>1 DEF StopClear
<1>2. ASSUME NEW t \in Threads, StopClose(t) PROVE IssueStreamIntact'
  BY <1>2 DEF StopClose
<1>3. ASSUME NEW t \in Threads, StopNotify(t) PROVE IssueStreamIntact'
  BY <1>3 DEF StopNotify
<1>4. ASSUME NEW t \in Threads, RemoveLock(t) PROVE IssueStreamIntact'
  BY <1>4 DEF RemoveLock
<1>5. ASSUME NEW t \in Threads, RemoveReturn(t) PROVE IssueStreamIntact'
  BY <1>5 DEF RemoveReturn
<1>6. ASSUME NEW t \in Threads, SpuriousWakeUp(t) PROVE IssueStreamIntact'
  BY <1>6 DEF SpuriousWakeUp
<1>7. CASE KeeperClear
  BY <1>7 DEF KeeperClear
<1>8. CASE KeeperSend
  <2>1. wire' = Append(wire, Ping)
    BY <1>8 DEF KeeperSend
  <2>2. Len(wire) \in Nat /\ DOMAIN wire = 1 .. Len(wire) /\ DOMAIN wire' = 1 .. Len(wire) + 1
    BY <2>1, WireAppended DEF Ping
  <2>3. \A i \in DOMAIN wire' : wire'[i] = IF i \in DOMAIN wire THEN wire[i] ELSE Ping
    BY <2>1, <2>2, WireAppended DEF Ping
  <2> SUFFICES ASSUME NEW j \in DOMAIN wire', IsPart(j)'
               PROVE  /\ (\A i \in 1 .. j - 1 : ~ IsPart(i)') => wire'[j][2] = 1
                      /\ \A i \in 1 .. j - 1 :
                           IsPart(i)' /\ (\A k \in i + 1 .. j - 1 : ~ IsPart(k)') =>
                             Follows(wire'[i], wire'[j])
    BY Zenon
  <2> HIDE DEF Follows
  <2>4. j \in DOMAIN wire /\ IsPart(j) /\ wire'[j] = wire[j]
    BY <2>2, <2>3
  <2>5. \A i \in 1 .. j - 1 : i \in DOMAIN wire /\ wire'[i] = wire[i]
    <3>1. \A i \in 1 .. j - 1 : i \in 1 .. Len(wire) /\ i \in 1 .. Len(wire) + 1
      <4> HIDE DEF HandlerTypes, IssueStreamIntact, IsPart
      <4> QED BY <2>2, <2>4
    <3> QED BY <2>2, <2>3, <3>1
  <2>6. \A i \in 1 .. j - 1 : \A k \in i + 1 .. j - 1 : k \in 1 .. j - 1
    BY <2>2, <2>4
  <2>7. \A i \in 1 .. j - 1 : IsPart(i)' <=> IsPart(i)
    BY <2>5
  <2> HIDE DEF IsPart
  <2> QED BY <2>4, <2>5, <2>6, <2>7
<1>9. CASE KeeperSendFails
  BY <1>9 DEF KeeperSendFails
<1>10. CASE KeeperLock
  BY <1>10 DEF KeeperLock
<1>11. CASE KeeperReturns
  BY <1>11 DEF KeeperReturns
<1>12. CASE KeeperDecides
  BY <1>12 DEF KeeperDecides
<1>13. CASE KeeperSleeps
  BY <1>13 DEF KeeperSleeps
<1>14. CASE KeeperJoin
  BY <1>14 DEF KeeperJoin
<1>15. CASE KeeperFence
  BY <1>15 DEF KeeperFence
<1>16. CASE KeeperDelete
  BY <1>16 DEF KeeperDelete
<1>17. CASE KeeperErase
  BY <1>17 DEF KeeperErase
<1>18. CASE ResponseLoop
  BY <1>18 DEF ResponseLoop
<1>19. CASE RecvRequest
  BY <1>19 DEF RecvRequest
<1>20. CASE RecvKeepAlive
  BY <1>20 DEF RecvKeepAlive
<1>21. CASE RecvFails
  BY <1>21 DEF RecvFails
<1>22. CASE ResponseClear
  BY <1>22 DEF ResponseClear
<1>23. CASE ResponseNotify
  BY <1>23 DEF ResponseNotify
<1>24. CASE IssueLoop
  BY <1>24 DEF IssueLoop
<1>25. CASE IssueLock
  BY <1>25 DEF IssueLock
<1>26. CASE IssueDecides
  BY <1>26 DEF IssueDecides
<1>27. CASE IssueSleeps
  BY <1>27 DEF IssueSleeps
<1>28. CASE IssueEnds
  BY <1>28 DEF IssueEnds
<1>29. CASE IssueTakes
  BY <1>29 DEF IssueTakes
<1>30. CASE SendFully
  <2>1. wire' = Append(wire, sending) /\ sending # Ping /\ sending \in Nat \X Nat
        /\ sending[2] \in 1 .. Parts
    BY <1>30 DEF SendFully, SendingInv, Ping
  <2>2. Len(wire) \in Nat /\ DOMAIN wire = 1 .. Len(wire) /\ DOMAIN wire' = 1 .. Len(wire) + 1
    BY <2>1, WireAppended
  <2>3. (\A i \in DOMAIN wire : wire'[i] = wire[i]) /\ wire'[Len(wire) + 1] = sending
    BY <2>1, WireAppended
  <2>4. ASSUME NEW i \in DOMAIN wire, LastPart(i) PROVE Follows(wire[i], sending)
    <3>1. CASE sending[2] = 1
      <4>1. wire[i][2] = Parts /\ wire[i][1] < sending[1]
        BY <1>30, <2>4, <3>1 DEF SendFully, SendingInv, LastIsWhole, SentBelow
      <4> QED BY <3>1, <4>1
    <3>2. CASE sending[2] # 1
      <4>1. PICK k \in DOMAIN wire : LastPart(k) /\ wire[k] = <<sending[1], sending[2] - 1>>
        BY <1>30, <3>2 DEF SendFully, SendingInv
      <4>2. k = i
        <5>1. i \in Int /\ k \in Int /\ ~ (i < k) /\ ~ (k < i)
          BY <2>2, <2>4, <4>1 DEF LastPart
        <5> QED BY <5>1
      <4>3. wire[i] = <<sending[1], sending[2] - 1>> /\ sending = <<sending[1], sending[2]>>
        BY <2>1, <4>1, <4>2
      <4>4. sending[2] - 1 # Parts /\ sending[2] = (sending[2] - 1) + 1
        <5> HIDE DEF HandlerTypes, IssueStreamIntact, IsPart, Follows
        <5> QED BY <2>1, HandlerAssumption
      <4> QED BY <4>3, <4>4
    <3> QED BY <3>1, <3>2
  <2>5. ASSUME \A i \in DOMAIN wire : ~ IsPart(i) PROVE sending[2] = 1
    BY <1>30, <2>5 DEF SendFully, SendingInv, LastPart
  <2>6. ASSUME NEW i \in DOMAIN wire, IsPart(i), \A k \in i + 1 .. Len(wire) : ~ IsPart(k)
        PROVE  LastPart(i)
    BY <2>2, <2>6 DEF LastPart
  <2> SUFFICES ASSUME NEW j \in DOMAIN wire', IsPart(j)'
               PROVE  /\ (\A i \in 1 .. j - 1 : ~ IsPart(i)') => wire'[j][2] = 1
                      /\ \A i \in 1 .. j - 1 :
                           IsPart(i)' /\ (\A k \in i + 1 .. j - 1 : ~ IsPart(k)') =>
                             Follows(wire'[i], wire'[j])
    BY Zenon
  <2> HIDE DEF Follows
  <2>7. CASE j \in DOMAIN wire
    <3>1. \A i \in 1 .. j - 1 : i \in DOMAIN wire
      BY <2>2, <2>7
    <3>2. \A i \in DOMAIN wire : IsPart(i)' <=> IsPart(i)
      BY <2>3
    <3>3. \A i \in 1 .. j - 1 : \A k \in i + 1 .. j - 1 : k \in DOMAIN wire
      BY <2>2, <2>7
    <3>4. IsPart(j) /\ wire'[j] = wire[j] /\ \A i \in 1 .. j - 1 : wire'[i] = wire[i]
      BY <2>3, <2>7, <3>1, <3>2
    <3> HIDE DEF IsPart
    <3> QED BY <2>7, <3>1, <3>2, <3>3, <3>4
  <2>8. CASE j = Len(wire) + 1
    <3>1. j - 1 = Len(wire) /\ DOMAIN wire = 1 .. j - 1
      BY <2>2, <2>8
    <3>2. (\A i \in 1 .. j - 1 : ~ IsPart(i)') => wire'[j][2] = 1
      BY <2>3, <2>5, <2>8, <3>1
    <3>3. ASSUME NEW i \in 1 .. j - 1, IsPart(i)', \A k \in i + 1 .. j - 1 : ~ IsPart(k)'
          PROVE  Follows(wire'[i], wire'[j])
      <4>1. \A k \in i + 1 .. Len(wire) : k \in DOMAIN wire
        BY <2>2
      <4>2. LastPart(i)
        BY <2>3, <2>6, <3>1, <3>3, <4>1
      <4> QED BY <2>3, <2>4, <2>8, <3>1, <4>2
    <3> QED BY <3>2, <3>3
  <2> QED BY <2>2, <2>7, <2>8
<1>31. CASE IssueFails
  BY <1>31 DEF IssueFails
<1>32. CASE DistWait
  BY <1>32 DEF DistWait
<1>33. CASE DistLookup
  BY <1>33 DEF DistLookup
<1>34. CASE DistFetch
  BY <1>34 DEF DistFetch
<1>35. CASE DistFind
  BY <1>35 DEF DistFind
<1>36. CASE DistSubmit
  BY <1>36 DEF DistSubmit
<1>37. CASE DistStore
  BY <1>37 DEF DistStore
<1>38. CASE DistStray
  BY <1>38 DEF DistStray
<1>39. CASE ClientReads
  BY <1>39 DEF ClientReads
<1>40. CASE ClientLeaves
  BY <1>40 DEF ClientLeaves
<1>41. CASE UNCHANGED vars
  BY <1>41 DEF vars
<1> QED BY Actions, <1>1, <1>2, <1>3, <1>4, <1>5, <1>6, <1>7, <1>8, <1>9, <1>10,
    <1>11, <1>12, <1>13, <1>14, <1>15, <1>16, <1>17, <1>18, <1>19, <1>20, <1>21,
    <1>22, <1>23, <1>24, <1>25, <1>26, <1>27, <1>28, <1>29, <1>30, <1>31, <1>32,
    <1>33, <1>34, <1>35, <1>36, <1>37, <1>38, <1>39, <1>40, <1>41


\* The invariant holds when the handler starts.
LEMMA IndInvInit == Init => IndInv
<1> SUFFICES ASSUME Init PROVE IndInv
  OBVIOUS
<1> USE DEF Init, Ping, Free, Threads
<1>1. HandlerTypes
  <2>1. up \in Seq(Packets)
    BY DEF Packets
  <2>2. pc \in [Threads -> Labels]
    BY DEF Labels
  <2>3. wire \in Seq(Nat \X Nat)
    OBVIOUS
  <2> QED BY <2>1, <2>2, <2>3 DEF HandlerTypes
<1>2. LocksInv /\ RemovalInv
  BY DEF LocksInv, RemovalInv, Stopping, Removing, Emptied, Joined
<1>3. wire = <<>> /\ DOMAIN wire = {}
  OBVIOUS
<1>4. NumbersInv /\ SendingInv /\ IssueStreamIntact
  BY <1>3 DEF NumbersInv, SentBelow, SendingInv, LastIsWhole, IssueStreamIntact
<1>5. \A i \in DOMAIN up : up[i] # "KEEPALIVE"
  OBVIOUS
<1>6. RoundInv
  BY <1>3, <1>5 DEF RoundInv, Quiet, Unread, Answer
<1> QED BY <1>1, <1>2, <1>4, <1>6 DEF IndInv

\* Every step keeps the invariant.
LEMMA IndInvStep == IndInv /\ [Next]_vars => IndInv'
<1> SUFFICES ASSUME IndInv, [Next]_vars PROVE IndInv'
  OBVIOUS
<1>1. HandlerTypes'
  BY TypesStep DEF IndInv
<1> QED BY <1>1, LocksStep, RemovalStep, NumbersStep, SendingStep, RoundStep, StreamStep
        DEF IndInv

\* The inductive invariant holds in every reachable state.
LEMMA Invariance == Spec => []IndInv
  BY IndInvInit, IndInvStep, PTL DEF Spec

\* When handleKeepAlive deletes a handler, its threads have left their loops, its
\* mutexes are free, and no batch it accepted is still being stored or was not
\* handed back, for every number of batches, parts and keepalives.
THEOREM DeletedIsEmpty == Spec => []DeletedOwesNothing
<1>1. IndInv => DeletedOwesNothing
  BY DEF IndInv, HandlerTypes, LocksInv, RemovalInv, Stopping, Removing, Emptied, Joined,
         DeletedOwesNothing, Freed, Threads, Free
<1> QED BY <1>1, Invariance, PTL

\* Of what issueRequest sends, the packets of the batches are whole, in order and
\* once; only keepalives can stand inside them.
THEOREM StreamIntact == Spec => []IssueStreamIntact
<1>1. IndInv => IssueStreamIntact
  BY DEF IndInv
<1> QED BY <1>1, Invariance, PTL

\* tryKeepAlive never takes the answer to an earlier round for this round's.
THEOREM FreshAnswer == Spec => []AnswerIsFresh
<1>1. IndInv => AnswerIsFresh
  BY DEF IndInv, RoundInv, AnswerIsFresh
<1> QED BY <1>1, Invariance, PTL

=============================================================================
