---------------------------- MODULE RenderClient ----------------------------
(***************************************************************************)
(* The render clients and their TCP connections: Client (client.cpp),      *)
(* RenderQueue (renderqueue.hpp) and the loop of the client's main.cpp.    *)
(*                                                                         *)
(* Threads of a client: the receive thread (handleRecv), the send thread   *)
(* (handleUpdate) and the main thread, which takes a packet from the       *)
(* render queue, asks for more work when that was the last one, renders    *)
(* and reports.  A client asks before it renders, so its next batch        *)
(* travels while it works.                                                 *)
(*                                                                         *)
(* A connection is two FIFO channels of whole packets.  Rendering succeeds *)
(* or the client ends: every way a client process can end is Disconnect.   *)
(***************************************************************************)
EXTENDS Integers, Sequences, FiniteSets

CONSTANTS
    Clients,        \* the client processes; each connects once
    Mortal          \* the clients that may go away

ASSUME ClientAssumption == IsFiniteSet(Clients) /\ Mortal \subseteq Clients

VARIABLES
    up,             \* packets on their way from each client to the server
    down,           \* packets on their way from the server to each client
    main,           \* the main thread: "new", "get", "ask", "render" or "gone"
    render_queue,   \* packets received and not yet taken
    current,        \* the tasks of the packet being rendered
    send_queue,     \* rendered tasks the send thread has not yet reported
    disconnects     \* how many clients have gone away

clientVars == <<up, down, main, render_queue, current, send_queue, disconnects>>

Packet(type, tasks) == [type |-> type, tasks |-> tasks]

Alive(c) == main[c] \notin {"new", "gone"}

ClientInit ==
    /\ up = [c \in Clients |-> <<>>]
    /\ down = [c \in Clients |-> <<>>]
    /\ main = [c \in Clients |-> "new"]
    /\ render_queue = [c \in Clients |-> <<>>]
    /\ current = [c \in Clients |-> <<>>]
    /\ send_queue = [c \in Clients |-> <<>>]
    /\ disconnects = 0

SendUp(c, packet) == up' = [up EXCEPT ![c] = Append(@, packet)]

\* What the server writes to a client that is gone is lost.
SendDown(c, packet) ==
    down' = IF Alive(c) THEN [down EXCEPT ![c] = Append(@, packet)] ELSE down

-----------------------------------------------------------------------------

\* Client::start: connected, CONNECT sent, the main loop entered.
Start(c) ==
    /\ main[c] = "new"
    /\ main' = [main EXCEPT ![c] = "get"]
    /\ SendUp(c, Packet("CONNECT", <<>>))
    /\ UNCHANGED <<down, render_queue, current, send_queue, disconnects>>

\* handleRecv: a keepalive is answered at once, a job is queued.
RecvKeepAlive(c) ==
    /\ Alive(c)
    /\ down[c] # <<>>
    /\ Head(down[c]).type = "KEEPALIVE"
    /\ down' = [down EXCEPT ![c] = Tail(@)]
    /\ SendUp(c, Packet("KEEPALIVE", <<>>))
    /\ UNCHANGED <<main, render_queue, current, send_queue, disconnects>>

AddTask(c, tasks) == render_queue' = [render_queue EXCEPT ![c] = Append(@, tasks)]

RecvIssueJob(c) ==
    /\ Alive(c)
    /\ down[c] # <<>>
    /\ Head(down[c]).type = "ISSUE_JOB"
    /\ down' = [down EXCEPT ![c] = Tail(@)]
    /\ AddTask(c, Head(down[c]).tasks)
    /\ UNCHANGED <<up, main, current, send_queue, disconnects>>

\* Mutant: the client asks for more work when it takes a packet, and again when
\* that leaves the queue empty.
GetTaskAskAlways(c) ==
    /\ main[c] = "get"
    /\ render_queue[c] # <<>>
    /\ current' = [current EXCEPT ![c] = Head(render_queue[c])]
    /\ render_queue' = [render_queue EXCEPT ![c] = Tail(@)]
    /\ main' = [main EXCEPT ![c] = "ask"]
    /\ SendUp(c, Packet("FINISH_JOB", <<>>))
    /\ UNCHANGED <<down, send_queue, disconnects>>

\* RenderQueue::getTask: the test is made under the lock, the request is sent
\* after it is released.
GetTask(c) ==
    /\ main[c] = "get"
    /\ render_queue[c] # <<>>
    /\ current' = [current EXCEPT ![c] = Head(render_queue[c])]
    /\ render_queue' = [render_queue EXCEPT ![c] = Tail(@)]
    /\ main' = [main EXCEPT ![c] = IF Len(render_queue[c]) = 1 THEN "ask" ELSE "render"]
    /\ UNCHANGED <<up, down, send_queue, disconnects>>

RequestMoreJobs(c) ==
    /\ main[c] = "ask"
    /\ main' = [main EXCEPT ![c] = "render"]
    /\ SendUp(c, Packet("FINISH_JOB", <<>>))
    /\ UNCHANGED <<down, render_queue, current, send_queue, disconnects>>

\* runUntilCompletion returned: every frame of the packet is rendered.
UpdateServer(c) ==
    /\ main[c] = "render"
    /\ main' = [main EXCEPT ![c] = "get"]
    /\ send_queue' = [send_queue EXCEPT ![c] = @ \o current[c]]
    /\ current' = [current EXCEPT ![c] = <<>>]
    /\ UNCHANGED <<up, down, render_queue, disconnects>>

\* Mutant: the send queue is not cleared.
SendUpdateKeep(c) ==
    /\ Alive(c)
    /\ send_queue[c] # <<>>
    /\ SendUp(c, Packet("UPDATE_JOB", send_queue[c]))
    /\ UNCHANGED <<down, main, render_queue, current, send_queue, disconnects>>

\* handleUpdate: everything rendered since the last update, in one packet.
SendUpdate(c) ==
    /\ Alive(c)
    /\ send_queue[c] # <<>>
    /\ SendUp(c, Packet("UPDATE_JOB", send_queue[c]))
    /\ send_queue' = [send_queue EXCEPT ![c] = <<>>]
    /\ UNCHANGED <<down, main, render_queue, current, disconnects>>

\* The process ends or its machine is cut off: a suffix of what it sent is lost.
Disconnect(c) ==
    /\ Alive(c)
    /\ c \in Mortal
    /\ disconnects' = disconnects + 1
    /\ main' = [main EXCEPT ![c] = "gone"]
    /\ \E n \in 0 .. Len(up[c]) : up' = [up EXCEPT ![c] = SubSeq(@, 1, n)]
    /\ down' = [down EXCEPT ![c] = <<>>]
    /\ render_queue' = [render_queue EXCEPT ![c] = <<>>]
    /\ current' = [current EXCEPT ![c] = <<>>]
    /\ send_queue' = [send_queue EXCEPT ![c] = <<>>]

=============================================================================
