# Verification of echidna

Echidna is a distributed renderer. A **server** keeps jobs (a shader and a number
of frames), render **clients** connect to it, get batches of frames, render them
with OpenCL and write one image file per frame, and users submit jobs and ask for
their status with a **command-line tool**. This directory holds TLA+ models of
those programs, the TLC configurations that check them, and proofs checked by
TLAPS. `PROJECT.json` maps every definition to the source lines it models.

Paths below are relative to the repository (`src/...` is its C++ directory,
`include/...` its headers).

## 1. The system

### Components, state and operations

| Component | Source | State | Operations |
|---|---|---|---|
| Job queue | `server/jobqueue.*`, `job.*`, `task.*` | job map, queue of unfinished ids, queue of handed-back tasks, finished list, one counter per job | `addJob`, `addTasks`, `getJobs`, `findJob`, `frameRendered`, `finishJob`, `getStatus` |
| Client manager | `server/clientmanager.*` | map of handlers, list of free clients | accept, distribution and keepalive threads; `notifyUpdate`, `notifyFinish`, `removeClient` |
| Client handler (one per client) | `server/clienthandler.*` | `active`, last batch, batch size, keepalive flag | response and issue threads; `submitTasks`, `tryKeepAlive`, `stop`, `getJobs` |
| Render client | `client/client.*`, `renderqueue.*`, `main.cpp` | render queue, send queue, last frame time | receive, send and main threads; `getTask`, `requestMoreJobs`, `updateServer` |
| Renderer | `client/renderer.*`, `device.*` | ready flag per slot, buffers, errors | `createRenderTask`, `runUntilCompletion` (`schedule`, `launch`, `wait`), `targetDownloaded` |
| Thread pool | `utils/threadpool.*` | deque of callbacks, `active` | `schedule`, worker loop, `drain`, `stop`, `join` |
| CLI manager | `server/climanager.*` | one session | accept, upload, status |
| CLI tool | `cli/main.cpp` | one request | submit, query |
| Sockets | `net/*` | a TCP stream | `sendFully`, `recvFully`, `accept`, `connect` |
| lodepng (vendored) | `subprojects/lodepng` | the buffers of one encoding: hash chains, code stream, scanlines | `lodepng::encode` to a file, called by a worker of the pool; the decoder as its reference |
| Server start, log, argument and string helpers, OpenCL wrappers | `server/server.cpp`, `main.cpp`, `utils/*`, `client/cl*` | - | see section 7 |

### How they interact

    cli --UPLOAD/STATUS--> CLIManager --addJob/getStatus--> JobQueue
                                                              |  ^
                                              getJobs (wait)  |  | addTasks, findJob,
                                                              v  | frameRendered, finishJob
    client <--ISSUE_JOB, KEEPALIVE-- ClientHandler <--submitTasks-- ClientManager
    client --CONNECT, FINISH_JOB, UPDATE_JOB, KEEPALIVE--> ClientHandler --> ClientManager
    client: receive thread -> RenderQueue -> main thread -> Renderer -> OpenCL devices
                                                              ^            | event callback
                                                              |            v
                                                       ready, cvar  <-- ThreadPool (encode, write)
                                                                           |
                                                        lodepng: colour, filter, deflate, file

`FINISH_JOB` means "give me more work"; it carries the time per frame, from which
the server computes the size of the next batch. `UPDATE_JOB` carries the frames
that are done. A client that goes away has its last batch handed back to the queue.

### What is hard here

* The server runs three manager threads, two threads per client and a CLI thread
  over one queue with three mutexes. Several steps cross locks: `frameRendered`
  counts with no lock at all, `finishJob` and `getStatus` have two critical sections.
* A `Job` is deleted by whichever thread counts its last frame, while other
  threads hold a pointer to it.
* Batches race with clients that go away: lookup, a wait of any length in
  `getJobs`, a test of `active`, and only then the lock.
* Several locks are temporaries (`std::unique_lock(m);`) and protect nothing.
* Condition variables are notified without their mutex in `ThreadPool::stop` and
  `ClientHandler::stop`.
* The renderer shares a buffer per slot between a device that writes it, a
  callback thread, a worker that reads it and a main thread that reuses it.
* The compressor keeps hash chains in circular buffers that are never cleaned, skips
  zeros it counted before, and steps back one position for a better match; the
  decoder unfilters and compacts in the buffer it reads from.

### What makes each component correct

* Job queue: every frame in exactly one place; a job finished only when complete,
  and told once; no access to a deleted `Job`; first come, first served.
* Dispatch: every frame counted once from submission to count; one batch per
  request; nothing lost except with the client that held it; jobs finish.
* Thread pool: callbacks start once and in order; no needed worker sleeps; the
  destructor returns and leaves nothing behind.
* Renderer: one frame per slot; files hold the right pixels; a returned task is
  complete; a task always ends.
* One handler, below its operations: wake-ups given under a mutex arrive, a client
  counts as alive for its latest answer only, a stopped handler has its batch handed
  back, packets are continuous on the wire, a deleted handler owes nothing and is used
  by nobody.
* lodepng: what is written is what was rendered; a damaged file is not taken for a
  frame.
* CLI: answers belong to the request, are true, and always come.

`PROJECT.json` lists the hazards behind these, each at its line, with the
properties that cover it or the reason none does.

## 2. Modules

| Module | Models | Checked by |
|---|---|---|
| `RenderLedger` | the promise: jobs offered, each frame counted once, complete jobs closed | refinement |
| `JobQueue` | queue, `Job` and `notifyUpdate`, one step per critical section | `jobqueue`, proofs |
| `JobQueueProofs`, `JobQueueLedger` | theorems about `JobQueue` | tlapm |
| `RenderClient` | a client's threads, queues and the two channels | through `Dispatch` |
| `Dispatch` | `ClientManager` and the `ClientHandler`s, composed with `RenderClient` | four `dispatch*` runs, proofs |
| `DispatchProofs` | theorems about `Dispatch` | tlapm |
| `ClientHandler` | one handler: mutexes, condition variables, partial sends | three `handler*` runs, proofs |
| `ClientHandlerProofs` | theorems about `ClientHandler` | tlapm |
| `ThreadPool` | the pool with its condition variable | `renderer`, `threadpool_destructor`, proofs |
| `ThreadPoolProofs` | theorems about `ThreadPool` | tlapm |
| `Renderer` | one client's rendering | `renderer`, proofs |
| `RendererProofs` | theorems about `Renderer` | tlapm |
| `CliSession` | command-line runs and the CLI thread | `cli_session`, proofs |
| `CliSessionProofs` | theorems about `CliSession` | tlapm |
| `Huffman` | lodepng's bit streams, package merge, canonical codes, lookup table | through `Deflate` |
| `Deflate` | LZ77 with its hash chains, the three kinds of block, zlib, and the inflater | `lodepng` |
| `Scanline` | the five filters, their inverse, the choice of a filter | through `Png`, proofs |
| `ScanlineProofs` | theorems about `Scanline` | tlapm |
| `ColorMode` | colour statistics, choice of a mode, conversion of pixels | through `Png` |
| `Png` | encoder and decoder around them: interlacing, padding, chunks, the file | `lodepng` |
| `MC*` | constants for TLC, and which module a run steps | |

`MCRenderer` holds `Renderer` and the `ThreadPool` it encodes with, `MCLodepng` holds
`Deflate` and `Png`. The two modules of a pair share no state. A behaviour of such a run
picks one of them (`part`) and takes its steps while the other rests in an initial
state, so the run asks of each what a run of its own would.

Layers are composed by contract. `JobQueue` is checked against users that report
or hand back each task once, which is an assumption: finding 2 shows the server
breaking it, and then `FinishedIsComplete`, `QueuedJobsAreLive` and `CountedJobIsLive`
no longer follow (an id may stay queued after its job was erased, and
`server/jobqueue.cpp:52` dereferences the null pointer it finds). `Dispatch` uses the queue with atomic calls and models
the real users; `Renderer` uses the pool as `ThreadPool` is shown to be (in order,
once); `RenderClient` renders in one step, which `Renderer` justifies (a task ends,
and a returned one is complete). `Dispatch` takes a handler's operations as whole
steps and packets as units; `ClientHandler` has the same handler one level down, where
a wake-up can be missed and a packet can be cut. `Renderer` writes a file in one step,
`Png` is that step, and takes the compression inside it as lossless, which `Deflate`
shows.

### Correspondence with the code

* **JobQueue.** `jobs` is the job map's key set, `job` the `Job` behind each id; it
  is kept after `delete` so that properties can speak of a deleted job. `getJobs`
  is four steps: taking `job_mutex` once something waits, the loop over handed-back
  tasks, one step per job of the regular loop, return. `notifyUpdate` is `FindJob`,
  `FrameRendered` (the atomic increment), `CompareTotal` (the test, which reads
  `total_frames` again: if another thread has deleted the `Job` meanwhile it may
  see anything, so both outcomes are allowed), `FinishJobErase`, `FinishJobPush`.
  `getStatus` is two steps. Variables `out`, `done`, `told`, `returns` are history
  or the users' side.
* **Dispatch / RenderClient.** One variable per field or thread position. Mutexes
  that matter are explicit: `task_mutex` is held while the issue thread sends,
  `client_map_mutex` shared by the distribution thread from its second lookup to
  the end of `submitTasks` and exclusive in `removeClient`; where the code locks a
  temporary the model holds nothing. Channels are FIFO sequences of packets.
  `Disconnect` is every way a client ends; the packets already sent to the server
  can still arrive. A wait on a condition variable is a guard. The clients in
  `Mortal` may go away. The batch size is the code's quotient of
  `ESTIMATED_JOB_TIMEOUT` and a reported time, between its two limits.
* **ClientHandler.** `wait(lock, pred)` is test, decision (`"drowsy"`, the mutex still
  held) and sleep, because `stop()` notifies without the mutex. Bytes are parts: one
  call of `send` moves one, a keepalive is one, a batch is `Parts`. `wire` is all that
  was ever sent. `send_mutex` is locked by a temporary that is gone at the end of its
  own statement, so it is not in the model. `stop()` is five steps that three threads
  run. So is the lock before the deletion of a handler: `KeeperFence` waits for
  `client_map_mutex` and holds nothing, then `KeeperDelete` and `KeeperErase` are two
  steps under no lock. The distribution thread has a step for each look-up, for its use
  of the handler (`getJobCapability`, the test of `active` in `submitTasks`) and for the
  store. What it reads from a handler that is freed is either value; a store into one
  (`DistStray`) is lost or ends the thread. A client that reads a part of another packet than it expects is `confused`
  from then on.
* **ThreadPool.** A worker's `wait(lock, pred)` is test, then sleep
  (`"blocking"`, the mutex still held), because `stop()` acts without the mutex.
  `notify_one` wakes any waiter, spurious wake-ups happen.
* **Renderer.** A buffer, and a file, is the image whose pixels it holds. A device
  runs its commands in order; an event is reported later, in any order, complete
  or failed. A call, a command or a file write may fail. The model stops when the
  task throws.
* **CliSession.** A request arrives in parts and may stop between two of them; the
  server's thread is at one `recv`, one section of `getStatus` or one `send`. The
  list is printed with the code's own test for "finished" (0 of 0). The jobs still in
  the map are listed in any order, as the iteration of an `unordered_map` yields them.
* **Deflate / Huffman.** One step per turn of the loop of `encodeLZ77`, one per block
  written and one per block read. `hash` is the struct of the code, circular buffers
  included; `numzeros` and `lazy` are the loop's local variables that outlive a turn.
  Streams are sequences of bits. Literals of the code that decide when something wraps
  (longest match, block sizes, first lookup) are constants.
* **Png / ColorMode / Scanline.** One step per stage of `lodepng_encode` and
  `decodeGeneric`; unfiltering is one step per line and compacting one per pass, in the
  buffer `scan` that the code works on in place. A file is its whole chunks and what
  is left of the next one: `lodepng_save_file` may stop after any part of it. Bytes do
  not change on the disk, so chunks carry no CRC.

## 3. Runs and what they show

| Run | Result | Question |
|---|---|---|
| `jobqueue` | holds | Are frames conserved, jobs finished exactly when complete and told once, deleted `Job`s never queued or counted, jobs served in order, is `RenderLedger` implemented, and is every job with a frame finished, hand-backs included, under all interleavings of two response threads, distribution and CLI? |
| `threadpool_destructor` | **violated** | Does the destructor return? |
| `dispatch` | holds | Two clients, one of which may go away at any step, batches within a job: while both stay, is each frame counted once end to end, is there one token per client, is every job finished? When one goes: is a batch only accepted by a handler that will hand it back, and are tasks lost only with the client that held them? |
| `dispatch_early_finish` | **violated** | Is a finished job completely rendered when a client goes away? |
| `dispatch_connect` | **violated** | Can a client always connect? |
| `dispatch_shared_batch` | **violated** | Is an accepted batch sent before it is replaced? |
| `renderer` | holds | Are slots exclusive, files right, returned tasks complete, and does every task end, with one failure anywhere? In the pool, at the grain of its mutex: does each callback start once and in order, is one `notify_one` per callback enough, does everything run while the pool is in use, is a destroyed pool quiet? |
| `cli_session` | holds | Does every user get a true answer to the own request, while another goes away? |
| `handler` | holds | With all threads of a handler between any two steps of each other: do wake-ups given under a mutex arrive, does a keepalive succeed only by its own answer, does a handler that is stopped have its batch handed back, has one that is deleted no thread, no lock and no batch left? |
| `handler_deleted` | **violated** | Is a deleted handler used by nobody? |
| `handler_packet` | **violated** | Is a packet sent in one piece? |
| `lodepng` | holds | Do lazy matches, stale chains, zero skips and block ends always stand for the bytes passed, does every stream decompress to its input, are code lengths the cheapest under every limit? Is every frame read back pixel for pixel in whatever mode, layout and filter was chosen, is a file that was cut refused, does work in place overwrite nothing still needed? |

Each checked property has a mutant in `PROJECT.json`, a plausible slip in the code
(a dropped guard, a missing reset, a wrong order) that makes TLC report it violated.

### Findings

1. **The pool's destructor can hang** (`src/utils/threadpool.cpp:51`, `:43`).
   `drain` waits for an empty deque and no worker notifies when it empties it;
   `stop` stores and notifies without the mutex, so a worker between test and sleep
   misses it.
2. **A job may be finished with frames missing** (`src/server/clientmanager.cpp:176`).
   `active_tasks` is not cleared when a batch is rendered, and `stop()` hands it back
   from several threads: counted frames are rendered and counted again.
3. **A failed send stops the server** (`src/server/clienthandler.cpp:181`).
   `handleIssue` calls `stop()` with `task_mutex` held, and `removeClient` locks it
   again below the exclusive map lock.
4. **A batch may be overwritten before it is sent** (`src/server/clienthandler.cpp:197`).
   A batch over two jobs is two packets, which may earn two requests for work.
5. **A handler may be used after it is deleted** (`src/server/clientmanager.cpp:97`).
   The `unique_lock` of line 96 is a temporary, so `delete` and `erase` run under no
   lock. The distribution thread takes its shared lock in between, finds the entry and
   calls `getJobCapability` or `submitTasks` on freed memory; or it has found the
   handler before. `include/server/clientmanager.hpp:67` says that `removeClient`, which
   comes before the deletion, "Removes a client from the set of all clients", but it
   leaves the entry.
6. **A packet may be cut by a keepalive** (`src/server/clienthandler.cpp:61`). The lock of
   `send_mutex` is a temporary too, so the keepalive thread sends between two calls of
   `send` of the issue thread. `include/server/clienthandler.hpp:58` says that
   `issueRequest` "ensures the entire buffer is sent as one continous packet".

Findings 2 to 4 explain the restrictions of the passing `dispatch` run: its
end-to-end properties speak of behaviours without a disconnect, and its batches stay
within a job. The run shows that nothing else breaks.

The `handler` run has the behaviours of findings 5 and 6 in it; its properties are
about what holds beside them. It also has those in which a thread that has tested
`active` and not yet slept misses the notification of `stop()`: the thread then sleeps
until a spurious wake-up, and the handler is never joined. `LockedWakeUpsArrive` says
how far the code's locks reach, and `StoppedHandsBack` that the batch of a stopped
handler goes back to the queue all the same.

## 4. Bounds

All bounds are constants named in the modules, or sequences in the MC modules.

* `JobQueue`: two jobs of 0 to 2 frames, batches of 1 and 3 (a batch inside a job,
  and one over two jobs), two reporters (two threads on the last two frames of a
  job), two hand-backs. The theorems hold for all values.
* `ThreadPool`: three workers and four callbacks: more work than workers, more
  workers than work, and a worker that takes what another was woken for.
* `Dispatch`: two clients, two batches, one disconnect: enough for one client to take
  over what the other held, at any step of either; batch sizes 1 and 2 from a time of
  zero and one above the timeout. The violations need less.
* `ClientHandler`: two batches of two parts, two rounds of keepalives: a send that
  stops in the middle, a keepalive between two parts, an answer from the round before,
  a second batch while the handler is deleted. One of each is enough for the two
  violations. The theorems hold for all values.
* `Renderer`: two devices of two slots (the default of `meson_options.txt`), two
  workers, a task with one frame more than slots followed by a short one, one
  failure. Five frames over four slots reuse a slot while the others are busy.
* `CliSession`: three command-line runs, so that one goes away between two others,
  or one submits and two query; jobs of 0 and 2 frames.
* `Deflate`: all strings of up to four pieces (runs of zeros, literals, a byte that
  collides in the hash) and six settings, with windows of 8 to 32 bytes (2048 by
  default), matches up to 7 (258) and blocks of 9 or 10 bytes (65536 to 262144). The
  smaller numbers let the circular buffers wrap, and matches and runs meet the ends of
  blocks, within twenty bytes.
* `Png`: mixes of nine kinds of pixel (opaque, transparent and translucent greys of
  each depth, the key colour opaque and transparent) on two sizes, every width from 1
  to 9 by heights 1, 2 and 5, interlaced and not, in eight kinds of picture, the
  filter strategies, and palettes at their limit, set to 18 colours (256).

## 5. Fairness

Weak fairness of a thread's steps says that a runnable thread runs. Strong
fairness is used where a thread competes for a mutex: a worker of the pool, the
pool's owner, and a client waiting to be accepted; it says that a mutex that is
free again and again is given to each contender in the end. Beyond that:

* `jobqueue`: clients ask for work and report what they got, users ask for
  the status from time to time. Nobody has to submit or hand back.
* The pool: callbacks return (they encode one image). No spurious wake-up is
  promised, nobody has to destroy the pool. The `renderer` run asks for less than
  `PoolFairSpec`, which is what `threadpool_destructor` has: some worker, not each, gets
  a mutex that is free again and again.
* `dispatch`: connected clients receive, render and send. Disconnects are not fair.
* `handler`: each of the four server threads runs on. Nothing is assumed of the client
  or of spurious wake-ups.
* `renderer`: a device works off its queue and OpenCL calls its callbacks, as its
  specification says. Failures are not required.
* `cli_session`: a run that does not go away sends the whole request; the code
  sends it with one `sendFully`. The server has no timeout, so without this a
  silent connection would block all others.

## 6. Proofs

For every value of the constants, from the named assumptions on them only
(`JobQueueAssumption`: a positive number of jobs, frame counts and hand-backs in
`Nat`, positive batch sizes; `ThreadPoolAssumption`: finitely many workers, the
owner not among them; `HandlerAssumption`: a packet has a part; `RendererAssumption`:
at least one device, slot and worker, and a frame in every task; `CliAssumption`:
finitely many command-line runs, frame counts in `Nat`; `ClientAssumption` and
`DispatchAssumption`: finitely many clients, a frame in every job, and batch limits
with `0 < MIN_JOB_CAPABILITY <= MAX_JOB_CAPABILITY`, as the code's constants have it).

**JobQueueProofs**: `TypeCorrect`, `Conservation`, `FinishedComplete`, `QueueLive`,
`CountLive`, `ServedInOrder`. None of the safety properties is inductive alone: that
a job is complete when erased needs that its counter equals the number of its
counted frames (`CountsExact`) and that a frame is counted once, which needs that
every frame is in one place only (`FramesConserved`); and a reporter that is about
to call `finishJob` saw the counter some steps ago, so what it knows has to be
still true (`ReportsKnown`). The invariant is

    IndInv = TypeInv /\ FramesConserved /\ CountsExact /\ GoneIsComplete
             /\ ReportsKnown /\ ResultsEmpty /\ QueueOrder

`GoneIsComplete` says that an erased job has all frames counted (so the frames of a
live pointer cannot be the last ones: `CountLive`), `ResultsEmpty` that `getJobs`
holds tasks only inside its critical section, `QueueOrder` that the queue is the
run of consecutive ids up to the latest job, of which only the first may have been
started. The proof has one lemma per action
and, below it, one step per conjunct the action can disturb; facts about ranges and
concatenation of sequences come first.

**JobQueueLedger** adds the status side: `ToldOnce`, `StatusConsistent`, and
`ImplementsLedger`, that `JobQueue` implements `RenderLedger` under the mapping of
`JobQueue!Ledger`: `AddJob` is `Offer`, `FrameRendered` is `Render`, `FinishJobErase`
is `Close`, everything else stutters.

**ThreadPoolProofs**: `TypeCorrect`, `StartedOnceInOrder`, `DestroyedIsDone`,
`NoWorkWaitsForSleepers`. The invariant adds where each kind of thread can be (`Places`)
and that the deque stays empty once `drain` has returned (`Phases`), from which a joined
pool has run everything. That the awake workers cover the deque (`WorkConserving`) is
not kept by a worker that goes to sleep, unless it found the deque empty and still holds
the mutex: `BlockingIsIdle` says so. The rest is counting: a callback that comes in
wakes a sleeper if there is one, and one that goes takes an awake worker with it.

**ClientHandlerProofs**: `DeletedIsEmpty` (`DeletedOwesNothing`), `FreshAnswer`, and
`StreamIntact`, which says how much of finding 6 cannot happen: the parts of batches are
on the wire in order and once, and nothing but keepalives stands between them. The
invariant is

    IndInv = HandlerTypes /\ LocksInv /\ RemovalInv /\ NumbersInv /\ SendingInv
             /\ RoundInv /\ IssueStreamIntact

`LocksInv` tells the holder of each mutex from the threads' positions, so that the
batch cannot be replaced while it is sent; `NumbersInv` says that batch numbers grow
from the distribution thread over `active_tasks` to the wire, `SendingInv` that the
next part goes on from the last one sent. `RemovalInv` follows `stop()` in the
keepalive thread: once it holds `client_map_mutex` with `active` cleared, no store is
under way and none can begin, as the test of `active` fails, so what `getJobs` hands
back is the last batch; and after `join` the other two threads are gone and hold
nothing. Nothing keeps the distribution thread from looking the handler up (finding 5).
`RoundInv` says that at most one keepalive is under way, unread or answered, and none
when a round begins. One lemma per conjunct, one step per action.

**RendererProofs**: `TypeCorrect`, `OneFramePerSlot`, `FilesAreRight`,
`ReturnMeansDone`, `NoLostWakeUp`. The invariant is

    IndInv = Types /\ MainInv /\ TakenInv /\ WithinInv /\ AcrossInv /\ HostInv
             /\ FilesHoldTheirImage /\ NotLostInv /\ ErrorsInv

A frame passes four stages: the device's queue, an event that is to be reported, the
pool, a worker. `TakenInv` says that the slot of a frame in any of them is neither ready
nor just claimed, so a frame that is launched meets no other; `WithinInv` and `AcrossInv`
say that no two frames of one stage, or of two, have the same slot, which is what a
move from stage to stage has to keep. Then nobody else writes the host buffer of a slot
between download and encoding (`HostInv`), so the file is right. `NotLostInv` is the
other direction: a frame that was begun is written, under way, or recorded as an error,
and a slot that is not ready is claimed, in use, or its error is recorded. With `MainInv`,
what the main thread knows from its last test, a returned task is complete, and
whoever sleeps has a frame under way that will notify. `ErrorsInv` keeps failures from
being counted twice.

**CliSessionProofs**: `TypeCorrect`, `NoJobFromPart`, `IdIsMine`, `PrintedIsTrue`,
`FinishedOnce`. The invariant is

    IndInv = Types /\ TurnInv /\ RequestInv /\ MineInv /\ JobsInv /\ TrueInv /\ OnceInv

`TurnInv` says that every run is served once: it is at its start, in the backlog, in the
session, or past it, and has no job before its turn. `RequestInv` ties the server's place
to what it has read, so a job is made from a complete request. `MineInv` and `TrueInv`
follow an answer from the queue over the reply and the connection to the screen: what it
says stays true while the jobs go on, because counts only grow, up to their total
(`JobsInv`). `OnceInv` says that the notice of a finished job is in one place only: the
list, the reply, or with one run.

**DispatchProofs**: `AcceptedIsHandedBack`, `RemovalsExclude`, `DeletedHasNoThread`,
`BatchesFit`. The invariant is

    IndInv = Types /\ LockInv /\ HandlerInv /\ StoreInv /\ BatchInv

`AcceptedBeforeRemoval` needs that whoever is in `removeClient` holds `client_map_mutex`
and that nobody does during `submitTasks` (`LockInv`), and that an active handler is in
the map with its response thread still receiving, while one that left the map has no
thread (`HandlerInv`). Then the handler a batch is stored in can only have come as far
as the lock that `submitTasks` holds (`StoreInv`). `BatchInv` follows a batch from the
queue to the handler; its size is in bounds because `job_capability` is, whatever time
a client reports, zero included.

Three more results follow requests, frames and tasks through the whole system, for any
number of clients, jobs and frames: `RequestsAreTokens` (`OneRequestPerClient`),
`FramesAreHeldOnce` (`EachFrameOnce`) with `EarlyFinishNeedsDisconnect` (a job ends with
frames missing only after a client went away), and `ServerLosesNothing`
(`LossOnlyByDisconnect`). Their hypothesis is `[]BatchOfOneJob`: the batch the
distribution thread holds has the frames of one job. It is needed. With a batch of two
jobs (finding 4) the client gets two packets and asks twice, and on the instance of
`dispatch_shared_batch` TLC finds each of the three properties violated. It is a
hypothesis on the behaviour and not on the constants, so nothing else is excluded; with
one job in all, or with `MAX_JOB_CAPABILITY = 1`, it follows, and `RequestsOfOneJob`,
`FramesOfOneJobAreHeldOnce` and `ServerLosesNothingOfOneJob` state the properties of
`Spec` alone. The first of these cases covers the instance of the `dispatch` run. The
argument:

* *Tokens.* `FlowAll` adds to `IndInv` what is on the wire (`WireTypes`), that only an
  update and a job carry tasks and that threads hold what they are about to pass on
  (`FlowInv`), that the handler of a client that is up is active and not being removed
  (`RunInv`), and `TokenInv`: a client that is up has one token among eight parts, one
  that has not started has none. Most steps take the token from one part to the next;
  only a client that goes away drops it.
* *Frames.* `FrameInv` says, until a client goes away, that the places hold every
  submitted frame that is not counted, each once, and that the counters agree
  (`CountInv`, which is what ends a job). A place is a part of the system, a batch in
  it and a position in that. Each step is one of five rearrangements of batches (kept,
  moved, shifted to the front of a queue, grown by a job, one removed), and a lemma
  for each says that they keep the frames held once.
* *Losses.* With clients going away a frame can be in several places or in none.
  `Remembered` says that what a handler remembers of a client that is up is with that
  client, counted, or of a finished job; so when `submitTasks` replaces it nothing is
  lost. What each step does to tasks is stated once (`WithKept`, `TasksMove`,
  `CountsGrow`, `MainMoves`) and proved action by action.

**ScanlineProofs**: `PaethAtTheEdge`, that the case `unfilterScanline` takes for the
first pixel agrees with the general predictor, and `UnfilterInvertsFilter`, that for
every line, line above, pixel width and filter the unfiltered line is the original
one. A byte is recovered from bytes to its left that were recovered before it, so the
proof takes the first byte that differs and shows there is none.

The inductive invariants were checked with TLC, as invariants of the runs' instances,
before they were proved.

Only model-checked:

* all liveness (`JobsRun`, `JobsFinish`, `TaskEnds` and the others): outside the prover's
  reach;
* the invariants of `Deflate` and `Png`, and `Huffman` and `ColorMode` below them: they say
  what recursive definitions compute from their data, which needs induction over it.

## 7. Not modelled

* **Server start and shutdown**: the running server never stops in order; `main`
  only joins two managers whose loops have no end. The code after them runs only when
  `bind` throws, and the process ends there.
* **Data races inside `std::unordered_map`**: `client_map` is atomic in the models. Undefined
  behaviour there has no finite set of outcomes worth enumerating. `ClientHandler` has
  the deletion of a handler, the erasure of its entry and the look-ups as steps of their
  own; in `Dispatch` deletion and erasure are one step, and so are look-up and test.
* **Signals**: a send to a closed peer raises `SIGPIPE`, which ends the process; the
  models have what the code expects, an exception. Addresses and descriptors of the
  sockets decide nothing after a connection is made.
* **After a failed render task** the client ends; that its buffers are freed while
  callbacks may still run is listed as a hazard.
* **lodepng**, what the program cannot reach: samples of 16 bits (a frame is RGBA of 8),
  ancillary and unknown chunks, text, custom zlib, allocators and hooks, the filter
  strategies `PREDEFINED` and `BRUTE_FORCE`, decoding to other modes than RGBA, failing
  allocations, the refusal of a window size that no setting has, and the CRC, which
  only a damaged chunk would fail.
* **Zero-frame jobs in `Dispatch`**: `JobQueue` and `CliSession` have them; an empty
  batch that is fetched when only such a job waits is left out.
* **Log, argument parsing, OpenCL wrappers, exceptions, the sample kernel, build and
  benchmark scripts**: no state of their own that a decision depends on, or not part of
  the running system.

## 8. Plan

Done, in this order: `JobQueue` with its ledger and proofs, `ThreadPool` and its
proofs, `Dispatch` with `RenderClient`, `Renderer`, `CliSession`, `ClientHandler` and
its proofs, lodepng (`Huffman`, `Deflate`, `Scanline` with its proofs, `ColorMode`,
`Png`), the batch size, the proofs of `Renderer`, `CliSession` and `Dispatch`, and the
proofs that follow requests, frames and tasks through `Dispatch`.

Every safety invariant and action property of the passing runs about the server and
its clients is now a theorem. Left, and open to a prover that has induction over data: that
`Deflate` round trips, and that a mode chosen by `auto_choose_color` loses no pixel.

## 9. Running

    tlc -config JobQueue.cfg MCJobQueue      # and so on, see PROJECT.json
    tlapm JobQueueProofs.tla                 # and the other modules of theorems

The runs marked **violated** end with a counterexample.
