------------------------------ MODULE Renderer ------------------------------
(***************************************************************************)
(* The client's Renderer (client/renderer.cpp): the main thread spreads    *)
(* the frames of one render task over the slots of its OpenCL devices, a   *)
(* callback passes each downloaded image to the compression pool, and a    *)
(* worker encodes it, marks the slot ready and wakes the main thread.      *)
(*                                                                         *)
(* The pool is taken as what ThreadPool is shown to be while it is in use: *)
(* callbacks start in order, each once.  OpenCL is external: a device has  *)
(* one in-order command queue, and the event of a download is reported     *)
(* some time after it, on any thread, as complete or as failed.            *)
(*                                                                         *)
(* An image is a pair of a task and a position in its timestamps; a buffer *)
(* or a file is modelled by the image whose pixels it holds.  After a      *)
(* failure the client ends; the model stops there.                         *)
(***************************************************************************)
EXTENDS Integers, Sequences, FiniteSets, Functions

CONSTANTS
    NumDevices,     \* how many OpenCL devices were found
    FRAMES,         \* slots of a device
    Workers,        \* threads of the compression pool
    Timestamps,     \* how many frames each render task has, in order
    MaxErrors       \* bound: how many commands fail

ASSUME RendererAssumption ==
    /\ NumDevices \in Nat \ {0}
    /\ FRAMES \in Nat \ {0}
    /\ IsFiniteSet(Workers) /\ Workers # {}
    /\ Timestamps \in Seq(Nat \ {0})
    /\ MaxErrors \in Nat

Devices == 1 .. NumDevices
Slots == Devices \X (1 .. FRAMES)
Images == UNION {{k} \X (1 .. Timestamps[k]) : k \in 1 .. Len(Timestamps)}
Blank == <<0, 0>>
NoSlot == <<0, 0>>

\* A frame on its way: the slot it uses and the image it makes.
Launched == [slot : Slots, image : Images]

VARIABLES
    task,       \* the number of render tasks created
    next,       \* the position of the next timestamp to launch
    main,       \* the main thread
    claimed,    \* the slot schedule() returned
    ready,      \* the slots' ready flags
    host,       \* host_render_targets of the current task
    commands,   \* the devices' command queues
    events,     \* downloads whose callback has not been called yet
    pool,       \* the compression pool's queue
    encoding,   \* per worker: the job it runs, none or one
    files,      \* the image files written
    unwritten,  \* the images whose file could not be written
    errors,     \* how many failed downloads are recorded
    failures    \* how many commands failed

vars == <<task, next, main, claimed, ready, host, commands, events, pool, encoding,
          files, unwritten, errors, failures>>

\* What encode leaves behind.
written == <<files, unwritten>>

Init ==
    /\ task = 0
    /\ next = 1
    /\ main = "idle"
    /\ claimed = NoSlot
    /\ ready = [s \in Slots |-> TRUE]
    /\ host = [s \in Slots |-> Blank]
    /\ commands = [d \in Devices |-> <<>>]
    /\ events = {}
    /\ pool = <<>>
    /\ encoding = [w \in Workers |-> <<>>]
    /\ files = [i \in Images |-> Blank]
    /\ unwritten = {}
    /\ errors = 0
    /\ failures = 0

-----------------------------------------------------------------------------
(* The main thread.                                                        *)

\* createRenderTask: kernels are built and buffers allocated, or it throws.
CreateRenderTask ==
    /\ main = "idle"
    /\ task < Len(Timestamps)
    /\ task' = task + 1
    /\ next' = 1
    /\ host' = [s \in Slots |-> Blank]
    /\ main' = "schedule"
    /\ UNCHANGED <<claimed, ready, commands, events, pool, encoding, written,
                   errors, failures>>

\* throwIfKernelError, in schedule() and in wait().
ThrowKernelError ==
    /\ main = "wait" \/ (main = "schedule" /\ next <= Timestamps[task])
    /\ errors > 0
    /\ main' = "failed"
    /\ UNCHANGED <<task, next, claimed, ready, host, commands, events, pool,
                   encoding, written, errors, failures>>

\* The first ready slot, device by device.
FirstReady(s) ==
    /\ ready[s]
    /\ \A r \in Slots : ready[r] => s[1] < r[1] \/ (s[1] = r[1] /\ s[2] <= r[2])

\* Mutant: the slot is not taken.
ScheduleNoTake ==
    /\ main = "schedule"
    /\ errors = 0
    /\ next <= Timestamps[task]
    /\ \E s \in Slots : FirstReady(s) /\ claimed' = s
    /\ main' = "launch"
    /\ UNCHANGED <<task, next, ready, host, commands, events, pool, encoding,
                   written, errors, failures>>

Schedule ==
    /\ main = "schedule"
    /\ errors = 0
    /\ next <= Timestamps[task]
    /\ \E s \in Slots : /\ FirstReady(s)
                        /\ claimed' = s
                        /\ ready' = [ready EXCEPT ![s] = FALSE]
    /\ main' = "launch"
    /\ UNCHANGED <<task, next, host, commands, events, pool, encoding,
                   written, errors, failures>>

\* No slot is ready: the thread sleeps, the mutex held until it does.
ScheduleSleep ==
    /\ main = "schedule"
    /\ errors = 0
    /\ next <= Timestamps[task]
    /\ \A s \in Slots : ~ ready[s]
    /\ main' = "scheduleAsleep"
    /\ UNCHANGED <<task, next, claimed, ready, host, commands, events, pool,
                   encoding, written, errors, failures>>

\* The kernel and the download are queued, the callback is set.
Launch ==
    /\ main = "launch"
    /\ commands' = [commands EXCEPT ![claimed[1]] =
                       Append(@, [slot |-> claimed, image |-> <<task, next>>])]
    /\ next' = next + 1
    /\ claimed' = NoSlot
    /\ main' = "schedule"
    /\ UNCHANGED <<task, ready, host, events, pool, encoding, written,
                   errors, failures>>

\* An OpenCL call of createRenderTask, launch or finishAll fails: check() throws.
CallFails ==
    /\ \/ main = "idle" /\ task < Len(Timestamps)
       \/ main = "launch"
       \/ main = "schedule" /\ next > Timestamps[task]
    /\ failures < MaxErrors
    /\ failures' = failures + 1
    /\ main' = "failed"
    /\ UNCHANGED <<task, next, claimed, ready, host, commands, events, pool,
                   encoding, written, errors>>

\* The loop over the timestamps is over: clFinish on every device.
FinishAll ==
    /\ main = "schedule"
    /\ next > Timestamps[task]
    /\ \A d \in Devices : commands[d] = <<>>
    /\ main' = "wait"
    /\ UNCHANGED <<task, next, claimed, ready, host, commands, events, pool,
                   encoding, written, errors, failures>>

\* Mutant: wait() does not look at the slots of the last device.
WaitReturnEarly ==
    /\ main = "wait"
    /\ errors = 0
    /\ \A s \in Slots : s[1] # NumDevices => ready[s]
    /\ main' = "idle"
    /\ UNCHANGED <<task, next, claimed, ready, host, commands, events, pool,
                   encoding, written, errors, failures>>

\* Every slot is ready: runUntilCompletion returns and the task is destroyed.
WaitReturn ==
    /\ main = "wait"
    /\ errors = 0
    /\ \A s \in Slots : ready[s]
    /\ main' = "idle"
    /\ UNCHANGED <<task, next, claimed, ready, host, commands, events, pool,
                   encoding, written, errors, failures>>

WaitSleep ==
    /\ main = "wait"
    /\ errors = 0
    /\ \E s \in Slots : ~ ready[s]
    /\ main' = "waitAsleep"
    /\ UNCHANGED <<task, next, claimed, ready, host, commands, events, pool,
                   encoding, written, errors, failures>>

\* cvar.notify_one: the main thread is the only one that ever waits on it.
Notify ==
    main' = CASE main = "scheduleAsleep" -> "schedule"
              [] main = "waitAsleep" -> "wait"
              [] OTHER -> main

\* cvar.wait may return without a notification.
SpuriousWake ==
    /\ main \in {"scheduleAsleep", "waitAsleep"}
    /\ Notify
    /\ UNCHANGED <<task, next, claimed, ready, host, commands, events, pool,
                   encoding, written, errors, failures>>

-----------------------------------------------------------------------------
(* OpenCL: a device runs its commands in order; the download overwrites    *)
(* the slot's host buffer.                                                 *)

DeviceCompletes(d) ==
    /\ commands[d] # <<>>
    /\ LET c == Head(commands[d])
       IN  /\ host' = [host EXCEPT ![c.slot] = c.image]
           /\ events' = events \cup {[frame |-> c, ok |-> TRUE]}
    /\ commands' = [commands EXCEPT ![d] = Tail(@)]
    /\ UNCHANGED <<task, next, main, claimed, ready, pool, encoding, written,
                   errors, failures>>

DeviceFails(d) ==
    /\ commands[d] # <<>>
    /\ failures < MaxErrors
    /\ failures' = failures + 1
    /\ events' = events \cup {[frame |-> Head(commands[d]), ok |-> FALSE]}
    /\ commands' = [commands EXCEPT ![d] = Tail(@)]
    /\ UNCHANGED <<task, next, main, claimed, ready, host, pool, encoding,
                   written, errors>>

-----------------------------------------------------------------------------
(* targetDownloaded and the job it schedules.                              *)

\* Mutant: the slot is ready as soon as its image is downloaded.
TargetDownloadedReady(e) ==
    /\ e.ok
    /\ events' = events \ {e}
    /\ pool' = Append(pool, e.frame)
    /\ ready' = [ready EXCEPT ![e.frame.slot] = TRUE]
    /\ Notify
    /\ UNCHANGED <<task, next, claimed, host, commands, encoding, written,
                   errors, failures>>

TargetDownloaded(e) ==
    /\ e.ok
    /\ events' = events \ {e}
    /\ pool' = Append(pool, e.frame)
    /\ UNCHANGED <<task, next, main, claimed, ready, host, commands,
                   encoding, written, errors, failures>>

\* Mutant: the failure is recorded and the main thread is not woken.
TargetFailedSilent(e) ==
    /\ ~ e.ok
    /\ events' = events \ {e}
    /\ errors' = errors + 1
    /\ UNCHANGED <<task, next, main, claimed, ready, host, commands, pool,
                   encoding, written, failures>>

\* A failed frame's slot does not become ready again.
TargetFailed(e) ==
    /\ ~ e.ok
    /\ events' = events \ {e}
    /\ errors' = errors + 1
    /\ Notify
    /\ UNCHANGED <<task, next, claimed, ready, host, commands, pool,
                   encoding, written, failures>>

WorkerTakes(w) ==
    /\ encoding[w] = <<>>
    /\ pool # <<>>
    /\ encoding' = [encoding EXCEPT ![w] = <<Head(pool)>>]
    /\ pool' = Tail(pool)
    /\ UNCHANGED <<task, next, main, claimed, ready, host, commands, events,
                   written, errors, failures>>

\* The worker has called lodepng::encode, whatever came of it.
Encoded(w) ==
    LET i == encoding[w][1].image IN files[i] # Blank \/ i \in unwritten

\* lodepng::encode, from the host buffer to the file named after the image.
Encode(w) ==
    /\ encoding[w] # <<>>
    /\ ~ Encoded(w)
    /\ LET c == encoding[w][1]
       IN  files' = [files EXCEPT ![c.image] = host[c.slot]]
    /\ UNCHANGED <<task, next, main, claimed, ready, host, commands, events,
                   pool, encoding, unwritten, errors, failures>>

\* The file cannot be written: encode returns an error that nothing looks at.
EncodeFails(w) ==
    /\ encoding[w] # <<>>
    /\ ~ Encoded(w)
    /\ failures < MaxErrors
    /\ failures' = failures + 1
    /\ unwritten' = unwritten \cup {encoding[w][1].image}
    /\ UNCHANGED <<task, next, main, claimed, ready, host, commands, events,
                   pool, encoding, files, errors>>

EncodeDone(w) ==
    /\ encoding[w] # <<>>
    /\ Encoded(w)
    /\ ready' = [ready EXCEPT ![encoding[w][1].slot] = TRUE]
    /\ encoding' = [encoding EXCEPT ![w] = <<>>]
    /\ Notify
    /\ UNCHANGED <<task, next, claimed, host, commands, events, pool,
                   written, errors, failures>>

-----------------------------------------------------------------------------

MainStep ==
    \/ CreateRenderTask \/ ThrowKernelError \/ Schedule \/ ScheduleSleep \/ Launch
    \/ FinishAll \/ WaitReturn \/ WaitSleep

WorkerStep(w) == WorkerTakes(w) \/ Encode(w) \/ EncodeFails(w) \/ EncodeDone(w)

CallbackStep == \E e \in events : TargetDownloaded(e) \/ TargetFailed(e)

Next ==
    \/ MainStep
    \/ CallFails
    \/ SpuriousWake
    \/ \E d \in Devices : DeviceCompletes(d) \/ DeviceFails(d)
    \/ CallbackStep
    \/ \E w \in Workers : WorkerStep(w)

Spec == Init /\ [][Next]_vars

(***************************************************************************)
(* Fairness: the main thread and the pool's workers run on, a device works *)
(* off its queue, and OpenCL calls every callback.                         *)
(***************************************************************************)
FairSpec ==
    /\ Spec
    /\ WF_vars(MainStep)
    /\ WF_vars(CallbackStep)
    /\ \A d \in Devices : WF_vars(DeviceCompletes(d) \/ DeviceFails(d))
    /\ \A w \in Workers : WF_vars(WorkerStep(w))

-----------------------------------------------------------------------------
(* Properties.                                                             *)

\* Types of all variables.
TypeOK ==
    /\ task \in 0 .. Len(Timestamps)
    /\ next \in Nat \ {0}
    /\ main \in {"idle", "schedule", "scheduleAsleep", "launch", "wait",
                 "waitAsleep", "failed"}
    /\ claimed \in Slots \cup {NoSlot}
    /\ ready \in [Slots -> BOOLEAN]
    /\ host \in [Slots -> Images \cup {Blank}]
    /\ commands \in [Devices -> Seq(Launched)]
    /\ events \subseteq [frame : Launched, ok : BOOLEAN]
    /\ pool \in Seq(Launched)
    /\ encoding \in [Workers -> {<<>>} \cup {<<c>> : c \in Launched}]
    /\ files \in [Images -> Images \cup {Blank}]
    /\ unwritten \subseteq Images
    /\ errors \in 0 .. failures
    /\ failures \in 0 .. MaxErrors

\* The frames on their way, wherever they are.
InFlight ==
    (UNION {Range(commands[d]) : d \in Devices}) \cup {e.frame : e \in events} \cup
    Range(pool) \cup (UNION {Range(encoding[w]) : w \in Workers})

\* A slot carries one frame at a time: from schedule() until its image is
\* encoded it is not ready, no other frame uses it, and none is in two places.
SlotsExclusive ==
    /\ \A a, b \in InFlight : a.slot = b.slot => a = b
    /\ \A a \in InFlight : ~ ready[a.slot] /\ a.slot # claimed
    /\ IsInjective(pool)
    /\ \A d \in Devices : IsInjective(commands[d])
    /\ \A v, w \in Workers : encoding[v] = encoding[w] /\ encoding[v] # <<>> => v = w

\* Every file holds the image it is named after: no download overwrites a
\* buffer that is still to be encoded (device.hpp, on ready: "the associated
\* host buffer of the previous image has been processed").
FilesHoldTheirImage == \A i \in Images : files[i] \in {i, Blank}

\* When runUntilCompletion has returned, every frame of its task is on disk unless
\* writing its file failed, and no callback or pool job is left that could touch
\* the destroyed RenderTask
\* (renderer.hpp: "Run a render task until all frames have been rendered").
ReturnedIsComplete ==
    main = "idle" =>
        /\ InFlight = {}
        /\ \A i \in Images : i[1] <= task => files[i] = i \/ i \in unwritten

\* A render task returns or fails in the end: the main thread never sleeps
\* through the last wake-up, and an OpenCL error always reaches it.
TaskEnds == \A k \in 1 .. Len(Timestamps) : (task = k) ~> (main \in {"idle", "failed"})

=============================================================================
