--------------------------- MODULE RendererProofs ---------------------------
(***************************************************************************)
(* Proofs about Renderer, for every number of devices, slots, workers and  *)
(* tasks, and every number of failures.                                    *)
(*                                                                         *)
(* The inductive invariant IndInv has one part per argument: how far the   *)
(* task is, from where the main thread is (MainInv); that a slot in use is *)
(* not ready (TakenInv); that no two frames of one stage (WithinInv) or of *)
(* two stages (AcrossInv) share a slot; that a downloaded image stays in   *)
(* its host buffer until it is encoded (HostInv); that no frame and no     *)
(* slot is lost without a recorded error (NotLostInv); and that errors are *)
(* counted once (ErrorsInv).                                               *)
(***************************************************************************)
EXTENDS Renderer, FiniteSetTheorems, TLAPS


\* The main thread's places.
Places == {"idle", "schedule", "scheduleAsleep", "launch", "wait",
           "waitAsleep", "failed"}

\* What TypeOK says, without the count of failures.
Types ==
    /\ task \in 0 .. Len(Timestamps)
    /\ next \in Nat \ {0}
    /\ main \in Places
    /\ claimed \in Slots \cup {NoSlot}
    /\ ready \in [Slots -> BOOLEAN]
    /\ host \in [Slots -> Images \cup {Blank}]
    /\ commands \in [Devices -> Seq(Launched)]
    /\ events \subseteq [frame : Launched, ok : BOOLEAN]
    /\ pool \in Seq(Launched)
    /\ encoding \in [Workers -> {<<>>} \cup {<<c>> : c \in Launched}]
    /\ files \in [Images -> Images \cup {Blank}]
    /\ unwritten \subseteq Images
    /\ errors \in Nat
    /\ failures \in 0 .. MaxErrors

\* A worker has a job, and the frame it is about.
Busy(w) == encoding[w] # <<>>
Work(w) == encoding[w][1]

\* Where the main thread is tells how far the task has come.
MainInv ==
    /\ main # "idle" => task > 0 \/ main = "failed"
    /\ main = "launch" => next <= Timestamps[task]
    /\ main = "scheduleAsleep" => next <= Timestamps[task]
    /\ main \in {"wait", "waitAsleep", "idle"} /\ task > 0 => next > Timestamps[task]
    /\ main = "launch" => claimed # NoSlot
    /\ main \notin {"launch", "failed"} => claimed = NoSlot
    /\ main \in {"idle", "scheduleAsleep", "waitAsleep"} => errors = 0
    /\ main = "idle" => \A s \in Slots : ready[s]
    /\ main \in {"scheduleAsleep", "waitAsleep"} => \E s \in Slots : ~ ready[s]

\* A slot that a frame uses is not ready, and schedule() has not handed it out.
Taken(s) == ~ ready[s] /\ s # claimed

TakenInv ==
    /\ claimed # NoSlot => ~ ready[claimed]
    /\ \A d \in Devices : \A k \in DOMAIN commands[d] : Taken(commands[d][k].slot)
    /\ \A e \in events : Taken(e.frame.slot)
    /\ \A k \in DOMAIN pool : Taken(pool[k].slot)
    /\ \A w \in Workers : Busy(w) => Taken(Work(w).slot)

\* No two frames of one stage use the same slot.
WithinInv ==
    /\ \A d \in Devices : \A k \in DOMAIN commands[d] : commands[d][k].slot[1] = d
    /\ \A d \in Devices : \A j, k \in DOMAIN commands[d] :
            commands[d][j].slot = commands[d][k].slot => j = k
    /\ \A e, f \in events : e.frame.slot = f.frame.slot => e = f
    /\ \A j, k \in DOMAIN pool : pool[j].slot = pool[k].slot => j = k
    /\ \A v, w \in Workers : Busy(v) /\ Busy(w) /\ Work(v).slot = Work(w).slot => v = w

\* Nor do two frames of different stages.
AcrossInv ==
    /\ \A d \in Devices : \A k \in DOMAIN commands[d] :
            /\ \A e \in events : commands[d][k].slot # e.frame.slot
            /\ \A j \in DOMAIN pool : commands[d][k].slot # pool[j].slot
            /\ \A w \in Workers : Busy(w) => commands[d][k].slot # Work(w).slot
    /\ \A e \in events :
            /\ \A j \in DOMAIN pool : e.frame.slot # pool[j].slot
            /\ \A w \in Workers : Busy(w) => e.frame.slot # Work(w).slot
    /\ \A j \in DOMAIN pool : \A w \in Workers : Busy(w) => pool[j].slot # Work(w).slot

\* From its download to its encoding, an image is in its slot's host buffer.
HostInv ==
    /\ \A e \in events : e.ok => host[e.frame.slot] = e.frame.image
    /\ \A k \in DOMAIN pool : host[pool[k].slot] = pool[k].image
    /\ \A w \in Workers : Busy(w) => host[Work(w).slot] = Work(w).image

\* The frame c is on its way.
OnWay(c) ==
    \/ \E d \in Devices : \E k \in DOMAIN commands[d] : commands[d][k] = c
    \/ \E e \in events : e.frame = c
    \/ \E k \in DOMAIN pool : pool[k] = c
    \/ \E w \in Workers : Busy(w) /\ Work(w) = c

Underway(i) == \E c \in Launched : OnWay(c) /\ c.image = i
Occupied(s) == \E c \in Launched : OnWay(c) /\ c.slot = s

Begun(i) == i[1] < task \/ (i[1] = task /\ i[2] < next)

\* No frame is lost: one that was launched is written, or under way, or its
\* failure is recorded; and so is the slot it took.
NotLostInv ==
    /\ \A i \in Images : Begun(i) =>
            files[i] = i \/ i \in unwritten \/ Underway(i) \/ errors > 0
    /\ \A s \in Slots : ready[s] \/ s = claimed \/ Occupied(s) \/ errors > 0

\* Every recorded failure, and every one that is still to be reported, happened.
FailedEvents == {e \in events : ~ e.ok}
ErrorsInv ==
    /\ IsFiniteSet(FailedEvents)
    /\ errors + Cardinality(FailedEvents) <= failures

\* The main thread sleeps only while a frame is under way that will wake it.
SleeperHasWork ==
    main \in {"scheduleAsleep", "waitAsleep"} => InFlight # {}


\* Every step is one of the named actions, or stutters.
LEMMA Actions ==
    ASSUME [Next]_vars
    PROVE  \/ CreateRenderTask \/ ThrowKernelError \/ Schedule \/ ScheduleSleep
           \/ Launch \/ FinishAll \/ WaitReturn \/ WaitSleep
           \/ CallFails \/ SpuriousWake
           \/ \E d \in Devices : DeviceCompletes(d) \/ DeviceFails(d)
           \/ \E e \in events : TargetDownloaded(e) \/ TargetFailed(e)
           \/ \E w \in Workers : \/ WorkerTakes(w) \/ Encode(w)
                                 \/ EncodeFails(w) \/ EncodeDone(w)
           \/ UNCHANGED vars
  BY DEF Next, MainStep, CallbackStep, WorkerStep

\* A slot belongs to a device, and no slot is not one.
LEMMA SlotFacts ==
    /\ \A s \in Slots : s[1] \in Devices
    /\ NoSlot \notin Slots
    /\ Slots # {}
<1>1. <<1, 1>> \in Slots
  BY RendererAssumption DEF Slots, Devices
<1> QED BY <1>1, RendererAssumption DEF Slots, Devices, NoSlot

\* What an image consists of.
LEMMA ImageFacts ==
    /\ \A k \in 1 .. Len(Timestamps), n \in Nat :
            n > 0 /\ n <= Timestamps[k] => <<k, n>> \in Images
    /\ \A i \in Images : /\ i = <<i[1], i[2]>>
                         /\ i[1] \in 1 .. Len(Timestamps)
                         /\ i[2] \in 1 .. Timestamps[i[1]]
    /\ Blank \notin Images
  BY RendererAssumption DEF Images, Blank

\* Taking the head off a sequence, and appending to one.
LEMMA SeqFacts ==
    ASSUME NEW S, NEW s \in Seq(S)
    PROVE  /\ Len(s) \in Nat
           /\ DOMAIN s = 1 .. Len(s)
           /\ \A k \in DOMAIN s : s[k] \in S
           /\ s # <<>> =>
                /\ Head(s) \in S
                /\ Head(s) = s[1]
                /\ 1 \in DOMAIN s
                /\ Tail(s) \in Seq(S)
                /\ DOMAIN Tail(s) = 1 .. Len(s) - 1
                /\ \A k \in DOMAIN Tail(s) : k + 1 \in DOMAIN s /\ Tail(s)[k] = s[k + 1]
                /\ \A k \in DOMAIN s : k # 1 => k - 1 \in DOMAIN Tail(s)
           /\ \A e \in S :
                /\ Append(s, e) \in Seq(S)
                /\ DOMAIN Append(s, e) = 1 .. Len(s) + 1
                /\ Append(s, e)[Len(s) + 1] = e
                /\ \A k \in DOMAIN s : Append(s, e)[k] = s[k]
<1>1. /\ Len(s) \in Nat
      /\ DOMAIN s = 1 .. Len(s)
      /\ \A k \in DOMAIN s : s[k] \in S
  OBVIOUS
<1>2. ASSUME s # <<>>
      PROVE  /\ Head(s) \in S
             /\ Head(s) = s[1]
             /\ 1 \in DOMAIN s
             /\ Tail(s) \in Seq(S)
             /\ DOMAIN Tail(s) = 1 .. Len(s) - 1
             /\ \A k \in DOMAIN Tail(s) : k + 1 \in DOMAIN s /\ Tail(s)[k] = s[k + 1]
             /\ \A k \in DOMAIN s : k # 1 => k - 1 \in DOMAIN Tail(s)
  <2>1. Len(s) > 0
    BY <1>2
  <2>2. DOMAIN Tail(s) = 1 .. Len(s) - 1 /\ Tail(s) \in Seq(S) /\ Head(s) = s[1]
    BY <1>2, <2>1
  <2>3. \A k \in DOMAIN Tail(s) : Tail(s)[k] = s[k + 1]
    BY <1>2, <2>1, <2>2
  <2> QED BY <1>1, <2>1, <2>2, <2>3
<1>3. ASSUME NEW e \in S
      PROVE  /\ Append(s, e) \in Seq(S)
             /\ DOMAIN Append(s, e) = 1 .. Len(s) + 1
             /\ Append(s, e)[Len(s) + 1] = e
  OBVIOUS
<1>4. ASSUME NEW e \in S, NEW k \in DOMAIN s
      PROVE  Append(s, e)[k] = s[k]
  BY <1>1
<1> QED BY <1>1, <1>2, <1>3, <1>4

\* What is in the stages of the renderer are frames.
LEMMA FrameFacts ==
    ASSUME Types
    PROVE  /\ \A c \in Launched : c.slot \in Slots /\ c.image \in Images
           /\ \A d \in Devices : commands[d] \in Seq(Launched)
           /\ \A e \in events : e.frame \in Launched /\ e.ok \in BOOLEAN
           /\ \A w \in Workers : Busy(w) => Work(w) \in Launched
<1>1. ASSUME NEW w \in Workers, Busy(w) PROVE Work(w) \in Launched
  <2>1. encoding[w] \in {<<c>> : c \in Launched}
    BY <1>1 DEF Types, Busy
  <2> QED BY <2>1 DEF Work
<1>2. /\ \A d \in Devices : commands[d] \in Seq(Launched)
      /\ \A e \in events : e.frame \in Launched /\ e.ok \in BOOLEAN
  BY DEF Types
<1>3. \A c \in Launched : c.slot \in Slots /\ c.image \in Images
  BY DEF Launched
<1> QED BY <1>1, <1>2, <1>3

\* A frame made by launch.
LEMMA LaunchFacts ==
    ASSUME Types, MainInv, main = "launch"
    PROVE  /\ claimed \in Slots
           /\ <<task, next>> \in Images
           /\ [slot |-> claimed, image |-> <<task, next>>] \in Launched
<1>1. claimed \in Slots
  BY DEF Types, MainInv
<1>2. task \in 1 .. Len(Timestamps) /\ next \in Nat /\ next > 0 /\ next <= Timestamps[task]
  BY RendererAssumption DEF Types, MainInv
<1>3. <<task, next>> \in Images
  BY <1>2, ImageFacts
<1> QED BY <1>1, <1>3 DEF Launched

\* The types are kept.
LEMMA TypesStep ==
    ASSUME Types, MainInv, [Next]_vars
    PROVE  Types'
<1> USE RendererAssumption DEF Types, Places
<1>1. ASSUME NEW d \in Devices, DeviceCompletes(d) PROVE Types'
  <2> DEFINE c == Head(commands[d])
  <2>1. commands[d] \in Seq(Launched) /\ commands[d] # <<>>
    BY <1>1, FrameFacts DEF DeviceCompletes
  <2>2. c \in Launched /\ Tail(commands[d]) \in Seq(Launched)
    BY <2>1, SeqFacts
  <2>3. c.slot \in Slots /\ c.image \in Images
    BY <2>2, FrameFacts
  <2> HIDE DEF c
  <2>4. commands' \in [Devices -> Seq(Launched)]
    BY <1>1, <2>2 DEF DeviceCompletes
  <2>5. [frame |-> c, ok |-> TRUE] \in [frame : Launched, ok : BOOLEAN]
        /\ [frame |-> c, ok |-> FALSE] \in [frame : Launched, ok : BOOLEAN]
    BY <2>2
  <2>6. events' \subseteq [frame : Launched, ok : BOOLEAN]
    BY <1>1, <2>5 DEF DeviceCompletes, c
  <2>7. host' \in [Slots -> Images \cup {Blank}]
    BY <1>1, <2>3 DEF DeviceCompletes, c
  <2> QED BY <1>1, <2>4, <2>6, <2>7 DEF DeviceCompletes, written
<1>2. ASSUME NEW d \in Devices, DeviceFails(d) PROVE Types'
  <2> DEFINE c == Head(commands[d])
  <2>1. commands[d] \in Seq(Launched) /\ commands[d] # <<>>
    BY <1>2, FrameFacts DEF DeviceFails
  <2>2. c \in Launched /\ Tail(commands[d]) \in Seq(Launched)
    BY <2>1, SeqFacts
  <2>3. c.slot \in Slots /\ c.image \in Images
    BY <2>2, FrameFacts
  <2> HIDE DEF c
  <2>4. commands' \in [Devices -> Seq(Launched)]
    BY <1>2, <2>2 DEF DeviceFails
  <2>5. [frame |-> c, ok |-> TRUE] \in [frame : Launched, ok : BOOLEAN]
        /\ [frame |-> c, ok |-> FALSE] \in [frame : Launched, ok : BOOLEAN]
    BY <2>2
  <2>6. events' \subseteq [frame : Launched, ok : BOOLEAN]
    BY <1>2, <2>5 DEF DeviceFails, c
  <2>7. host' \in [Slots -> Images \cup {Blank}]
    BY <1>2, <2>3 DEF DeviceFails, c
  <2> QED BY <1>2, <2>4, <2>6, <2>7 DEF DeviceFails, written
<1>3. ASSUME NEW e \in events, TargetDownloaded(e) PROVE Types'
  <2>1. e.frame \in Launched
    BY FrameFacts
  <2>2. pool' \in Seq(Launched)
    BY <1>3, <2>1, SeqFacts DEF TargetDownloaded
  <2> QED BY <1>3, <2>2 DEF TargetDownloaded, written
<1>4. ASSUME NEW e \in events, TargetFailed(e) PROVE Types'
  BY <1>4 DEF TargetFailed, written, Notify
<1>5. ASSUME NEW w \in Workers, WorkerTakes(w) PROVE Types'
  BY <1>5 DEF WorkerTakes, written, Notify
<1>6. ASSUME NEW w \in Workers, Encode(w) PROVE Types'
  <2>1. Work(w) \in Launched /\ Work(w).slot \in Slots /\ Work(w).image \in Images
    BY <1>6, FrameFacts DEF Encode, Busy
  <2>2. files' \in [Images -> Images \cup {Blank}]
    BY <1>6, <2>1 DEF Encode, Work
  <2> QED BY <1>6, <2>2 DEF Encode, written
<1>7. ASSUME NEW w \in Workers, EncodeFails(w) PROVE Types'
  <2>1. Work(w).image \in Images
    BY <1>7, FrameFacts DEF EncodeFails, Busy
  <2>2. unwritten' \subseteq Images
    BY <1>7, <2>1 DEF EncodeFails, Work
  <2> QED BY <1>7, <2>2 DEF EncodeFails, written
<1>8. ASSUME NEW w \in Workers, EncodeDone(w) PROVE Types'
  BY <1>8 DEF EncodeDone, written, Notify
<1>9. CASE CreateRenderTask
  BY <1>9 DEF CreateRenderTask, written, Notify
<1>10. CASE ThrowKernelError
  BY <1>10 DEF ThrowKernelError, written, Notify
<1>11. CASE Schedule
  BY <1>11 DEF Schedule, written, Notify
<1>12. CASE ScheduleSleep
  BY <1>12 DEF ScheduleSleep, written, Notify
<1>13. CASE Launch
  <2> DEFINE c == [slot |-> claimed, image |-> <<task, next>>]
  <2>1. c \in Launched /\ claimed[1] \in Devices
    BY <1>13, LaunchFacts, SlotFacts DEF Launch
  <2>2. commands[claimed[1]] \in Seq(Launched)
    BY <2>1, FrameFacts
  <2> HIDE DEF c
  <2>3. Append(commands[claimed[1]], c) \in Seq(Launched)
    BY <2>1, <2>2, SeqFacts
  <2>4. commands' \in [Devices -> Seq(Launched)]
    BY <1>13, <2>3 DEF Launch, c
  <2> QED BY <1>13, <2>4 DEF Launch, written
<1>14. CASE FinishAll
  BY <1>14 DEF FinishAll, written, Notify
<1>15. CASE WaitReturn
  BY <1>15 DEF WaitReturn, written, Notify
<1>16. CASE WaitSleep
  BY <1>16 DEF WaitSleep, written, Notify
<1>17. CASE CallFails
  BY <1>17 DEF CallFails, written, Notify
<1>18. CASE SpuriousWake
  BY <1>18 DEF SpuriousWake, written, Notify
<1>19. CASE UNCHANGED vars
  BY <1>19 DEF vars, written, written, Notify
<1> QED BY Actions, <1>1, <1>2, <1>3, <1>4, <1>5, <1>6, <1>7, <1>8, <1>9, <1>10,
    <1>11, <1>12, <1>13, <1>14, <1>15, <1>16, <1>17, <1>18, <1>19

\* MainInv is kept.
LEMMA MainInvStep ==
    ASSUME Types, MainInv, TakenInv, [Next]_vars
    PROVE  MainInv'
<1> USE RendererAssumption DEF Types, MainInv, Places
<1>1. ASSUME NEW d \in Devices, DeviceCompletes(d) PROVE MainInv'
  BY <1>1 DEF DeviceCompletes, written, Notify
<1>2. ASSUME NEW d \in Devices, DeviceFails(d) PROVE MainInv'
  BY <1>2 DEF DeviceFails, written, Notify
<1>3. ASSUME NEW e \in events, TargetDownloaded(e) PROVE MainInv'
  BY <1>3 DEF TargetDownloaded, written, Notify
<1>4. ASSUME NEW e \in events, TargetFailed(e) PROVE MainInv'
  <2>1. e.frame.slot \in Slots
    BY FrameFacts
  <2>2. main # "idle"
    BY <2>1 DEF TakenInv, Taken
  <2> QED BY <1>4, <2>2 DEF TargetFailed, written, Notify
<1>5. ASSUME NEW w \in Workers, WorkerTakes(w) PROVE MainInv'
  BY <1>5 DEF WorkerTakes, written, Notify
<1>6. ASSUME NEW w \in Workers, Encode(w) PROVE MainInv'
  BY <1>6 DEF Encode, written, Notify
<1>7. ASSUME NEW w \in Workers, EncodeFails(w) PROVE MainInv'
  BY <1>7 DEF EncodeFails, written, Notify
<1>8. ASSUME NEW w \in Workers, EncodeDone(w) PROVE MainInv'
  BY <1>8 DEF EncodeDone, written, Notify
<1>9. CASE CreateRenderTask
  BY <1>9 DEF CreateRenderTask, written, Notify
<1>10. CASE ThrowKernelError
  BY <1>10 DEF ThrowKernelError, written, Notify
<1>11. CASE Schedule
  BY <1>11, SlotFacts DEF Schedule, written
<1>12. CASE ScheduleSleep
  BY <1>12, SlotFacts DEF ScheduleSleep, written
<1>13. CASE Launch
  BY <1>13 DEF Launch, written, Notify
<1>14. CASE FinishAll
  BY <1>14 DEF FinishAll, written, Notify
<1>15. CASE WaitReturn
  BY <1>15 DEF WaitReturn, written, Notify
<1>16. CASE WaitSleep
  BY <1>16 DEF WaitSleep, written, Notify
<1>17. CASE CallFails
  BY <1>17 DEF CallFails, written, Notify
<1>18. CASE SpuriousWake
  BY <1>18 DEF SpuriousWake, written, Notify
<1>19. CASE UNCHANGED vars
  BY <1>19 DEF vars, written, written, Notify
<1> QED BY Actions, <1>1, <1>2, <1>3, <1>4, <1>5, <1>6, <1>7, <1>8, <1>9, <1>10,
    <1>11, <1>12, <1>13, <1>14, <1>15, <1>16, <1>17, <1>18, <1>19


\* When a device is done with a command, the others of its queue move up.
LEMMA DeviceMoves ==
    ASSUME Types, NEW d \in Devices, DeviceCompletes(d) \/ DeviceFails(d)
    PROVE  /\ 1 \in DOMAIN commands[d]
           /\ Head(commands[d]) = commands[d][1]
           /\ Head(commands[d]) \in Launched
           /\ \A b \in Devices : \A k \in DOMAIN commands'[b] :
                IF b = d THEN /\ k + 1 \in DOMAIN commands[b]
                              /\ k \in Nat
                              /\ k > 0
                              /\ commands'[b][k] = commands[b][k + 1]
                ELSE k \in DOMAIN commands[b] /\ commands'[b][k] = commands[b][k]
           /\ \A b \in Devices : \A k \in DOMAIN commands[b] :
                IF b = d THEN k = 1 \/ /\ k - 1 \in DOMAIN commands'[b]
                                       /\ commands'[b][k - 1] = commands[b][k]
                ELSE k \in DOMAIN commands'[b] /\ commands'[b][k] = commands[b][k]
<1>1. commands[d] \in Seq(Launched) /\ commands[d] # <<>>
  BY FrameFacts DEF DeviceCompletes, DeviceFails
<1>2. /\ commands'[d] = Tail(commands[d])
      /\ \A b \in Devices : b # d => commands'[b] = commands[b]
  BY DEF DeviceCompletes, DeviceFails, Types
<1>3. /\ Len(commands[d]) \in Nat
      /\ DOMAIN commands[d] = 1 .. Len(commands[d])
      /\ Head(commands[d]) \in Launched
      /\ Head(commands[d]) = commands[d][1]
      /\ 1 \in DOMAIN commands[d]
      /\ DOMAIN Tail(commands[d]) = 1 .. Len(commands[d]) - 1
      /\ \A k \in DOMAIN Tail(commands[d]) :
            k + 1 \in DOMAIN commands[d] /\ Tail(commands[d])[k] = commands[d][k + 1]
      /\ \A k \in DOMAIN commands[d] : k # 1 => k - 1 \in DOMAIN Tail(commands[d])
  BY <1>1, SeqFacts
<1>4. ASSUME NEW k \in DOMAIN commands[d], k # 1
      PROVE  /\ k - 1 \in DOMAIN commands'[d]
             /\ commands'[d][k - 1] = commands[d][k]
  <2>1. k - 1 \in DOMAIN Tail(commands[d]) /\ (k - 1) + 1 = k
    BY <1>3, <1>4
  <2> QED BY <1>2, <1>3, <2>1
<1>5. ASSUME NEW k \in DOMAIN commands'[d]
      PROVE  /\ k + 1 \in DOMAIN commands[d] /\ k \in Nat /\ k > 0
             /\ commands'[d][k] = commands[d][k + 1]
  BY <1>2, <1>3
<1> QED BY <1>2, <1>3, <1>4, <1>5

\* What launch adds to a queue.
LEMMA LaunchMoves ==
    ASSUME Types, MainInv, Launch
    PROVE  LET c == [slot |-> claimed, image |-> <<task, next>>] IN
           /\ c \in Launched
           /\ claimed \in Slots
           /\ claimed[1] \in Devices
           /\ \A b \in Devices : \A k \in DOMAIN commands'[b] :
                \/ k \in DOMAIN commands[b] /\ commands'[b][k] = commands[b][k]
                \/ b = claimed[1] /\ k = Len(commands[b]) + 1 /\ commands'[b][k] = c
           /\ \A b \in Devices : \A k \in DOMAIN commands[b] :
                k \in DOMAIN commands'[b] /\ commands'[b][k] = commands[b][k]
           /\ \E k \in DOMAIN commands'[claimed[1]] : commands'[claimed[1]][k] = c
<1> DEFINE c == [slot |-> claimed, image |-> <<task, next>>]
<1> DEFINE q == commands[claimed[1]]
<1>1. c \in Launched /\ claimed \in Slots /\ claimed[1] \in Devices
  BY LaunchFacts, SlotFacts DEF Launch
<1>2. q \in Seq(Launched)
  BY <1>1, FrameFacts
<1>3. /\ commands'[claimed[1]] = Append(q, c)
      /\ \A b \in Devices : b # claimed[1] => commands'[b] = commands[b]
  BY <1>1 DEF Launch, Types
<1> HIDE DEF c, q
<1>4. /\ Len(q) \in Nat
      /\ DOMAIN q = 1 .. Len(q)
      /\ DOMAIN Append(q, c) = 1 .. Len(q) + 1
      /\ Append(q, c)[Len(q) + 1] = c
      /\ \A k \in DOMAIN q : Append(q, c)[k] = q[k]
  BY <1>1, <1>2, SeqFacts
<1>5. /\ \A k \in DOMAIN Append(q, c) : k \in DOMAIN q \/ k = Len(q) + 1
      /\ \A k \in DOMAIN q : k \in DOMAIN Append(q, c)
      /\ Len(q) + 1 \in DOMAIN Append(q, c)
  BY <1>4
<1> QED BY <1>1, <1>3, <1>4, <1>5 DEF c, q

\* A downloaded frame joins the pool's queue, and a worker takes the first one.
LEMMA PoolGrows ==
    ASSUME Types, NEW e \in events, TargetDownloaded(e)
    PROVE  /\ e.frame \in Launched
           /\ \A k \in DOMAIN pool' : \/ k \in DOMAIN pool /\ pool'[k] = pool[k]
                                      \/ k = Len(pool) + 1 /\ pool'[k] = e.frame
           /\ \A k \in DOMAIN pool : k \in DOMAIN pool' /\ pool'[k] = pool[k]
           /\ \E k \in DOMAIN pool' : pool'[k] = e.frame
<1>1. e.frame \in Launched /\ pool \in Seq(Launched) /\ pool' = Append(pool, e.frame)
  BY FrameFacts DEF Types, TargetDownloaded
<1>2. /\ Len(pool) \in Nat
      /\ DOMAIN pool = 1 .. Len(pool)
      /\ DOMAIN pool' = 1 .. Len(pool) + 1
      /\ pool'[Len(pool) + 1] = e.frame
      /\ \A k \in DOMAIN pool : pool'[k] = pool[k]
  BY <1>1, SeqFacts
<1> QED BY <1>1, <1>2

\* The first frame of the pool's queue becomes a worker's.
LEMMA PoolMoves ==
    ASSUME Types, NEW w \in Workers, WorkerTakes(w)
    PROVE  /\ 1 \in DOMAIN pool
           /\ pool[1] \in Launched
           /\ ~ Busy(w)
           /\ Busy(w)'
           /\ Work(w)' = pool[1]
           /\ \A v \in Workers : v # w => Busy(v)' = Busy(v) /\ Work(v)' = Work(v)
           /\ \A k \in DOMAIN pool' : /\ k + 1 \in DOMAIN pool
                                      /\ k \in Nat
                                      /\ k > 0
                                      /\ pool'[k] = pool[k + 1]
           /\ \A k \in DOMAIN pool : k = 1 \/ /\ k - 1 \in DOMAIN pool'
                                              /\ pool'[k - 1] = pool[k]
<1>1. pool \in Seq(Launched) /\ pool # <<>> /\ pool' = Tail(pool)
  BY DEF Types, WorkerTakes
<1>2. /\ Len(pool) \in Nat
      /\ DOMAIN pool = 1 .. Len(pool)
      /\ Head(pool) \in Launched
      /\ Head(pool) = pool[1]
      /\ 1 \in DOMAIN pool
      /\ DOMAIN pool' = 1 .. Len(pool) - 1
      /\ \A k \in DOMAIN pool' : k + 1 \in DOMAIN pool /\ pool'[k] = pool[k + 1]
      /\ \A k \in DOMAIN pool : k # 1 => k - 1 \in DOMAIN pool'
  BY <1>1, SeqFacts
<1>3. ASSUME NEW k \in DOMAIN pool, k # 1
      PROVE  k - 1 \in DOMAIN pool' /\ pool'[k - 1] = pool[k]
  <2>1. k - 1 \in DOMAIN pool' /\ (k - 1) + 1 = k
    BY <1>2, <1>3
  <2> QED BY <1>2, <2>1
<1>4. \A k \in DOMAIN pool' : k \in Nat /\ k > 0
  BY <1>2
<1>5. /\ ~ Busy(w)
      /\ encoding'[w] = <<pool[1]>>
      /\ \A v \in Workers : v # w => encoding'[v] = encoding[v]
  BY <1>2 DEF WorkerTakes, Types, Busy
<1>6. Busy(w)' /\ Work(w)' = pool[1]
  BY <1>5 DEF Busy, Work
<1>7. \A v \in Workers : v # w => Busy(v)' = Busy(v) /\ Work(v)' = Work(v)
  BY <1>5 DEF Busy, Work
<1> QED BY <1>2, <1>3, <1>4, <1>5, <1>6, <1>7

\* A worker is done, the others go on.
LEMMA WorkerFrees ==
    ASSUME Types, NEW w \in Workers, EncodeDone(w)
    PROVE  /\ Busy(w)
           /\ ~ Busy(w)'
           /\ Work(w).slot \in Slots
           /\ \A v \in Workers : v # w => Busy(v)' = Busy(v) /\ Work(v)' = Work(v)
           /\ ready' = [ready EXCEPT ![Work(w).slot] = TRUE]
<1>1. Busy(w) /\ Work(w).slot \in Slots
  BY FrameFacts DEF EncodeDone, Busy
<1>2. /\ encoding'[w] = <<>>
      /\ \A v \in Workers : v # w => encoding'[v] = encoding[v]
  BY DEF EncodeDone, Types
<1>3. ready' = [ready EXCEPT ![Work(w).slot] = TRUE]
  BY DEF EncodeDone, Work
<1>4. ~ Busy(w)'
  BY <1>2 DEF Busy
<1>5. \A v \in Workers : v # w => Busy(v)' = Busy(v) /\ Work(v)' = Work(v)
  BY <1>2 DEF Busy, Work
<1> QED BY <1>1, <1>3, <1>4, <1>5


\* The slots of all frames are slots, and their images images.
LEMMA SlotsOf ==
    ASSUME Types
    PROVE  /\ \A d \in Devices : \A k \in DOMAIN commands[d] :
                /\ commands[d][k] \in Launched
                /\ commands[d][k].slot \in Slots
                /\ commands[d][k].image \in Images
           /\ \A e \in events : e.frame.slot \in Slots /\ e.frame.image \in Images
           /\ \A k \in DOMAIN pool :
                pool[k] \in Launched /\ pool[k].slot \in Slots /\ pool[k].image \in Images
           /\ \A w \in Workers :
                Busy(w) => Work(w).slot \in Slots /\ Work(w).image \in Images
<1>1. ASSUME NEW d \in Devices, NEW k \in DOMAIN commands[d]
      PROVE  commands[d][k] \in Launched
  BY FrameFacts, SeqFacts
<1>2. ASSUME NEW k \in DOMAIN pool
      PROVE  pool[k] \in Launched
  <2>1. pool \in Seq(Launched)
    BY DEF Types
  <2> QED BY <2>1, SeqFacts
<1> QED BY <1>1, <1>2, FrameFacts

\* TakenInv is kept.
LEMMA TakenInvStep ==
    ASSUME Types, MainInv, TakenInv, WithinInv, AcrossInv, [Next]_vars
    PROVE  TakenInv'
<1> USE DEF TakenInv, Taken
<1>1. ASSUME NEW d \in Devices, DeviceCompletes(d) PROVE TakenInv'
  <2>1. /\ events' = events \cup {[frame |-> commands[d][1], ok |-> TRUE]}
        /\ UNCHANGED <<ready, claimed, pool, encoding>>
    BY <1>1, DeviceMoves DEF DeviceCompletes
  <2>2. \A f \in events' : f \in events \/ f.frame = commands[d][1]
    BY <2>1
  <2>3. \A w \in Workers : Busy(w)' = Busy(w) /\ Work(w)' = Work(w)
    BY <2>1 DEF Busy, Work
  <2> QED BY <1>1, <2>1, <2>2, <2>3, DeviceMoves
<1>2. ASSUME NEW d \in Devices, DeviceFails(d) PROVE TakenInv'
  <2>1. /\ events' = events \cup {[frame |-> commands[d][1], ok |-> FALSE]}
        /\ UNCHANGED <<ready, claimed, pool, encoding>>
    BY <1>2, DeviceMoves DEF DeviceFails
  <2>2. \A f \in events' : f \in events \/ f.frame = commands[d][1]
    BY <2>1
  <2>3. \A w \in Workers : Busy(w)' = Busy(w) /\ Work(w)' = Work(w)
    BY <2>1 DEF Busy, Work
  <2> QED BY <1>2, <2>1, <2>2, <2>3, DeviceMoves
<1>3. ASSUME NEW e \in events, TargetDownloaded(e) PROVE TakenInv'
  <2>1. events' \subseteq events /\ UNCHANGED <<ready, claimed, commands, encoding>>
    BY <1>3 DEF TargetDownloaded
  <2>2. \A w \in Workers : Busy(w)' = Busy(w) /\ Work(w)' = Work(w)
    BY <2>1 DEF Busy, Work
  <2> QED BY <1>3, <2>1, <2>2, PoolGrows
<1>4. ASSUME NEW e \in events, TargetFailed(e) PROVE TakenInv'
  BY <1>4 DEF TargetFailed, Busy, Work, written
<1>5. ASSUME NEW w \in Workers, WorkerTakes(w) PROVE TakenInv'
  <2>1. UNCHANGED <<ready, claimed, commands, events>>
    BY <1>5 DEF WorkerTakes
  <2> QED BY <1>5, <2>1, PoolMoves
<1>6. ASSUME NEW w \in Workers, Encode(w) PROVE TakenInv'
  BY <1>6 DEF Encode, Busy, Work, written
<1>7. ASSUME NEW w \in Workers, EncodeFails(w) PROVE TakenInv'
  BY <1>7 DEF EncodeFails, Busy, Work, written
<1>8. ASSUME NEW w \in Workers, EncodeDone(w) PROVE TakenInv'
  <2>1. UNCHANGED <<claimed, commands, events, pool>>
    BY <1>8 DEF EncodeDone
  <2>2. \A r \in Slots : r # Work(w).slot => ready'[r] = ready[r]
    BY <1>8, WorkerFrees DEF Types
  <2>3. \A r \in Slots : r # Work(w).slot /\ Taken(r) => Taken(r)'
    BY <2>1, <2>2
  <2>4. Busy(w) /\ Taken(Work(w).slot)
    BY <1>8, WorkerFrees
  <2>5. claimed # NoSlot => ~ ready'[claimed]
    BY <2>2, <2>4 DEF Types
  <2> QED BY <1>8, <2>1, <2>3, <2>4, <2>5, WorkerFrees, SlotsOf DEF WithinInv, AcrossInv
<1>9. CASE CreateRenderTask
  BY <1>9 DEF CreateRenderTask, Busy, Work, written
<1>10. CASE ThrowKernelError
  BY <1>10 DEF ThrowKernelError, Busy, Work, written
<1>11. CASE Schedule
  <2>1. PICK s \in Slots : /\ ready[s]
                            /\ claimed' = s
                            /\ ready' = [ready EXCEPT ![s] = FALSE]
    BY <1>11 DEF Schedule, FirstReady
  <2>2. UNCHANGED <<commands, events, pool, encoding>> /\ claimed = NoSlot
    BY <1>11 DEF Schedule, MainInv
  <2>3. ~ ready'[s] /\ \A r \in Slots : r # s => ready'[r] = ready[r]
    BY <2>1 DEF Types
  <2>4. \A r \in Slots : Taken(r) => Taken(r)'
    BY <2>1, <2>3
  <2>5. \A w \in Workers : Busy(w)' = Busy(w) /\ Work(w)' = Work(w)
    BY <2>2 DEF Busy, Work
  <2> QED BY <2>1, <2>2, <2>3, <2>4, <2>5, SlotsOf
<1>12. CASE ScheduleSleep
  BY <1>12 DEF ScheduleSleep, Busy, Work, written
<1>13. CASE Launch
  <2>1. UNCHANGED <<ready, events, pool, encoding>> /\ claimed' = NoSlot
    BY <1>13 DEF Launch
  <2>2. \A w \in Workers : Busy(w)' = Busy(w) /\ Work(w)' = Work(w)
    BY <2>1 DEF Busy, Work
  <2>3. claimed # NoSlot /\ ~ ready[claimed]
    BY <1>13 DEF Launch, MainInv
  <2>4. \A r \in Slots : r # NoSlot
    BY SlotFacts
  <2>5. \A r \in Slots : Taken(r) \/ r = claimed => Taken(r)'
    BY <2>1, <2>3, <2>4
  <2> QED BY <1>13, <2>1, <2>2, <2>3, <2>5, LaunchMoves, SlotsOf
<1>14. CASE FinishAll
  BY <1>14 DEF FinishAll, Busy, Work, written
<1>15. CASE WaitReturn
  BY <1>15 DEF WaitReturn, Busy, Work, written
<1>16. CASE WaitSleep
  BY <1>16 DEF WaitSleep, Busy, Work, written
<1>17. CASE CallFails
  BY <1>17 DEF CallFails, Busy, Work, written
<1>18. CASE SpuriousWake
  BY <1>18 DEF SpuriousWake, Busy, Work, written
<1>19. CASE UNCHANGED vars
  BY <1>19 DEF vars, written, Busy, Work, written
<1> QED BY Actions, <1>1, <1>2, <1>3, <1>4, <1>5, <1>6, <1>7, <1>8, <1>9, <1>10,
    <1>11, <1>12, <1>13, <1>14, <1>15, <1>16, <1>17, <1>18, <1>19

\* WithinInv is kept.
LEMMA WithinInvStep ==
    ASSUME Types, MainInv, TakenInv, WithinInv, AcrossInv, [Next]_vars
    PROVE  WithinInv'
<1> USE DEF WithinInv
<1>1. ASSUME NEW d \in Devices, DeviceCompletes(d) PROVE WithinInv'
  <2>1. /\ events' = events \cup {[frame |-> commands[d][1], ok |-> TRUE]}
        /\ UNCHANGED <<ready, claimed, pool, encoding>>
    BY <1>1, DeviceMoves DEF DeviceCompletes
  <2>2. \A f \in events' : f \in events \/ f.frame = commands[d][1]
    BY <2>1
  <2>3. \A w \in Workers : Busy(w)' = Busy(w) /\ Work(w)' = Work(w)
    BY <2>1 DEF Busy, Work
  <2> DEFINE n == [frame |-> commands[d][1], ok |-> TRUE]
  <2>7. \A f \in events : f.frame.slot # n.frame.slot
    BY <1>1, DeviceMoves DEF AcrossInv
  <2>8. events' = events \cup {n}
    BY <2>1
  <2> HIDE DEF n
  <2>4. \A f, h \in events' : f.frame.slot = h.frame.slot => f = h
    BY <2>7, <2>8
  <2>5. \A b \in Devices : \A k \in DOMAIN commands'[b] : commands'[b][k].slot[1] = b
    BY <1>1, DeviceMoves
  <2>6. \A b \in Devices : \A j, k \in DOMAIN commands'[b] :
            commands'[b][j].slot = commands'[b][k].slot => j = k
    BY <1>1, DeviceMoves
  <2> QED BY <2>1, <2>3, <2>4, <2>5, <2>6
<1>2. ASSUME NEW d \in Devices, DeviceFails(d) PROVE WithinInv'
  <2>1. /\ events' = events \cup {[frame |-> commands[d][1], ok |-> FALSE]}
        /\ UNCHANGED <<ready, claimed, pool, encoding>>
    BY <1>2, DeviceMoves DEF DeviceFails
  <2>2. \A f \in events' : f \in events \/ f.frame = commands[d][1]
    BY <2>1
  <2>3. \A w \in Workers : Busy(w)' = Busy(w) /\ Work(w)' = Work(w)
    BY <2>1 DEF Busy, Work
  <2> DEFINE n == [frame |-> commands[d][1], ok |-> FALSE]
  <2>7. \A f \in events : f.frame.slot # n.frame.slot
    BY <1>2, DeviceMoves DEF AcrossInv
  <2>8. events' = events \cup {n}
    BY <2>1
  <2> HIDE DEF n
  <2>4. \A f, h \in events' : f.frame.slot = h.frame.slot => f = h
    BY <2>7, <2>8
  <2>5. \A b \in Devices : \A k \in DOMAIN commands'[b] : commands'[b][k].slot[1] = b
    BY <1>2, DeviceMoves
  <2>6. \A b \in Devices : \A j, k \in DOMAIN commands'[b] :
            commands'[b][j].slot = commands'[b][k].slot => j = k
    BY <1>2, DeviceMoves
  <2> QED BY <2>1, <2>3, <2>4, <2>5, <2>6
<1>3. ASSUME NEW e \in events, TargetDownloaded(e) PROVE WithinInv'
  <2>1. events' \subseteq events /\ UNCHANGED <<commands, encoding>>
    BY <1>3 DEF TargetDownloaded
  <2>2. \A w \in Workers : Busy(w)' = Busy(w) /\ Work(w)' = Work(w)
    BY <2>1 DEF Busy, Work
  <2> QED BY <1>3, <2>1, <2>2, PoolGrows DEF AcrossInv
<1>4. ASSUME NEW e \in events, TargetFailed(e) PROVE WithinInv'
  BY <1>4 DEF TargetFailed, Busy, Work, written
<1>5. ASSUME NEW w \in Workers, WorkerTakes(w) PROVE WithinInv'
  <2>1. UNCHANGED <<commands, events>>
    BY <1>5 DEF WorkerTakes
  <2> QED BY <1>5, <2>1, PoolMoves DEF AcrossInv
<1>6. ASSUME NEW w \in Workers, Encode(w) PROVE WithinInv'
  BY <1>6 DEF Encode, Busy, Work, written
<1>7. ASSUME NEW w \in Workers, EncodeFails(w) PROVE WithinInv'
  BY <1>7 DEF EncodeFails, Busy, Work, written
<1>8. ASSUME NEW w \in Workers, EncodeDone(w) PROVE WithinInv'
  <2>1. UNCHANGED <<commands, events, pool>>
    BY <1>8 DEF EncodeDone
  <2> QED BY <1>8, <2>1, WorkerFrees
<1>9. CASE CreateRenderTask
  BY <1>9 DEF CreateRenderTask, Busy, Work, written
<1>10. CASE ThrowKernelError
  BY <1>10 DEF ThrowKernelError, Busy, Work, written
<1>11. CASE Schedule
  BY <1>11 DEF Schedule, Busy, Work, written
<1>12. CASE ScheduleSleep
  BY <1>12 DEF ScheduleSleep, Busy, Work, written
<1>13. CASE Launch
  <2>1. UNCHANGED <<events, pool, encoding>>
    BY <1>13 DEF Launch
  <2>2. \A w \in Workers : Busy(w)' = Busy(w) /\ Work(w)' = Work(w)
    BY <2>1 DEF Busy, Work
  <2> QED BY <1>13, <2>1, <2>2, LaunchMoves DEF TakenInv, Taken
<1>14. CASE FinishAll
  BY <1>14 DEF FinishAll, Busy, Work, written
<1>15. CASE WaitReturn
  BY <1>15 DEF WaitReturn, Busy, Work, written
<1>16. CASE WaitSleep
  BY <1>16 DEF WaitSleep, Busy, Work, written
<1>17. CASE CallFails
  BY <1>17 DEF CallFails, Busy, Work, written
<1>18. CASE SpuriousWake
  BY <1>18 DEF SpuriousWake, Busy, Work, written
<1>19. CASE UNCHANGED vars
  BY <1>19 DEF vars, written, Busy, Work, written
<1> QED BY Actions, <1>1, <1>2, <1>3, <1>4, <1>5, <1>6, <1>7, <1>8, <1>9, <1>10,
    <1>11, <1>12, <1>13, <1>14, <1>15, <1>16, <1>17, <1>18, <1>19

\* AcrossInv is kept.
LEMMA AcrossInvStep ==
    ASSUME Types, MainInv, TakenInv, WithinInv, AcrossInv, [Next]_vars
    PROVE  AcrossInv'
<1> USE DEF AcrossInv
<1>1. ASSUME NEW d \in Devices, DeviceCompletes(d) PROVE AcrossInv'
  <2>1. /\ events' = events \cup {[frame |-> commands[d][1], ok |-> TRUE]}
        /\ UNCHANGED <<ready, claimed, pool, encoding>>
    BY <1>1, DeviceMoves DEF DeviceCompletes
  <2>2. \A f \in events' : f \in events \/ f.frame = commands[d][1]
    BY <2>1
  <2>3. \A w \in Workers : Busy(w)' = Busy(w) /\ Work(w)' = Work(w)
    BY <2>1 DEF Busy, Work
  <2> QED BY <1>1, <2>1, <2>2, <2>3, DeviceMoves DEF WithinInv
<1>2. ASSUME NEW d \in Devices, DeviceFails(d) PROVE AcrossInv'
  <2>1. /\ events' = events \cup {[frame |-> commands[d][1], ok |-> FALSE]}
        /\ UNCHANGED <<ready, claimed, pool, encoding>>
    BY <1>2, DeviceMoves DEF DeviceFails
  <2>2. \A f \in events' : f \in events \/ f.frame = commands[d][1]
    BY <2>1
  <2>3. \A w \in Workers : Busy(w)' = Busy(w) /\ Work(w)' = Work(w)
    BY <2>1 DEF Busy, Work
  <2> QED BY <1>2, <2>1, <2>2, <2>3, DeviceMoves DEF WithinInv
<1>3. ASSUME NEW e \in events, TargetDownloaded(e) PROVE AcrossInv'
  <2>1. events' = events \ {e} /\ UNCHANGED <<commands, encoding>>
    BY <1>3 DEF TargetDownloaded
  <2>2. \A w \in Workers : Busy(w)' = Busy(w) /\ Work(w)' = Work(w)
    BY <2>1 DEF Busy, Work
  <2> QED BY <1>3, <2>1, <2>2, PoolGrows DEF WithinInv
<1>4. ASSUME NEW e \in events, TargetFailed(e) PROVE AcrossInv'
  BY <1>4 DEF TargetFailed, Busy, Work, written
<1>5. ASSUME NEW w \in Workers, WorkerTakes(w) PROVE AcrossInv'
  <2>1. UNCHANGED <<commands, events>>
    BY <1>5 DEF WorkerTakes
  <2> QED BY <1>5, <2>1, PoolMoves DEF WithinInv
<1>6. ASSUME NEW w \in Workers, Encode(w) PROVE AcrossInv'
  BY <1>6 DEF Encode, Busy, Work, written
<1>7. ASSUME NEW w \in Workers, EncodeFails(w) PROVE AcrossInv'
  BY <1>7 DEF EncodeFails, Busy, Work, written
<1>8. ASSUME NEW w \in Workers, EncodeDone(w) PROVE AcrossInv'
  <2>1. UNCHANGED <<commands, events, pool>>
    BY <1>8 DEF EncodeDone
  <2> QED BY <1>8, <2>1, WorkerFrees
<1>9. CASE CreateRenderTask
  BY <1>9 DEF CreateRenderTask, Busy, Work, written
<1>10. CASE ThrowKernelError
  BY <1>10 DEF ThrowKernelError, Busy, Work, written
<1>11. CASE Schedule
  BY <1>11 DEF Schedule, Busy, Work, written
<1>12. CASE ScheduleSleep
  BY <1>12 DEF ScheduleSleep, Busy, Work, written
<1>13. CASE Launch
  <2>1. UNCHANGED <<events, pool, encoding>>
    BY <1>13 DEF Launch
  <2>2. \A w \in Workers : Busy(w)' = Busy(w) /\ Work(w)' = Work(w)
    BY <2>1 DEF Busy, Work
  <2> QED BY <1>13, <2>1, <2>2, LaunchMoves DEF TakenInv, Taken
<1>14. CASE FinishAll
  BY <1>14 DEF FinishAll, Busy, Work, written
<1>15. CASE WaitReturn
  BY <1>15 DEF WaitReturn, Busy, Work, written
<1>16. CASE WaitSleep
  BY <1>16 DEF WaitSleep, Busy, Work, written
<1>17. CASE CallFails
  BY <1>17 DEF CallFails, Busy, Work, written
<1>18. CASE SpuriousWake
  BY <1>18 DEF SpuriousWake, Busy, Work, written
<1>19. CASE UNCHANGED vars
  BY <1>19 DEF vars, written, Busy, Work, written
<1> QED BY Actions, <1>1, <1>2, <1>3, <1>4, <1>5, <1>6, <1>7, <1>8, <1>9, <1>10,
    <1>11, <1>12, <1>13, <1>14, <1>15, <1>16, <1>17, <1>18, <1>19

\* HostInv is kept.
LEMMA HostInvStep ==
    ASSUME Types, MainInv, TakenInv, AcrossInv, HostInv, [Next]_vars
    PROVE  HostInv'
<1> USE DEF HostInv
<1>1. ASSUME NEW d \in Devices, DeviceCompletes(d) PROVE HostInv'
  <2>1. /\ events' = events \cup {[frame |-> commands[d][1], ok |-> TRUE]}
        /\ host' = [host EXCEPT ![commands[d][1].slot] = commands[d][1].image]
        /\ UNCHANGED <<pool, encoding>>
    BY <1>1, DeviceMoves DEF DeviceCompletes
  <2>2. 1 \in DOMAIN commands[d] /\ commands[d][1].slot \in Slots
    BY <1>1, DeviceMoves, SlotsOf
  <2>3. /\ host'[commands[d][1].slot] = commands[d][1].image
        /\ \A s \in Slots : s # commands[d][1].slot => host'[s] = host[s]
    BY <2>1, <2>2 DEF Types
  <2>4. \A w \in Workers : Busy(w)' = Busy(w) /\ Work(w)' = Work(w)
    BY <2>1 DEF Busy, Work
  <2>5. \A f \in events' : f.ok => host'[f.frame.slot] = f.frame.image
    BY <2>1, <2>2, <2>3, SlotsOf DEF AcrossInv
  <2>6. \A k \in DOMAIN pool' : host'[pool'[k].slot] = pool'[k].image
    BY <2>1, <2>2, <2>3, SlotsOf DEF AcrossInv
  <2>7. \A w \in Workers : Busy(w)' => host'[Work(w)'.slot] = Work(w)'.image
    BY <2>2, <2>3, <2>4, SlotsOf DEF AcrossInv
  <2> QED BY <2>5, <2>6, <2>7
<1>2. ASSUME NEW d \in Devices, DeviceFails(d) PROVE HostInv'
  BY <1>2 DEF DeviceFails, Busy, Work, written
<1>3. ASSUME NEW e \in events, TargetDownloaded(e) PROVE HostInv'
  <2>1. events' \subseteq events /\ e.ok /\ UNCHANGED <<host, encoding>>
    BY <1>3 DEF TargetDownloaded
  <2>2. \A w \in Workers : Busy(w)' = Busy(w) /\ Work(w)' = Work(w)
    BY <2>1 DEF Busy, Work
  <2> QED BY <1>3, <2>1, <2>2, PoolGrows
<1>4. ASSUME NEW e \in events, TargetFailed(e) PROVE HostInv'
  BY <1>4 DEF TargetFailed, Busy, Work, written
<1>5. ASSUME NEW w \in Workers, WorkerTakes(w) PROVE HostInv'
  <2>1. UNCHANGED <<host, events>>
    BY <1>5 DEF WorkerTakes
  <2> QED BY <1>5, <2>1, PoolMoves
<1>6. ASSUME NEW w \in Workers, Encode(w) PROVE HostInv'
  BY <1>6 DEF Encode, Busy, Work, written
<1>7. ASSUME NEW w \in Workers, EncodeFails(w) PROVE HostInv'
  BY <1>7 DEF EncodeFails, Busy, Work, written
<1>8. ASSUME NEW w \in Workers, EncodeDone(w) PROVE HostInv'
  <2>1. UNCHANGED <<host, events, pool>>
    BY <1>8 DEF EncodeDone
  <2> QED BY <1>8, <2>1, WorkerFrees
<1>9. CASE CreateRenderTask
  <2>1. \A s \in Slots : ready[s]
    BY <1>9 DEF CreateRenderTask, MainInv
  <2>2. UNCHANGED <<ready, events, pool, encoding>>
    BY <1>9 DEF CreateRenderTask
  <2>3. \A w \in Workers : Busy(w)' = Busy(w)
    BY <2>2 DEF Busy
  <2> QED BY <2>1, <2>2, <2>3, SlotsOf DEF TakenInv, Taken
<1>10. CASE ThrowKernelError
  BY <1>10 DEF ThrowKernelError, Busy, Work, written
<1>11. CASE Schedule
  BY <1>11 DEF Schedule, Busy, Work, written
<1>12. CASE ScheduleSleep
  BY <1>12 DEF ScheduleSleep, Busy, Work, written
<1>13. CASE Launch
  BY <1>13 DEF Launch, Busy, Work, written
<1>14. CASE FinishAll
  BY <1>14 DEF FinishAll, Busy, Work, written
<1>15. CASE WaitReturn
  BY <1>15 DEF WaitReturn, Busy, Work, written
<1>16. CASE WaitSleep
  BY <1>16 DEF WaitSleep, Busy, Work, written
<1>17. CASE CallFails
  BY <1>17 DEF CallFails, Busy, Work, written
<1>18. CASE SpuriousWake
  BY <1>18 DEF SpuriousWake, Busy, Work, written
<1>19. CASE UNCHANGED vars
  BY <1>19 DEF vars, written, Busy, Work, written
<1> QED BY Actions, <1>1, <1>2, <1>3, <1>4, <1>5, <1>6, <1>7, <1>8, <1>9, <1>10,
    <1>11, <1>12, <1>13, <1>14, <1>15, <1>16, <1>17, <1>18, <1>19

\* FilesHoldTheirImage is kept: what is encoded is in the host buffer.
LEMMA FilesStep ==
    ASSUME Types, HostInv, FilesHoldTheirImage, [Next]_vars
    PROVE  FilesHoldTheirImage'
<1> USE DEF FilesHoldTheirImage
<1>1. ASSUME NEW d \in Devices, DeviceCompletes(d) PROVE FilesHoldTheirImage'
  BY <1>1 DEF DeviceCompletes, Busy, Work, written
<1>2. ASSUME NEW d \in Devices, DeviceFails(d) PROVE FilesHoldTheirImage'
  BY <1>2 DEF DeviceFails, Busy, Work, written
<1>3. ASSUME NEW e \in events, TargetDownloaded(e) PROVE FilesHoldTheirImage'
  BY <1>3 DEF TargetDownloaded, Busy, Work, written
<1>4. ASSUME NEW e \in events, TargetFailed(e) PROVE FilesHoldTheirImage'
  BY <1>4 DEF TargetFailed, Busy, Work, written
<1>5. ASSUME NEW w \in Workers, WorkerTakes(w) PROVE FilesHoldTheirImage'
  BY <1>5 DEF WorkerTakes, Busy, Work, written
<1>6. ASSUME NEW w \in Workers, Encode(w) PROVE FilesHoldTheirImage'
  <2>1. Busy(w) /\ Work(w).image \in Images /\ host[Work(w).slot] = Work(w).image
    BY <1>6, SlotsOf DEF Encode, Busy, HostInv
  <2>2. files' = [files EXCEPT ![Work(w).image] = Work(w).image]
    BY <1>6, <2>1 DEF Encode, Work
  <2> QED BY <2>1, <2>2 DEF Types
<1>7. ASSUME NEW w \in Workers, EncodeFails(w) PROVE FilesHoldTheirImage'
  BY <1>7 DEF EncodeFails, Busy, Work, written
<1>8. ASSUME NEW w \in Workers, EncodeDone(w) PROVE FilesHoldTheirImage'
  BY <1>8 DEF EncodeDone, Busy, Work, written
<1>9. CASE CreateRenderTask
  BY <1>9 DEF CreateRenderTask, Busy, Work, written
<1>10. CASE ThrowKernelError
  BY <1>10 DEF ThrowKernelError, Busy, Work, written
<1>11. CASE Schedule
  BY <1>11 DEF Schedule, Busy, Work, written
<1>12. CASE ScheduleSleep
  BY <1>12 DEF ScheduleSleep, Busy, Work, written
<1>13. CASE Launch
  BY <1>13 DEF Launch, Busy, Work, written
<1>14. CASE FinishAll
  BY <1>14 DEF FinishAll, Busy, Work, written
<1>15. CASE WaitReturn
  BY <1>15 DEF WaitReturn, Busy, Work, written
<1>16. CASE WaitSleep
  BY <1>16 DEF WaitSleep, Busy, Work, written
<1>17. CASE CallFails
  BY <1>17 DEF CallFails, Busy, Work, written
<1>18. CASE SpuriousWake
  BY <1>18 DEF SpuriousWake, Busy, Work, written
<1>19. CASE UNCHANGED vars
  BY <1>19 DEF vars, written, Busy, Work, written
<1> QED BY Actions, <1>1, <1>2, <1>3, <1>4, <1>5, <1>6, <1>7, <1>8, <1>9, <1>10,
    <1>11, <1>12, <1>13, <1>14, <1>15, <1>16, <1>17, <1>18, <1>19


\* The frames on their way are those of the stages.
LEMMA InFlightIs ==
    ASSUME Types
    PROVE  \A c : c \in InFlight <=> OnWay(c)
<1> SUFFICES ASSUME NEW c PROVE c \in InFlight <=> OnWay(c)
  OBVIOUS
<1>1. \A d \in Devices :
        c \in Range(commands[d]) <=> \E k \in DOMAIN commands[d] : commands[d][k] = c
  BY DEF Range
<1>2. c \in Range(pool) <=> \E k \in DOMAIN pool : pool[k] = c
  BY DEF Range
<1>3. ASSUME NEW w \in Workers
      PROVE  c \in Range(encoding[w]) <=> Busy(w) /\ Work(w) = c
  <2>1. CASE ~ Busy(w)
    BY <2>1 DEF Busy, Range
  <2>2. CASE Busy(w)
    <3>1. encoding[w] \in {<<b>> : b \in Launched}
      BY <2>2 DEF Types, Busy
    <3>2. encoding[w] = <<Work(w)>>
      BY <3>1 DEF Work
    <3>3. DOMAIN encoding[w] = {1}
      BY <3>2
    <3> QED BY <2>2, <3>3 DEF Range, Work
  <2> QED BY <2>1, <2>2
<1>4. c \in {e.frame : e \in events} <=> \E e \in events : e.frame = c
  OBVIOUS
<1>5. c \in UNION {Range(commands[d]) : d \in Devices} <=>
        \E d \in Devices : \E k \in DOMAIN commands[d] : commands[d][k] = c
  BY <1>1
<1>6. c \in UNION {Range(encoding[w]) : w \in Workers} <=>
        \E w \in Workers : Busy(w) /\ Work(w) = c
  BY <1>3
<1> QED BY <1>2, <1>4, <1>5, <1>6, Zenon DEF InFlight, OnWay

\* A frame on its way stays so until its failure is recorded or it is encoded.
LEMMA StaysOnWay ==
    ASSUME Types, MainInv, [Next]_vars, NEW c, OnWay(c)
    PROVE  \/ OnWay(c)'
           \/ errors' > 0
           \/ \E w \in Workers : EncodeDone(w) /\ Busy(w) /\ Work(w) = c
<1> USE DEF OnWay
<1>1. ASSUME NEW d \in Devices, DeviceCompletes(d) \/ DeviceFails(d) PROVE OnWay(c)'
  <2>1. /\ events' = events \cup {[frame |-> commands[d][1], ok |-> TRUE]}
            \/ events' = events \cup {[frame |-> commands[d][1], ok |-> FALSE]}
        /\ UNCHANGED <<pool, encoding>>
    BY <1>1, DeviceMoves DEF DeviceCompletes, DeviceFails
  <2>2. events \subseteq events' /\ \E f \in events' : f.frame = commands[d][1]
    <3>1. CASE events' = events \cup {[frame |-> commands[d][1], ok |-> TRUE]}
      <4>1. [frame |-> commands[d][1], ok |-> TRUE] \in events'
        BY <3>1
      <4> QED BY <3>1, <4>1
    <3>2. CASE events' = events \cup {[frame |-> commands[d][1], ok |-> FALSE]}
      <4>1. [frame |-> commands[d][1], ok |-> FALSE] \in events'
        BY <3>2
      <4> QED BY <3>2, <4>1
    <3> QED BY <2>1, <3>1, <3>2
  <2>3. \A w \in Workers : Busy(w)' = Busy(w) /\ Work(w)' = Work(w)
    BY <2>1 DEF Busy, Work
  <2>4. CASE \E b \in Devices : \E k \in DOMAIN commands[b] : commands[b][k] = c
    BY <1>1, <2>2, <2>4, DeviceMoves
  <2> QED BY <2>1, <2>2, <2>3, <2>4
<1>2. ASSUME NEW e \in events, TargetDownloaded(e) PROVE OnWay(c)'
  <2>1. events' = events \ {e} /\ UNCHANGED <<commands, encoding>>
    BY <1>2 DEF TargetDownloaded
  <2>2. \A w \in Workers : Busy(w)' = Busy(w) /\ Work(w)' = Work(w)
    BY <2>1 DEF Busy, Work
  <2>3. CASE \E f \in events : f.frame = c
    BY <1>2, <2>1, <2>3, PoolGrows
  <2> QED BY <1>2, <2>1, <2>2, <2>3, PoolGrows
<1>3. ASSUME NEW e \in events, TargetFailed(e) PROVE errors' > 0
  BY <1>3 DEF TargetFailed, Types
<1>4. ASSUME NEW w \in Workers, WorkerTakes(w) PROVE OnWay(c)'
  <2>1. UNCHANGED <<commands, events>>
    BY <1>4 DEF WorkerTakes
  <2>2. CASE \E k \in DOMAIN pool : pool[k] = c
    BY <1>4, <2>2, PoolMoves
  <2> QED BY <1>4, <2>1, <2>2, PoolMoves
<1>5. ASSUME NEW w \in Workers, EncodeDone(w)
      PROVE  OnWay(c)' \/ (Busy(w) /\ Work(w) = c)
  <2>1. UNCHANGED <<commands, events, pool>>
    BY <1>5 DEF EncodeDone
  <2> QED BY <1>5, <2>1, WorkerFrees
<1>6. CASE Launch
  <2>1. UNCHANGED <<events, pool, encoding>>
    BY <1>6 DEF Launch
  <2>2. \A w \in Workers : Busy(w)' = Busy(w) /\ Work(w)' = Work(w)
    BY <2>1 DEF Busy, Work
  <2>3. CASE \E b \in Devices : \E k \in DOMAIN commands[b] : commands[b][k] = c
    BY <1>6, <2>3, LaunchMoves
  <2> QED BY <2>1, <2>2, <2>3
<1>7. CASE UNCHANGED <<commands, events, pool, encoding>>
  BY <1>7 DEF Busy, Work
<1> QED BY Actions, <1>1, <1>2, <1>3, <1>4, <1>5, <1>6, <1>7
     DEF CreateRenderTask, ThrowKernelError, Schedule, ScheduleSleep, FinishAll, WaitReturn,
         WaitSleep, CallFails, SpuriousWake, Encode, EncodeFails, vars

\* What begins and ends the way of an image.
LEMMA BegunStep ==
    ASSUME Types, MainInv, [Next]_vars, NEW i \in Images, Begun(i)'
    PROVE  \/ Begun(i)
           \/ Launch /\ i = <<task, next>>
<1> USE DEF Begun
<1>1. /\ i[1] \in 1 .. Len(Timestamps) /\ i[2] \in Nat /\ i[2] > 0
      /\ i[2] <= Timestamps[i[1]] /\ i = <<i[1], i[2]>>
      /\ Timestamps[i[1]] \in Nat
      /\ task \in Nat /\ next \in Nat
  BY ImageFacts, RendererAssumption DEF Types
<1>2. CASE CreateRenderTask
  <2>1. task' = task + 1 /\ next' = 1 /\ (task > 0 => next > Timestamps[task])
    BY <1>2 DEF CreateRenderTask, MainInv
  <2>2. i[1] <= task
    BY <1>1, <2>1
  <2> QED BY <1>1, <2>1, <2>2
<1>3. CASE Launch
  <2>1. task' = task /\ next' = next + 1
    BY <1>3 DEF Launch
  <2> QED BY <1>1, <1>3, <2>1
<1>4. CASE UNCHANGED <<task, next>>
  BY <1>4
<1> QED BY Actions, <1>2, <1>3, <1>4
     DEF ThrowKernelError, Schedule, ScheduleSleep, FinishAll, WaitReturn, WaitSleep,
         CallFails, SpuriousWake, DeviceCompletes, DeviceFails, TargetDownloaded,
         TargetFailed, WorkerTakes, Encode, EncodeFails, EncodeDone, vars

\* A file that was written or given up stays so, and errors are not forgotten.
LEMMA ResultsStay ==
    ASSUME Types, HostInv, [Next]_vars
    PROVE  /\ \A i \in Images : files[i] = i => files'[i] = i
           /\ \A i \in Images : i \in unwritten => i \in unwritten'
           /\ errors > 0 => errors' > 0
<1>1. ASSUME NEW w \in Workers, Encode(w)
      PROVE  \A i \in Images : files[i] = i => files'[i] = i
  <2>1. Busy(w) /\ Work(w).image \in Images /\ host[Work(w).slot] = Work(w).image
    BY <1>1, SlotsOf DEF Encode, Busy, HostInv
  <2>2. files' = [files EXCEPT ![Work(w).image] = Work(w).image]
    BY <1>1, <2>1 DEF Encode, Work
  <2> QED BY <2>1, <2>2 DEF Types
<1>2. ASSUME NEW e \in events, TargetFailed(e) PROVE errors' > 0
  BY <1>2 DEF TargetFailed, Types
<1> QED BY Actions, <1>1, <1>2
     DEF CreateRenderTask, ThrowKernelError, Schedule, ScheduleSleep, Launch, FinishAll,
         WaitReturn, WaitSleep, CallFails, SpuriousWake, DeviceCompletes, DeviceFails,
         TargetDownloaded, TargetFailed, WorkerTakes, Encode, EncodeFails, EncodeDone,
         vars, written

\* NotLostInv is kept.
LEMMA NotLostStep ==
    ASSUME Types, MainInv, TakenInv, HostInv, FilesHoldTheirImage, NotLostInv, [Next]_vars
    PROVE  NotLostInv'
<1>1. ASSUME NEW i \in Images, Begun(i)'
      PROVE  files'[i] = i \/ i \in unwritten' \/ Underway(i)' \/ errors' > 0
  <2>1. CASE Launch /\ i = <<task, next>>
    <3>1. PICK c \in Launched : c = [slot |-> claimed, image |-> <<task, next>>]
      BY <2>1, LaunchMoves
    <3>2. OnWay(c)' /\ c.image = i
      BY <2>1, <3>1, LaunchMoves DEF OnWay
    <3> QED BY <3>1, <3>2 DEF Underway
  <2>2. CASE Begun(i)
    <3>1. CASE files[i] = i \/ i \in unwritten \/ errors > 0
      BY <3>1, ResultsStay
    <3>2. CASE Underway(i)
      <4>1. PICK c \in Launched : OnWay(c) /\ c.image = i
        BY <3>2 DEF Underway
      <4>2. CASE OnWay(c)'
        BY <4>1, <4>2 DEF Underway
      <4>3. ASSUME NEW w \in Workers, EncodeDone(w), Busy(w), Work(w) = c
            PROVE  files'[i] = i \/ i \in unwritten'
        <5>1. (files[i] # Blank \/ i \in unwritten) /\ UNCHANGED <<files, unwritten>>
          BY <4>1, <4>3 DEF EncodeDone, Encoded, Work, written
        <5> QED BY <5>1 DEF FilesHoldTheirImage
      <4> QED BY <4>1, <4>2, <4>3, StaysOnWay
    <3> QED BY <2>2, <3>1, <3>2 DEF NotLostInv
  <2> QED BY <1>1, <2>1, <2>2, BegunStep
<1>2. ASSUME NEW s \in Slots
      PROVE  ready'[s] \/ s = claimed' \/ Occupied(s)' \/ errors' > 0
  <2>1. CASE errors > 0
    BY <2>1, ResultsStay
  <2>2. CASE Occupied(s)
    <3>1. PICK c \in Launched : OnWay(c) /\ c.slot = s
      BY <2>2 DEF Occupied
    <3>2. CASE OnWay(c)'
      BY <3>1, <3>2 DEF Occupied
    <3>3. ASSUME NEW w \in Workers, EncodeDone(w), Busy(w), Work(w) = c
          PROVE  ready'[s]
      BY <3>1, <3>3, WorkerFrees DEF Types
    <3> QED BY <3>1, <3>2, <3>3, StaysOnWay
  <2>3. CASE s = claimed
    <3>1. CASE Launch
      <4>1. PICK c \in Launched : c = [slot |-> claimed, image |-> <<task, next>>]
        BY <3>1, LaunchMoves
      <4>2. OnWay(c)' /\ c.slot = s
        BY <2>3, <3>1, <4>1, LaunchMoves DEF OnWay
      <4> QED BY <4>1, <4>2 DEF Occupied
    <3>2. CASE Schedule
      BY <2>3, <3>2, SlotFacts DEF Schedule, MainInv
    <3>3. CASE claimed' = claimed
      BY <2>3, <3>3
    <3> QED BY Actions, <3>1, <3>2, <3>3
         DEF CreateRenderTask, ThrowKernelError, ScheduleSleep, FinishAll, WaitReturn,
             WaitSleep, CallFails, SpuriousWake, DeviceCompletes, DeviceFails,
             TargetDownloaded, TargetFailed, WorkerTakes, Encode, EncodeFails, EncodeDone, vars
  <2>4. CASE ready[s]
    <3>1. CASE Schedule
      BY <2>4, <3>1 DEF Schedule, Types
    <3>2. ASSUME NEW w \in Workers, EncodeDone(w) PROVE ready'[s]
      BY <2>4, <3>2, WorkerFrees DEF Types
    <3>3. CASE ready' = ready
      BY <2>4, <3>3
    <3> QED BY Actions, <3>1, <3>2, <3>3
         DEF CreateRenderTask, ThrowKernelError, ScheduleSleep, Launch, FinishAll, WaitReturn,
             WaitSleep, CallFails, SpuriousWake, DeviceCompletes, DeviceFails,
             TargetDownloaded, TargetFailed, WorkerTakes, Encode, EncodeFails, vars
  <2> QED BY <2>1, <2>2, <2>3, <2>4 DEF NotLostInv
<1> QED BY <1>1, <1>2 DEF NotLostInv

\* ErrorsInv is kept: a failure is counted when it happens, then recorded once.
LEMMA ErrorsStep ==
    ASSUME Types, ErrorsInv, WithinInv, AcrossInv, [Next]_vars
    PROVE  ErrorsInv'
<1> USE DEF ErrorsInv
<1>1. ASSUME NEW d \in Devices, DeviceFails(d) PROVE ErrorsInv'
  <2> DEFINE n == [frame |-> Head(commands[d]), ok |-> FALSE]
  <2>1. failures' = failures + 1 /\ errors' = errors /\ events' = events \cup {n}
    BY <1>1 DEF DeviceFails
  <2>2. FailedEvents' = FailedEvents \cup {n}
    BY <2>1 DEF FailedEvents
  <2> HIDE DEF n
  <2>4. IsFiniteSet(FailedEvents) /\ Cardinality(FailedEvents) \in Nat
    BY FS_CardinalityType
  <2>3. /\ IsFiniteSet(FailedEvents')
        /\ \/ Cardinality(FailedEvents') = Cardinality(FailedEvents) + 1
           \/ Cardinality(FailedEvents') = Cardinality(FailedEvents)
    BY <2>2, <2>4, FS_AddElement
  <2> QED BY <2>1, <2>3, <2>4 DEF Types
<1>2. ASSUME NEW e \in events, TargetFailed(e) PROVE ErrorsInv'
  <2>1. failures' = failures /\ errors' = errors + 1 /\ events' = events \ {e} /\ ~ e.ok
    BY <1>2 DEF TargetFailed
  <2>2. FailedEvents' = FailedEvents \ {e} /\ e \in FailedEvents
    BY <2>1 DEF FailedEvents
  <2>3. /\ IsFiniteSet(FailedEvents')
        /\ Cardinality(FailedEvents) \in Nat
        /\ Cardinality(FailedEvents') = Cardinality(FailedEvents) - 1
    BY <2>2, FS_RemoveElement, FS_CardinalityType
  <2> QED BY <2>1, <2>3 DEF Types
<1>3. ASSUME FailedEvents' = FailedEvents, errors' = errors,
             failures' = failures \/ failures' = failures + 1
      PROVE  ErrorsInv'
  BY <1>3, FS_CardinalityType DEF Types
<1>4. ASSUME NEW d \in Devices, DeviceCompletes(d) PROVE ErrorsInv'
  <2>1. FailedEvents' = FailedEvents
    BY <1>4 DEF DeviceCompletes, FailedEvents
  <2> QED BY <1>3, <1>4, <2>1 DEF DeviceCompletes
<1>5. ASSUME NEW e \in events, TargetDownloaded(e) PROVE ErrorsInv'
  <2>1. FailedEvents' = FailedEvents
    BY <1>5 DEF TargetDownloaded, FailedEvents
  <2> QED BY <1>3, <1>5, <2>1 DEF TargetDownloaded
<1>6. ASSUME UNCHANGED <<events, errors>>, failures' = failures \/ failures' = failures + 1
      PROVE  ErrorsInv'
  BY <1>3, <1>6 DEF FailedEvents
<1> QED BY Actions, <1>1, <1>2, <1>4, <1>5, <1>6
     DEF CreateRenderTask, ThrowKernelError, Schedule, ScheduleSleep, Launch, FinishAll,
         WaitReturn, WaitSleep, CallFails, SpuriousWake, WorkerTakes, Encode, EncodeFails,
         EncodeDone, vars


\* The inductive invariant.
IndInv ==
    /\ Types /\ MainInv /\ TakenInv /\ WithinInv /\ AcrossInv /\ HostInv
    /\ FilesHoldTheirImage /\ NotLostInv /\ ErrorsInv

\* It holds when the client starts.
LEMMA InitInv == Init => IndInv
<1> SUFFICES ASSUME Init PROVE IndInv
  OBVIOUS
<1> USE DEF Init
<1>1. Types
  BY RendererAssumption DEF Types, Places
<1>2. /\ \A d \in Devices : DOMAIN commands[d] = {}
      /\ events = {}
      /\ DOMAIN pool = {}
      /\ \A w \in Workers : ~ Busy(w)
  BY DEF Busy
<1>3. MainInv /\ TakenInv /\ WithinInv /\ AcrossInv /\ HostInv
  BY <1>2 DEF MainInv, TakenInv, WithinInv, AcrossInv, HostInv
<1>4. FilesHoldTheirImage
  BY DEF FilesHoldTheirImage
<1>5. NotLostInv
  <2>1. \A i \in Images : ~ Begun(i)
    BY ImageFacts, RendererAssumption DEF Begun
  <2> QED BY <2>1 DEF NotLostInv
<1>6. ErrorsInv
  <2>1. FailedEvents = {}
    BY DEF FailedEvents
  <2> QED BY <2>1, FS_EmptySet DEF ErrorsInv
<1> QED BY <1>1, <1>3, <1>4, <1>5, <1>6 DEF IndInv

\* IndInv is an invariant of the specification.
LEMMA Invariance == Spec => []IndInv
<1>1. IndInv /\ [Next]_vars => IndInv'
  BY TypesStep, MainInvStep, TakenInvStep, WithinInvStep, AcrossInvStep, HostInvStep,
     FilesStep, NotLostStep, ErrorsStep DEF IndInv
<1> QED BY InitInv, <1>1, PTL DEF Spec

\* Every variable keeps its type; in particular no failure is recorded that did
\* not happen, and a frame is launched only for a timestamp of its task.
THEOREM TypeCorrect == Spec => []TypeOK
<1>1. IndInv => TypeOK
  <2> SUFFICES ASSUME IndInv PROVE TypeOK
    OBVIOUS
  <2>1. Types /\ ErrorsInv
    BY DEF IndInv
  <2>2. errors <= failures
    BY <2>1, FS_CardinalityType DEF Types, ErrorsInv
  <2> QED BY <2>1, <2>2 DEF Types, TypeOK, Places
<1> QED BY <1>1, Invariance, PTL

\* A slot carries one frame at a time, however the main thread, the devices, the
\* callbacks and the workers interleave: ready is false from schedule() to the end
\* of the encoding, and no frame is in two places or shares its slot.
THEOREM OneFramePerSlot == Spec => []SlotsExclusive
<1>1. IndInv => SlotsExclusive
  <2> SUFFICES ASSUME IndInv PROVE SlotsExclusive
    OBVIOUS
  <2>1. Types /\ TakenInv /\ WithinInv /\ AcrossInv
    BY DEF IndInv
  <2>2. ASSUME NEW a \in InFlight, NEW b \in InFlight, a.slot = b.slot PROVE a = b
    <3>1. OnWay(a) /\ OnWay(b)
      BY <2>1, InFlightIs
    <3>2. CASE \E d \in Devices : \E k \in DOMAIN commands[d] : commands[d][k] = a
      BY <2>1, <2>2, <3>1, <3>2 DEF OnWay, WithinInv, AcrossInv
    <3>3. CASE \E e \in events : e.frame = a
      BY <2>1, <2>2, <3>1, <3>3 DEF OnWay, WithinInv, AcrossInv
    <3>4. CASE \E k \in DOMAIN pool : pool[k] = a
      BY <2>1, <2>2, <3>1, <3>4 DEF OnWay, WithinInv, AcrossInv
    <3>5. CASE \E w \in Workers : Busy(w) /\ Work(w) = a
      BY <2>1, <2>2, <3>1, <3>5 DEF OnWay, WithinInv, AcrossInv
    <3> QED BY <3>1, <3>2, <3>3, <3>4, <3>5 DEF OnWay
  <2>3. ASSUME NEW a \in InFlight PROVE ~ ready[a.slot] /\ a.slot # claimed
    <3>1. OnWay(a)
      BY <2>1, InFlightIs
    <3> QED BY <2>1, <3>1 DEF OnWay, TakenInv, Taken
  <2>4. IsInjective(pool) /\ \A d \in Devices : IsInjective(commands[d])
    BY <2>1 DEF WithinInv, IsInjective
  <2>5. \A v, w \in Workers : encoding[v] = encoding[w] /\ encoding[v] # <<>> => v = w
    BY <2>1 DEF WithinInv, Busy, Work
  <2> QED BY <2>2, <2>3, <2>4, <2>5 DEF SlotsExclusive
<1> QED BY <1>1, Invariance, PTL

\* Every file holds the image it is named after: no download overwrites a host
\* buffer whose image is still to be encoded, and createRenderTask replaces the
\* buffers only when no frame uses them.
THEOREM FilesAreRight == Spec => []FilesHoldTheirImage
<1>1. IndInv => FilesHoldTheirImage
  BY DEF IndInv
<1> QED BY <1>1, Invariance, PTL

\* When runUntilCompletion returns, all frames of its task are written, or their
\* file could not be, and nothing is left that uses the RenderTask.
THEOREM ReturnMeansDone == Spec => []ReturnedIsComplete
<1>1. IndInv => ReturnedIsComplete
  <2> SUFFICES ASSUME IndInv, main = "idle" PROVE
                /\ InFlight = {}
                /\ \A i \in Images : i[1] <= task => files[i] = i \/ i \in unwritten
    BY DEF ReturnedIsComplete
  <2>1. Types /\ MainInv /\ TakenInv /\ NotLostInv
    BY DEF IndInv
  <2>2. \A c : ~ OnWay(c)
    BY <2>1, SlotsOf DEF OnWay, MainInv, TakenInv, Taken
  <2>3. InFlight = {}
    BY <2>1, <2>2, InFlightIs
  <2>4. ASSUME NEW i \in Images, i[1] <= task PROVE files[i] = i \/ i \in unwritten
    <3>1. /\ i[1] \in Nat /\ i[1] > 0 /\ i[2] \in Nat /\ i[2] <= Timestamps[i[1]]
          /\ Timestamps[i[1]] \in Nat /\ task \in Nat /\ next \in Nat
      BY <2>1, ImageFacts, RendererAssumption DEF Types
    <3>2. task > 0 => next > Timestamps[task]
      BY <2>1 DEF MainInv
    <3>3. Begun(i)
      BY <2>4, <3>1, <3>2 DEF Begun
    <3>4. ~ (errors > 0)
      BY <2>1 DEF MainInv
    <3> QED BY <2>1, <2>2, <3>3, <3>4 DEF NotLostInv, Underway
  <2> QED BY <2>3, <2>4
<1> QED BY <1>1, Invariance, PTL

\* The main thread sleeps only while a frame is under way, whose encoding or whose
\* failure will notify it: no wake-up is lost between the test and the wait.
THEOREM NoLostWakeUp == Spec => []SleeperHasWork
<1>1. IndInv => SleeperHasWork
  <2> SUFFICES ASSUME IndInv, main \in {"scheduleAsleep", "waitAsleep"}
               PROVE  InFlight # {}
    BY DEF SleeperHasWork
  <2>1. Types /\ MainInv /\ NotLostInv
    BY DEF IndInv
  <2>2. PICK s \in Slots : ~ ready[s]
    BY <2>1 DEF MainInv
  <2>3. s # claimed /\ ~ (errors > 0)
    BY <2>1, SlotFacts DEF MainInv
  <2>4. Occupied(s)
    BY <2>1, <2>2, <2>3 DEF NotLostInv
  <2> QED BY <2>1, <2>4, InFlightIs DEF Occupied
<1> QED BY <1>1, Invariance, PTL

=============================================================================
