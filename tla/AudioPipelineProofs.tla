------------------------- MODULE AudioPipelineProofs -------------------------
(***************************************************************************)
(* What the asynchronous programs lose, proved for any number of frames,   *)
(* files and topics, and for all three programs.                           *)
(***************************************************************************)
EXTENDS AudioPipeline, SafeQueueProofs

(* start_async comes before the processing thread exists.                  *)
StartedBefore ==
  pc[Process] # "off" =>
    pc[Main] \in {"sleep", "joinCapture", "joinProcess", "done"}

(* What the processing thread has learnt at each place of its loop test.   *)
KnowsStopped == pc[Process] = "testEmpty" => ~run_async

OpenedFirst == opened => pc[Process] \notin {"off", "begin"}

(* Once the processing thread has left a draining loop, the queue is       *)
(* stopped and empty, but for one block of the capture thread, which then  *)
(* cannot push another.                                                    *)
OneMoreBlock ==
  opened /\ Drain /\ pc[Process] \in {"close", "done"} =>
    /\ ~run_async
    /\ \/ queue = <<>>
       \/ Len(queue) = 1 /\ pc[Capture] \in {"test", "done"}

(* The processing thread handles a block that wait_pop gave it.            *)
HoldsBlock == pc[Process] = "process" => ret[Process].item \in Blocks

Control == HoldsBlock /\ StartedBefore /\ KnowsStopped /\ OpenedFirst /\ OneMoreBlock

PipelineInv == PipelineTypeOK /\ Conservation /\ FilesFollowQueue /\ Control

(* What of the blocks y may follow x: the one relation of Increasing.      *)
MayFollow(x, y) ==
  x < y \/ y = MaxFrame \/ (x = y /\ (BusMayFail \/ SpuriousIrq))

(* The capture thread's frame is never ahead of the microphones' and never *)
(* behind what it pushed; an interrupt it waited for brought a new one, and*)
(* the block it is about to push may follow all it pushed.                 *)
FramesAdvance ==
  /\ raw <= frame
  /\ \A i \in 1 .. Len(pushed) : pushed[i] <= raw
  /\ pc[Capture] = "transfer" =>
       raw < frame \/ frame = MaxFrame \/ BusMayFail \/ SpuriousIrq
  /\ pc[Capture] = "push" =>
       \A i \in 1 .. Len(pushed) : MayFollow(pushed[i], raw)

HoldsLastPopped ==
  pc[Process] = "process" =>
    popped # <<>> /\ ret[Process].item = popped[Len(popped)]

(* A topic misses blocks, so all there is to say of what it has is that it *)
(* was handled.                                                            *)
SinksWereHandled ==
  \A s \in Sinks : \A i \in 1 .. Len(sink[s]) :
    \E k \in 1 .. Handled : sink[s][i] = popped[k]

OrderInv == PipelineInv /\ FramesAdvance /\ HoldsLastPopped
              /\ SinksWereHandled /\ CapturedInOrder

------------------------------------------------------------------------------
(* Every step of the program is a step of one of its threads on the queue, *)
(* leaves the queue alone, or is the assignment running = false of         *)
(* process_beamforming.                                                    *)
LEMMA QueueStepOfNext ==
  ASSUME PipelineTypeOK, Next
  PROVE  \/ \E t \in Threads : Step(t)
         \/ UNCHANGED <<queue, call, ret, pushed, popped>> /\ run_async' \in BOOLEAN
<1> USE PipelineConstants DEF PipelineTypeOK, QueueTypeOK
<1>1. CASE MainNext
  BY <1>1 DEF MainNext, MainGivesUp, MainStarts, MainSpawns, MainStops,
              MainJoins, Step, Progress, queueVars
<1>2. CASE CaptureNext
  BY <1>2 DEF CaptureNext, CaptureTests, CaptureWaits, CaptureTransfers,
              CapturePushes, Step, Progress, queueVars
<1>3. CASE ProcessNext
  BY <1>3 DEF ProcessNext, Open, OpenFails, ProcessTestsRunning,
              ProcessTestsEmpty, ProcessPops, ProcessHandles, ProcessCloses,
              Step, Progress, queueVars
<1>4. CASE Irq \/ IrqWaitReturns \/ Returned
  BY <1>4 DEF Irq, IrqWaitReturns, Returned, vars, queueVars
<1>5. CASE ProcessWakesSpuriously
  BY <1>5 DEF ProcessWakesSpuriously, Step
<1>6. QED
  BY <1>1, <1>2, <1>3, <1>4, <1>5 DEF Next

(* Whatever the program does, the queue keeps its types and loses nothing. *)
LEMMA NextQueueInv ==
  ASSUME PipelineTypeOK, Conservation, Next
  PROVE  QueueTypeOK' /\ Conservation'
<1>1. QueueTypeOK
  BY DEF PipelineTypeOK
<1>2. CASE \E t \in Threads : Step(t)
  BY <1>1, <1>2, StepTypeOK, StepConservation
<1>3. CASE UNCHANGED <<queue, call, ret, pushed, popped>> /\ run_async' \in BOOLEAN
  BY <1>1, <1>3 DEF QueueTypeOK, Conservation
<1>4. QED
  BY <1>2, <1>3, QueueStepOfNext

(* Every step of the program keeps every variable within its type.         *)
LEMMA NextTypeOK ==
  ASSUME PipelineTypeOK, Conservation, HoldsBlock, Next
  PROVE  PipelineTypeOK'
<1>1. QueueTypeOK'
  BY NextQueueInv
<1>2. pc' \in [Threads -> Places]
  BY PipelineConstants
     DEF PipelineTypeOK, Places, Next, Goto, Returned, vars, ownVars,
         MainNext, MainGivesUp, MainStarts, MainSpawns, MainStops, MainJoins,
         CaptureNext, CaptureTests, CaptureWaits, CaptureTransfers,
         CapturePushes, ProcessNext, Open, OpenFails, ProcessTestsRunning,
         ProcessTestsEmpty, ProcessPops, ProcessHandles, ProcessCloses,
         Irq, IrqWaitReturns, ProcessWakesSpuriously
<1>3. sink' \in [Sinks -> Seq(Blocks)]
  <2>1. CASE ProcessHandles
    BY <2>1 DEF PipelineTypeOK, HoldsBlock, ProcessHandles, Goto
  <2>2. CASE UNCHANGED sink
    BY <2>2 DEF PipelineTypeOK
  <2>3. ProcessHandles \/ UNCHANGED sink
    BY DEF Next, Returned, vars, ownVars,
         MainNext, MainGivesUp, MainStarts, MainSpawns, MainStops, MainJoins,
         CaptureNext, CaptureTests, CaptureWaits, CaptureTransfers,
         CapturePushes, ProcessNext, Open, OpenFails, ProcessTestsRunning,
         ProcessTestsEmpty, ProcessPops, ProcessCloses,
         Irq, IrqWaitReturns, ProcessWakesSpuriously
  <2>4. QED
    BY <2>1, <2>2, <2>3
<1>4. frame' \in Blocks /\ raw' \in Blocks /\ opened' \in BOOLEAN
  <2> USE DEF PipelineTypeOK
  <2>1. CASE MainNext \/ Returned
    BY <2>1 DEF MainNext, MainGivesUp, MainStarts, MainSpawns, MainStops,
                MainJoins, Returned, vars, ownVars
  <2>2. CASE CaptureNext
    BY <2>2 DEF CaptureNext, CaptureTests, CaptureWaits, CaptureTransfers,
                CapturePushes, ownVars
  <2>3. CASE ProcessNext \/ ProcessWakesSpuriously
    BY <2>3 DEF ProcessNext, Open, OpenFails, ProcessTestsRunning,
                ProcessTestsEmpty, ProcessPops, ProcessHandles, ProcessCloses,
                ProcessWakesSpuriously, ownVars
  <2>4. CASE Irq
    BY <2>4, PipelineConstants DEF Irq
  <2>5. CASE IrqWaitReturns
    BY <2>5 DEF IrqWaitReturns
  <2>6. QED
    BY <2>1, <2>2, <2>3, <2>4, <2>5 DEF Next
<1>5. QED
  BY <1>1, <1>2, <1>3, <1>4 DEF PipelineTypeOK

(* main and the capture thread pop nothing and touch no file; the capture  *)
(* thread pushes one block at most after the stop.                         *)
LEMMA MainKeeps ==
  ASSUME PipelineInv, MainNext
  PROVE  FilesFollowQueue' /\ Control'
<1> USE PipelineConstants
    DEF PipelineInv, PipelineTypeOK, QueueTypeOK, Control, StartedBefore,
        KnowsStopped, OpenedFirst, OneMoreBlock, HoldsBlock, FilesFollowQueue,
        Goto, queueVars, ownVars
<1>1. CASE MainGivesUp
  BY <1>1 DEF MainGivesUp
<1>2. CASE MainStarts
  BY <1>2 DEF MainStarts, StartAsync, SetRunAsync
<1>3. CASE MainSpawns(Capture, "spawn", "spawnProcess")
  BY <1>3 DEF MainSpawns
<1>4. CASE MainSpawns(Process, "spawnProcess", "sleep")
  BY <1>4 DEF MainSpawns
<1>5. CASE MainStops
  BY <1>5 DEF MainStops, StopAsync, SetRunAsync
<1>6. CASE MainJoins(Capture, "joinCapture", "joinProcess")
  BY <1>6 DEF MainJoins
<1>7. CASE MainJoins(Process, "joinProcess", "done")
  BY <1>7 DEF MainJoins
<1>8. CASE NotifyAll(Main) /\ UNCHANGED ownVars
  BY <1>8 DEF NotifyAll
<1>9. QED
  BY <1>1, <1>2, <1>3, <1>4, <1>5, <1>6, <1>7, <1>8 DEF MainNext

(* A step of the capture thread: after the processing thread has left, it  *)
(* pushes the block it is reading at most, since it then finds the queue   *)
(* stopped.                                                                *)
LEMMA CaptureKeeps ==
  ASSUME PipelineInv, CaptureNext \/ Irq \/ IrqWaitReturns
  PROVE  FilesFollowQueue' /\ Control'
<1> USE PipelineConstants
    DEF PipelineInv, PipelineTypeOK, QueueTypeOK, Control, StartedBefore,
        KnowsStopped, OpenedFirst, OneMoreBlock, HoldsBlock, FilesFollowQueue,
        Goto, queueVars, ownVars
<1>1. CASE CaptureTests
  BY <1>1 DEF CaptureTests
<1>2. CASE CaptureWaits
  BY <1>2 DEF CaptureWaits
<1>3. CASE CaptureTransfers
  BY <1>3 DEF CaptureTransfers
<1>4. CASE CapturePushes
  <2>1. Len(queue') = Len(queue) + 1
    BY <1>4 DEF CapturePushes, Push
  <2>2. OneMoreBlock'
    BY <1>4, <2>1, EmptySeq DEF CapturePushes, Push
  <2>3. QED
    BY <1>4, <2>2 DEF CapturePushes, Push
<1>5. CASE NotifyOne(Capture) /\ UNCHANGED ownVars
  BY <1>5 DEF NotifyOne
<1>6. CASE Irq
  BY <1>6 DEF Irq
<1>7. CASE IrqWaitReturns
  BY <1>7 DEF IrqWaitReturns
<1>8. QED
  BY <1>1, <1>2, <1>3, <1>4, <1>5, <1>6, <1>7 DEF CaptureNext
(* The processing thread keeps each file one block in hand behind what it  *)
(* popped, and leaves a draining loop only when the queue is stopped and   *)
(* empty.                                                                  *)
LEMMA ProcessKeeps ==
  ASSUME PipelineInv, ProcessNext \/ ProcessWakesSpuriously
  PROVE  FilesFollowQueue' /\ Control'
<1> USE PipelineConstants
    DEF PipelineInv, PipelineTypeOK, QueueTypeOK, Control, StartedBefore,
        KnowsStopped, OpenedFirst, OneMoreBlock, HoldsBlock, FilesFollowQueue,
        Goto, queueVars, ownVars
<1>1. CASE Open
  BY <1>1 DEF Open
<1>2. CASE OpenFails
  BY <1>2 DEF OpenFails
<1>3. CASE ProcessTestsRunning
  BY <1>3 DEF ProcessTestsRunning
<1>4. CASE ProcessTestsEmpty
  BY <1>4 DEF ProcessTestsEmpty, empty
<1>5. CASE ProcessPops
  <2> USE <1>5 DEF ProcessPops
  <2>1. CASE empty /\ run_async /\ Sleep(Process)
    BY <2>1 DEF Sleep
  <2>2. CASE empty /\ ~run_async /\ TakeNothing(Process, "stopped")
    BY <2>2 DEF TakeNothing
  <2>3. ASSUME ~empty, NEW code \in {"running", "draining"},
               Take(Process, code)
        PROVE  FilesFollowQueue' /\ Control'
    <3>1. Head(queue) \in Blocks
      BY <2>3, HeadTailProperties DEF empty
    <3>2. /\ ret'[Process] = [code |-> code, item |-> Head(queue)]
          /\ popped' = Append(popped, Head(queue))
          /\ call'[Process] = "idle"
      BY <2>3 DEF Take
    <3>3. pc' = [pc EXCEPT ![Process] = "process"]
      <4>1. ret'[Process].code = code /\ code # "stopped"
        BY <3>2, <2>3
      <4>2. QED
        BY <3>2, <4>1
    <3>4. ret'[Process].item = Head(queue) /\ pc'[Process] = "process"
      BY <3>2, <3>3
    <3>5. HoldsBlock'
      BY <3>1, <3>4
    <3>6. FilesFollowQueue'
      <4>1. sink' = sink /\ \A f \in Files : popped = sink[f]
        BY <1>5
      <4>2. \A f \in Files : popped' = Append(sink'[f], ret'[Process].item)
        BY <3>2, <3>4, <4>1
      <4>3. QED
        BY <3>4, <4>2
    <3>7. StartedBefore' /\ KnowsStopped' /\ OpenedFirst' /\ OneMoreBlock'
      BY <3>3
    <3>8. QED
      BY <3>5, <3>6, <3>7
  <2>4. QED
    BY <2>1, <2>2, <2>3 DEF WaitPop, Resume, PopOrSleep
<1>6. CASE ProcessHandles
  <2>1. PICK failing \in SUBSET Topics :
          sink' = [s \in Sinks |-> IF s \in failing THEN sink[s]
                                   ELSE Append(sink[s], ret[Process].item)]
    BY <1>6 DEF ProcessHandles
  <2>2. \A f \in Files : sink'[f] = Append(sink[f], ret[Process].item)
    BY <2>1 DEF Sinks
  <2>3. FilesFollowQueue'
    BY <1>6, <2>2 DEF ProcessHandles
  <2>4. Control'
    BY <1>6 DEF ProcessHandles
  <2>5. QED
    BY <2>3, <2>4
<1>7. CASE ProcessCloses
  BY <1>7 DEF ProcessCloses
<1>8. CASE ProcessWakesSpuriously
  BY <1>8 DEF ProcessWakesSpuriously, SpuriousWakeup
<1>9. QED
  BY <1>1, <1>2, <1>3, <1>4, <1>5, <1>6, <1>7, <1>8 DEF ProcessNext

(* Before main starts nothing is queued, written or running.               *)
LEMMA InitPipelineInv == Init => PipelineInv
<1> SUFFICES ASSUME Init PROVE PipelineInv
  OBVIOUS
<1>1. QueueTypeOK /\ Conservation
  BY QueueInitInv DEF Init, QueueInv
<1>2. PipelineTypeOK
  <2>1. pc \in [Threads -> Places]
    BY DEF Init, Places
  <2>2. sink \in [Sinks -> Seq(Blocks)]
    BY DEF Init
  <2>3. frame \in Blocks /\ raw \in Blocks
    BY PipelineConstants DEF Init
  <2>4. QED
    BY <1>1, <2>1, <2>2, <2>3 DEF Init, PipelineTypeOK
<1>3. pc[Process] = "off" /\ opened = FALSE
  BY PipelineConstants DEF Init
<1>4. FilesFollowQueue
  BY <1>3 DEF Init, QueueInit, FilesFollowQueue, Sinks
<1>5. Control
  BY <1>3 DEF Control, StartedBefore, KnowsStopped, OpenedFirst,
              OneMoreBlock, HoldsBlock
<1>6. QED
  BY <1>1, <1>2, <1>4, <1>5 DEF PipelineInv

(* The pipeline's invariant is inductive.                                  *)
LEMMA NextPipelineInv == PipelineInv /\ [Next]_vars => PipelineInv'
<1> SUFFICES ASSUME PipelineInv, [Next]_vars PROVE PipelineInv'
  OBVIOUS
<1>1. CASE UNCHANGED vars
  BY <1>1 DEF vars, queueVars, ownVars, PipelineInv, PipelineTypeOK,
              QueueTypeOK, Conservation, FilesFollowQueue, Control,
              StartedBefore, KnowsStopped, OpenedFirst, OneMoreBlock, HoldsBlock
<1>2. CASE Next
  <2>1. PipelineTypeOK' /\ Conservation'
    BY <1>2, NextTypeOK, NextQueueInv DEF PipelineInv, Control
  <2>2. FilesFollowQueue' /\ Control'
    BY <1>1, <1>2, MainKeeps, CaptureKeeps, ProcessKeeps DEF Next, Returned,
       vars, queueVars, ownVars, PipelineInv, FilesFollowQueue, Control,
       StartedBefore, KnowsStopped, OpenedFirst, OneMoreBlock, HoldsBlock
  <2>3. QED
    BY <2>1, <2>2 DEF PipelineInv
<1>3. QED
  BY <1>1, <1>2

------------------------------------------------------------------------------
(* The inductive invariant holds in every behaviour of the program.        *)
THEOREM PipelineInvariant == Spec => []PipelineInv
<1>1. QED
  BY InitPipelineInv, NextPipelineInv, PTL DEF Spec

(* Every variable of the program has its type in every behaviour.          *)
THEOREM PipelineTypeCorrect == Spec => []PipelineTypeOK
<1>1. PipelineInv => PipelineTypeOK
  BY DEF PipelineInv
<1>2. QED
  BY <1>1, PipelineInvariant, PTL

(* record_all_channels_wav (audio_processor.cpp:126-151) and               *)
(* process_beamforming (matrix_read.cpp:70-154) write every block they pop *)
(* to every file, once and in order.                                       *)
THEOREM FilesAreWhatWasPopped == Spec => []FilesFollowQueue
<1>1. PipelineInv => FilesFollowQueue
  BY DEF PipelineInv
<1>2. QED
  BY <1>1, PipelineInvariant, PTL

(* With drain the files lack at most the last captured block, however the  *)
(* threads, the interrupts and the stop are interleaved.                   *)
THEOREM AtMostOneBlockLost == Spec => []RecordingComplete
<1>1. PipelineInv => RecordingComplete
  <2> SUFFICES ASSUME PipelineInv, BothDone, opened, Drain
               PROVE  /\ Len(queue) <= 1
                      /\ \A f \in Files : pushed = sink[f] \o queue
    BY DEF RecordingComplete
  <2>1. Len(queue) <= 1
    <3>1. queue = <<>> \/ Len(queue) = 1
      BY DEF PipelineInv, Control, OneMoreBlock, BothDone
    <3>2. Len(<<>>) = 0
      OBVIOUS
    <3>3. QED
      BY <3>1, <3>2
  <2>2. ASSUME NEW f \in Files PROVE pushed = sink[f] \o queue
    <3>1. popped = sink[f]
      BY DEF PipelineInv, FilesFollowQueue, BothDone
    <3>2. QED
      BY <3>1 DEF PipelineInv, Conservation
  <2>3. QED
    BY <2>1, <2>2
<1>2. QED
  BY <1>1, PipelineInvariant, PTL

------------------------------------------------------------------------------
(* A block that may follow each of a sequence may come after it.           *)
LEMMA IncreasingAppend ==
  ASSUME NEW s \in Seq(Blocks), NEW b \in Blocks, Increasing(s),
         \A i \in 1 .. Len(s) : MayFollow(s[i], b)
  PROVE  Increasing(Append(s, b))
<1> DEFINE long == Append(s, b)
<1>1. Len(long) = Len(s) + 1 /\ Len(s) \in Nat
  OBVIOUS
<1>2. \A i \in 1 .. Len(s) : long[i] = s[i]
  OBVIOUS
<1>3. long[Len(s) + 1] = b
  OBVIOUS
<1>4. ASSUME NEW i \in 1 .. Len(long), NEW j \in 1 .. Len(long), i < j
      PROVE  MayFollow(long[i], long[j])
  <2>1. i \in 1 .. Len(s)
    BY <1>1, <1>4
  <2>2. CASE j = Len(s) + 1
    BY <1>2, <1>3, <2>1, <2>2
  <2>3. CASE j \in 1 .. Len(s)
    <3>1. MayFollow(s[i], s[j])
      BY <1>4, <2>1, <2>3 DEF Increasing, MayFollow
    <3>2. QED
      BY <1>2, <2>1, <2>3, <3>1
  <2>4. QED
    BY <1>1, <2>2, <2>3
<1>5. QED
  BY <1>4 DEF Increasing, MayFollow

(* The steps that the capture thread's block and frame do not see.         *)
LEMMA OtherStepsKeepFrames ==
  ASSUME PipelineInv, MainNext \/ ProcessNext \/ ProcessWakesSpuriously
  PROVE  /\ UNCHANGED <<raw, frame, pushed>>
         /\ pc'[Capture] = pc[Capture] \/ pc'[Capture] = "begin"
<1> USE PipelineConstants DEF PipelineInv, PipelineTypeOK, Goto, queueVars, ownVars
<1>1. CASE MainNext
  BY <1>1 DEF MainNext, MainGivesUp, MainStarts, MainSpawns, MainStops,
              MainJoins, StartAsync, StopAsync, SetRunAsync, NotifyAll
<1>2. CASE Open \/ OpenFails \/ ProcessTestsRunning \/ ProcessTestsEmpty
  BY <1>2 DEF Open, OpenFails, ProcessTestsRunning, ProcessTestsEmpty
<1>3. CASE ProcessPops
  BY <1>3 DEF ProcessPops, WaitPop, Resume, PopOrSleep, Sleep, TakeNothing, Take
<1>4. CASE ProcessHandles \/ ProcessCloses
  BY <1>4 DEF ProcessHandles, ProcessCloses
<1>5. CASE ProcessWakesSpuriously
  BY <1>5 DEF ProcessWakesSpuriously, SpuriousWakeup
<1>6. QED
  BY <1>1, <1>2, <1>3, <1>4, <1>5 DEF ProcessNext

(* An interrupt brings a new frame, the transfer copies it, and the push   *)
(* puts it behind the blocks it may follow.                                *)
LEMMA NextFramesAdvance ==
  ASSUME PipelineInv, FramesAdvance, Increasing(pushed), Next
  PROVE  FramesAdvance' /\ Increasing(pushed)'
<1> USE PipelineConstants DEF Goto
<1>1. /\ raw \in Nat /\ frame \in Nat /\ frame <= MaxFrame
      /\ pushed \in Seq(Blocks) /\ pc \in [Threads -> Places]
      /\ \A i \in 1 .. Len(pushed) : pushed[i] \in Nat
  BY DEF PipelineInv, PipelineTypeOK, QueueTypeOK
<1>2. CASE MainNext \/ ProcessNext \/ ProcessWakesSpuriously
  <2>1. UNCHANGED <<raw, frame, pushed>>
    BY <1>2, OtherStepsKeepFrames
  <2>2. pc'[Capture] = pc[Capture] \/ pc'[Capture] = "begin"
    BY <1>2, OtherStepsKeepFrames
  <2>3. QED
    BY <2>1, <2>2 DEF FramesAdvance, Increasing, MayFollow
<1>3. CASE CaptureTests \/ CaptureWaits \/ (NotifyOne(Capture) /\ UNCHANGED ownVars)
  <2>1. UNCHANGED <<raw, frame, pushed>>
    BY <1>3 DEF CaptureTests, CaptureWaits, NotifyOne, ownVars, queueVars
  <2>2. pc'[Capture] = pc[Capture] \/ pc'[Capture] \in {"read", "done", "irqWait"}
    BY <1>1, <1>3 DEF CaptureTests, CaptureWaits, ownVars
  <2>3. QED
    BY <2>1, <2>2 DEF FramesAdvance, Increasing, MayFollow
<1>4. CASE CaptureTransfers
  <2>1. UNCHANGED <<frame, pushed>> /\ pc'[Capture] = "push" /\ pc[Capture] = "transfer"
    BY <1>1, <1>4 DEF CaptureTransfers, queueVars
  <2>2. raw' = frame \/ (BusMayFail /\ raw' = raw)
    BY <1>4 DEF CaptureTransfers
  <2>3. raw <= frame
    BY DEF FramesAdvance
  <2>4. raw < frame \/ frame = MaxFrame \/ BusMayFail \/ SpuriousIrq
    BY <2>1 DEF FramesAdvance
  <2>5. ASSUME NEW i \in 1 .. Len(pushed)
        PROVE  pushed[i] <= raw' /\ MayFollow(pushed[i], raw')
    <3>1. pushed[i] <= raw /\ pushed[i] \in Nat
      BY <1>1 DEF FramesAdvance
    <3>2. CASE raw' = frame
      <4>1. CASE frame = MaxFrame
        BY <1>1, <2>3, <3>1, <3>2, <4>1 DEF MayFollow
      <4>2. CASE raw < frame
        BY <1>1, <3>1, <3>2, <4>2 DEF MayFollow
      <4>3. CASE BusMayFail \/ SpuriousIrq
        BY <1>1, <2>3, <3>1, <3>2, <4>3 DEF MayFollow
      <4>4. QED
        BY <2>4, <4>1, <4>2, <4>3
    <3>3. CASE BusMayFail /\ raw' = raw
      BY <1>1, <3>1, <3>3 DEF MayFollow
    <3>4. QED
      BY <2>2, <3>2, <3>3
  <2>6. raw' <= frame'
    BY <1>1, <2>1, <2>2, <2>3
  <2>7. Increasing(pushed)'
    BY <2>1 DEF Increasing
  <2>8. QED
    BY <2>1, <2>5, <2>6, <2>7 DEF FramesAdvance, MayFollow
<1>5. CASE CapturePushes
  <2>1. /\ UNCHANGED <<frame, raw>>
        /\ pushed' = Append(pushed, raw)
        /\ pc[Capture] = "push" /\ pc'[Capture] = "test"
    BY <1>1, <1>5 DEF CapturePushes, Push
  <2>2. Increasing(pushed)'
    <3>1. raw \in Blocks
      BY DEF PipelineInv, PipelineTypeOK
    <3>2. \A i \in 1 .. Len(pushed) : MayFollow(pushed[i], raw)
      BY <2>1 DEF FramesAdvance
    <3>3. Increasing(Append(pushed, raw))
      BY <1>1, <3>1, <3>2, IncreasingAppend
    <3>4. QED
      BY <2>1, <3>3 DEF Increasing
  <2>3. \A i \in 1 .. Len(pushed') : pushed'[i] <= raw
    BY <1>1, <2>1 DEF FramesAdvance
  <2>4. QED
    BY <2>1, <2>2, <2>3 DEF FramesAdvance
<1>6. CASE Irq
  <2>1. UNCHANGED <<raw, pushed>>
    BY <1>6 DEF Irq, queueVars
  <2>2. pc'[Capture] = "push" => pc[Capture] = "push"
    BY <1>1, <1>6 DEF Irq
  <2>3. frame' = IF frame < MaxFrame THEN frame + 1 ELSE frame
    BY <1>6 DEF Irq
  <2>4. raw <= frame
    BY DEF FramesAdvance
  <2>5. raw <= frame' /\ (raw < frame' \/ frame' = MaxFrame)
    BY <1>1, <2>3, <2>4
  <2>6. QED
    BY <2>1, <2>2, <2>5 DEF FramesAdvance, Increasing, MayFollow
<1>7. CASE IrqWaitReturns
  <2>1. UNCHANGED <<raw, frame, pushed>> /\ pc'[Capture] = "transfer" /\ SpuriousIrq
    BY <1>1, <1>7 DEF IrqWaitReturns, queueVars
  <2>2. QED
    BY <2>1 DEF FramesAdvance, Increasing
<1>8. CASE Returned
  BY <1>8 DEF Returned, vars, queueVars, ownVars, FramesAdvance, Increasing, MayFollow
<1>9. QED
  BY <1>2, <1>3, <1>4, <1>5, <1>6, <1>7, <1>8 DEF Next, CaptureNext

(* The steps that leave the popped blocks and the sinks alone.             *)
LEMMA OtherStepsKeepSinks ==
  ASSUME PipelineInv, MainNext \/ CaptureNext \/ Irq \/ IrqWaitReturns \/ Returned
  PROVE  /\ UNCHANGED <<popped, sink, ret>>
         /\ pc'[Process] = "process" <=> pc[Process] = "process"
<1> USE PipelineConstants DEF PipelineInv, PipelineTypeOK, Goto, queueVars, ownVars
<1>1. CASE MainNext
  <2>1. UNCHANGED <<popped, sink, ret>>
    BY <1>1 DEF MainNext, MainGivesUp, MainStarts, MainSpawns, MainStops,
                MainJoins, StartAsync, StopAsync, SetRunAsync, NotifyAll
  <2>2. CASE MainSpawns(Process, "spawnProcess", "sleep")
    BY <2>1, <2>2 DEF MainSpawns, Control, StartedBefore
  <2>3. CASE ~MainSpawns(Process, "spawnProcess", "sleep")
    BY <1>1, <2>1, <2>3 DEF MainNext, MainGivesUp, MainStarts, MainSpawns,
       MainStops, MainJoins
  <2>4. QED
    BY <2>2, <2>3
<1>2. CASE CaptureNext
  BY <1>2 DEF CaptureNext, CaptureTests, CaptureWaits, CaptureTransfers,
              CapturePushes, Push, NotifyOne
<1>3. CASE Irq \/ IrqWaitReturns \/ Returned
  BY <1>3 DEF Irq, IrqWaitReturns, Returned, vars
<1>4. QED
  BY <1>1, <1>2, <1>3

(* A sink that gains a handled block, younger than those it has, is still  *)
(* in order: what was popped comes in the order it was pushed.             *)
LEMMA PoppedInOrder ==
  ASSUME PipelineInv, Increasing(pushed),
         NEW j \in 1 .. Len(popped), NEW i \in 1 .. Len(popped), i < j
  PROVE  MayFollow(popped[i], popped[j])
<1>1. pushed = popped \o queue /\ popped \in Seq(Blocks) /\ queue \in Seq(Blocks)
  BY DEF PipelineInv, PipelineTypeOK, QueueTypeOK, Conservation
<1>2. Len(pushed) = Len(popped) + Len(queue)
  BY <1>1
<1>3. pushed[i] = popped[i] /\ pushed[j] = popped[j]
  BY <1>1
<1>4. i \in 1 .. Len(pushed) /\ j \in 1 .. Len(pushed)
  BY <1>1, <1>2
<1>5. QED
  BY <1>3, <1>4 DEF Increasing, MayFollow

(* The processing thread takes the oldest block and hands it on; a file or *)
(* topic gets the blocks in the order they were popped.                    *)
LEMMA NextSinks ==
  ASSUME OrderInv, Next
  PROVE  /\ HoldsLastPopped' /\ SinksWereHandled'
         /\ \A s \in Sinks : Increasing(sink[s])'
<1> USE PipelineConstants
<1>1. /\ PipelineInv /\ HoldsLastPopped /\ SinksWereHandled
      /\ Increasing(pushed) /\ \A s \in Sinks : Increasing(sink[s])
      /\ pc \in [Threads -> Places] /\ popped \in Seq(Blocks)
      /\ sink \in [Sinks -> Seq(Blocks)]
  BY DEF OrderInv, CapturedInOrder, PipelineInv, PipelineTypeOK, QueueTypeOK
<1>2. ASSUME UNCHANGED <<popped, sink, ret>>,
             pc'[Process] = "process" <=> pc[Process] = "process"
      PROVE  /\ HoldsLastPopped' /\ SinksWereHandled'
             /\ \A s \in Sinks : Increasing(sink[s])'
  BY <1>1, <1>2 DEF HoldsLastPopped, SinksWereHandled, Handled, Increasing
<1>3. CASE MainNext \/ CaptureNext \/ Irq \/ IrqWaitReturns \/ Returned
  BY <1>1, <1>2, <1>3, OtherStepsKeepSinks
<1>4. CASE Open \/ OpenFails \/ ProcessTestsRunning \/ ProcessTestsEmpty
             \/ ProcessCloses \/ ProcessWakesSpuriously
  <2>1. UNCHANGED <<popped, sink, ret>>
    BY <1>4 DEF Open, OpenFails, ProcessTestsRunning, ProcessTestsEmpty,
       ProcessCloses, ProcessWakesSpuriously, SpuriousWakeup, queueVars, ownVars
  <2>2. pc'[Process] = "process" <=> pc[Process] = "process"
    BY <1>1, <1>4 DEF Open, OpenFails, ProcessTestsRunning, ProcessTestsEmpty,
       ProcessCloses, ProcessWakesSpuriously, ownVars, Goto
  <2>3. QED
    BY <1>2, <2>1, <2>2
<1>5. CASE ProcessPops
  <2>1. /\ pc[Process] = "waitPop" /\ sink' = sink
        /\ PopOrSleep(Process)
        /\ pc' = [pc EXCEPT ![Process] =
              IF call'[Process] = "asleep" THEN "waitPop"
              ELSE IF ret'[Process].code = "stopped" THEN "test"
              ELSE "process"]
    BY <1>5 DEF ProcessPops, WaitPop, Resume
  <2>2. call \in [Threads -> Phases] /\ ret \in [Threads -> Results]
    BY <1>1 DEF PipelineInv, PipelineTypeOK, QueueTypeOK
  <2>3. Handled = Len(popped)
    BY <2>1 DEF Handled
  <2>4. ASSUME popped' = popped, pc'[Process] # "process"
        PROVE  HoldsLastPopped' /\ SinksWereHandled'
    BY <1>1, <2>1, <2>3, <2>4 DEF HoldsLastPopped, SinksWereHandled, Handled
  <2>5. CASE empty /\ run_async /\ Sleep(Process)
    <3>1. popped' = popped /\ call'[Process] = "asleep"
      BY <2>2, <2>5 DEF Sleep
    <3>2. QED
      BY <1>1, <2>1, <2>4, <3>1 DEF Increasing
  <2>6. CASE empty /\ ~run_async /\ TakeNothing(Process, "stopped")
    <3>1. popped' = popped /\ call'[Process] = "idle"
          /\ ret'[Process].code = "stopped"
      BY <2>2, <2>6 DEF TakeNothing, Results
    <3>2. QED
      BY <1>1, <2>1, <2>4, <3>1 DEF Increasing
  <2>7. ASSUME NEW code \in {"running", "draining"}, Take(Process, code), ~empty
        PROVE  HoldsLastPopped' /\ SinksWereHandled'
    <3>1. /\ popped' = Append(popped, Head(queue))
          /\ ret'[Process] = [code |-> code, item |-> Head(queue)]
          /\ call'[Process] = "idle"
      BY <2>2, <2>7 DEF Take
    <3>2. ret'[Process].code = code /\ ret'[Process].item = Head(queue) /\ code # "stopped"
      BY <2>7, <3>1
    <3>3. pc'[Process] = "process"
      BY <1>1, <2>1, <3>1, <3>2
    <3>4. Head(queue) \in Blocks
      BY <1>1, <2>7, HeadTailProperties
         DEF PipelineInv, PipelineTypeOK, QueueTypeOK, empty
    <3>5. /\ Len(popped') = Len(popped) + 1
          /\ popped'[Len(popped) + 1] = Head(queue)
          /\ \A k \in 1 .. Len(popped) : popped'[k] = popped[k]
      BY <1>1, <3>1, <3>4
    <3>6. HoldsLastPopped'
      <4>1. popped' # <<>>
        BY <1>1, <3>1
      <4>2. QED
        BY <3>2, <3>5, <4>1 DEF HoldsLastPopped
    <3>7. Handled' = Len(popped)
      BY <1>1, <3>3, <3>5 DEF Handled
    <3>8. SinksWereHandled'
      BY <1>1, <2>1, <2>3, <3>5, <3>7 DEF SinksWereHandled
    <3>9. QED
      BY <3>6, <3>8
  <2>8. \A s \in Sinks : Increasing(sink[s])'
    BY <1>1, <2>1 DEF Increasing
  <2>9. QED
    BY <2>1, <2>5, <2>6, <2>7, <2>8 DEF PopOrSleep
<1>6. CASE ProcessHandles
  <2>1. /\ popped' = popped /\ pc[Process] = "process" /\ pc'[Process] = "test"
    BY <1>1, <1>6 DEF ProcessHandles, Goto, queueVars
  <2>2. PICK failing \in SUBSET Topics :
          sink' = [s \in Sinks |-> IF s \in failing THEN sink[s]
                                   ELSE Append(sink[s], ret[Process].item)]
    BY <1>6 DEF ProcessHandles
  <2>3. /\ popped # <<>> /\ ret[Process].item = popped[Len(popped)]
        /\ Len(popped) \in Nat \ {0}
    BY <1>1, <2>1, EmptySeq DEF HoldsLastPopped
  <2>4. Handled = Len(popped) - 1 /\ Handled' = Len(popped)
    BY <2>1 DEF Handled
  <2>5. HoldsLastPopped'
    BY <2>1 DEF HoldsLastPopped
  <2>6. ASSUME NEW s \in Sinks
        PROVE  /\ \A i \in 1 .. Len(sink'[s]) :
                    \E k \in 1 .. Handled' : sink'[s][i] = popped'[k]
               /\ Increasing(sink'[s])
    <3>1. \A i \in 1 .. Len(sink[s]) :
            \E k \in 1 .. Len(popped) - 1 : sink[s][i] = popped[k]
      BY <1>1, <2>4 DEF SinksWereHandled
    <3>2. CASE sink'[s] = sink[s]
      <4>1. Increasing(sink'[s])
        BY <1>1, <3>2
      <4>2. ASSUME NEW i \in 1 .. Len(sink[s])
            PROVE  \E k \in 1 .. Len(popped) : sink[s][i] = popped[k]
        <5>1. PICK k \in 1 .. Len(popped) - 1 : sink[s][i] = popped[k]
          BY <3>1
        <5>2. k \in 1 .. Len(popped)
          BY <2>3
        <5>3. QED
          BY <5>1, <5>2
      <4>3. QED
        BY <2>1, <2>4, <3>2, <4>1, <4>2
    <3>3. CASE sink'[s] = Append(sink[s], popped[Len(popped)])
      <4>1. popped[Len(popped)] \in Blocks /\ sink[s] \in Seq(Blocks)
        BY <1>1, <2>3
      <4>2. ASSUME NEW i \in 1 .. Len(sink[s])
            PROVE  MayFollow(sink[s][i], popped[Len(popped)])
        <5>1. PICK k \in 1 .. Len(popped) - 1 : sink[s][i] = popped[k]
          BY <3>1
        <5>2. k \in 1 .. Len(popped) /\ Len(popped) \in 1 .. Len(popped) /\ k < Len(popped)
          BY <2>3
        <5>3. MayFollow(popped[k], popped[Len(popped)])
          BY <1>1, <5>2, PoppedInOrder
        <5>4. QED
          BY <5>1, <5>3
      <4>3. Increasing(sink'[s])
        BY <1>1, <3>3, <4>1, <4>2, IncreasingAppend
      <4>4. ASSUME NEW i \in 1 .. Len(sink'[s])
            PROVE  \E k \in 1 .. Len(popped) : sink'[s][i] = popped[k]
        <5>1. CASE i \in 1 .. Len(sink[s])
          <6>1. sink'[s][i] = sink[s][i]
            BY <3>3, <4>1, <5>1
          <6>2. QED
            BY <2>3, <3>1, <5>1, <6>1
        <5>2. CASE i = Len(sink[s]) + 1
          BY <2>3, <3>3, <4>1, <5>2
        <5>3. QED
          BY <3>3, <4>1, <5>1, <5>2
      <4>5. QED
        BY <2>1, <2>4, <4>3, <4>4
    <3>4. QED
      BY <2>2, <2>3, <3>2, <3>3
  <2>7. QED
    BY <2>5, <2>6 DEF SinksWereHandled, Increasing
<1>7. QED
  BY <1>3, <1>4, <1>5, <1>6 DEF Next, ProcessNext

(* The order of the blocks is inductive on top of the pipeline's invariant.*)
LEMMA NextOrderInv == OrderInv /\ [Next]_vars => OrderInv'
<1> SUFFICES ASSUME OrderInv, [Next]_vars PROVE OrderInv'
  OBVIOUS
<1>1. PipelineInv'
  BY NextPipelineInv DEF OrderInv
<1>2. CASE UNCHANGED vars
  BY <1>1, <1>2 DEF vars, queueVars, ownVars, OrderInv, FramesAdvance,
     MayFollow, HoldsLastPopped, SinksWereHandled, Handled, CapturedInOrder,
     Increasing
<1>3. CASE Next
  <2>1. FramesAdvance' /\ Increasing(pushed)'
    BY <1>3, NextFramesAdvance DEF OrderInv, CapturedInOrder
  <2>2. /\ HoldsLastPopped' /\ SinksWereHandled'
        /\ \A s \in Sinks : Increasing(sink[s])'
    BY <1>3, NextSinks
  <2>3. QED
    BY <1>1, <2>1, <2>2 DEF OrderInv, CapturedInOrder
<1>4. QED
  BY <1>2, <1>3

(* At first nothing is pushed, popped or written.                          *)
LEMMA InitOrderInv == Init => OrderInv
<1> SUFFICES ASSUME Init PROVE OrderInv
  OBVIOUS
<1>1. PipelineInv
  BY InitPipelineInv
<1>2. pushed = <<>> /\ popped = <<>> /\ raw = 0 /\ frame = 0
  BY DEF Init, QueueInit
<1>3. pc[Capture] \in {"start", "off"} /\ pc[Process] = "off"
  BY PipelineConstants DEF Init
<1>4. \A s \in Sinks : sink[s] = <<>>
  BY DEF Init
<1>5. FramesAdvance
  BY <1>2, <1>3 DEF FramesAdvance
<1>6. HoldsLastPopped /\ SinksWereHandled
  BY <1>3, <1>4 DEF HoldsLastPopped, SinksWereHandled
<1>7. CapturedInOrder
  BY <1>2, <1>4 DEF CapturedInOrder, Increasing
<1>8. QED
  BY <1>1, <1>5, <1>6, <1>7 DEF OrderInv

(* capture_audio (audio_processor.cpp:77-94) pushes, and every file and    *)
(* topic receives, blocks that never go back in time; with a bus and a     *)
(* wait that behave, no frame is captured twice, although                  *)
(* MicrophoneArray::Read waits with no predicate.                          *)
THEOREM CapturedOnceInOrder == Spec => []CapturedInOrder
<1>1. OrderInv => CapturedInOrder
  BY DEF OrderInv
<1>2. QED
  BY <1>1, InitOrderInv, NextOrderInv, PTL DEF Spec
------------------------------------------------------------------------------
(* What the recording is made of, seen from the program.                   *)
Over == opened /\ pc[Process] = "done"

(* A step that pushes nothing, hands nothing to the sinks and does not end *)
(* the recording is none of the recording.                                 *)
LEMMA NotOfRecording ==
  ASSUME UNCHANGED <<pushed, sink>>, Handled' = Handled, Over' = Over
  PROVE  UNCHANGED R!recordingVars
  BY DEF R!recordingVars, Over

(* When the recording is over, at most one block was not handled.          *)
LEMMA OverLosesOne ==
  ASSUME OrderInv'
  PROVE  R!LosesOne'
<1>1. /\ pushed' = popped' \o queue' /\ popped' \in Seq(Blocks) /\ queue' \in Seq(Blocks)
      /\ OneMoreBlock'
  BY DEF OrderInv, PipelineInv, PipelineTypeOK, QueueTypeOK, Conservation, Control
<1>2. ASSUME Over', Drain
      PROVE  Len(pushed') <= Handled' + 1
  <2>1. Len(queue') <= 1 /\ Handled' = Len(popped')
    BY <1>1, <1>2 DEF Over, OneMoreBlock, Handled
  <2>2. Len(pushed') = Len(popped') + Len(queue')
    BY <1>1
  <2>3. QED
    BY <1>1, <2>1, <2>2
<1>3. QED
  BY <1>2 DEF R!LosesOne, Over

(* The steps of the other threads, but for the push.                       *)
LEMMA OthersDoNotRecord ==
  ASSUME PipelineInv, MainNext \/ CaptureNext \/ Irq \/ IrqWaitReturns \/ Returned,
         ~CapturePushes
  PROVE  UNCHANGED R!recordingVars
<1>1. UNCHANGED <<popped, sink>> /\ (pc'[Process] = "process" <=> pc[Process] = "process")
  BY OtherStepsKeepSinks
<1>2. Handled' = Handled
  BY <1>1 DEF Handled
<1>3. pushed' = pushed /\ opened' = opened
  BY DEF MainNext, MainGivesUp, MainStarts, MainSpawns, MainStops, MainJoins, StartAsync,
         StopAsync, SetRunAsync, NotifyAll, CaptureNext, CaptureTests, CaptureWaits,
         CaptureTransfers, NotifyOne, Irq, IrqWaitReturns, Returned, vars, queueVars, ownVars
<1>4. opened => (pc'[Process] = "done" <=> pc[Process] = "done")
  <2> USE PipelineConstants DEF PipelineInv, PipelineTypeOK, Goto, queueVars, ownVars,
          Control, StartedBefore, OpenedFirst
  <2>1. CASE MainNext
    BY <2>1 DEF MainNext, MainGivesUp, MainStarts, MainSpawns, MainStops, MainJoins
  <2>2. CASE CaptureNext
    BY <2>2 DEF CaptureNext, CaptureTests, CaptureWaits, CaptureTransfers, CapturePushes
  <2>3. CASE Irq \/ IrqWaitReturns \/ Returned
    BY <2>3 DEF Irq, IrqWaitReturns, Returned, vars
  <2>4. QED
    BY <2>1, <2>2, <2>3
<1>5. Over' = Over
  BY <1>3, <1>4 DEF Over
<1>6. QED
  BY <1>1, <1>2, <1>3, <1>5, NotOfRecording

(* A push is a block captured.                                             *)
LEMMA PushCaptures ==
  ASSUME PipelineTypeOK, CapturePushes
  PROVE  \E b \in Blocks : R!CaptureBlock(b)
<1>1. /\ pushed' = Append(pushed, raw) /\ raw \in Blocks
      /\ UNCHANGED <<popped, sink, opened>> /\ pc'[Process] = pc[Process]
  BY PipelineConstants DEF CapturePushes, Push, Goto, PipelineTypeOK
<1>2. Handled' = Handled /\ Over' = Over
  BY <1>1 DEF Handled, Over
<1>3. R!CaptureBlock(raw)
  BY <1>1, <1>2 DEF R!CaptureBlock, Over
<1>4. QED
  BY <1>1, <1>3

(* The block that the processing thread writes and publishes is the next   *)
(* one: the last popped, which is as far behind in what was pushed.        *)
LEMMA HandlingHandles ==
  ASSUME PipelineInv, HoldsLastPopped, ProcessHandles
  PROVE  \E missing \in SUBSET Topics : R!HandleBlock(missing)
<1>1. /\ pushed = popped \o queue /\ popped \in Seq(Blocks) /\ queue \in Seq(Blocks)
      /\ pc \in [Threads -> Places] /\ Process \in Threads
  BY PipelineConstants
     DEF PipelineInv, PipelineTypeOK, QueueTypeOK, Conservation
<1>2. /\ pc[Process] = "process" /\ pc'[Process] = "test"
      /\ UNCHANGED <<pushed, popped, opened>>
  BY <1>1 DEF ProcessHandles, Goto, queueVars
<1>3. /\ popped # <<>> /\ ret[Process].item = popped[Len(popped)]
  BY <1>2 DEF HoldsLastPopped
<1>4. Handled = Len(popped) - 1 /\ Handled' = Len(popped)
  BY <1>2 DEF Handled
<1>5. /\ Handled' = Handled + 1 /\ Handled < Len(pushed)
      /\ pushed[Handled'] = ret[Process].item
  BY <1>1, <1>3, <1>4
<1>6. PICK missing \in SUBSET Topics :
        sink' = [s \in Sinks |-> IF s \in missing THEN sink[s]
                                 ELSE Append(sink[s], ret[Process].item)]
  BY DEF ProcessHandles
<1>7. ~Over /\ Over' = Over
  BY <1>2 DEF Over
<1>8. R!HandleBlock(missing)
  BY <1>2, <1>5, <1>6, <1>7 DEF R!HandleBlock, Over
<1>9. QED
  BY <1>8

(* A pop changes hands: the block that is popped is not handled yet.       *)
LEMMA PopDoesNotRecord ==
  ASSUME PipelineTypeOK, ProcessPops
  PROVE  UNCHANGED R!recordingVars
<1>1. /\ pc \in [Threads -> Places] /\ Process \in Threads
      /\ popped \in Seq(Blocks) /\ queue \in Seq(Blocks)
      /\ call \in [Threads -> Phases] /\ ret \in [Threads -> Results]
  BY PipelineConstants DEF PipelineTypeOK, QueueTypeOK
<1>2. /\ pc[Process] = "waitPop" /\ UNCHANGED <<sink, opened>>
      /\ PopOrSleep(Process)
      /\ pc' = [pc EXCEPT ![Process] =
                  IF call'[Process] = "asleep" THEN "waitPop"
                  ELSE IF ret'[Process].code = "stopped" THEN "test"
                  ELSE "process"]
  BY DEF ProcessPops, WaitPop, Resume
<1>3. Over' = Over
  BY <1>1, <1>2 DEF Over
<1>4. Handled = Len(popped)
  BY <1>2 DEF Handled
<1>5. pushed' = pushed
  BY <1>2 DEF PopOrSleep, Sleep, TakeNothing, Take
<1>6. CASE empty /\ run_async /\ Sleep(Process)
  <2>1. popped' = popped /\ call'[Process] = "asleep"
    BY <1>1, <1>6 DEF Sleep
  <2>2. Handled' = Handled
    BY <1>1, <1>2, <1>4, <2>1 DEF Handled
  <2>3. QED
    BY <1>2, <1>3, <1>5, <2>2, NotOfRecording
<1>7. CASE empty /\ ~run_async /\ TakeNothing(Process, "stopped")
  <2>1. popped' = popped /\ call'[Process] = "idle" /\ ret'[Process].code = "stopped"
    BY <1>1, <1>7 DEF TakeNothing, Results
  <2>2. Handled' = Handled
    BY <1>1, <1>2, <1>4, <2>1 DEF Handled
  <2>3. QED
    BY <1>2, <1>3, <1>5, <2>2, NotOfRecording
<1>8. ASSUME NEW code \in {"running", "draining"}, Take(Process, code), ~empty
      PROVE  UNCHANGED R!recordingVars
  <2>1. /\ popped' = Append(popped, Head(queue))
        /\ ret'[Process] = [code |-> code, item |-> Head(queue)]
        /\ call'[Process] = "idle"
    BY <1>1, <1>8 DEF Take
  <2>2. ret'[Process].code # "stopped"
    BY <1>8, <2>1
  <2>3. pc'[Process] = "process"
    BY <1>1, <1>2, <2>1, <2>2
  <2>4. Len(popped') = Len(popped) + 1 /\ Len(popped) \in Nat
    BY <1>1, <2>1
  <2>5. Handled' = Handled
    BY <1>4, <2>3, <2>4 DEF Handled
  <2>6. QED
    BY <1>2, <1>3, <1>5, <2>5, NotOfRecording
<1>9. QED
  BY <1>2, <1>6, <1>7, <1>8 DEF PopOrSleep

(* What is left of the processing thread: its tests, and how it begins and *)
(* ends.                                                                   *)
LEMMA EndsRecord ==
  ASSUME PipelineInv,
         \/ Open \/ OpenFails \/ ProcessTestsRunning \/ ProcessTestsEmpty
         \/ ProcessCloses \/ ProcessWakesSpuriously
  PROVE  R!CloseRecording \/ UNCHANGED R!recordingVars
<1>1. pc \in [Threads -> Places] /\ Process \in Threads /\ OpenedFirst
  BY PipelineConstants DEF PipelineInv, PipelineTypeOK, Control
<1>2. UNCHANGED <<pushed, popped, sink>>
  BY DEF Open, OpenFails, ProcessTestsRunning, ProcessTestsEmpty, ProcessCloses,
         ProcessWakesSpuriously, SpuriousWakeup, queueVars, ownVars
<1>3. pc'[Process] = "process" <=> pc[Process] = "process"
  BY <1>1 DEF Open, OpenFails, ProcessTestsRunning, ProcessTestsEmpty, ProcessCloses,
              ProcessWakesSpuriously, ownVars, Goto
<1>4. Handled' = Handled
  BY <1>2, <1>3 DEF Handled
<1>5. CASE ProcessCloses
  <2>1. pc[Process] = "close" /\ pc'[Process] = "done" /\ opened' = opened
    BY <1>1, <1>5 DEF ProcessCloses, Goto
  <2>2. CASE opened
    BY <1>2, <1>4, <2>1, <2>2 DEF R!CloseRecording, Over
  <2>3. CASE ~opened
    <3>1. Over' = Over
      BY <2>1, <2>3 DEF Over
    <3>2. QED
      BY <1>2, <1>4, <3>1, NotOfRecording
  <2>4. QED
    BY <2>2, <2>3
<1>6. CASE ~ProcessCloses
  <2>1. CASE Open \/ OpenFails
    <3>1. pc[Process] = "begin" /\ ~opened
      BY <1>1, <2>1 DEF Open, OpenFails, Goto, OpenedFirst
    <3>2. opened' => pc'[Process] = "test"
      BY <1>1, <2>1, <3>1 DEF Open, OpenFails, Goto
    <3>3. Over' = Over
      BY <3>1, <3>2 DEF Over
    <3>4. QED
      BY <1>2, <1>4, <3>3, NotOfRecording
  <2>2. CASE ProcessTestsRunning \/ ProcessTestsEmpty
    <3>1. pc[Process] # "done" /\ pc'[Process] # "done"
      BY <1>1, <2>2 DEF ProcessTestsRunning, ProcessTestsEmpty, Goto
    <3>2. Over' = Over
      BY <3>1 DEF Over
    <3>3. QED
      BY <1>2, <1>4, <3>2, NotOfRecording
  <2>3. CASE ProcessWakesSpuriously
    <3>1. Over' = Over
      BY <2>3 DEF ProcessWakesSpuriously, ownVars, Over
    <3>2. QED
      BY <1>2, <1>4, <3>1, NotOfRecording
  <2>4. QED
    BY <1>6, <2>1, <2>2, <2>3
<1>7. QED
  BY <1>5, <1>6

(* Every step of the program is one of the recording, or none.             *)
LEMMA NextRecords ==
  ASSUME OrderInv, OrderInv', [Next]_vars
  PROVE  [R!RecordingNext]_(R!recordingVars)
<1>1. PipelineInv /\ PipelineTypeOK /\ HoldsLastPopped /\ R!LosesOne'
  <2>1. R!LosesOne'
    BY OverLosesOne
  <2>2. QED
    BY <2>1 DEF OrderInv, PipelineInv
<1>2. CASE CapturePushes
  BY <1>1, <1>2, PushCaptures DEF R!RecordingNext
<1>3. CASE ProcessHandles
  BY <1>1, <1>3, HandlingHandles DEF R!RecordingNext
<1>4. CASE ProcessPops
  BY <1>1, <1>4, PopDoesNotRecord
<1>5. CASE /\ ~CapturePushes
           /\ MainNext \/ CaptureNext \/ Irq \/ IrqWaitReturns \/ Returned
  BY <1>1, <1>5, OthersDoNotRecord
<1>6. CASE \/ Open \/ OpenFails \/ ProcessTestsRunning \/ ProcessTestsEmpty
           \/ ProcessCloses \/ ProcessWakesSpuriously
  BY <1>1, <1>6, EndsRecord DEF R!RecordingNext
<1>7. CASE UNCHANGED vars
  BY <1>7 DEF vars, queueVars, ownVars, R!recordingVars, Handled
<1>8. QED
  BY <1>2, <1>3, <1>4, <1>5, <1>6, <1>7 DEF Next, ProcessNext

(* The three programs, with their threads, interrupts and queue, implement *)
(* the abstract recording, for any files, topics and number of frames: no  *)
(* block is skipped, repeated or reordered, and one at most is lost at the *)
(* end of a recording that drains.                                         *)
THEOREM PipelineImplementsRecording == Spec => ImplementsRecording
<1>1. Init => R!RecordingInit
  BY PipelineConstants DEF Init, QueueInit, R!RecordingInit, Handled
<1>2. OrderInv /\ OrderInv' /\ [Next]_vars => [R!RecordingNext]_(R!recordingVars)
  BY NextRecords
<1>3. Spec => []OrderInv
  BY InitOrderInv, NextOrderInv, PTL DEF Spec
<1>4. QED
  BY <1>1, <1>2, <1>3, PTL DEF Spec, ImplementsRecording, R!RecordingSpec
------------------------------------------------------------------------------
(* What of the queue's own guarantees is left in this program, whose       *)
(* process_beamforming also writes run_async with no lock and tells nobody.*)

(* Nobody but the processing thread ever waits, and only in its loop: not  *)
(* where the files fail to open.                                           *)
OnlyProcessWaits ==
  \A t \in Threads :
    call[t] \in {"asleep", "awake"} => t = Process /\ pc[t] = "waitPop"

SleeperInv == QueueInv /\ OnlyProcessWaits

(* main and the capture thread, the interrupts and the spurious wakeups    *)
(* neither go to sleep nor move the thread that does.                      *)
LEMMA OthersDoNotWait ==
  ASSUME PipelineInv, OnlyProcessWaits,
         \/ MainNext \/ CaptureNext \/ Irq \/ IrqWaitReturns \/ Returned
         \/ ProcessWakesSpuriously
  PROVE  OnlyProcessWaits'
<1> USE PipelineConstants
    DEF PipelineInv, PipelineTypeOK, QueueTypeOK, Control, StartedBefore,
        OnlyProcessWaits, Goto, queueVars, ownVars
<1>1. CASE MainNext
  <2>1. CASE MainGivesUp \/ MainStarts \/ MainStops
    BY <2>1 DEF MainGivesUp, MainStarts, MainStops, StartAsync, StopAsync, SetRunAsync
  <2>2. CASE \/ MainSpawns(Capture, "spawn", "spawnProcess")
             \/ MainSpawns(Process, "spawnProcess", "sleep")
    BY <2>2 DEF MainSpawns
  <2>3. CASE \/ MainJoins(Capture, "joinCapture", "joinProcess")
             \/ MainJoins(Process, "joinProcess", "done")
    BY <2>3 DEF MainJoins
  <2>4. CASE NotifyAll(Main) /\ UNCHANGED ownVars
    BY <2>4 DEF NotifyAll
  <2>5. QED
    BY <1>1, <2>1, <2>2, <2>3, <2>4 DEF MainNext
<1>2. CASE CaptureNext
  <2>1. CASE CaptureTests \/ CaptureWaits \/ CaptureTransfers
    BY <2>1 DEF CaptureTests, CaptureWaits, CaptureTransfers
  <2>2. CASE CapturePushes
    BY <2>2 DEF CapturePushes, Push
  <2>3. CASE NotifyOne(Capture) /\ UNCHANGED ownVars
    BY <2>3, SMTT(30) DEF NotifyOne, In
  <2>4. QED
    BY <1>2, <2>1, <2>2, <2>3 DEF CaptureNext
<1>3. CASE Irq \/ IrqWaitReturns \/ Returned
  BY <1>3 DEF Irq, IrqWaitReturns, Returned, vars
<1>4. CASE ProcessWakesSpuriously
  BY <1>4 DEF ProcessWakesSpuriously, SpuriousWakeup
<1>5. QED
  BY <1>1, <1>2, <1>3, <1>4

(* The processing thread is in its loop as long as it waits.               *)
LEMMA ProcessWaitsInLoop ==
  ASSUME PipelineInv, OnlyProcessWaits, ProcessNext
  PROVE  OnlyProcessWaits'
<1> USE PipelineConstants
    DEF PipelineInv, PipelineTypeOK, QueueTypeOK, OnlyProcessWaits, Goto, queueVars
<1>1. CASE ProcessPops
  BY <1>1 DEF ProcessPops, WaitPop, Resume, PopOrSleep, Sleep, TakeNothing, Take
<1>2. CASE ~ProcessPops
  BY <1>2 DEF ProcessNext, Open, OpenFails, ProcessTestsRunning, ProcessTestsEmpty,
              ProcessHandles, ProcessCloses
<1>3. QED
  BY <1>1, <1>2

(* The assignment running = false finds nobody asleep, and the queue as it *)
(* was; every other step is one of the queue's own or none.                *)
LEMMA OpenFailsKeepsQueueInv ==
  ASSUME PipelineInv, SleeperInv, OpenFails
  PROVE  QueueInv' /\ C!ChannelNext
<1>1. /\ UNCHANGED <<queue, call, ret, pushed, popped>> /\ run_async' \in BOOLEAN
      /\ pc[Process] = "begin"
  BY DEF OpenFails, Goto, PipelineInv, PipelineTypeOK, QueueTypeOK
<1>2. In("asleep") = {} /\ In("asleep")' = {}
  BY <1>1 DEF SleeperInv, OnlyProcessWaits, In
<1>3. QueueTypeOK' /\ Conservation'
  BY <1>1 DEF SleeperInv, QueueInv, QueueTypeOK, Conservation
<1>4. EveryBlockHasAWaker' /\ NoSleeperAfterStop'
  BY <1>2 DEF EveryBlockHasAWaker, NoSleeperAfterStop
<1>5. C!ChannelNext
  BY <1>1 DEF C!SetOpen, C!ChannelNext
<1>6. QED
  BY <1>3, <1>4, <1>5 DEF QueueInv

(* Every step but that assignment is one of the queue's own, or none.      *)
LEMMA StepOrStutter ==
  ASSUME PipelineTypeOK, Next, ~OpenFails
  PROVE  (\E t \in Threads : Step(t)) \/ UNCHANGED queueVars
<1> USE PipelineConstants
<1>1. CASE MainNext
  BY <1>1 DEF MainNext, MainGivesUp, MainStarts, MainSpawns, MainStops,
              MainJoins, Step, Progress
<1>2. CASE CaptureNext
  BY <1>2 DEF CaptureNext, CaptureTests, CaptureWaits, CaptureTransfers,
              CapturePushes, Step, Progress, PipelineTypeOK
<1>3. CASE ProcessNext
  BY <1>3 DEF ProcessNext, Open, ProcessTestsRunning, ProcessTestsEmpty,
              ProcessPops, ProcessHandles, ProcessCloses, Step, Progress
<1>4. CASE Irq \/ IrqWaitReturns \/ Returned
  BY <1>4 DEF Irq, IrqWaitReturns, Returned, vars
<1>5. CASE ProcessWakesSpuriously
  BY <1>5 DEF ProcessWakesSpuriously, Step
<1>6. QED
  BY <1>1, <1>2, <1>3, <1>4, <1>5 DEF Next

(* The queue's invariant survives the program, and each of its steps is    *)
(* one of the channel.                                                     *)
LEMMA NextSleeperInv ==
  ASSUME PipelineInv, SleeperInv, [Next]_vars
  PROVE  SleeperInv' /\ [C!ChannelNext]_(C!channelVars)
<1>1. PipelineTypeOK /\ QueueInv /\ OnlyProcessWaits
  BY DEF PipelineInv, SleeperInv
<1>2. OnlyProcessWaits'
  <2>1. CASE UNCHANGED vars
    BY <1>1, <2>1 DEF OnlyProcessWaits, vars, queueVars, ownVars
  <2>2. CASE Next
    BY <1>1, <2>2, OthersDoNotWait, ProcessWaitsInLoop DEF Next
  <2>3. QED
    BY <2>1, <2>2
<1>3. CASE OpenFails
  BY <1>2, <1>3, OpenFailsKeepsQueueInv DEF SleeperInv
<1>4. CASE \E t \in Threads : Step(t)
  BY <1>1, <1>2, <1>4, StepQueueInv, StepImplements DEF SleeperInv
<1>5. CASE UNCHANGED queueVars
  <2>1. UNCHANGED C!channelVars
    BY <1>5 DEF queueVars, C!channelVars
  <2>2. QED
    BY <1>1, <1>2, <1>5, <2>1, StutterQueueInv DEF SleeperInv
<1>6. QED
  <2>1. CASE UNCHANGED vars
    BY <1>5, <2>1 DEF vars
  <2>2. QED
    BY <1>1, <1>3, <1>4, <1>5, <2>1, StepOrStutter

(* At first nobody waits.                                                  *)
LEMMA InitSleeperInv == Init => SleeperInv
BY QueueInitInv DEF Init, SleeperInv, OnlyProcessWaits, QueueInit

(* The inductive invariant behind the next two theorems.                   *)
LEMMA SleeperInvariant == Spec => []SleeperInv
<1>1. PipelineInv /\ SleeperInv /\ [Next]_vars => SleeperInv'
  BY NextSleeperInv
<1>2. QED
  BY <1>1, InitSleeperInv, PipelineInvariant, PTL DEF Spec

(* process_beamforming assigns running = false with no lock and no         *)
(* notification (matrix_read.cpp:62), and still nobody is left asleep on a *)
(* stopped queue or beside a block: the only thread that waits is the one  *)
(* that makes the assignment, before its loop.                             *)
THEOREM PipelineWakesItsSleeper ==
  Spec => [](EveryBlockHasAWaker /\ NoSleeperAfterStop)
<1>1. SleeperInv => EveryBlockHasAWaker /\ NoSleeperAfterStop
  BY DEF SleeperInv, QueueInv
<1>2. QED
  BY <1>1, SleeperInvariant, PTL

(* In each program the queue is the channel its callers count on, the      *)
(* unlocked assignment included: what is popped is what was pushed, first  *)
(* in, first out, and "stopped" is only said of a stopped and empty queue. *)
THEOREM PipelineQueueIsChannel == Spec => ImplementsChannel
<1>1. Init => C!ChannelInit
  BY DEF Init, QueueInit, C!ChannelInit
<1>2. PipelineInv /\ SleeperInv /\ [Next]_vars => [C!ChannelNext]_(C!channelVars)
  BY NextSleeperInv
<1>3. QED
  BY <1>1, <1>2, SleeperInvariant, PipelineInvariant, PTL
     DEF Spec, ImplementsChannel, C!ChannelSpec
==============================================================================
