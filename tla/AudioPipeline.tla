---------------------------- MODULE AudioPipeline ----------------------------
(***************************************************************************)
(* The asynchronous programs of src/tfg: main starts a capture thread that *)
(* pushes blocks of microphone samples and a processing thread that pops   *)
(* them, sleeps, stops the queue and joins both.  The programs differ in   *)
(* what the processing thread does with a block:                           *)
(*   test_record_async  record_all_channels_wav: a file per channel        *)
(*   test_mqtt_async    send_audio_mqtt_async: a topic per channel         *)
(*   matrix_read        process_beamforming: one file and one topic        *)
(* The microphones interrupt when a frame is ready; MicrophoneArray::Read  *)
(* waits on irq_cv without a predicate, so an interrupt that finds no      *)
(* thread waiting leaves no trace, and then copies whatever frame the FPGA *)
(* holds.  A frame, and a block made of it, is its number.                 *)
(***************************************************************************)
EXTENDS SafeQueue

CONSTANTS Main, Capture, Process,  \* the three threads
          Files,        \* what the program writes to disk
          Topics,       \* what it publishes; a publish may throw
          OnOpenFailure,\* what a file that does not open does: see Open
          Drain,        \* the drain argument of the processing function
          MaxFrame,     \* bound: frames from MaxFrame on are not told apart
          BusMayFail,   \* whether bus_->Read may return false
          SpuriousIrq   \* whether irq_cv.wait may return by itself

ASSUME PipelineConstants ==
  /\ Threads = {Main, Capture, Process}
  /\ Main # Capture /\ Main # Process /\ Capture # Process
  /\ Files \cap Topics = {}
  /\ OnOpenFailure \in {"ignored", "returns", "stops"}
  /\ Drain \in BOOLEAN /\ BusMayFail \in BOOLEAN /\ SpuriousIrq \in BOOLEAN
  /\ MaxFrame \in Nat
  /\ Blocks = 0 .. MaxFrame

VARIABLES pc,           \* where each thread is
          frame,        \* the last frame the microphones have ready
          raw,          \* the frame in raw_data_ (0: the zeros of the constructor)
          opened,       \* whether the processing thread has its files
          sink          \* the blocks in each file and topic, in order

ownVars == <<pc, frame, raw, opened, sink>>

vars == <<queueVars, ownVars>>

Sinks == Files \cup Topics

Init == /\ QueueInit
        /\ pc = [t \in Threads |-> IF t = Main THEN "start" ELSE "off"]
        /\ frame = 0
        /\ raw = 0
        /\ opened = FALSE
        /\ sink = [s \in Sinks |-> <<>>]

Goto(t, from, to) == pc[t] = from /\ pc' = [pc EXCEPT ![t] = to]
------------------------------------------------------------------------------
(* main: a bus that does not open, or a broker that refuses, ends it.      *)
MainGivesUp == /\ Goto(Main, "start", "done")
               /\ UNCHANGED <<queueVars, frame, raw, opened, sink>>

MainStarts == /\ Goto(Main, "start", "spawn")
              /\ StartAsync(Main)
              /\ UNCHANGED <<frame, raw, opened, sink>>

MainSpawns(t, from, to) ==
  /\ call[Main] = "idle"
  /\ pc[Main] = from
  /\ pc' = [pc EXCEPT ![Main] = to, ![t] = "begin"]
  /\ UNCHANGED <<queueVars, frame, raw, opened, sink>>

(* sleep_for is over.                                                      *)
MainStops == /\ Goto(Main, "sleep", "joinCapture")
             /\ StopAsync(Main)
             /\ UNCHANGED <<frame, raw, opened, sink>>

MainJoins(t, from, to) ==
  /\ call[Main] = "idle"
  /\ pc[t] = "done"
  /\ Goto(Main, from, to)
  /\ UNCHANGED <<queueVars, frame, raw, opened, sink>>

MainNext == \/ MainGivesUp \/ MainStarts
            \/ MainSpawns(Capture, "spawn", "spawnProcess")
            \/ MainSpawns(Process, "spawnProcess", "sleep")
            \/ MainStops
            \/ MainJoins(Capture, "joinCapture", "joinProcess")
            \/ MainJoins(Process, "joinProcess", "done")
            \/ NotifyAll(Main) /\ UNCHANGED ownVars
------------------------------------------------------------------------------
(* capture_audio: test running, Read, push, again.                         *)
CaptureTests ==
  /\ pc[Capture] \in {"begin", "test"}
  /\ call[Capture] = "idle"
  /\ pc' = [pc EXCEPT ![Capture] = IF run_async THEN "read" ELSE "done"]
  /\ UNCHANGED <<queueVars, frame, raw, opened, sink>>

(* Mutant of CaptureWaits: does not wait for the interrupt.                *)
CaptureDoesNotWait == /\ Goto(Capture, "read", "transfer")
                      /\ UNCHANGED <<queueVars, frame, raw, opened, sink>>

CaptureWaits == /\ Goto(Capture, "read", "irqWait")
                /\ UNCHANGED <<queueVars, frame, raw, opened, sink>>

(* bus_->Read copies the frame or leaves raw_data_ as it was; the result   *)
(* of Read is not looked at.                                               *)
CaptureTransfers == /\ Goto(Capture, "transfer", "push")
                    /\ raw' = frame \/ (BusMayFail /\ raw' = raw)
                    /\ UNCHANGED <<queueVars, frame, opened, sink>>

CapturePushes == /\ Goto(Capture, "push", "test")
                 /\ Push(Capture, raw)
                 /\ UNCHANGED <<frame, raw, opened, sink>>

CaptureNext == \/ CaptureTests \/ CaptureWaits
               \/ CaptureTransfers \/ CapturePushes
               \/ NotifyOne(Capture) /\ UNCHANGED ownVars

(* The interrupt thread: irq_callback notifies, with no lock and no flag.  *)
(* Bound: before the stop there are MaxFrame interrupts.                   *)
Irq == /\ frame < MaxFrame \/ ~run_async
       /\ frame' = IF frame < MaxFrame THEN frame + 1 ELSE frame
       /\ pc' = IF pc[Capture] = "irqWait"
                THEN [pc EXCEPT ![Capture] = "transfer"] ELSE pc
       /\ UNCHANGED <<queueVars, raw, opened, sink>>

(* irq_cv.wait returns with no interrupt.  Bound: before MaxFrame pushes.  *)
IrqWaitReturns == /\ SpuriousIrq /\ Len(pushed) < MaxFrame
                  /\ Goto(Capture, "irqWait", "transfer")
                  /\ UNCHANGED <<queueVars, frame, raw, opened, sink>>
------------------------------------------------------------------------------
(* The processing thread opens its files.  If one does not open,           *)
(* record_all_channels_wav just returns and process_beamforming assigns    *)
(* running = false, with no lock and no notification, and returns;         *)
(* send_audio_mqtt_async ignores whether it is connected.                  *)
Open == /\ Goto(Process, "begin", "test")
        /\ opened' = TRUE
        /\ UNCHANGED <<queueVars, frame, raw, sink>>

OpenFails ==
  /\ OnOpenFailure # "ignored"
  /\ Goto(Process, "begin", "done")
  /\ run_async' = IF OnOpenFailure = "stops" THEN FALSE ELSE run_async
  /\ UNCHANGED <<queue, call, ret, pushed, popped, frame, raw, opened, sink>>

(* Mutant of ProcessTestsRunning: while (running), with no drain.          *)
ProcessTestsOnlyRunning ==
  /\ Goto(Process, "test", IF run_async THEN "waitPop" ELSE "close")
  /\ UNCHANGED <<queueVars, frame, raw, opened, sink>>

(* while (running || (drain && !queue.empty())): two reads, not one.       *)
ProcessTestsRunning ==
  /\ pc[Process] = "test"
  /\ pc' = [pc EXCEPT ![Process] = IF run_async THEN "waitPop"
                                   ELSE IF Drain THEN "testEmpty"
                                   ELSE "close"]
  /\ UNCHANGED <<queueVars, frame, raw, opened, sink>>

ProcessTestsEmpty ==
  /\ Goto(Process, "testEmpty", IF empty THEN "close" ELSE "waitPop")
  /\ UNCHANGED <<queueVars, frame, raw, opened, sink>>

ProcessPops ==
  /\ pc[Process] = "waitPop"
  /\ WaitPop(Process) \/ Resume(Process)
  /\ pc' = [pc EXCEPT ![Process] =
              IF call'[Process] = "asleep" THEN "waitPop"
              ELSE IF ret'[Process].code = "stopped" THEN "test"
              ELSE "process"]
  /\ UNCHANGED <<frame, raw, opened, sink>>

(* Mutant of ProcessHandles: a write that fails skips a file.              *)
ProcessSkipsFiles ==
  /\ Goto(Process, "process", "test")
  /\ \E failing \in SUBSET Sinks :
       sink' = [s \in Sinks |-> IF s \in failing THEN sink[s]
                                ELSE Append(sink[s], ret[Process].item)]
  /\ UNCHANGED <<queueVars, frame, raw, opened>>

(* The block goes to every file, and to the topics whose publish does not  *)
(* throw.                                                                  *)
ProcessHandles ==
  /\ Goto(Process, "process", "test")
  /\ \E failing \in SUBSET Topics :
       sink' = [s \in Sinks |-> IF s \in failing THEN sink[s]
                                ELSE Append(sink[s], ret[Process].item)]
  /\ UNCHANGED <<queueVars, frame, raw, opened>>

(* The files are closed, or the client disconnects (see MqttDisconnect).   *)
ProcessCloses == /\ Goto(Process, "close", "done")
                 /\ UNCHANGED <<queueVars, frame, raw, opened, sink>>

ProcessNext == \/ Open \/ OpenFails
               \/ ProcessTestsRunning \/ ProcessTestsEmpty
               \/ ProcessPops \/ ProcessHandles \/ ProcessCloses

ProcessWakesSpuriously == SpuriousWakeup(Process) /\ UNCHANGED ownVars
------------------------------------------------------------------------------
(* main has returned: nothing is left to do.                               *)
Returned == pc[Main] = "done" /\ UNCHANGED vars

Next == \/ MainNext \/ CaptureNext \/ ProcessNext
        \/ Irq \/ IrqWaitReturns \/ ProcessWakesSpuriously
        \/ Returned

Spec == Init /\ [][Next]_vars

(* Every thread that can run is scheduled, and sleep_for ends.             *)
ThreadFairness == /\ WF_vars(MainNext)
                  /\ WF_vars(CaptureNext)
                  /\ WF_vars(ProcessNext)

FairSpec == Spec /\ ThreadFairness

(* The microphones keep interrupting.                                      *)
FairIrqSpec == FairSpec /\ WF_vars(Irq)
------------------------------------------------------------------------------
Places == {"start", "spawn", "spawnProcess", "sleep", "joinCapture",
           "joinProcess", "off", "begin", "test", "read", "irqWait",
           "transfer", "push", "testEmpty", "waitPop", "process", "close",
           "done"}

PipelineTypeOK == /\ QueueTypeOK
                  /\ pc \in [Threads -> Places]
                  /\ frame \in Blocks
                  /\ raw \in Blocks
                  /\ opened \in BOOLEAN
                  /\ sink \in [Sinks -> Seq(Blocks)]

(* At any moment a file holds every block popped so far, in order, but for *)
(* the one in the hands of the processing thread.                          *)
FilesFollowQueue ==
  \A f \in Files :
    popped = IF pc[Process] = "process" THEN Append(sink[f], ret[Process].item)
             ELSE sink[f]

BothDone == pc[Capture] = "done" /\ pc[Process] = "done"

(* With drain, what the capture thread pushed is in every file when both   *)
(* threads are done, all of it but at most the last block: the one the     *)
(* capture thread was reading when the processing thread found the queue   *)
(* stopped and empty.                                                      *)
RecordingComplete ==
  BothDone /\ opened /\ Drain =>
    /\ Len(queue) <= 1
    /\ \A f \in Files : pushed = sink[f] \o queue

(* What the comment at audio_processor.cpp:123-125 says of drain.          *)
DrainedAtEnd == BothDone /\ opened /\ Drain => empty

(* Blocks never go back in time; and when neither the bus nor the wait     *)
(* misbehaves no frame is captured twice, though Read waits without a      *)
(* predicate.  (Frames from MaxFrame on are not told apart.)               *)
Increasing(s) ==
  \A i, j \in 1 .. Len(s) :
    i < j => \/ s[i] < s[j]
             \/ s[j] = MaxFrame
             \/ s[i] = s[j] /\ (BusMayFail \/ SpuriousIrq)

CapturedInOrder == Increasing(pushed) /\ \A s \in Sinks : Increasing(sink[s])

(* The blocks the processing thread is done with.                          *)
Handled == IF pc[Process] = "process" THEN Len(popped) - 1 ELSE Len(popped)

R == INSTANCE Recording WITH Lossy <- Topics, Draining <- Drain, captured <- pushed,
                             handled <- Handled, kept <- sink,
                             closed <- opened /\ pc[Process] = "done"

(* The three threads and their queue do what a program would that handled  *)
(* each block as soon as it could: the queue neither reorders nor repeats, *)
(* files and topics only grow, by the block that is next, and a topic that *)
(* missed one goes on with the next.                                       *)
ImplementsRecording == R!RecordingSpec

(* Once main has stopped the queue the processing thread leaves its loop,  *)
(* asleep in wait_pop or not, and whether or not the microphones ever      *)
(* interrupt again.                                                        *)
ProcessLeavesLoop ==
  pc[Main] = "joinCapture" ~> pc[Process] \in {"close", "done"}

(* With interrupts, main joins both threads and returns.                   *)
MainReturns == <>(pc[Main] = "done")
==============================================================================
