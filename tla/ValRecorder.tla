----------------------------- MODULE ValRecorder -----------------------------
(***************************************************************************)
(* The recorder of src/val: main, capture_audio, and record_all_channels_- *)
(* raw or _wav in a second thread.  It stops through the global flag       *)
(* running instead of the state of its queue, polls the queue instead of   *)
(* sleeping on it, and does not drain it: the older design that src/tfg    *)
(* replaces.  One mutex guards the queue, so push and pop are atomic.      *)
(* src/tfg/old_cpp_code.cpp keeps what src/tfg had before: the same two    *)
(* functions, here between the same main.                                  *)
(***************************************************************************)
EXTENDS Integers, Sequences

CONSTANTS NumChannels, \* the number of files, 8
          Formats,     \* a subset of {"raw", "wav", "old"}
          Header,      \* the header a WAV file starts with
          MaxBlocks    \* bound on the blocks captured

ASSUME ValConstants == /\ NumChannels \in Nat \ {0}
                       /\ Formats \subseteq {"raw", "wav", "old"}
                       /\ Header \notin Nat
                       /\ MaxBlocks \in Nat

Channels == 1 .. NumChannels

VARIABLES format,   \* the recording function that runs
          timed,    \* --duration is not 0
          expired,  \* end_time has passed
          running,
          queue,
          main, capture, recorder,  \* where the threads are
          channel,  \* the channel that the recorder opens or writes next
          block,    \* the block that the recorder has popped
          files,    \* what has been written to the file of each channel
          pushed,   \* history: the number of blocks pushed
          failed    \* history: a file did not open

vars == <<format, timed, expired, running, queue, main, capture, recorder,
          channel, block, files, pushed, failed>>
chosen == <<format, timed>>
recording == <<recorder, channel, block, files, failed>>
capturing == <<capture, pushed>>

Init == /\ format \in Formats /\ timed \in BOOLEAN
        /\ expired = FALSE /\ running = TRUE /\ failed = FALSE
        /\ queue = <<>>
        /\ main = "init" /\ capture = "none" /\ recorder = "none"
        /\ channel = 1 /\ block = 0
        /\ files = [c \in Channels |-> <<>>]
        /\ pushed = 0
------------------------------------------------------------------------------
(* main: bus.Init may fail.                                                *)
GivesUp == /\ main = "init"
           /\ main' = "returned"
           /\ UNCHANGED <<chosen, expired, running, queue, capturing, recording>>

Spawns == /\ main = "init"
          /\ main' = "spawn"
          /\ running' = TRUE
          /\ capture' = "test"
          /\ UNCHANGED <<chosen, expired, queue, pushed, recording>>

SpawnsRecorder == /\ main = "spawn"
                  /\ main' = "join"
                  /\ recorder' = "open"
                  /\ UNCHANGED <<chosen, expired, running, queue, capturing, channel,
                                 block, files, failed>>

JoinsCapture == /\ main = "join" /\ capture = "ended"
                /\ main' = "stop"
                /\ running' = FALSE
                /\ UNCHANGED <<chosen, expired, queue, capturing, recording>>

JoinsRecorder == /\ main = "stop" /\ recorder = "ended"
                 /\ main' = "returned"
                 /\ UNCHANGED <<chosen, expired, running, queue, capturing, recording>>

Main == GivesUp \/ Spawns \/ SpawnsRecorder \/ JoinsCapture \/ JoinsRecorder

(* The clock reaches end_time, which capture_audio sets as it starts.      *)
Expires == /\ timed /\ ~expired /\ capture # "none"
           /\ expired' = TRUE
           /\ UNCHANGED <<chosen, running, queue, main, capturing, recording>>
------------------------------------------------------------------------------
KeepsCapturing == running /\ ~expired

(* Bound: no reading starts after MaxBlocks.                               *)
CaptureReads == /\ capture = "test" /\ KeepsCapturing /\ pushed < MaxBlocks
                /\ capture' = "read"
                /\ UNCHANGED <<chosen, expired, running, queue, main, pushed,
                               recording>>

CaptureEnds == /\ capture = "test" /\ ~KeepsCapturing
               /\ capture' = "ended"
               /\ running' = FALSE
               /\ UNCHANGED <<chosen, expired, queue, main, pushed, recording>>

(* The interrupt that Read waits for, and the transfer.                    *)
FrameArrives == /\ capture = "read"
                /\ capture' = "push"
                /\ UNCHANGED <<chosen, expired, running, queue, main, pushed,
                               recording>>

(* Mutant of CapturePushes: the newest block overtakes the queue.          *)
CapturePushesInFront == /\ capture = "push"
                        /\ capture' = "test"
                        /\ pushed' = pushed + 1
                        /\ queue' = <<pushed'>> \o queue
                        /\ UNCHANGED <<chosen, expired, running, main, recording>>

CapturePushes == /\ capture = "push"
                 /\ capture' = "test"
                 /\ pushed' = pushed + 1
                 /\ queue' = Append(queue, pushed')
                 /\ UNCHANGED <<chosen, expired, running, main, recording>>

Capture == CaptureReads \/ CaptureEnds \/ CapturePushes
------------------------------------------------------------------------------
(* A WAV file starts with its header, whose sizes are those that           *)
(* --duration announces and are never corrected.                           *)
StartOfFile == IF format \in {"wav", "old"} THEN <<Header>> ELSE <<>>

(* Opening truncates.                                                      *)
OpenNext == /\ recorder = "open"
            /\ files' = [files EXCEPT ![channel] = StartOfFile]
            /\ IF channel < NumChannels
               THEN channel' = channel + 1 /\ UNCHANGED recorder
               ELSE channel' = 1 /\ recorder' = "test"
            /\ UNCHANGED <<chosen, expired, running, queue, main, capturing, block,
                           failed>>

(* Mutant of OpenFails: the capture thread is not told.                    *)
OpenFailsSilently == /\ recorder = "open"
                     /\ recorder' = "ended"
                     /\ failed' = TRUE
                     /\ UNCHANGED <<chosen, expired, running, queue, main, capturing,
                                    channel, block, files>>

OpenFails == /\ recorder = "open"
             /\ recorder' = "ended"
             /\ failed' = TRUE
             /\ running' = FALSE
             /\ UNCHANGED <<chosen, expired, queue, main, capturing, channel, block,
                            files>>

RecorderTests == /\ recorder = "test"
                 /\ recorder' = IF running THEN "pop" ELSE "ended"
                 /\ UNCHANGED <<chosen, expired, running, queue, main, capturing,
                                channel, block, files, failed>>

Pops == /\ recorder = "pop" /\ queue # <<>>
        /\ recorder' = "write"
        /\ block' = Head(queue)
        /\ queue' = Tail(queue)
        /\ UNCHANGED <<chosen, expired, running, main, capturing, channel, files,
                       failed>>

(* Nothing to pop: sleep for the time of a block, and back to the loop.    *)
PopsNothing == /\ recorder = "pop" /\ queue = <<>>
               /\ recorder' = "test"
               /\ UNCHANGED <<chosen, expired, running, queue, main, capturing,
                              channel, block, files, failed>>

(* Mutant of WriteChannel: a block is not finished when running has fallen. *)
WriteChannelWhileRunning ==
  /\ recorder = "write"
  /\ files' = IF running THEN [files EXCEPT ![channel] = Append(@, block)] ELSE files
  /\ IF channel < NumChannels
     THEN channel' = channel + 1 /\ UNCHANGED recorder
     ELSE channel' = 1 /\ recorder' = "test"
  /\ UNCHANGED <<chosen, expired, running, queue, main, capturing, block, failed>>

(* The block goes to every file, whatever running has become.              *)
WriteChannel == /\ recorder = "write"
                /\ files' = [files EXCEPT ![channel] = Append(@, block)]
                /\ IF channel < NumChannels
                   THEN channel' = channel + 1 /\ UNCHANGED recorder
                   ELSE channel' = 1 /\ recorder' = "test"
                /\ UNCHANGED <<chosen, expired, running, queue, main, capturing, block,
                               failed>>

Opening == OpenNext \/ OpenFails
Loop == RecorderTests \/ Pops \/ PopsNothing \/ WriteChannel
Recorder == Opening \/ Loop
------------------------------------------------------------------------------
Old == format = "old" /\ (Capture \/ Recorder)

Next == Main \/ Expires \/ FrameArrives \/ Old \/ (format # "old" /\ (Capture \/ Recorder))

(* The threads are scheduled, the clock runs, the microphones interrupt,   *)
(* and the user gives files that may or may not open.                      *)
Fairness == /\ WF_vars(Main) /\ WF_vars(Expires) /\ WF_vars(Capture)
            /\ WF_vars(FrameArrives) /\ WF_vars(Recorder)
------------------------------------------------------------------------------
TypeOK == /\ format \in Formats
          /\ timed \in BOOLEAN /\ expired \in BOOLEAN
          /\ running \in BOOLEAN /\ failed \in BOOLEAN
          /\ queue \in Seq(1 .. MaxBlocks)
          /\ main \in {"init", "spawn", "join", "stop", "returned"}
          /\ capture \in {"none", "test", "read", "push", "ended"}
          /\ recorder \in {"none", "open", "test", "pop", "write", "ended"}
          /\ channel \in Channels
          /\ block \in 0 .. MaxBlocks
          /\ files \in [Channels -> Seq(1 .. MaxBlocks \cup {Header})]
          /\ pushed \in 0 .. MaxBlocks

(* What the file of a channel is to hold once the block is written.        *)
Written(c) == IF recorder = "write" /\ c >= channel
              THEN Append(files[c], block) ELSE files[c]

(* From the moment the files are open, file and queue together are what    *)
(* was captured, each block once and in order, channel by channel: what a  *)
(* recording loses is what is left in the queue when running falls, and    *)
(* nothing before it, even if the thread is stopped between two files.     *)
FilesThenQueue ==
  recorder \in {"test", "pop", "write"} \/ (recorder = "ended" /\ ~failed) =>
    \A c \in Channels :
      Written(c) \o queue = StartOfFile \o [i \in 1 .. pushed |-> i]

(* What the file of a channel is to hold behind its header.                *)
InFile(c) == SubSeq(Written(c), Len(StartOfFile) + 1, Len(Written(c)))

R == INSTANCE Recording WITH Sinks <- Channels, Lossy <- {}, Blocks <- 1 .. MaxBlocks,
                             Draining <- FALSE,
                             captured <- [i \in 1 .. pushed |-> i],
                             handled <- pushed - Len(queue),
                             kept <- [c \in Channels |-> InFile(c)],
                             closed <- recorder = "ended" /\ ~failed

(* The files only grow, by the block that is next, which goes to all of    *)
(* them; they are one recording, though they are written one after the     *)
(* other while blocks arrive and the flag falls.                           *)
ImplementsRecording == R!RecordingSpec

(* A recording that has a duration returns, and so does one whose files    *)
(* did not open, while the microphones interrupt.                          *)
MainReturns == (timed \/ failed) ~> (main = "returned")
==============================================================================
