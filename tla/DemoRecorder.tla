----------------------------- MODULE DemoRecorder ------------------------------
(***************************************************************************)
(* The programs of src/demos that record the microphones.  Each gathers    *)
(* the blocks it reads into an array on the stack and hands a second of    *)
(* samples on when it has it:                                              *)
(*   "simple"    simple_mic_read: publishes the array after every block,   *)
(*               writes it to files once a second;                         *)
(*   "filter"    mic_read_filter: cuts the last block of a second short;   *)
(*   "recorder", "raw", "fir"  micarray_recorder_direct, micarray_raw_re-  *)
(*               corder_direct and mic_demo_fir_direct, which differ in    *)
(*               the samples they take, with a thread that shows the       *)
(*               progress on the LEDs;                                     *)
(*   "pipes"     micarray_pipes_direct: a named pipe per channel, opened   *)
(*               for every block, which someone may or may not read.       *)
(* A sample stands for those of all channels at one moment and is          *)
(* numbered as it is read.                                                 *)
(***************************************************************************)
EXTENDS Integers, Sequences, SequencesExt

CONSTANTS SamplingRate,    \* samples in a second
          NumberOfSamples, \* samples in a block
          Seconds,         \* --duration
          NumLeds,
          MaxPiped         \* bound on the blocks of "pipes", which never ends

VARIABLES demo, main,
          led,       \* the writes that the LED thread still has to make
          second,    \* the seconds that are complete
          stream,    \* the number of samples read
          buffer,    \* the samples in the array: its first "samples" entries
          files,     \* what has been written to the files
          opened,    \* the files opened
          heard      \* what a subscriber, or the reader of a pipe, got last

demoVars == <<demo, main, led, second, stream, buffer, files, opened, heard>>

(* The entries of the array.                                               *)
BufferLength == IF demo = "filter" THEN SamplingRate ELSE SamplingRate + NumberOfSamples

WithLeds == {"recorder", "raw", "fir"}

DemoInit == /\ demo \in {"simple", "filter", "pipes"} \cup WithLeds
            /\ main = "start" /\ led = 0
            /\ second = 0 /\ stream = 0 /\ buffer = <<>> /\ files = <<>> /\ heard = <<>>
            /\ opened = FALSE

(* No bus; no broker; in "filter", a file that does not open; in           *)
(* the others, a bus that the kernel drives.                               *)
GivesUp == /\ main = "start"
           /\ main' = "returned"
           /\ UNCHANGED <<demo, led, second, stream, buffer, files, opened, heard>>

(* Only "filter" looks whether its files opened.                           *)
Starts == /\ main = "start"
          /\ main' = "second"
          /\ opened' \in IF demo = "filter" THEN {TRUE} ELSE BOOLEAN
          /\ led' = IF demo \in WithLeds THEN NumLeds + 1 ELSE 0
          /\ UNCHANGED <<demo, second, stream, buffer, files, heard>>

(* The loop over the seconds; join at its end.                             *)
NextSecond ==
  /\ demo # "pipes" /\ main = "second"
  /\ main' = IF second < Seconds THEN "read" ELSE "join"
  /\ UNCHANGED <<demo, led, second, stream, buffer, files, opened, heard>>

Joins == /\ main = "join" /\ led = 0
         /\ main' = "returned"
         /\ UNCHANGED <<demo, led, second, stream, buffer, files, opened, heard>>

Block == [i \in 1 .. NumberOfSamples |-> stream + i]

(* Mutant of Fits: the array has room for a block.                         *)
FitsAll(block) == block

(* What of a block is kept: "filter" takes what the second still lacks.    *)
Fits(block) ==
  IF demo = "filter" /\ Len(buffer) + NumberOfSamples > SamplingRate
  THEN SubSeq(block, 1, SamplingRate - Len(buffer))
  ELSE block

ReadsBlock ==
  /\ demo # "pipes" /\ main = "read"
  /\ stream' = stream + NumberOfSamples
  /\ buffer' = buffer \o Fits(Block)
  /\ main' = IF demo = "simple" THEN "publish" ELSE "test"
  /\ UNCHANGED <<demo, led, second, files, opened, heard>>

(* A publish that throws is caught and forgotten.                          *)
Publishes == /\ main = "publish"
             /\ heard' \in {heard, buffer}
             /\ main' = "test"
             /\ UNCHANGED <<demo, led, second, stream, buffer, files, opened>>

(* Mutant of WritesSecond: samples is not set to 0.                        *)
WritesOnly ==
  /\ main = "test" /\ Len(buffer) >= SamplingRate
  /\ files' = IF opened THEN files \o buffer ELSE files
  /\ second' = second + 1 /\ main' = "second"
  /\ UNCHANGED <<demo, led, stream, buffer, opened, heard>>

(* Everything in the array goes to the files: SamplingRate samples, or, in *)
(* the demos that keep whole blocks, a few more.                           *)
WritesSecond ==
  /\ main = "test" /\ Len(buffer) >= SamplingRate
  /\ files' = IF opened THEN files \o buffer ELSE files
  /\ buffer' = <<>>
  /\ second' = second + 1 /\ main' = "second"
  /\ heard' \in IF demo = "filter" THEN {heard, buffer} ELSE {heard}
  /\ UNCHANGED <<demo, led, stream, opened>>

ReadsOn == /\ main = "test" /\ Len(buffer) < SamplingRate
           /\ main' = "read"
           /\ UNCHANGED <<demo, led, second, stream, buffer, files, opened, heard>>

(* The LED thread: one write, then one for every LED.                      *)
ShowsProgress == /\ led > 0
                 /\ led' = led - 1
                 /\ UNCHANGED <<demo, main, second, stream, buffer, files, opened,
                                heard>>

(* open fails with nobody reading, and the write with it; a full pipe      *)
(* takes nothing.                                                          *)
Pipes == /\ demo = "pipes" /\ main = "second"
         /\ stream < MaxPiped * NumberOfSamples
         /\ stream' = stream + NumberOfSamples
         /\ heard' \in {heard, heard \o Block}
         /\ UNCHANGED <<demo, main, led, second, buffer, files, opened>>

Recording == NextSecond \/ ReadsBlock \/ WritesSecond \/ ReadsOn
SimpleMicRead == demo = "simple" /\ (Recording \/ Publishes)
MicReadFilter == demo = "filter" /\ Recording
MicarrayRecorder == demo = "recorder" /\ (Recording \/ Joins)
MicarrayRawRecorder == demo = "raw" /\ (Recording \/ Joins)
MicDemoFir == demo = "fir" /\ (Recording \/ Joins)

DemoMain == \/ GivesUp \/ Starts \/ Joins
            \/ SimpleMicRead \/ MicReadFilter
            \/ MicarrayRecorder \/ MicarrayRawRecorder \/ MicDemoFir
DemoNext == DemoMain \/ ShowsProgress \/ Pipes

(* The threads are scheduled and the microphones interrupt.                *)
DemoFairness == WF_demoVars(DemoMain) /\ WF_demoVars(ShowsProgress)

(* No sample is written past the end of the array, for any rate and any    *)
(* size of a block, nor left in it by the second before.                   *)
InsideTheArray == /\ Len(buffer) <= BufferLength
                  /\ main \in {"second", "join", "returned"} => buffer = <<>>

(* The samples that a second takes from the microphones.                   *)
Blocks == (SamplingRate + NumberOfSamples - 1) \div NumberOfSamples
Kept == IF demo = "filter" THEN SamplingRate ELSE Blocks * NumberOfSamples

(* The recording is the stream of the microphones; what "filter" drops is  *)
(* at the end of every second and nowhere else, so that each second of its *)
(* files begins with a block.  What a pipe's reader gets is in order.      *)
RecordsTheStream ==
  /\ opened =>
       files = [i \in 1 .. second * Kept |->
                  ((i - 1) \div Kept) * Blocks * NumberOfSamples + ((i - 1) % Kept) + 1]
  /\ IsSorted(heard, <)

(* A recording ends, with its LED thread joined.                           *)
DemoReturns == demo # "pipes" ~> (main = "returned" /\ led = 0)
================================================================================
