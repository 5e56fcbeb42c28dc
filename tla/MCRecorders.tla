------------------------------ MODULE MCRecorders ------------------------------
(* The recorders that do not use SafeQueue's stop: a behaviour is one of    *)
(* ValRecorder or of DemoRecorder, the initial state says which.            *)
EXTENDS ValRecorder

CONSTANTS SamplingRate, NumberOfSamples, Seconds, NumLeds, MaxPiped

VARIABLES program,   \* "val" or "demo"
          demo, demoMain, led, second, stream, buffer, demoFiles, opened, heard

demoVars == <<demo, demoMain, led, second, stream, buffer, demoFiles, opened, heard>>

Demo == INSTANCE DemoRecorder WITH main <- demoMain, files <- demoFiles

MCInit == /\ Init /\ Demo!DemoInit
          /\ \/ program = "val" /\ demo = "simple"
             \/ program = "demo" /\ format = "raw" /\ ~timed

MCNext == /\ UNCHANGED program
          /\ \/ program = "val" /\ Next /\ UNCHANGED demoVars
             \/ program = "demo" /\ Demo!DemoNext /\ UNCHANGED vars

MCSpec == /\ MCInit /\ [][MCNext]_<<vars, demoVars, program>>
          /\ program = "val" => Fairness
          /\ program = "demo" => Demo!DemoFairness

ASSUME DemoConstants == /\ SamplingRate \in Nat \ {0} /\ NumberOfSamples \in Nat \ {0}
                        /\ Seconds \in Nat /\ NumLeds \in Nat /\ MaxPiped \in Nat

(* No sample goes past the end of the array; see DemoRecorder.              *)
InsideTheArray == Demo!InsideTheArray

(* A demo records what the microphones gave; see DemoRecorder.              *)
RecordsTheStream == Demo!RecordsTheStream

(* The validation recorder and the demos that record for some time return;  *)
(* see ValRecorder and DemoRecorder.                                        *)
RecordersReturn == /\ program = "val" => MainReturns
                   /\ program = "demo" => Demo!DemoReturns
================================================================================
