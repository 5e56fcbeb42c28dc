-------------------------------- MODULE MCArray --------------------------------
(* The microphone array: a behaviour is one of SampleDelay, of Beamformer,  *)
(* of MicConfig or of DirectionOfArrival, the initial state says which.     *)
(*                                                                          *)
(* Beamformer: four microphones of the Creator (M1, M3, M6 and M8).  The    *)
(* unit of time is a quarter of a sample at 16 kHz, in which sound travels  *)
(* 5 mm; the travel times are those from the locations of                   *)
(* microphone_array_location.h to a point 100 mm above the array ("above")  *)
(* and to one 100 mm along its x axis ("side").                             *)
EXTENDS SampleDelay, Beamformer, MicConfig, DirectionOfArrival, TLC

CreatorTravel == [above |-> <<23, 23, 23, 23>>,
                  side  |-> <<19, 30, 19, 11>>]

ThePoints == {"above", "side"}

(* Three rows of the table, and frequencies that are not in it.             *)
TheFrequencies == {[frequency |-> 8000, constant |-> 374, gain |-> 0],
                   [frequency |-> 16000, constant |-> 186, gain |-> 4],
                   [frequency |-> 44100, constant |-> 67, gain |-> 7]}

(* The Creator's circle has 105 mm across; sound travels 343 m in a second. *)
CreatorDelays == (8000 :> <<2, 2, 2, 1, 0>>) @@ (12000 :> <<4, 3, 3, 1, 0>>)
                   @@ (16000 :> <<5, 5, 3, 2, 0>>) @@ (22050 :> <<7, 6, 5, 3, 0>>)

CreatorLeds == <<23, 27, 32, 1, 6, 10, 14, 19>>

VARIABLE part \* "queue", "beam", "config" or "direction"

MCInit == /\ part \in {"queue", "beam", "config", "direction"}
          /\ Init /\ BeamInit /\ MicInit /\ DoaInit
          /\ part # "direction" => source = 0 /\ rate = 8000
          /\ part # "queue" => output = CHOOSE sample \in Samples : TRUE

MCNext == /\ UNCHANGED part
          /\ \/ part = "queue" /\ Next /\ UNCHANGED <<beamVars, micVars, doaVars>>
             \/ part = "beam" /\ BeamNext /\ UNCHANGED <<vars, micVars, doaVars>>
             \/ part = "config" /\ MicNext /\ UNCHANGED <<vars, beamVars, doaVars>>
             \/ part = "direction" /\ DoaNext /\ UNCHANGED <<vars, beamVars, micVars>>

MCSpec == MCInit /\ [][MCNext]_<<part, vars, beamVars, micVars, doaVars>>
================================================================================
