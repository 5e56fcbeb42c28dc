------------------------------- MODULE MCPython -------------------------------
(* The Python microphone object, and the two prototypes of it: a behaviour  *)
(* is one of PyMicrophones or of AudioConsumer, the initial state says      *)
(* which.                                                                   *)
EXTENDS PyMicrophones

CONSTANTS MaxBlocks, MaxCalls

VARIABLES object,       \* "Microphones" or "AudioConsumer"
          program, caller, calls, running, thread, blocks, made, len, drained

consumer == <<program, caller, calls, running, thread, blocks, made, len, drained>>

Prototype == INSTANCE AudioConsumer WITH async_running <- running, queue <- blocks,
                                         len_queue <- len

MCInit == /\ Init /\ Prototype!ConsumerInit
          /\ object \in {"Microphones", "AudioConsumer"}
          /\ object = "Microphones" => program = "example"

MCNext == /\ UNCHANGED object
          /\ \/ object = "Microphones" /\ Next /\ UNCHANGED consumer
             \/ object = "AudioConsumer" /\ Prototype!ConsumerNext /\ UNCHANGED vars

MCSpec == /\ MCInit /\ [][MCNext]_<<vars, consumer, object>>
          /\ object = "Microphones" => Fairness
          /\ object = "AudioConsumer" => Prototype!ConsumerFairness

ASSUME ConsumerBounds == MaxBlocks \in Nat /\ MaxCalls \in Nat

(* A stop leaves one block at most, of the microphone object and of the     *)
(* prototypes; see PyMicrophones and AudioConsumer.                         *)
StopsLeaveOne == DrainLeavesOne /\ Prototype!StopLeavesOne

(* The calls of a microphone object return, and the main of the example     *)
(* ends; see PyMicrophones and AudioConsumer.                               *)
EveryCallReturns == /\ object = "Microphones" => CallsReturn
                    /\ object = "AudioConsumer" => Prototype!ExampleEnds
================================================================================
