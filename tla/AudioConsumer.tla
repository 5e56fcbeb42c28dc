----------------------------- MODULE AudioConsumer -----------------------------
(***************************************************************************)
(* The two prototypes of the Python microphone object, which make blocks   *)
(* of random numbers instead of reading microphones:                       *)
(*   "example"   the program src/tfg/python/pybind11-test/example.cpp,     *)
(*               whose main calls the class in a fixed order;              *)
(*   "bindings"  matrix_python.cpp beside it, whose methods a Python       *)
(*               thread calls in any order.                                *)
(* A background thread pushes blocks while async_running.  Only the caller *)
(* writes async_running, so a call is a step except where it waits or      *)
(* where the background thread may come between two of its effects.        *)
(***************************************************************************)
EXTENDS Integers, Sequences

CONSTANTS MaxBlocks, \* bound on the blocks made
          MaxCalls   \* bound on the calls from Python

VARIABLES program,       \* "example" or "bindings"
          caller,        \* where the calling thread is
          calls,         \* the calls made so far
          async_running, \* the flag that ends the background thread
          thread,        \* bck_thread: "none", where it is in its loop, or "ended"
          queue,         \* the blocks, numbered as they are made
          made,          \* the number of blocks made
          len_queue,     \* the counter of "bindings"
          drained        \* history: the last stop emptied the queue

consumerVars == <<program, caller, calls, async_running, thread, queue, made,
                  len_queue, drained>>

(* The calls of main, in order; its end runs the destructor.               *)
ExampleCalls == <<"start", "read_async", "read_async", "read_sync", "read_async",
                  "drain", "read_sync", "start", "read_async", "destroy">>

BindingsCalls == {"start", "stop", "drain", "read_sync", "read_async", "destroy"}

ConsumerInit == /\ program \in {"example", "bindings"}
                /\ caller = "idle" /\ calls = 0
                /\ async_running = FALSE /\ thread = "none"
                /\ queue = <<>> /\ made = 0 /\ len_queue = 0
                /\ drained = TRUE

(* The next call: of main, or any of those that Python may make.           *)
Calls(name) ==
  /\ caller = "idle"
  /\ \/ /\ program = "example"
        /\ name = ExampleCalls[calls + 1]
     \/ /\ program = "bindings"
        /\ calls < MaxCalls /\ name \in BindingsCalls
  /\ calls' = calls + 1
  /\ UNCHANGED program

(* Assigning to a thread that is still joinable ends the program.          *)
Start == /\ Calls("start")
         /\ IF async_running
            THEN UNCHANGED <<caller, async_running, thread, drained>>
            ELSE /\ async_running' = TRUE /\ drained' = FALSE
                 /\ thread' = "tests"
                 /\ caller' = IF thread = "none" THEN "idle" ELSE "terminated"
         /\ UNCHANGED <<queue, made, len_queue>>

(* A stop of a consumer that is not running drains nothing and joins       *)
(* nothing.                                                                *)
Stop == /\ \E name \in {"stop", "drain"} :
             /\ Calls(name)
             /\ IF async_running
                THEN /\ caller' = IF name = "drain" THEN "drains" ELSE "joins"
                     /\ drained' = (name = "drain")
                ELSE UNCHANGED <<caller, drained>>
        /\ async_running' = FALSE
        /\ UNCHANGED <<thread, queue, made, len_queue>>

Drains == /\ caller = "drains"
          /\ IF queue = <<>>
             THEN caller' = "joins" /\ UNCHANGED <<queue, len_queue>>
             ELSE queue' = Tail(queue) /\ len_queue' = len_queue - 1 /\ UNCHANGED caller
          /\ UNCHANGED <<program, calls, async_running, thread, made, drained>>

(* Mutant of Joins: the thread object is left as it is.                    *)
JoinsNothing == /\ caller \in {"joins", "destroys"}
                /\ caller' = IF caller = "joins" THEN "idle" ELSE "gone"
                /\ UNCHANGED <<program, calls, async_running, thread, queue, made,
                               len_queue, drained>>

(* join, for a thread that is joinable.                                    *)
Joins == /\ caller \in {"joins", "destroys"}
         /\ thread \in {"none", "ended"}
         /\ thread' = "none"
         /\ caller' = IF caller = "joins" THEN "idle" ELSE "gone"
         /\ UNCHANGED <<program, calls, async_running, queue, made, len_queue, drained>>

Destroy == /\ Calls("destroy")
           /\ async_running' = FALSE
           /\ caller' = "destroys"
           /\ UNCHANGED <<thread, queue, made, len_queue, drained>>

(* A block that read_sync makes goes to the caller only.                   *)
ReadSync == /\ Calls("read_sync")
            /\ UNCHANGED <<caller, async_running, thread, queue, made, len_queue,
                           drained>>

(* main reads nothing from a consumer that is stopped.                     *)
ExampleReadAsync ==
  /\ program = "example" /\ Calls("read_async")
  /\ queue' = IF async_running /\ queue # <<>> THEN Tail(queue) ELSE queue
  /\ UNCHANGED <<caller, async_running, thread, made, len_queue, drained>>

(* len_queue goes down though there was no block, if the consumer runs.    *)
BindingsReadAsync ==
  /\ program = "bindings" /\ Calls("read_async")
  /\ queue' = IF queue # <<>> THEN Tail(queue) ELSE queue
  /\ len_queue' = IF queue # <<>> \/ async_running THEN len_queue - 1 ELSE len_queue
  /\ UNCHANGED <<caller, async_running, thread, made, drained>>

(* The background thread: test, push, and in "bindings" count.  At the     *)
(* bound it sleeps on.                                                     *)
Produces ==
  /\ \/ /\ thread = "tests" /\ ~async_running
        /\ thread' = "ended"
        /\ UNCHANGED <<queue, made, len_queue>>
     \/ /\ thread = "tests" /\ async_running /\ made < MaxBlocks
        /\ thread' = "pushes"
        /\ UNCHANGED <<queue, made, len_queue>>
     \/ /\ thread = "pushes"
        /\ made' = made + 1 /\ queue' = Append(queue, made')
        /\ thread' = IF program = "bindings" THEN "counts" ELSE "tests"
        /\ UNCHANGED len_queue
     \/ /\ thread = "counts"
        /\ len_queue' = len_queue + 1
        /\ thread' = "tests"
        /\ UNCHANGED <<queue, made>>
  /\ UNCHANGED <<program, caller, calls, async_running, drained>>

InMethod == Drains \/ Joins
ExampleMain == Start \/ Stop \/ Destroy \/ ReadSync \/ ExampleReadAsync
Bindings == Start \/ Stop \/ Destroy \/ ReadSync \/ BindingsReadAsync
Example == program = "example" /\ (ExampleMain \/ InMethod \/ Produces)

ConsumerNext == Example \/ (program = "bindings" /\ (Bindings \/ InMethod \/ Produces))

(* A method goes on and the background thread is scheduled; Python need    *)
(* not make another call, main of the example does.                        *)
ConsumerFairness == /\ WF_consumerVars(InMethod) /\ WF_consumerVars(Produces)
                    /\ WF_consumerVars(Example)

(* A stop that drains leaves at most one block, the one the thread was     *)
(* about to push: a later session does not begin with a backlog of the     *)
(* one before.                                                             *)
StopLeavesOne == caller = "idle" /\ ~async_running /\ drained => Len(queue) <= 1

(* "Last don't stop async and expect no crash, as the the thread joins in  *)
(* the destructor" (example.cpp:238): every call returns, and main of the  *)
(* example ends with its thread joined, whenever the thread sleeps.        *)
ExampleEnds ==
  /\ []<>(caller \in {"idle", "gone"})
  /\ (program = "example") ~> (caller = "gone" /\ thread = "none")
================================================================================
