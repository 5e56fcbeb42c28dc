---------------------------- MODULE PyMicrophones ----------------------------
(***************************************************************************)
(* The Python class microphone (hal_wrapper/drivers/microphones.cpp) on    *)
(* top of MicrophoneArray (cpp/driver/microphone_array.cpp).               *)
(*                                                                         *)
(* Every microphone owns a MicrophoneArray, whose constructor locks the    *)
(* global mutex irq_m for the life of the object; Read gives it up only    *)
(* while it waits for the interrupt.  start_async runs a background thread *)
(* that reads blocks into a queue.  start_async, stop_async and the        *)
(* destructor release the GIL; the other methods keep it, read_sync while  *)
(* it waits for an interrupt, and so does the constructor while it waits   *)
(* for irq_m.                                                              *)
(***************************************************************************)
EXTENDS Integers, FiniteSets

CONSTANTS Callers,      \* the Python threads
          Mics,         \* the microphone objects; also their background threads
          MaxQueue,     \* bound on the blocks queued while running
          MaxPhantom    \* bound on len_queue below zero

Nobody == "nobody"

ASSUME PyConstants == /\ Callers \cap Mics = {} /\ Nobody \notin Mics
                      /\ MaxQueue \in Nat \ {0} /\ MaxPhantom \in Nat

VARIABLES pc,           \* where each Python thread and background thread is
          arg,          \* the call a Python thread is in: see Calls
          irq_m,        \* the microphone whose array holds irq_m, or Nobody
          alive,        \* the microphones that are constructed
          async_running,\* for each microphone
          joinable,     \* bck_thread.joinable()
          queue,        \* the number of blocks in the queue
          len_queue,    \* the counter that len_async_queue returns
          broken        \* std::terminate was called, or a thread joined twice

vars == <<pc, arg, irq_m, alive, async_running, joinable, queue, len_queue,
          broken>>

Threads == Callers \cup Mics

Calls == [mic : Mics, drain : BOOLEAN, got : BOOLEAN]

MicOf(t) == IF t \in Mics THEN t ELSE arg[t].mic

Holding == {"ctorLock", "ctorInit", "read", "irqWait", "relock", "transfer",
            "readCount"}

(* A call keeps the GIL at these places, a thread at "py" runs Python code *)
(* one call at a time.                                                     *)
GilFree == \A c \in Callers : pc[c] \notin Holding

Init == /\ pc = [t \in Threads |-> IF t \in Callers THEN "py" ELSE "none"]
        /\ arg \in [Callers -> [mic : Mics, drain : {FALSE}, got : {FALSE}]]
        /\ \A c, d \in Callers : arg[c] = arg[d]
        /\ irq_m = Nobody
        /\ alive = {}
        /\ async_running = [m \in Mics |-> FALSE]
        /\ joinable = [m \in Mics |-> FALSE]
        /\ queue = [m \in Mics |-> 0]
        /\ len_queue = [m \in Mics |-> 0]
        /\ broken = FALSE

(* A program that was terminated does nothing more.                        *)
Goto(t, from, to) == ~broken /\ pc[t] = from /\ pc' = [pc EXCEPT ![t] = to]

(* A Python thread calls a method of m.                                    *)
Call(c, m, drain, to) == /\ GilFree
                         /\ Goto(c, "py", to)
                         /\ arg' = [arg EXCEPT ![c] = [mic |-> m, drain |-> drain,
                                                       got |-> FALSE]]

(* A call that gave the GIL up takes it again.                             *)
Return(c) == /\ GilFree
             /\ Goto(c, "return", "py")
             /\ UNCHANGED <<arg, irq_m, alive, async_running, joinable, queue,
                            len_queue, broken>>
------------------------------------------------------------------------------
(* The constructor: lock_(irq_m), then bus.Init() and Setup.               *)
Construct(c, m) ==
  /\ m \notin alive
  /\ \A d \in Callers : pc[d] # "py" => arg[d].mic # m
  /\ Call(c, m, FALSE, "ctorLock")
  /\ UNCHANGED <<irq_m, alive, async_running, joinable, queue, len_queue, broken>>

(* Mutant of CtorLocks: tries the lock and goes on without it.             *)
CtorTriesLock(c) == /\ Goto(c, "ctorLock", "ctorInit")
                    /\ irq_m' = IF irq_m = Nobody THEN arg[c].mic ELSE irq_m
                    /\ UNCHANGED <<arg, alive, async_running, joinable, queue,
                                   len_queue, broken>>

CtorLocks(c) == /\ irq_m = Nobody
                /\ Goto(c, "ctorLock", "ctorInit")
                /\ irq_m' = arg[c].mic
                /\ UNCHANGED <<arg, alive, async_running, joinable, queue,
                               len_queue, broken>>

(* The result of bus.Init is not looked at; here it has succeeded (the     *)
(* other case, and what it leaves behind, is in MatrixBus).                *)
CtorInits(c) == LET m == arg[c].mic IN
  /\ Goto(c, "ctorInit", "py")
  /\ alive' = alive \cup {m}
  /\ UNCHANGED <<arg, irq_m, async_running, joinable, queue, len_queue, broken>>

(* start_async, with the GIL released: test async_running, set it, and     *)
(* assign a new thread to bck_thread, which terminates the program if the  *)
(* old one was not joined.  Bound: not started with a full queue.          *)
StartAsync(c, m) == /\ m \in alive /\ queue[m] < MaxQueue
                    /\ Call(c, m, FALSE, "startTest")
                    /\ UNCHANGED <<irq_m, alive, async_running, joinable, queue,
                                   len_queue, broken>>

StartTests(c) ==
  /\ Goto(c, "startTest", IF async_running[arg[c].mic] THEN "return" ELSE "startSet")
  /\ UNCHANGED <<arg, irq_m, alive, async_running, joinable, queue, len_queue, broken>>

StartSets(c) == /\ Goto(c, "startSet", "spawn")
                /\ async_running' = [async_running EXCEPT ![arg[c].mic] = TRUE]
                /\ UNCHANGED <<arg, irq_m, alive, joinable, queue, len_queue, broken>>

StartSpawns(c) == LET m == arg[c].mic IN
  /\ ~broken /\ pc[c] = "spawn"
  /\ broken' = joinable[m]
  /\ joinable' = [joinable EXCEPT ![m] = TRUE]
  /\ pc' = [pc EXCEPT ![c] = "return", ![m] = "test"]
  /\ UNCHANGED <<arg, irq_m, alive, async_running, queue, len_queue>>

(* stop_async, with the GIL released: the flag, then the drain, and only   *)
(* then the join.                                                          *)
StopAsync(c, m, drain) == /\ m \in alive
                          /\ Call(c, m, drain, "stopTest")
                          /\ UNCHANGED <<irq_m, alive, async_running, joinable,
                                         queue, len_queue, broken>>

StopTests(c) ==
  /\ Goto(c, "stopTest", IF async_running[arg[c].mic] THEN "stopSet" ELSE "return")
  /\ UNCHANGED <<arg, irq_m, alive, async_running, joinable, queue, len_queue, broken>>

(* Mutant of StopSets: the background thread is not joined.                *)
StopDoesNotJoin(c) ==
  /\ Goto(c, "stopSet", "return")
  /\ async_running' = [async_running EXCEPT ![arg[c].mic] = FALSE]
  /\ UNCHANGED <<arg, irq_m, alive, joinable, queue, len_queue, broken>>

StopSets(c) == /\ Goto(c, "stopSet", IF arg[c].drain THEN "drain" ELSE "join")
               /\ async_running' = [async_running EXCEPT ![arg[c].mic] = FALSE]
               /\ UNCHANGED <<arg, irq_m, alive, joinable, queue, len_queue, broken>>

(* Mutant of DrainPops: one pop instead of a loop.                         *)
DrainPopsOnce(c) == LET m == arg[c].mic IN
  /\ Goto(c, "drain", "join")
  /\ queue' = [queue EXCEPT ![m] = IF @ = 0 THEN 0 ELSE @ - 1]
  /\ UNCHANGED <<arg, irq_m, alive, async_running, joinable, len_queue, broken>>

DrainPops(c) == LET m == arg[c].mic IN
  /\ Goto(c, "drain", IF queue[m] = 0 THEN "join" ELSE "drainCount")
  /\ queue' = [queue EXCEPT ![m] = IF @ = 0 THEN 0 ELSE @ - 1]
  /\ UNCHANGED <<arg, irq_m, alive, async_running, joinable, len_queue, broken>>

DrainCounts(c) == /\ Goto(c, "drainCount", "drain")
                  /\ len_queue' = [len_queue EXCEPT ![arg[c].mic] = @ - 1]
                  /\ UNCHANGED <<arg, irq_m, alive, async_running, joinable, queue,
                                 broken>>

JoinTests(c) ==
  /\ Goto(c, "join", IF joinable[arg[c].mic] THEN "joining" ELSE "return")
  /\ UNCHANGED <<arg, irq_m, alive, async_running, joinable, queue, len_queue, broken>>

Joins(c, from, to) == LET m == arg[c].mic IN
  /\ ~broken /\ pc[c] = from
  /\ pc[m] \in {"finished", "none"}
  /\ broken' = ~joinable[m]
  /\ joinable' = [joinable EXCEPT ![m] = FALSE]
  /\ pc' = [pc EXCEPT ![c] = to, ![m] = "none"]
  /\ UNCHANGED <<arg, irq_m, alive, async_running, queue, len_queue>>

(* The destructor, when Python drops the last reference: no other thread   *)
(* is in a call of m.  Destroying the array, at the end, unlocks irq_m.    *)
Destroy(c, m) == /\ m \in alive
                 /\ \A d \in Callers : pc[d] # "py" => arg[d].mic # m
                 /\ Call(c, m, FALSE, "dtorSet")
                 /\ alive' = alive \ {m}
                 /\ UNCHANGED <<irq_m, async_running, joinable, queue, len_queue,
                                broken>>

DtorSets(c) == LET m == arg[c].mic IN
  /\ Goto(c, "dtorSet", IF joinable[m] THEN "dtorJoin" ELSE "dtorEnd")
  /\ async_running' = [async_running EXCEPT ![m] = FALSE]
  /\ UNCHANGED <<arg, irq_m, alive, joinable, queue, len_queue, broken>>

(* The GIL is taken again before the members are destroyed: with another   *)
(* Python thread in a constructor, waiting for irq_m, it never is.         *)
DtorEnds(c) == LET m == arg[c].mic IN
  /\ GilFree
  /\ Goto(c, "dtorEnd", "py")
  /\ irq_m' = IF irq_m = m THEN Nobody ELSE irq_m
  /\ queue' = [queue EXCEPT ![m] = 0]
  /\ len_queue' = [len_queue EXCEPT ![m] = 0]
  /\ UNCHANGED <<arg, alive, async_running, joinable, broken>>
------------------------------------------------------------------------------
(* MicrophoneArray::Read, by a background thread or by read_sync.  Waiting *)
(* on a lock_ that is not held, as two threads reading one array do, is    *)
(* undefined.                                                              *)
ReadWaits(t) == /\ Goto(t, "read", "irqWait")
                /\ irq_m' = IF irq_m = MicOf(t) THEN Nobody ELSE irq_m
                /\ broken' = (irq_m # MicOf(t))
                /\ UNCHANGED <<arg, alive, async_running, joinable, queue, len_queue>>

Waiting == {t \in Threads : pc[t] = "irqWait"}

Irq == /\ ~broken /\ Waiting # {}
       /\ pc' = [t \in Threads |-> IF t \in Waiting THEN "relock" ELSE pc[t]]
       /\ UNCHANGED <<arg, irq_m, alive, async_running, joinable, queue, len_queue,
                      broken>>

ReadRelocks(t) == /\ irq_m = Nobody
                  /\ Goto(t, "relock", "transfer")
                  /\ irq_m' = MicOf(t)
                  /\ UNCHANGED <<arg, alive, async_running, joinable, queue,
                                 len_queue, broken>>

ReadTransfers(t) == /\ Goto(t, "transfer", IF t \in Mics THEN "push" ELSE "py")
                    /\ UNCHANGED <<arg, irq_m, alive, async_running, joinable,
                                   queue, len_queue, broken>>

Read(t) == ReadWaits(t) \/ ReadRelocks(t) \/ ReadTransfers(t)

(* producer_async_fun.  Bound: no push on a full queue while running.      *)
ProducerTests(m) ==
  /\ Goto(m, "test", IF async_running[m] THEN "read" ELSE "finished")
  /\ UNCHANGED <<arg, irq_m, alive, async_running, joinable, queue, len_queue, broken>>

ProducerPushes(m) == /\ queue[m] < MaxQueue \/ ~async_running[m]
                     /\ Goto(m, "push", "count")
                     /\ queue' = [queue EXCEPT ![m] = @ + 1]
                     /\ UNCHANGED <<arg, irq_m, alive, async_running, joinable,
                                    len_queue, broken>>

ProducerCounts(m) == /\ Goto(m, "count", "test")
                     /\ len_queue' = [len_queue EXCEPT ![m] = @ + 1]
                     /\ UNCHANGED <<arg, irq_m, alive, async_running, joinable,
                                    queue, broken>>

Producer(m) == \/ ProducerTests(m) \/ Read(m)
               \/ ProducerPushes(m) \/ ProducerCounts(m)

(* read_sync: an empty answer while the background thread runs, else Read. *)
ReadSync(c, m) == /\ m \in alive
                  /\ Call(c, m, FALSE, IF async_running[m] THEN "py" ELSE "read")
                  /\ UNCHANGED <<irq_m, alive, async_running, joinable, queue,
                                 len_queue, broken>>

(* read_async: pop, then len_queue-- unless nothing was popped and the     *)
(* background thread does not run.                                         *)
ReadAsync(c, m) ==
  /\ m \in alive
  /\ GilFree
  /\ queue[m] > 0 \/ len_queue[m] > -MaxPhantom
  /\ Goto(c, "py", "readCount")
  /\ arg' = [arg EXCEPT ![c] = [mic |-> m, drain |-> FALSE, got |-> queue[m] > 0]]
  /\ queue' = [queue EXCEPT ![m] = IF @ > 0 THEN @ - 1 ELSE 0]
  /\ UNCHANGED <<irq_m, alive, async_running, joinable, len_queue, broken>>

(* Mutant of ReadCounts: returns early whenever the background thread does *)
(* not run.                                                                *)
ReadCountsOnlyRunning(c) == LET m == arg[c].mic IN
  /\ Goto(c, "readCount", "py")
  /\ len_queue' = IF ~async_running[m] THEN len_queue
                  ELSE [len_queue EXCEPT ![m] = @ - 1]
  /\ UNCHANGED <<arg, irq_m, alive, async_running, joinable, queue, broken>>

ReadCounts(c) == LET m == arg[c].mic IN
  /\ Goto(c, "readCount", "py")
  /\ len_queue' = IF ~async_running[m] /\ ~arg[c].got THEN len_queue
                  ELSE [len_queue EXCEPT ![m] = @ - 1]
  /\ UNCHANGED <<arg, irq_m, alive, async_running, joinable, queue, broken>>
------------------------------------------------------------------------------
NewCall(c) == \E m \in Mics :
  \/ Construct(c, m) \/ Destroy(c, m)
  \/ StartAsync(c, m) \/ \E drain \in BOOLEAN : StopAsync(c, m, drain)
  \/ ReadSync(c, m) \/ ReadAsync(c, m)

InCall(c) == \/ CtorLocks(c) \/ CtorInits(c)
             \/ StartTests(c) \/ StartSets(c) \/ StartSpawns(c)
             \/ StopTests(c) \/ StopSets(c) \/ DrainPops(c) \/ DrainCounts(c)
             \/ JoinTests(c) \/ Joins(c, "joining", "return")
             \/ DtorSets(c) \/ Joins(c, "dtorJoin", "dtorEnd") \/ DtorEnds(c)
             \/ Read(c) \/ ReadCounts(c)
             \/ Return(c)

Next == \/ \E c \in Callers : NewCall(c) \/ InCall(c)
        \/ \E m \in Mics : Producer(m)
        \/ Irq

Spec == Init /\ [][Next]_vars

(* Threads are scheduled, and the microphones keep interrupting.           *)
Fairness == /\ \A c \in Callers : WF_vars(InCall(c))
            /\ \A m \in Mics : WF_vars(Producer(m))
            /\ WF_vars(Irq)
------------------------------------------------------------------------------
CallerPlaces == Holding \cup
  {"py", "return", "startTest", "startSet", "spawn", "stopTest", "stopSet",
   "drain", "drainCount", "join", "joining", "dtorSet", "dtorJoin", "dtorEnd"}

ProducerPlaces == {"none", "test", "read", "irqWait", "relock", "transfer",
                   "push", "count", "finished"}

TypeOK == /\ \A c \in Callers : pc[c] \in CallerPlaces
          /\ \A m \in Mics : pc[m] \in ProducerPlaces
          /\ arg \in [Callers -> Calls]
          /\ irq_m \in Mics \cup {Nobody}
          /\ alive \subseteq Mics
          /\ async_running \in [Mics -> BOOLEAN]
          /\ joinable \in [Mics -> BOOLEAN]
          /\ queue \in [Mics -> Nat]
          /\ len_queue \in [Mics -> Int]
          /\ broken \in BOOLEAN

(* No sequence of calls from one Python thread terminates the program,     *)
(* joins a thread twice or waits on a lock it does not hold: stop_async    *)
(* and the destructor join before bck_thread can be assigned again.        *)
NeverBroken == ~broken

(* When stop_async has returned there is no background thread left that    *)
(* could still push, and the array's lock is held again: read_sync and a   *)
(* new start_async are safe.                                               *)
StoppedMeansJoined ==
  \A c \in Callers, m \in alive :
    pc[c] = "py" /\ ~async_running[m] =>
      pc[m] = "none" /\ ~joinable[m] /\ irq_m = m

(* The drain comes before the join, yet leaves one block at most: the one  *)
(* the background thread was reading when async_running became FALSE.      *)
DrainLeavesOne ==
  \A c \in Callers : LET m == arg[c].mic IN
    pc[c] \in {"join", "joining"} /\ arg[c].drain =>
      \/ queue[m] = 0
      \/ queue[m] = 1 /\ pc[m] \in {"count", "test", "finished", "none"}

(* Between calls len_async_queue never promises blocks that are not there. *)
LenNeverOverstates ==
  \A c \in Callers, m \in Mics : pc[c] = "py" => len_queue[m] <= queue[m]

(* bus.Init of a constructor deletes the bus driver; no background thread  *)
(* is in the middle of bus_->Read, thanks to irq_m.                        *)
InitExcludesReads ==
  (\E c \in Callers : pc[c] = "ctorInit") =>
    \A t \in Threads : pc[t] # "transfer"

(* A constructor never finds another microphone alive.                     *)
OneAtATime == \A c \in Callers : pc[c] = "ctorLock" => alive = {}

(* With one microphone at a time, and interrupts, every call returns:      *)
(* joining the background thread under its own lock cannot block.          *)
CallsReturn ==
  []OneAtATime => \A c \in Callers : pc[c] # "py" ~> pc[c] = "py"
==============================================================================
