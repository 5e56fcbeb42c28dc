------------------------------ MODULE SafeQueue ------------------------------
(***************************************************************************)
(* SafeQueue<AudioBlock> of src/tfg/queue.hpp: a std::queue, a mutex, a    *)
(* condition variable and the public flag run_async.                       *)
(*                                                                         *)
(* Every access to queue_ is inside mutex_, so a section under the lock is *)
(* one step.  notify_one and notify_all come after the lock is released:   *)
(* each is a step of its own, and other threads may run in between.  A     *)
(* thread inside cond_.wait is "asleep"; a notification or a spurious      *)
(* wakeup makes it "awake", and it then takes the lock again, later, to    *)
(* evaluate the predicate.                                                 *)
(***************************************************************************)
EXTENDS Naturals, Sequences, FiniteSets

CONSTANTS Threads,      \* the threads that call the queue
          Blocks,       \* the audio blocks that may be pushed
          NoBlock,      \* what a caller's block holds before its first pop
          MaxPush       \* bound on the blocks pushed by QueueNext

ASSUME QueueConstants == /\ IsFiniteSet(Threads)
                         /\ NoBlock \notin Blocks
                         /\ MaxPush \in Nat

VARIABLES queue,        \* queue_
          run_async,    \* run_async
          call,         \* how far each thread is inside a call of the queue
          ret,          \* the last result each thread was given, and its block
          pushed,       \* history: every block pushed, in order
          popped        \* history: every block popped, in order

queueVars == <<queue, run_async, call, ret, pushed, popped>>

Phases == {"idle", "notifyOne", "notifyAll", "asleep", "awake"}

(* wait_pop returns 0 ("stopped"), -1 ("draining") or 1 ("running"), pop   *)
(* returns true ("popped") or false ("empty").                             *)
Codes == {"none", "stopped", "draining", "running", "popped", "empty"}

Results == [code : Codes, item : Blocks \cup {NoBlock}]

In(phase) == {t \in Threads : call[t] = phase}

empty == queue = <<>>

QueueInit == /\ queue = <<>>
             /\ run_async = TRUE
             /\ call = [t \in Threads |-> "idle"]
             /\ ret = [t \in Threads |-> [code |-> "none", item |-> NoBlock]]
             /\ pushed = <<>>
             /\ popped = <<>>

(* Mutant of Push: no notification.                                        *)
PushUnannounced(t, b) == /\ call[t] = "idle"
                         /\ queue' = Append(queue, b)
                         /\ pushed' = Append(pushed, b)
                         /\ UNCHANGED <<run_async, call, ret, popped>>

(* The locked half of push; the notification follows.                      *)
Push(t, b) == /\ call[t] = "idle"
              /\ queue' = Append(queue, b)
              /\ pushed' = Append(pushed, b)
              /\ call' = [call EXCEPT ![t] = "notifyOne"]
              /\ UNCHANGED <<run_async, ret, popped>>

(* notify_one wakes one sleeper, any of them, and is lost if there is none *)
NotifyOne(t) ==
  /\ call[t] = "notifyOne"
  /\ \/ /\ In("asleep") = {}
        /\ call' = [call EXCEPT ![t] = "idle"]
     \/ \E w \in In("asleep") :
          call' = [call EXCEPT ![t] = "idle", ![w] = "awake"]
  /\ UNCHANGED <<queue, run_async, ret, pushed, popped>>

NotifyAll(t) ==
  /\ call[t] = "notifyAll"
  /\ call' = [u \in Threads |-> IF u = t THEN "idle"
                                ELSE IF call[u] = "asleep" THEN "awake"
                                ELSE call[u]]
  /\ UNCHANGED <<queue, run_async, ret, pushed, popped>>

(* Mutant of Take: takes the newest block.                                 *)
TakeNewest(t, code) ==
  /\ ret' = [ret EXCEPT ![t] = [code |-> code, item |-> queue[Len(queue)]]]
  /\ queue' = SubSeq(queue, 1, Len(queue) - 1)
  /\ popped' = Append(popped, queue[Len(queue)])
  /\ call' = [call EXCEPT ![t] = "idle"]
  /\ UNCHANGED <<run_async, pushed>>

(* Takes the oldest block and answers with code.                           *)
Take(t, code) ==
  /\ ret' = [ret EXCEPT ![t] = [code |-> code, item |-> Head(queue)]]
  /\ queue' = Tail(queue)
  /\ popped' = Append(popped, Head(queue))
  /\ call' = [call EXCEPT ![t] = "idle"]
  /\ UNCHANGED <<run_async, pushed>>

(* Answers with code and takes nothing.                                    *)
TakeNothing(t, code) ==
  /\ ret' = [ret EXCEPT ![t].code = code]
  /\ call' = [call EXCEPT ![t] = "idle"]
  /\ UNCHANGED <<queue, run_async, pushed, popped>>

Sleep(t) == /\ call' = [call EXCEPT ![t] = "asleep"]
            /\ UNCHANGED <<queue, run_async, ret, pushed, popped>>

(* What wait_pop does each time it holds the lock: sleep while the         *)
(* predicate is false, else answer.                                        *)
PopOrSleep(t) ==
  \/ /\ empty /\ run_async
     /\ Sleep(t)
  \/ /\ empty /\ ~run_async
     /\ TakeNothing(t, "stopped")
  \/ /\ ~empty
     /\ Take(t, IF run_async THEN "running" ELSE "draining")

WaitPop(t) == call[t] = "idle" /\ PopOrSleep(t)

Resume(t) == call[t] = "awake" /\ PopOrSleep(t)

SpuriousWakeup(t) == /\ call[t] = "asleep"
                     /\ call' = [call EXCEPT ![t] = "awake"]
                     /\ UNCHANGED <<queue, run_async, ret, pushed, popped>>

Pop(t) == /\ call[t] = "idle"
          /\ \/ empty /\ TakeNothing(t, "empty")
             \/ ~empty /\ Take(t, "popped")

(* Mutant of SetRunAsync: no notification.                                 *)
SetRunAsyncUnannounced(t, running) ==
  /\ call[t] = "idle"
  /\ run_async' = running
  /\ UNCHANGED <<queue, call, ret, pushed, popped>>

(* start_async and stop_async: the flag under the lock, then notify_all.   *)
SetRunAsync(t, running) ==
  /\ call[t] = "idle"
  /\ run_async' = running
  /\ call' = [call EXCEPT ![t] = "notifyAll"]
  /\ UNCHANGED <<queue, ret, pushed, popped>>

StartAsync(t) == SetRunAsync(t, TRUE)

StopAsync(t) == SetRunAsync(t, FALSE)

(* What a thread inside a call does next, and any step of a thread.        *)
Progress(t) == NotifyOne(t) \/ NotifyAll(t) \/ Resume(t)

Step(t) == \/ \E b \in Blocks : Push(t, b)
           \/ Progress(t) \/ SpuriousWakeup(t)
           \/ WaitPop(t) \/ Pop(t)
           \/ StartAsync(t) \/ StopAsync(t)

QueueNext == \E t \in Threads : Step(t) /\ Len(pushed') <= MaxPush

QueueSpec == QueueInit /\ [][QueueNext]_queueVars

(* A thread inside a call is scheduled, and gets the mutex, eventually.    *)
QueueFairness == \A t \in Threads : WF_queueVars(Progress(t))

FairQueueSpec == QueueSpec /\ QueueFairness
------------------------------------------------------------------------------
QueueTypeOK == /\ queue \in Seq(Blocks)
               /\ run_async \in BOOLEAN
               /\ call \in [Threads -> Phases]
               /\ ret \in [Threads -> Results]
               /\ pushed \in Seq(Blocks)
               /\ popped \in Seq(Blocks)

(* Nothing is lost, duplicated or overtaken between push and wait_pop: the *)
(* "package lossless" tool of the header (queue.hpp:4).                    *)
Conservation == pushed = popped \o queue

(* notify_one outside the lock loses no wakeup, with any number of         *)
(* consumers: while some thread sleeps, every block in the queue has a     *)
(* push still to notify or a woken thread on its way to take it.           *)
EveryBlockHasAWaker ==
  In("asleep") # {} =>
    Len(queue) <= Cardinality(In("notifyOne")) + Cardinality(In("awake"))

(* The deadlock of the comment in wait_pop (queue.hpp:46-49) cannot        *)
(* happen: a thread asleep on a stopped queue has a notify_all coming.     *)
NoSleeperAfterStop ==
  In("asleep") # {} /\ ~run_async => In("notifyAll") # {}

(* No thread sleeps for ever beside a block, however often notifications   *)
(* find other threads than the one that sleeps.                            *)
NoBlockStranded == []<>(empty \/ In("asleep") = {})

(* The queue implements the abstract channel.                              *)
C == INSTANCE Channel WITH sent <- pushed, received <- popped,
                           open <- run_async, answer <- ret

ImplementsChannel == C!ChannelSpec
==============================================================================
