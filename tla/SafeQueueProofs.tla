--------------------------- MODULE SafeQueueProofs ---------------------------
(***************************************************************************)
(* Proofs about SafeQueue for every set of threads and blocks.  The step   *)
(* lemmas are about one Step of one thread, so that a program that uses    *)
(* the queue can cite them for its own steps.                              *)
(***************************************************************************)
EXTENDS SafeQueue, SequenceTheorems, FiniteSetTheorems, TLAPS

(* A block pushed at the back of the queue is at the back of the history.  *)
LEMMA AppendAtBack ==
  ASSUME NEW s \in Seq(Blocks), NEW q \in Seq(Blocks), NEW b \in Blocks
  PROVE  Append(s \o q, b) = s \o Append(q, b)
<1>1. <<b>> \in Seq(Blocks)
  OBVIOUS
<1>2. /\ s \o q \in Seq(Blocks)
      /\ Append(s \o q, b) = (s \o q) \o <<b>>
      /\ Append(q, b) = q \o <<b>>
  BY ConcatProperties, AppendIsConcat
<1>3. QED
  BY <1>1, <1>2, ConcatAssociative

(* The head of the queue moves to the popped history unchanged.            *)
LEMMA HeadMovesOver ==
  ASSUME NEW S, NEW s \in Seq(S), NEW q \in Seq(S), q # <<>>
  PROVE  s \o q = Append(s, Head(q)) \o Tail(q)
<1>1. Head(q) \in S /\ Tail(q) \in Seq(S) /\ <<Head(q)>> \in Seq(S)
  BY HeadTailProperties
<1>2. q = <<Head(q)>> \o Tail(q)
  <2>1. <<Head(q)>> \o Tail(q) \in Seq(S)
    BY <1>1, ConcatProperties
  <2>2. /\ Len(<<Head(q)>>) = 1
        /\ Len(Tail(q)) = Len(q) - 1
        /\ Len(q) \in Nat /\ Len(q) >= 1
        /\ \A i \in 1 .. Len(Tail(q)) : Tail(q)[i] = q[i + 1]
        /\ Head(q) = q[1]
    BY HeadTailProperties, EmptySeq
  <2>3. Len(<<Head(q)>> \o Tail(q)) = Len(q)
    BY <1>1, <2>2, ConcatProperties
  <2>4. \A i \in 1 .. Len(q) : (<<Head(q)>> \o Tail(q))[i] = q[i]
    <3>1. \A i \in 1 .. 1 + Len(Tail(q)) :
             (<<Head(q)>> \o Tail(q))[i] =
               IF i <= 1 THEN <<Head(q)>>[i] ELSE Tail(q)[i - 1]
      BY <1>1, <2>2, ConcatProperties
    <3>2. QED
      BY <2>2, <3>1
  <2>5. QED
    BY <2>1, <2>3, <2>4, SeqEqual
<1>3. Append(s, Head(q)) = s \o <<Head(q)>>
  BY <1>1, AppendIsConcat
<1>4. QED
  BY <1>1, <1>2, <1>3, ConcatAssociative

------------------------------------------------------------------------------
QueueInv == QueueTypeOK /\ Conservation /\ EveryBlockHasAWaker
                        /\ NoSleeperAfterStop

(* A new queue is empty and nobody sleeps.                                 *)
LEMMA QueueInitInv == QueueInit => QueueInv
<1> SUFFICES ASSUME QueueInit PROVE QueueInv
  OBVIOUS
<1>1. In("asleep") = {}
  BY DEF QueueInit, In
<1>2. Conservation
  BY ConcatEmptySeq DEF QueueInit, Conservation
<1>3. QueueTypeOK
  BY DEF QueueInit, QueueTypeOK, Phases, Results, Codes
<1>4. QED
  BY <1>1, <1>2, <1>3 DEF QueueInv, EveryBlockHasAWaker, NoSleeperAfterStop

(* Every call of the queue keeps its variables within their types.         *)
LEMMA StepTypeOK ==
  ASSUME QueueTypeOK, NEW t \in Threads, Step(t)
  PROVE  QueueTypeOK'
<1> USE DEF QueueTypeOK, Phases, Results, Codes
<1>a. ASSUME ~empty, NEW code \in Codes, Take(t, code) PROVE QueueTypeOK'
  <2>1. Head(queue) \in Blocks /\ Tail(queue) \in Seq(Blocks)
    BY <1>a, HeadTailProperties DEF empty
  <2>2. QED
    BY <1>a, <2>1 DEF Take
<1>b. ASSUME NEW code \in Codes, TakeNothing(t, code) PROVE QueueTypeOK'
  BY <1>b DEF TakeNothing
<1>c. ASSUME PopOrSleep(t) PROVE QueueTypeOK'
  <2>1. CASE empty /\ run_async /\ Sleep(t)
    BY <2>1 DEF Sleep
  <2>2. CASE TakeNothing(t, "stopped")
    BY <2>2, <1>b
  <2>3. CASE ~empty /\ Take(t, IF run_async THEN "running" ELSE "draining")
    BY <2>3, <1>a
  <2>4. QED
    BY <1>c, <2>1, <2>2, <2>3 DEF PopOrSleep
<1>1. ASSUME NEW b \in Blocks, Push(t, b) PROVE QueueTypeOK'
  BY <1>1 DEF Push
<1>2. CASE NotifyOne(t)
  BY <1>2 DEF NotifyOne, In
<1>3. CASE NotifyAll(t)
  BY <1>3 DEF NotifyAll
<1>4. CASE WaitPop(t) \/ Resume(t)
  BY <1>4, <1>c DEF WaitPop, Resume
<1>5. CASE SpuriousWakeup(t)
  BY <1>5 DEF SpuriousWakeup
<1>6. CASE Pop(t)
  BY <1>6, <1>a, <1>b DEF Pop
<1>7. CASE StartAsync(t) \/ StopAsync(t)
  BY <1>7 DEF StartAsync, StopAsync, SetRunAsync
<1>8. QED
  BY <1>1, <1>2, <1>3, <1>4, <1>5, <1>6, <1>7 DEF Step, Progress

(* Every call of the queue leaves pushed = popped \o queue: push adds at   *)
(* both ends of the equation, a pop moves the head over.                   *)
LEMMA StepConservation ==
  ASSUME QueueTypeOK, Conservation, NEW t \in Threads, Step(t)
  PROVE  Conservation'
<1> USE DEF Conservation
<1>a. ASSUME ~empty, NEW code, Take(t, code) PROVE Conservation'
  BY <1>a, HeadMovesOver DEF empty, Take, QueueTypeOK
<1>b. ASSUME UNCHANGED <<queue, pushed, popped>> PROVE Conservation'
  BY <1>b
<1>1. ASSUME NEW b \in Blocks, Push(t, b) PROVE Conservation'
  <2>1. popped \in Seq(Blocks) /\ queue \in Seq(Blocks)
    BY DEF QueueTypeOK
  <2>2. Append(popped \o queue, b) = popped \o Append(queue, b)
    BY <2>1, AppendAtBack
  <2>3. QED
    BY <1>1, <2>2 DEF Push
<1>2. CASE WaitPop(t) \/ Resume(t) \/ Pop(t)
  BY <1>2, <1>a, <1>b
     DEF WaitPop, Resume, Pop, PopOrSleep, Sleep, TakeNothing
<1>3. CASE NotifyOne(t) \/ NotifyAll(t) \/ SpuriousWakeup(t)
           \/ StartAsync(t) \/ StopAsync(t)
  BY <1>3, <1>b DEF NotifyOne, NotifyAll, SpuriousWakeup,
                    StartAsync, StopAsync, SetRunAsync
<1>4. QED
  BY <1>1, <1>2, <1>3 DEF Step, Progress

(* The threads in a phase, before and after a step, can be counted.        *)
LEMMA InFinite ==
  ASSUME NEW phase
  PROVE  /\ IsFiniteSet(In(phase)) /\ Cardinality(In(phase)) \in Nat
         /\ IsFiniteSet(In(phase)') /\ Cardinality(In(phase)') \in Nat
<1>1. In(phase) \in SUBSET Threads /\ In(phase)' \in SUBSET Threads
  BY DEF In
<1>2. IsFiniteSet(In(phase)) /\ IsFiniteSet(In(phase)')
  BY <1>1, QueueConstants, FS_Subset
<1>3. QED
  BY <1>2, FS_CardinalityType

(* wait_pop goes to sleep only on a running queue, and a stop leaves a     *)
(* notify_all to come.                                                     *)
LEMMA StepSleeperAfterStop ==
  ASSUME QueueTypeOK, NoSleeperAfterStop, NEW t \in Threads, Step(t)
  PROVE  NoSleeperAfterStop'
<1> USE DEF NoSleeperAfterStop, In, QueueTypeOK
<1>1. ASSUME NEW b \in Blocks, Push(t, b) PROVE NoSleeperAfterStop'
  BY <1>1 DEF Push
<1>2. CASE NotifyOne(t)
  BY <1>2 DEF NotifyOne
<1>3. CASE NotifyAll(t)
  BY <1>3 DEF NotifyAll
<1>4. CASE WaitPop(t) \/ Resume(t) \/ Pop(t)
  BY <1>4 DEF WaitPop, Resume, Pop, PopOrSleep, Sleep, TakeNothing, Take
<1>5. CASE SpuriousWakeup(t)
  BY <1>5 DEF SpuriousWakeup
<1>6. CASE StartAsync(t) \/ StopAsync(t)
  BY <1>6 DEF StartAsync, StopAsync, SetRunAsync
<1>7. QED
  BY <1>1, <1>2, <1>3, <1>4, <1>5, <1>6 DEF Step, Progress

(* A push adds a block and a notification; a notification becomes a woken  *)
(* thread; a woken thread takes a block, or sleeps on an empty queue.      *)
LEMMA StepWaker ==
  ASSUME QueueTypeOK, EveryBlockHasAWaker, NEW t \in Threads, Step(t)
  PROVE  EveryBlockHasAWaker'
<1>0. QueueTypeOK'
  BY StepTypeOK
<1>a. \A phase \in Phases :
         /\ IsFiniteSet(In(phase)) /\ Cardinality(In(phase)) \in Nat
         /\ IsFiniteSet(In(phase)') /\ Cardinality(In(phase)') \in Nat
  BY InFinite
<1> USE DEF QueueTypeOK, EveryBlockHasAWaker, Phases
<1>1. ASSUME NEW b \in Blocks, Push(t, b) PROVE EveryBlockHasAWaker'
  <2>1. /\ In("asleep")' = In("asleep")
        /\ In("awake")' = In("awake")
        /\ In("notifyOne")' = In("notifyOne") \cup {t}
        /\ t \notin In("notifyOne")
    BY <1>1, t \in Threads DEF Push, In
  <2>2. Cardinality(In("notifyOne")') = Cardinality(In("notifyOne")) + 1
    BY <1>a, <2>1, FS_AddElement
  <2>3. Len(queue') = Len(queue) + 1
    BY <1>1 DEF Push
  <2>4. QED
    BY <1>a, <2>1, <2>2, <2>3
<1>2. CASE NotifyOne(t)
  <2>1. CASE In("asleep") = {} /\ call' = [call EXCEPT ![t] = "idle"]
    BY <2>1 DEF In
  <2>2. ASSUME NEW w \in In("asleep"),
               call' = [call EXCEPT ![t] = "idle", ![w] = "awake"]
        PROVE  EveryBlockHasAWaker'
    <3>1. /\ w # t
          /\ In("notifyOne")' = In("notifyOne") \ {t} /\ t \in In("notifyOne")
          /\ In("awake")' = In("awake") \cup {w} /\ w \notin In("awake")
      BY <1>2, <2>2 DEF NotifyOne, In
    <3>2. /\ Cardinality(In("notifyOne")') = Cardinality(In("notifyOne")) - 1
          /\ Cardinality(In("awake")') = Cardinality(In("awake")) + 1
      BY <1>a, <3>1, FS_AddElement, FS_RemoveElement
    <3>3. queue' = queue /\ In("asleep") # {}
      BY <1>2, <2>2 DEF NotifyOne
    <3>4. QED
      BY <1>a, <3>2, <3>3
  <2>3. QED
    BY <1>2, <2>1, <2>2 DEF NotifyOne
<1>3. CASE NotifyAll(t)
  BY <1>3 DEF NotifyAll, In
<1>4. CASE SpuriousWakeup(t)
  <2>1. /\ In("notifyOne")' = In("notifyOne")
        /\ In("awake")' = In("awake") \cup {t} /\ t \notin In("awake")
        /\ In("asleep") # {} /\ queue' = queue
    BY <1>4 DEF SpuriousWakeup, In
  <2>2. Cardinality(In("awake")') = Cardinality(In("awake")) + 1
    BY <1>a, <2>1, FS_AddElement
  <2>3. QED
    BY <1>a, <2>1, <2>2
<1>5. CASE StartAsync(t) \/ StopAsync(t)
  <2>1. /\ In("notifyOne")' = In("notifyOne") /\ In("awake")' = In("awake")
        /\ In("asleep")' = In("asleep") /\ queue' = queue
    BY <1>5 DEF StartAsync, StopAsync, SetRunAsync, In
  <2>2. QED
    BY <2>1
(* Going to sleep needs an empty queue, and a thread that was awake and    *)
(* does not sleep takes a block with it, or there was none to take.        *)
<1>6. ASSUME call[t] = "idle" \/ call[t] = "awake", empty,
             queue' = queue,
             \E p \in Phases : call' = [call EXCEPT ![t] = p]
      PROVE  EveryBlockHasAWaker'
  <2>1. Len(queue') = 0
    BY <1>6 DEF empty
  <2>2. QED
    BY <1>0, <1>a, <2>1
<1>7. ASSUME call[t] = "idle" \/ call[t] = "awake", ~empty,
             NEW code, Take(t, code)
      PROVE  EveryBlockHasAWaker'
  <2>1. /\ In("notifyOne")' = In("notifyOne")
        /\ In("awake")' = In("awake") \ {t}
        /\ In("asleep")' = In("asleep")
    BY <1>7 DEF Take, In
  <2>2. Cardinality(In("awake")') >= Cardinality(In("awake")) - 1
    <3>1. IsFiniteSet(In("awake")) /\ Cardinality(In("awake")) \in Nat
      BY InFinite
    <3>2. Cardinality(In("awake") \ {t}) =
            IF t \in In("awake") THEN Cardinality(In("awake")) - 1
                                 ELSE Cardinality(In("awake"))
      BY <3>1, FS_RemoveElement
    <3>3. Cardinality(In("awake")') = Cardinality(In("awake") \ {t})
      BY <2>1
    <3>4. QED
      BY <3>1, <3>2, <3>3
  <2>3. Len(queue') = Len(queue) - 1 /\ Len(queue) \in Nat
    BY <1>7, HeadTailProperties DEF Take, empty
  <2>4. QED
    BY <1>a, <2>1, <2>2, <2>3
<1>8. CASE WaitPop(t) \/ Resume(t) \/ Pop(t)
  BY <1>8, <1>6, <1>7 DEF WaitPop, Resume, Pop, PopOrSleep, Sleep, TakeNothing
<1>9. QED
  BY <1>1, <1>2, <1>3, <1>4, <1>5, <1>8 DEF Step, Progress

(* One step of one thread keeps the whole invariant.                       *)
LEMMA StepQueueInv ==
  ASSUME QueueInv, NEW t \in Threads, Step(t)
  PROVE  QueueInv'
BY StepTypeOK, StepConservation, StepWaker, StepSleeperAfterStop DEF QueueInv

(* A step that leaves the queue alone keeps its invariant.                 *)
LEMMA StutterQueueInv ==
  ASSUME QueueInv, UNCHANGED queueVars
  PROVE  QueueInv'
BY DEF QueueInv, queueVars, QueueTypeOK, Conservation, EveryBlockHasAWaker,
       NoSleeperAfterStop, In

------------------------------------------------------------------------------
(* The invariant of the queue, in every behaviour: types, nothing lost     *)
(* between push (queue.hpp:23-29) and wait_pop (39-65), a waker for every  *)
(* block, no sleeper left behind by stop_async (80-86).                    *)
THEOREM QueueInvariant == QueueSpec => []QueueInv
<1>1. QueueInv /\ [QueueNext]_queueVars => QueueInv'
  BY StepQueueInv, StutterQueueInv DEF QueueNext
<1>2. QED
  BY <1>1, QueueInitInv, PTL DEF QueueSpec

(* Every variable of the queue has its type in every behaviour.            *)
THEOREM QueueTypeCorrect == QueueSpec => []QueueTypeOK
<1>1. QueueInv => QueueTypeOK
  BY DEF QueueInv
<1>2. QED
  BY <1>1, QueueInvariant, PTL

(* The notification after the unlock in push (queue.hpp:28) is never one   *)
(* too few, for any number of producers and consumers.                     *)
THEOREM NoLostWakeup == QueueSpec => []EveryBlockHasAWaker
<1>1. QueueInv => EveryBlockHasAWaker
  BY DEF QueueInv
<1>2. QED
  BY <1>1, QueueInvariant, PTL

(* stop_async leaves nobody asleep for good: see queue.hpp:46-49.          *)
THEOREM StopNotMissed == QueueSpec => []NoSleeperAfterStop
<1>1. QueueInv => NoSleeperAfterStop
  BY DEF QueueInv
<1>2. QED
  BY <1>1, QueueInvariant, PTL

------------------------------------------------------------------------------
(* The head of the queue is the first block not yet delivered.             *)
LEMMA HeadIsNextSent ==
  ASSUME QueueTypeOK, Conservation, ~empty
  PROVE  /\ Len(popped) < Len(pushed)
         /\ pushed[Len(popped) + 1] = Head(queue)
<1> USE DEF QueueTypeOK
<1>1. Len(queue) \in Nat /\ Len(queue) >= 1 /\ Head(queue) = queue[1]
  BY EmptySeq DEF empty
<1>2. /\ Len(pushed) = Len(popped) + Len(queue)
      /\ \A i \in 1 .. Len(popped) + Len(queue) : pushed[i] =
           IF i <= Len(popped) THEN popped[i] ELSE queue[i - Len(popped)]
  BY ConcatProperties DEF Conservation
<1>3. Len(popped) + 1 \in 1 .. Len(popped) + Len(queue)
  BY <1>1
<1>4. QED
  BY <1>1, <1>2, <1>3

(* Taking the oldest block is the channel's Receive.                       *)
LEMMA TakeReceives ==
  ASSUME QueueTypeOK, Conservation, ~empty, NEW t \in Threads,
         NEW code \in {"popped", IF run_async THEN "running" ELSE "draining"},
         Take(t, code)
  PROVE  C!Receive(t)
BY HeadIsNextSent DEF Take, C!Receive

(* Answering without a block is the channel's NothingLeft.                 *)
LEMMA TakeNothingAnswers ==
  ASSUME QueueTypeOK, Conservation, empty, NEW t \in Threads,
         NEW code \in {"empty"} \cup (IF run_async THEN {} ELSE {"stopped"}),
         TakeNothing(t, code)
  PROVE  C!NothingLeft(t)
<1>1. popped = pushed
  BY ConcatEmptySeq DEF QueueTypeOK, Conservation, empty
<1>2. QED
  BY <1>1 DEF TakeNothing, C!NothingLeft

(* One step of the queue is a step of the channel, or changes nothing that *)
(* the channel knows of.                                                   *)
LEMMA StepImplements ==
  ASSUME QueueInv, NEW t \in Threads, Step(t)
  PROVE  C!ChannelNext \/ UNCHANGED C!channelVars
<1> USE DEF QueueInv, C!channelVars
<1>1. ASSUME NEW b \in Blocks, Push(t, b) PROVE C!ChannelNext
  BY <1>1 DEF Push, C!Send, C!ChannelNext
<1>2. CASE NotifyOne(t) \/ NotifyAll(t) \/ SpuriousWakeup(t)
  BY <1>2 DEF NotifyOne, NotifyAll, SpuriousWakeup
<1>3. CASE PopOrSleep(t)
  <2>1. CASE empty /\ run_async /\ Sleep(t)
    BY <2>1 DEF Sleep
  <2>2. CASE empty /\ ~run_async /\ TakeNothing(t, "stopped")
    BY <2>2, TakeNothingAnswers DEF C!ChannelNext
  <2>3. CASE ~empty /\ Take(t, IF run_async THEN "running" ELSE "draining")
    BY <2>3, TakeReceives DEF C!ChannelNext
  <2>4. QED
    BY <1>3, <2>1, <2>2, <2>3 DEF PopOrSleep
<1>4. CASE Pop(t)
  BY <1>4, TakeReceives, TakeNothingAnswers DEF Pop, C!ChannelNext
<1>5. CASE StartAsync(t) \/ StopAsync(t)
  BY <1>5 DEF StartAsync, StopAsync, SetRunAsync, C!SetOpen, C!ChannelNext
<1>6. QED
  BY <1>1, <1>2, <1>3, <1>4, <1>5 DEF Step, Progress, WaitPop, Resume

(* SafeQueue implements the channel: first in, first out, each block once, *)
(* and 0 from wait_pop only when the queue is stopped and empty (the       *)
(* comments at queue.hpp:53-54, 60 and 63).                                *)
THEOREM QueueImplementsChannel == QueueSpec => ImplementsChannel
<1>1. QueueInit => C!ChannelInit
  BY DEF QueueInit, C!ChannelInit
<1>2. QueueInv /\ [QueueNext]_queueVars => [C!ChannelNext]_(C!channelVars)
  <2> SUFFICES ASSUME QueueInv, [QueueNext]_queueVars
               PROVE  [C!ChannelNext]_(C!channelVars)
    OBVIOUS
  <2>1. CASE QueueNext
    BY <2>1, StepImplements DEF QueueNext
  <2>2. CASE UNCHANGED queueVars
    BY <2>2 DEF queueVars, C!channelVars
  <2>3. QED
    BY <2>1, <2>2
<1>3. QED
  BY <1>1, <1>2, QueueInvariant, PTL DEF QueueSpec, ImplementsChannel, C!ChannelSpec
==============================================================================
