----------------------------- MODULE ArrayProofs -----------------------------
(***************************************************************************)
(* Proofs about the microphone array.  CircularQueue delays by N samples,  *)
(* for every N: the slots hold the last N samples, so that every PushPop   *)
(* is a step of the delay line.  Beamformer, for any microphones, points,  *)
(* travel times and sampling periods.  MicConfig, for any table of rates   *)
(* and gains.  DirectionOfArrival, for any circle of microphones that is   *)
(* wide enough, and any size of a block.                                   *)
(***************************************************************************)
EXTENDS SampleDelay, Beamformer, MicConfig, DirectionOfArrival, WellFoundedInduction,
        TLAPS

DelayInv == TypeOK /\ LastSamplesHeld

(* Modulo fifo_size_ the slot before one in 0 .. size - 1 is its            *)
(* predecessor, or the last slot.                                          *)
LEMMA SlotBefore ==
  ASSUME NEW size \in Nat, size > 0, NEW p \in 0 .. size - 1
  PROVE  (p + size - 1) % size = IF p = 0 THEN size - 1 ELSE p - 1
  OBVIOUS

(* Modulo fifo_size_ the slot after one is its successor, or slot 0.       *)
LEMMA SlotAfter ==
  ASSUME NEW size \in Nat, size > 0, NEW p \in 0 .. size - 1
  PROVE  (p + 1) % size = IF p = size - 1 THEN 0 ELSE p + 1
  OBVIOUS

(* The queue of a type-correct state is a record whose fields are known.   *)
QueueIsRecord ==
  queue = [fifo_size_ |-> queue.fifo_size_, pointer_ |-> queue.pointer_,
           fifo_ |-> queue.fifo_]

Inductive == DelayInv /\ QueueIsRecord

(* A new queue has no slot: the invariant holds.                           *)
LEMMA InitDelayInv == Init => Inductive
  BY DelayConstants
     DEF Init, Inductive, DelayInv, TypeOK, LastSamplesHeld, QueueIsRecord,
         NewQueue, N_, Slots

(* Resize leaves slots that hold samples, none of them pushed.             *)
LEMMA ResizeDelayInv ==
  ASSUME Inductive, NEW N \in -1 .. MaxDelay, Resize(N)
  PROVE  Inductive'
<1>1. N \in 0 .. MaxDelay
  BY DelayConstants DEF Resize
<1>2. PICK memory \in [0 .. N -> Samples] : queue' = Resized(N, memory)
  BY DEF Resize
<1>3. /\ queue'.fifo_size_ = N + 1
      /\ queue'.pointer_ = 0
      /\ queue'.fifo_ = memory
      /\ QueueIsRecord'
  BY <1>2 DEF Resized, QueueIsRecord
<1>4. N_' = N /\ Slots' = 0 .. N
  BY <1>1, <1>3 DEF N_, Slots
<1>5. input' = <<>> /\ output' = output
  BY DEF Resize
<1>6. TypeOK'
  BY <1>1, <1>3, <1>4, <1>5, DelayConstants DEF Inductive, DelayInv, TypeOK
<1>7. LastSamplesHeld'
  BY <1>4, <1>5, DelayConstants, <1>1 DEF LastSamplesHeld
<1>. QED
  BY <1>3, <1>6, <1>7 DEF Inductive, DelayInv

(* What PushPop does to a queue that has slots.                            *)
LEMMA PushMoves ==
  ASSUME Inductive, NEW data \in Samples, Push(data), queue.fifo_size_ > 1
  PROVE  LET size == queue.fifo_size_
             p    == queue.pointer_
             back == IF p = 0 THEN size - 1 ELSE p - 1
         IN  /\ size \in Nat /\ p \in 0 .. size - 1 /\ back \in Slots
             /\ queue'.fifo_size_ = size
             /\ queue'.pointer_ = IF p = size - 1 THEN 0 ELSE p + 1
             /\ queue'.fifo_ = [queue.fifo_ EXCEPT ![back] = data]
             /\ output' = queue.fifo_[p]
             /\ QueueIsRecord'
<1>. DEFINE size == queue.fifo_size_
            p == queue.pointer_
            back == IF p = 0 THEN size - 1 ELSE p - 1
<1>1. size \in Nat /\ size > 1 /\ p \in 0 .. size - 1
  BY DelayConstants DEF Inductive, DelayInv, TypeOK, N_
<1>2. (p + size - 1) % size = back
  BY <1>1, SlotBefore
<1>3. (p + 1) % size = IF p = size - 1 THEN 0 ELSE p + 1
  BY <1>1, SlotAfter
<1>4. back \in Slots /\ p \in Slots /\ p # back
  BY <1>1 DEF Slots
<1>5. AfterPushPop(queue, data)
        = [fifo_size_ |-> size, pointer_ |-> (p + 1) % size,
           fifo_ |-> [queue.fifo_ EXCEPT ![(p + size - 1) % size] = data]]
  BY <1>1 DEF AfterPushPop, Inductive, QueueIsRecord
<1>6. queue' = [fifo_size_ |-> size, pointer_ |-> (p + 1) % size,
                fifo_ |-> [queue.fifo_ EXCEPT ![(p + size - 1) % size] = data]]
  BY <1>5 DEF Push
<1>7. queue'.fifo_ = [queue.fifo_ EXCEPT ![back] = data]
  BY <1>2, <1>6
<1>8. queue'.pointer_ = IF p = size - 1 THEN 0 ELSE p + 1
  BY <1>3, <1>6
<1>9. output' = queue'.fifo_[p]
  BY <1>1, <1>5, <1>6 DEF Push, PushPop
<1>10. output' = queue.fifo_[p]
  BY <1>4, <1>7, <1>9 DEF Inductive, DelayInv, TypeOK
<1>11. QueueIsRecord' /\ queue'.fifo_size_ = size
  BY <1>6 DEF QueueIsRecord
<1>. QED
  BY <1>1, <1>4, <1>7, <1>8, <1>10, <1>11

(* PushPop keeps the last samples in their slots: the slot it overwrites   *)
(* is the one whose sample it gave back the time before.                   *)
LEMMA PushDelayInv ==
  ASSUME Inductive, NEW data \in Samples, Push(data)
  PROVE  Inductive'
<1>. USE DelayConstants
<1>0. input' = Append(input, data) /\ input' \in Seq(Samples)
      /\ Len(input') = Len(input) + 1 /\ Len(input) \in Nat
  BY DEF Push, Inductive, DelayInv, TypeOK
<1>1. CASE queue.fifo_size_ > 1
  <2>. DEFINE size == queue.fifo_size_
              p == queue.pointer_
              back == IF p = 0 THEN size - 1 ELSE p - 1
  <2>1. /\ size \in Nat /\ p \in 0 .. size - 1 /\ back \in Slots
        /\ queue'.fifo_size_ = size
        /\ queue'.pointer_ = IF p = size - 1 THEN 0 ELSE p + 1
        /\ queue'.fifo_ = [queue.fifo_ EXCEPT ![back] = data]
        /\ output' = queue.fifo_[p]
        /\ QueueIsRecord'
    BY <1>1, PushMoves
  <2>2. N_' = N_ /\ Slots' = Slots /\ N_ = size - 1 /\ p \in Slots
    BY <1>1, <2>1 DEF N_, Slots
  <2>3. TypeOK'
    BY <1>0, <1>1, <2>1, <2>2 DEF Inductive, DelayInv, TypeOK
  <2>4. ASSUME NEW d \in 1 .. N_, d <= Len(input')
        PROVE  queue'.fifo_[SlotOf(d)'] = input'[Len(input') + 1 - d]
    <3>1. CASE d = 1
      <4>1. SlotOf(d)' = back
        BY <1>1, <2>1, <3>1 DEF SlotOf
      <4>2. queue'.fifo_[back] = data
        BY <2>1 DEF Inductive, DelayInv, TypeOK
      <4>3. input'[Len(input') + 1 - d] = data
        BY <1>0, <3>1 DEF Inductive, DelayInv, TypeOK
      <4>. QED
        BY <4>1, <4>2, <4>3
    <3>2. CASE d # 1
      <4>1. d - 1 \in 1 .. N_ /\ d - 1 <= Len(input)
        BY <1>0, <2>2, <2>4, <3>2, <2>1
      <4>2. SlotOf(d)' = SlotOf(d - 1)
        BY <1>1, <2>1, <2>2, <3>2 DEF SlotOf
      <4>3. SlotOf(d - 1) \in Slots /\ SlotOf(d - 1) # back
        BY <1>1, <2>1, <2>2, <3>2 DEF SlotOf, Slots
      <4>4. queue'.fifo_[SlotOf(d)'] = queue.fifo_[SlotOf(d - 1)]
        BY <2>1, <4>2, <4>3 DEF Inductive, DelayInv, TypeOK
      <4>5. queue.fifo_[SlotOf(d - 1)] = input[Len(input) + 1 - (d - 1)]
        BY <1>1, <4>1 DEF Inductive, DelayInv, LastSamplesHeld
      <4>6. input'[Len(input') + 1 - d] = input[Len(input) + 1 - (d - 1)]
        BY <1>0, <2>1, <2>2, <4>1 DEF Inductive, DelayInv, TypeOK
      <4>. QED
        BY <4>4, <4>5, <4>6
    <3>. QED
      BY <3>1, <3>2
  <2>5. LastSamplesHeld'
    BY <2>2, <2>4 DEF LastSamplesHeld
  <2>. QED
    BY <2>1, <2>3, <2>5 DEF Inductive, DelayInv
<1>2. CASE ~(queue.fifo_size_ > 1)
  <2>1. queue' = queue /\ output' = data
    BY <1>2 DEF Push, AfterPushPop, PushPop
  <2>2. N_' = N_ /\ Slots' = Slots
    BY <2>1 DEF N_, Slots
  <2>. QED
    BY <1>0, <1>2, <2>1, <2>2
       DEF Inductive, DelayInv, TypeOK, LastSamplesHeld, QueueIsRecord
<1>. QED
  BY <1>1, <1>2

(* The last samples are in the slots at any time.                          *)
THEOREM DelayInvariant == Spec => []Inductive
<1>1. Inductive /\ [Next]_vars => Inductive'
  <2>. SUFFICES ASSUME Inductive, [Next]_vars
                PROVE  Inductive'
    OBVIOUS
  <2>1. CASE UNCHANGED vars
    BY <2>1 DEF vars, Inductive, DelayInv, TypeOK, LastSamplesHeld,
                QueueIsRecord, N_, Slots, SlotOf
  <2>2. CASE Next
    BY <2>2, ResizeDelayInv, PushDelayInv DEF Next
  <2>. QED
    BY <2>1, <2>2
<1>. QED
  BY <1>1, InitDelayInv, PTL DEF Spec

(* The variables of a circular queue have their types, for every size.     *)
THEOREM DelayTypeCorrect == Spec => []TypeOK
  BY DelayInvariant, PTL DEF Inductive, DelayInv

(* The last N samples pushed are in the buffer, each in its slot, for      *)
(* every N.                                                                *)
THEOREM LastSamplesAreHeld == Spec => []LastSamplesHeld
  BY DelayInvariant, PTL DEF Inductive, DelayInv

(* What PushPop gives back is the sample of N calls before.                *)
LEMMA PushIsShift ==
  ASSUME Inductive, NEW data \in Samples, Push(data)
  PROVE  Line!Shift(data)
<1>. USE DelayConstants
<1>0. input' = Append(input, data) /\ Len(input') = Len(input) + 1
      /\ Len(input) \in Nat /\ input \in Seq(Samples)
  BY DEF Push, Inductive, DelayInv, TypeOK
<1>1. CASE queue.fifo_size_ > 1
  <2>. DEFINE size == queue.fifo_size_
              p == queue.pointer_
  <2>1. /\ size \in Nat /\ p \in 0 .. size - 1
        /\ queue'.fifo_size_ = size
        /\ output' = queue.fifo_[p]
    BY <1>1, PushMoves
  <2>2. N_' = N_ /\ N_ = size - 1 /\ N_ \in Nat /\ N_ >= 1
    BY <1>1, <2>1 DEF N_
  <2>3. CASE Len(input) < N_
    <3>1. output' \in Samples
      BY <2>1 DEF Inductive, DelayInv, TypeOK, Slots
    <3>. QED
      BY <1>0, <2>2, <2>3, <3>1 DEF Line!Shift
  <2>4. CASE N_ <= Len(input)
    <3>1. SlotOf(N_) = p
      BY <2>1, <2>2 DEF SlotOf
    <3>2. queue.fifo_[p] = input[Len(input) + 1 - N_]
      BY <1>1, <2>2, <2>4, <3>1 DEF Inductive, DelayInv, LastSamplesHeld
    <3>3. input'[Len(input') - N_] = input[Len(input) + 1 - N_]
      BY <1>0, <2>2, <2>4
    <3>. QED
      BY <1>0, <2>1, <2>2, <2>4, <3>2, <3>3 DEF Line!Shift
  <2>. QED
    BY <1>0, <2>2, <2>3, <2>4
<1>2. CASE ~(queue.fifo_size_ > 1)
  <2>1. queue' = queue /\ output' = data
    BY <1>2 DEF Push, AfterPushPop, PushPop
  <2>2. N_' = N_ /\ N_ = 0
    BY <1>2, <2>1 DEF N_
  <2>3. input'[Len(input')] = data
    BY <1>0
  <2>. QED
    BY <1>0, <2>1, <2>2, <2>3 DEF Line!Shift
<1>. QED
  BY <1>1, <1>2

(* Every step of the queue is a step of the delay line.                    *)
LEMMA StepIsLineStep ==
  ASSUME Inductive, [Next]_vars
  PROVE  [Line!LineNext]_(Line!lineVars)
<1>1. CASE UNCHANGED vars
  BY <1>1 DEF vars, Line!lineVars, N_
<1>2. ASSUME NEW N \in -1 .. MaxDelay, Resize(N)
      PROVE  Line!SetDelay(N) /\ N \in 0 .. MaxDelay
  <2>1. N \in 0 .. MaxDelay
    BY <1>2, DelayConstants DEF Resize
  <2>2. N_' = N
    BY <1>2, <2>1 DEF Resize, Resized, N_
  <2>. QED
    BY <1>2, <2>1, <2>2 DEF Resize, Line!SetDelay
<1>3. ASSUME NEW data \in Samples, Push(data)
      PROVE  Line!Shift(data)
  BY <1>3, PushIsShift
<1>. QED
  BY <1>1, <1>2, <1>3 DEF Next, Line!LineNext

(* CircularQueue implements a delay of N samples, for every N: after any   *)
(* Resize(N), PushPop gives back the sample pushed N calls before.         *)
THEOREM QueueImplementsDelayLine == Spec => ImplementsDelayLine
<1>1. Init => Line!LineInit
  BY DEF Init, Line!LineInit, N_, NewQueue
<1>. QED
  BY <1>1, DelayInvariant, StepIsLineStep, PTL
     DEF Spec, ImplementsDelayLine, Line!LineSpec

------------------------------------------------------------------------------
(* What a slot of a queue may hold.                                        *)
SlotValues == Int \cup {Uninitialised}

(* The delay of a queue, and the slot of the d-th last sample it got.      *)
DelayIn(q) == IF q.fifo_size_ > 1 THEN q.fifo_size_ - 1 ELSE 0

SlotIn(q, d) == q.pointer_ - 1 - d + IF d < q.pointer_ THEN 0 ELSE q.fifo_size_

Held(q, d) == q.fifo_[SlotIn(q, d)]

QueueOK(q) ==
  /\ q = [fifo_size_ |-> q.fifo_size_, pointer_ |-> q.pointer_, fifo_ |-> q.fifo_]
  /\ q.fifo_size_ \in Nat /\ q.pointer_ \in 0 .. DelayIn(q)
  /\ q.fifo_ \in [0 .. q.fifo_size_ - 1 -> SlotValues]

(* What a queue holds, with the value it gave last and the next one it     *)
(* gets: the later a sample came, the greater it is.                       *)
Rising(q, last, next) ==
  /\ last \in Int => last < next
  /\ \A d \in 1 .. DelayIn(q) : Held(q, d) \in Int =>
       /\ Held(q, d) < next
       /\ last \in Int => last < Held(q, d)
       /\ \A e \in 1 .. DelayIn(q) : d < e /\ Held(q, e) \in Int => Held(q, e) < Held(q, d)

(* The n last samples, of those that are held, came after the last Resize. *)
Initialised(q, n) == \A d \in 1 .. DelayIn(q) : d <= n => Held(q, d) \in Int

(* PushPop makes every sample held one older, and gives back the oldest.   *)
LEMMA PushPopShifts ==
  ASSUME NEW q, QueueOK(q), NEW data \in Int, q.fifo_size_ > 1
  PROVE  LET r == AfterPushPop(q, data)
         IN  /\ QueueOK(r) /\ DelayIn(r) = DelayIn(q) /\ DelayIn(q) \in Nat \ {0}
             /\ PushPop(q, data) = Held(q, DelayIn(q))
             /\ Held(r, 1) = data
             /\ \A d \in 2 .. DelayIn(q) : Held(r, d) = Held(q, d - 1)
<1> DEFINE r == AfterPushPop(q, data)
           size == q.fifo_size_
           p == q.pointer_
           back == IF p = 0 THEN size - 1 ELSE p - 1
           next == IF p = size - 1 THEN 0 ELSE p + 1
<1>1. size \in Nat /\ size > 1 /\ p \in 0 .. size - 1 /\ back \in 0 .. size - 1
      /\ back # p /\ DelayIn(q) = size - 1
      /\ q.fifo_ \in [0 .. size - 1 -> SlotValues]
  BY DEF QueueOK, DelayIn
<1>2. (p + size - 1) % size = back /\ (p + 1) % size = next
  <2> HIDE DEF size, p
  <2>1. (p + size - 1) % size = back
    BY <1>1, SlotBefore
  <2>2. (p + 1) % size = next
    BY <1>1, SlotAfter
  <2>3. QED
    BY <2>1, <2>2
<1>3. r = [fifo_size_ |-> size, pointer_ |-> (p + 1) % size,
           fifo_ |-> [q.fifo_ EXCEPT ![(p + size - 1) % size] = data]]
  BY DEF QueueOK, AfterPushPop
<1>4. r = [fifo_size_ |-> size, pointer_ |-> next, fifo_ |-> [q.fifo_ EXCEPT ![back] = data]]
  BY <1>2, <1>3
<1>5. PushPop(q, data) = r.fifo_[p]
  BY DEF PushPop
<1> HIDE DEF r
<1>6. r.fifo_size_ = size /\ r.pointer_ = next
      /\ r = [fifo_size_ |-> r.fifo_size_, pointer_ |-> r.pointer_, fifo_ |-> r.fifo_]
  BY <1>4
<1>7. /\ r.fifo_ \in [0 .. size - 1 -> SlotValues] /\ r.fifo_[back] = data
      /\ \A slot \in 0 .. size - 1 : slot # back => r.fifo_[slot] = q.fifo_[slot]
  BY <1>1, <1>4 DEF SlotValues
<1>8. QueueOK(r) /\ DelayIn(r) = size - 1
  BY <1>1, <1>6, <1>7 DEF QueueOK, DelayIn
<1>9. SlotIn(q, size - 1) = p
  BY <1>1 DEF SlotIn
<1>10. SlotIn(r, 1) = back
  BY <1>1, <1>6 DEF SlotIn
<1>11. ASSUME NEW d \in 2 .. size - 1
       PROVE  SlotIn(r, d) = SlotIn(q, d - 1) /\ SlotIn(q, d - 1) \in 0 .. size - 1
              /\ SlotIn(q, d - 1) # back
  <2>1. SlotIn(q, d - 1) = p - d + IF d - 1 < p THEN 0 ELSE size
    BY <1>1 DEF SlotIn
  <2>2. SlotIn(r, d) = next - 1 - d + IF d < next THEN 0 ELSE size
    BY <1>6 DEF SlotIn
  <2> HIDE DEF size, p
  <2>3. CASE p = size - 1
    BY <1>1, <2>1, <2>2, <2>3
  <2>4. CASE p # size - 1
    BY <1>1, <2>1, <2>2, <2>4
  <2>5. QED
    BY <2>3, <2>4
<1>12. /\ PushPop(q, data) = Held(q, size - 1) /\ Held(r, 1) = data
       /\ \A d \in 2 .. size - 1 : Held(r, d) = Held(q, d - 1)
  BY <1>1, <1>5, <1>7, <1>9, <1>10, <1>11 DEF Held
<1>13. QED
  BY <1>1, <1>8, <1>12 DEF r

(* PushPop with nothing to delay by.                                       *)
LEMMA PushPopPasses ==
  ASSUME NEW q, NEW data, ~(q.fifo_size_ > 1)
  PROVE  AfterPushPop(q, data) = q /\ PushPop(q, data) = data /\ DelayIn(q) = 0
  BY DEF AfterPushPop, PushPop, DelayIn

(* PushPop gives back a sample later than the last one, and the queue      *)
(* waits for one later than this.                                          *)
LEMMA PushPopInOrder ==
  ASSUME NEW q, QueueOK(q), NEW last \in SlotValues, NEW data \in Int, NEW next \in Int,
         data < next, Rising(q, last, data)
  PROVE  LET r == AfterPushPop(q, data)
             out == PushPop(q, data)
         IN  /\ QueueOK(r) /\ DelayIn(r) = DelayIn(q)
             /\ out \in SlotValues /\ Rising(r, out, next)
             /\ last \in Int /\ out \in Int => last < out
<1> DEFINE r == AfterPushPop(q, data)
           out == PushPop(q, data)
           N == DelayIn(q)
<1>1. CASE q.fifo_size_ > 1
  <2>1. /\ QueueOK(r) /\ DelayIn(r) = N /\ N \in Nat \ {0}
        /\ out = Held(q, N) /\ Held(r, 1) = data
        /\ \A d \in 2 .. N : Held(r, d) = Held(q, d - 1)
    BY <1>1, PushPopShifts
  <2>2. ASSUME NEW d \in 1 .. N PROVE Held(q, d) \in SlotValues
    BY <1>1 DEF QueueOK, DelayIn, Held, SlotIn
  <2>3. out \in SlotValues
    BY <2>1, <2>2
  <2> HIDE DEF r, out, N
  <2>4. /\ \A d \in 1 .. N : Held(q, d) \in Int => 
             /\ Held(q, d) < data
             /\ last \in Int => last < Held(q, d)
        /\ \A d, e \in 1 .. N : d < e /\ Held(q, d) \in Int /\ Held(q, e) \in Int
                                  => Held(q, e) < Held(q, d)
    BY DEF Rising, N
  <2>5. last \in Int /\ out \in Int => last < out
    BY <2>1, <2>4
  <2>6. out \in Int => out < next
    BY <2>1, <2>4
  <2>7. ASSUME NEW d \in 1 .. N, Held(r, d) \in Int
        PROVE  /\ Held(r, d) < next
               /\ out \in Int => out < Held(r, d)
               /\ \A e \in 1 .. N : d < e /\ Held(r, e) \in Int => Held(r, e) < Held(r, d)
    <3>1. ASSUME NEW e \in 1 .. N, d < e
          PROVE  e \in 2 .. N /\ e - 1 \in 1 .. N /\ Held(r, e) = Held(q, e - 1)
      BY <2>1, <3>1
    <3>2. CASE d = 1
      BY <2>1, <2>4, <3>1, <3>2
    <3>3. CASE d # 1
      <4>1. d - 1 \in 1 .. N /\ d - 1 < N /\ Held(r, d) = Held(q, d - 1)
        BY <2>1, <3>3
      <4>2. Held(r, d) < next /\ (out \in Int => out < Held(r, d))
        BY <2>1, <2>4, <2>7, <4>1
      <4>3. ASSUME NEW e \in 1 .. N, d < e, Held(r, e) \in Int PROVE Held(r, e) < Held(r, d)
        BY <2>1, <2>4, <2>7, <3>1, <4>1, <4>3
      <4>4. QED
        BY <4>2, <4>3
    <3>4. QED
      BY <3>2, <3>3
  <2>8. Rising(r, out, next)
    BY <2>1, <2>6, <2>7 DEF Rising
  <2>9. QED
    BY <2>1, <2>3, <2>5, <2>8 DEF r, out, N
<1>2. CASE ~(q.fifo_size_ > 1)
  <2>1. r = q /\ out = data /\ N = 0
    BY <1>2, PushPopPasses
  <2>2. QED
    BY <2>1 DEF Rising, SlotValues
<1>3. QED
  BY <1>1, <1>2

(* PushPop leaves one more slot that was written after the Resize.         *)
LEMMA PushPopInitialises ==
  ASSUME NEW q, QueueOK(q), NEW data \in Int, NEW n \in Nat, Initialised(q, n)
  PROVE  /\ Initialised(AfterPushPop(q, data), n + 1)
         /\ n >= DelayIn(q) => PushPop(q, data) \in Int
<1> DEFINE r == AfterPushPop(q, data)
           N == DelayIn(q)
<1>1. CASE q.fifo_size_ > 1
  <2>1. /\ DelayIn(r) = N /\ N \in Nat \ {0}
        /\ PushPop(q, data) = Held(q, N) /\ Held(r, 1) = data
        /\ \A d \in 2 .. N : Held(r, d) = Held(q, d - 1)
    BY <1>1, PushPopShifts
  <2> HIDE DEF r, N
  <2>2. \A d \in 1 .. N : d <= n => Held(q, d) \in Int
    BY DEF Initialised, N
  <2>3. ASSUME NEW d \in 1 .. N, d <= n + 1 PROVE Held(r, d) \in Int
    <3>1. CASE d = 1
      BY <2>1, <3>1
    <3>2. CASE d # 1
      <4>1. d \in 2 .. N /\ d - 1 \in 1 .. N /\ d - 1 <= n
        BY <2>1, <2>3, <3>2
      <4>2. QED
        BY <2>1, <2>2, <4>1
    <3>3. QED
      BY <3>1, <3>2
  <2>4. QED
    BY <2>1, <2>2, <2>3 DEF Initialised, r, N
<1>2. CASE ~(q.fifo_size_ > 1)
  BY <1>2, PushPopPasses DEF Initialised
<1>3. QED
  BY <1>1, <1>2

(* A queue resized holds nothing.                                          *)
LEMMA ResizedIsEmpty ==
  ASSUME NEW N \in Nat
  PROVE  LET q == Resized(N, Uninit(N))
         IN  /\ QueueOK(q) /\ DelayIn(q) = N
             /\ \A d \in 1 .. N : Held(q, d) = Uninitialised
<1> DEFINE q == Resized(N, Uninit(N))
<1>1. q.fifo_size_ = N + 1 /\ q.pointer_ = 0 /\ q.fifo_ = [slot \in 0 .. N |-> Uninitialised]
      /\ q = [fifo_size_ |-> q.fifo_size_, pointer_ |-> q.pointer_, fifo_ |-> q.fifo_]
  BY DEF Resized, Uninit
<1> HIDE DEF q
<1>2. DelayIn(q) = N
  BY <1>1 DEF DelayIn
<1>3. QueueOK(q)
  BY <1>1, <1>2 DEF QueueOK, SlotValues
<1>4. ASSUME NEW d \in 1 .. N PROVE Held(q, d) = Uninitialised
  <2>1. SlotIn(q, d) \in 0 .. N
    BY <1>1 DEF SlotIn
  <2>2. QED
    BY <1>1, <2>1 DEF Held
<1>5. QED
  BY <1>2, <1>3, <1>4 DEF q

(* A set of naturals has a least element.                                  *)
LEMMA LeastExists ==
  ASSUME NEW S \in SUBSET Nat, S # {}
  PROVE  \E m \in S : \A k \in S : m <= k
<1>1. PICK m \in S : \A k \in S : <<k, m>> \notin OpToRel(<, Nat)
  BY WFMin, NatLessThanWellFounded, Zenon
<1>2. ASSUME NEW k \in S PROVE ~(k < m)
  BY <1>1, Zenon DEF OpToRel
<1>3. QED
  BY <1>2

(* The nearest microphone exists, and none is delayed by less than it.     *)
LEMMA DelayIsNat ==
  ASSUME NEW p \in Points, NEW c \in Channels, NEW P \in Periods
  PROVE  Delay(p, c, P) \in Nat
<1>1. Travel[p] \in [Channels -> Nat] /\ P \in Nat /\ P > 0
  BY BeamConstants
<1> DEFINE Times == {Travel[p][d] : d \in Channels}
<1>2. Times \in SUBSET Nat /\ Travel[p][c] \in Times
  BY <1>1
<1>3. \E t \in Times : \A d \in Channels : t <= Travel[p][d]
  <2>1. PICK t \in Times : \A u \in Times : t <= u
    <3> HIDE DEF Times
    <3>1. QED
      BY <1>2, LeastExists
  <2>2. QED
    BY <2>1
<1>4. Nearest(p) \in Times /\ Nearest(p) <= Travel[p][c]
  BY <1>3, Zenon DEF Nearest
<1>5. Nearest(p) \in Nat /\ Travel[p][c] \in Nat
  BY <1>2, <1>4
<1> DEFINE a == 2 * (Travel[p][c] - Nearest(p)) + P
           b == 2 * P
<1>6. a \in Nat /\ b \in Nat /\ b > 0
  BY <1>1, <1>4, <1>5
<1>7. a \div b \in Nat
  <2> HIDE DEF a, b
  <2>1. QED
    BY <1>6
<1>8. QED
  BY <1>7 DEF Delay

(* Every queue is in order, up to the sample it gets next, and has a sample *)
(* for each read since the array was steered last.                         *)
BeamInv ==
  /\ \A c \in Channels : /\ QueueOK(fifos_[c])
                         /\ Rising(fifos_[c], delayed[c], PickedUp(c))
                         /\ Initialised(fifos_[c], since)
  /\ period \in Periods /\ s \in 0 .. BlockSize - 1 /\ clock \in 0 .. MaxClock
  /\ delayed \in [Channels -> SlotValues] /\ steered \in Points /\ since \in Nat
  /\ NoiseEnds

(* What CalculateDelays leaves: a queue with nothing in it, or the one     *)
(* there was.                                                              *)
LEMMA CalculatesQueue ==
  ASSUME NEW p \in Points, NEW fifos, NEW P \in Periods, NEW c \in Channels
  PROVE  LET q == AfterCalculateDelays(p, fifos, P)[c]
         IN  \/ q = fifos[c]
             \/ /\ QueueOK(q)
                /\ \A d \in 1 .. DelayIn(q) : Held(q, d) = Uninitialised
<1> DEFINE N == Delay(p, c, P)
<1>1. N \in Nat
  BY DelayIsNat
<1>2. AfterCalculateDelays(p, fifos, P)[c]
        = IF c \in InDistanceMap(p) THEN Resized(N, Uninit(N)) ELSE fifos[c]
  BY DEF AfterCalculateDelays
<1> HIDE DEF N
<1>3. QED
  BY <1>1, <1>2, ResizedIsEmpty

(* An empty queue is in order and has no sample to count.                  *)
LEMMA EmptyQueue ==
  ASSUME NEW q, QueueOK(q), \A d \in 1 .. DelayIn(q) : Held(q, d) = Uninitialised,
         NEW last, NEW next, last \in Int => last < next
  PROVE  Rising(q, last, next) /\ Initialised(q, 0)
  BY BeamConstants DEF Rising, Initialised

(* The time a microphone picks up is a number.                             *)
LEMMA PickedUpIsInt ==
  ASSUME NEW c \in Channels, clock \in Int
  PROVE  PickedUp(c) \in Int
<1>1. Travel[Source] \in [Channels -> Nat]
  BY BeamConstants
<1>2. QED
  BY <1>1 DEF PickedUp

(* The constructor steers the array: the queues are empty.                 *)
LEMMA BeamInitInv == BeamInit => BeamInv
<1> SUFFICES ASSUME BeamInit PROVE BeamInv
  OBVIOUS
<1>1. /\ period = FirstPeriod /\ steered = FirstPoint /\ s = 0 /\ clock = 0 /\ since = 0
      /\ delayed = [c \in Channels |-> Uninitialised]
      /\ fifos_ = AfterCalculateDelays(FirstPoint, [c \in Channels |-> NewQueue], FirstPeriod)
  BY DEF BeamInit
<1>2. FirstPoint \in Points /\ FirstPeriod \in Periods /\ Uninitialised \notin Int
      /\ BlockSize \in Nat \ {0} /\ MaxClock \in Nat
  BY BeamConstants
<1>3. QueueOK(NewQueue) /\ DelayIn(NewQueue) = 0
  BY DEF QueueOK, NewQueue, DelayIn
<1>4. ASSUME NEW c \in Channels
      PROVE  QueueOK(fifos_[c])
             /\ \A d \in 1 .. DelayIn(fifos_[c]) : Held(fifos_[c], d) = Uninitialised
  BY <1>1, <1>2, <1>3, CalculatesQueue
<1>5. ASSUME NEW c \in Channels
      PROVE  Rising(fifos_[c], delayed[c], PickedUp(c)) /\ Initialised(fifos_[c], since)
  BY <1>1, <1>2, <1>4, EmptyQueue
<1>6. delayed \in [Channels -> SlotValues] /\ NoiseEnds
  BY <1>1 DEF SlotValues, NoiseEnds
<1>7. QED
  BY <1>1, <1>2, <1>4, <1>5, <1>6 DEF BeamInv

(* What a microphone was steered to before is dropped or kept as it was.   *)
LEMMA CalculateDelaysInv ==
  ASSUME BeamInv, NEW p \in Points, CalculateDelays(p)
  PROVE  BeamInv'
<1>1. /\ fifos_' = AfterCalculateDelays(p, fifos_, period) /\ steered' = p /\ since' = 0
      /\ UNCHANGED <<period, s, clock, delayed>>
  BY DEF CalculateDelays
<1>2. ASSUME NEW c \in Channels
      PROVE  /\ QueueOK(fifos_[c])' /\ Rising(fifos_[c], delayed[c], PickedUp(c))'
             /\ Initialised(fifos_[c], since)'
  <2>1. PickedUp(c)' = PickedUp(c) /\ delayed'[c] = delayed[c]
    BY <1>1 DEF PickedUp
  <2>2. CASE fifos_'[c] = fifos_[c]
    BY <1>1, <2>1, <2>2 DEF BeamInv, Rising, Initialised
  <2>3. CASE /\ QueueOK(fifos_'[c])
             /\ \A d \in 1 .. DelayIn(fifos_'[c]) : Held(fifos_'[c], d) = Uninitialised
    <3>1. delayed[c] \in Int => delayed[c] < PickedUp(c)
      BY DEF BeamInv, Rising
    <3>2. Rising(fifos_'[c], delayed[c], PickedUp(c)) /\ Initialised(fifos_'[c], 0)
      BY <2>3, <3>1, EmptyQueue
    <3>3. QED
      BY <1>1, <2>1, <2>3, <3>2
  <2>4. QED
    BY <1>1, <2>2, <2>3, CalculatesQueue DEF BeamInv
<1>3. NoiseEnds'
  BY <1>1 DEF NoiseEnds
<1>4. QED
  BY <1>1, <1>2, <1>3 DEF BeamInv

(* The queues do not notice a change of the sampling rate.                 *)
LEMMA SetSamplingRateInv ==
  ASSUME BeamInv, NEW newPeriod \in Periods, SetSamplingRate(newPeriod)
  PROVE  BeamInv'
<1>1. period' = newPeriod /\ UNCHANGED <<fifos_, s, clock, delayed, steered, since>>
  BY DEF SetSamplingRate
<1>2. QED
  BY <1>1 DEF BeamInv, PickedUp, Rising, Initialised, NoiseEnds, DelayOf

(* What a read does to one microphone.                                     *)
LEMMA ReadOfChannel ==
  ASSUME BeamInv, ReadSample, NEW c \in Channels
  PROVE  /\ QueueOK(fifos_'[c]) /\ DelayIn(fifos_'[c]) = DelayIn(fifos_[c])
         /\ delayed'[c] \in SlotValues
         /\ Rising(fifos_'[c], delayed'[c], PickedUp(c)')
         /\ Initialised(fifos_'[c], since + 1)
         /\ delayed[c] \in Int /\ delayed'[c] \in Int => delayed[c] < delayed'[c]
         /\ since >= DelayIn(fifos_[c]) => delayed'[c] \in Int
<1> DEFINE q == fifos_[c]
           data == PickedUp(c)
           next == PickedUp(c)'
<1>1. delayed'[c] = PushPop(q, data) /\ fifos_'[c] = AfterPushPop(q, data)
      /\ clock' = clock + period
  BY DEF ReadSample
<1>2. period \in Nat /\ period > 0 /\ clock \in Nat /\ since \in Nat
  BY BeamConstants DEF BeamInv
<1>3. Travel[Source] \in [Channels -> Nat]
  BY BeamConstants
<1>4. data \in Int /\ next \in Int /\ data < next
  BY <1>1, <1>2, <1>3 DEF PickedUp
<1>5. QueueOK(q) /\ Rising(q, delayed[c], data) /\ Initialised(q, since)
      /\ delayed[c] \in SlotValues
  BY DEF BeamInv
<1> HIDE DEF q, data, next
<1>6. /\ QueueOK(AfterPushPop(q, data)) /\ DelayIn(AfterPushPop(q, data)) = DelayIn(q)
      /\ PushPop(q, data) \in SlotValues
      /\ Rising(AfterPushPop(q, data), PushPop(q, data), next)
      /\ delayed[c] \in Int /\ PushPop(q, data) \in Int => delayed[c] < PushPop(q, data)
  BY <1>4, <1>5, PushPopInOrder
<1>7. /\ Initialised(AfterPushPop(q, data), since + 1)
      /\ since >= DelayIn(q) => PushPop(q, data) \in Int
  BY <1>2, <1>4, <1>5, PushPopInitialises
<1>8. QED
  BY <1>1, <1>6, <1>7 DEF q, next

(* A sample of every microphone goes through its queue.                    *)
LEMMA ReadSampleInv ==
  ASSUME BeamInv, ReadSample
  PROVE  BeamInv'
<1>1. /\ s' = (s + 1) % BlockSize /\ clock' = clock + period /\ since' = since + 1
      /\ clock + period <= MaxClock /\ UNCHANGED <<period, steered>>
      /\ delayed' = [c \in Channels |-> delayed'[c]]
  BY DEF ReadSample
<1>2. /\ period \in Nat /\ clock \in Nat /\ MaxClock \in Nat /\ since \in Nat
      /\ BlockSize \in Nat \ {0} /\ s \in Nat
  BY BeamConstants DEF BeamInv
<1>3. s' \in 0 .. BlockSize - 1
  BY <1>1, <1>2
<1>4. clock' \in 0 .. MaxClock /\ since' \in Nat
  BY <1>1, <1>2
<1>5. delayed' \in [Channels -> SlotValues]
  BY <1>1, ReadOfChannel
<1>6. ASSUME NEW c \in Channels, delayed'[c] = Uninitialised PROVE since' <= DelayOf(c)'
  <2>1. ~(since >= DelayIn(fifos_[c]))
    BY <1>6, ReadOfChannel, BeamConstants
  <2>2. DelayOf(c)' = DelayIn(fifos_'[c])
    BY DEF DelayOf, DelayIn
  <2>3. DelayIn(fifos_'[c]) = DelayIn(fifos_[c])
    BY ReadOfChannel
  <2>4. DelayIn(fifos_[c]) \in Nat
    <3>1. QueueOK(fifos_[c])
      BY DEF BeamInv
    <3>2. QED
      BY <3>1 DEF QueueOK, DelayIn
  <2>5. QED
    BY <1>1, <1>2, <2>1, <2>2, <2>3, <2>4
<1>7. NoiseEnds'
  BY <1>6 DEF NoiseEnds
<1>8. \A c \in Channels : /\ QueueOK(fifos_[c])' /\ Rising(fifos_[c], delayed[c], PickedUp(c))'
                          /\ Initialised(fifos_[c], since)'
  BY <1>1, ReadOfChannel
<1>9. QED
  BY <1>1, <1>3, <1>4, <1>5, <1>7, <1>8 DEF BeamInv

(* BeamInv is inductive.                                                   *)
LEMMA BeamNextInv == BeamInv /\ [BeamNext]_beamVars => BeamInv'
<1> SUFFICES ASSUME BeamInv, [BeamNext]_beamVars PROVE BeamInv'
  OBVIOUS
<1>1. CASE UNCHANGED beamVars
  BY <1>1 DEF beamVars, BeamInv, PickedUp, Rising, Initialised, NoiseEnds, DelayOf
<1>2. CASE BeamNext
  BY <1>2, CalculateDelaysInv, SetSamplingRateInv, ReadSampleInv DEF BeamNext
<1>3. QED
  BY <1>1, <1>2

(* The invariant of the beamforming array, for any microphones, points,    *)
(* travel times and sampling periods.                                      *)
THEOREM BeamInvariant == BeamSpec => []BeamInv
<1>1. QED
  BY BeamInitInv, BeamNextInv, PTL DEF BeamSpec

(* The variables of the array have their types.                            *)
THEOREM BeamTypeCorrect == BeamSpec => []BeamTypeOK
<1>1. BeamInv => BeamTypeOK
  BY DEF BeamInv, BeamTypeOK, QueueOK, DelayIn, DelayOf, SlotValues
<1>2. QED
  BY <1>1, BeamInvariant, PTL

(* What new T[...] left in a queue is heard for no longer than the delay of *)
(* its microphone, also if the sampling rate changes and for the microphones *)
(* that CalculateDelays passes over (microphone_array.cpp:102-142).        *)
THEOREM NoiseDiesOut == BeamSpec => []NoiseEnds
<1>1. BeamInv => NoiseEnds
  BY DEF BeamInv
<1>2. QED
  BY <1>1, BeamInvariant, PTL

(* However often the array is steered again, and at whatever rate it reads, *)
(* each microphone gives its samples in order and none twice.              *)
THEOREM NoSampleTwice == BeamSpec => SamplesInOrder
<1> DEFINE InOrder == \A c \in Channels :
             delayed[c] \in Int /\ delayed'[c] \in Int /\ clock' # clock
               => delayed[c] < delayed'[c]
<1>1. BeamInv /\ [BeamNext]_beamVars => [InOrder]_beamVars
  <2> SUFFICES ASSUME BeamInv, BeamNext PROVE InOrder
    OBVIOUS
  <2>1. CASE ReadSample
    BY <2>1, ReadOfChannel
  <2>2. CASE ~ReadSample
    <3>1. clock' = clock
      BY <2>2 DEF BeamNext, CalculateDelays, SetSamplingRate
    <3>2. QED
      BY <3>1
  <2>3. QED
    BY <2>1, <2>2
<1>2. QED
  BY <1>1, BeamInvariant, PTL DEF BeamSpec, SamplesInOrder

------------------------------------------------------------------------------
(* The calls that a program has still to make, at any time.                *)
RecordRest == {<<"Setup", "SetSamplingRate", "SetGain", "core.Setup">>,
               <<"SetSamplingRate", "SetGain", "core.Setup">>,
               <<"SetGain", "core.Setup">>, <<"core.Setup">>, <<>>}

FirRest ==
  {<<"Setup", "SetSamplingRate", "SetGain", "core.Setup", "SelectFIRCoeff">>,
   <<"SetSamplingRate", "SetGain", "core.Setup", "SelectFIRCoeff">>,
   <<"SetGain", "core.Setup", "SelectFIRCoeff">>, <<"core.Setup", "SelectFIRCoeff">>,
   <<"SelectFIRCoeff">>, <<>>}

(* How many of them, without that of the bandpass filter.                  *)
Left == Len(todo) - IF user = "fir" THEN 1 ELSE 0

(* What the calls made so far have left on the board, if none failed.      *)
SoFar(row) ==
  /\ Left <= 2 =>
       /\ micConstant = row.constant /\ sampling_frequency_ = row.frequency
       /\ gain_ = micGain
       /\ micGain = IF Left <= 1 /\ asked.gain > 0 THEN asked.gain ELSE row.gain
  /\ Left <= 0 =>
       filter["first"] = [table |-> IF Left < 0 THEN "bandpass" ELSE "default",
                          rate |-> row.frequency]

(* Of the registers only the shape of the filter matters: the others may   *)
(* hold anything when a program starts.                                    *)
MicTypeOK == /\ asked.gain \in Nat /\ lost \in BOOLEAN
             /\ filter = [half \in {"first", "second"} |-> filter[half]]
             /\ user = "record" => todo \in RecordRest
             /\ user = "fir" => todo \in FirRest

(* What a program that lost no access has configured so far.               *)
MicInv ==
  /\ MicTypeOK
  /\ user \in {"record", "fir"} /\ ~lost =>
       \A row \in MicFrequencies : row.frequency = asked.frequency => SoFar(row)

(* A program makes its calls in their order.                               *)
LEMMA NextCall ==
  ASSUME MicTypeOK, user \in {"record", "fir"}, NEW call, Makes(call)
  PROVE  /\ Left \in Int /\ Left' = Left - 1
         /\ user = "record" => todo' \in RecordRest
         /\ user = "fir" => todo' \in FirRest
         /\ call = "Setup" => Left = 4
         /\ call = "SetSamplingRate" => Left = 3
         /\ call = "SetGain" => Left = 2
         /\ call = "core.Setup" => Left = 1
         /\ call = "SelectFIRCoeff" => Left = 0
         /\ call # "SetCustomFIRCoeff"
<1>1. CASE user = "record"
  <2>1. todo \in RecordRest \ {<<>>} /\ Head(todo) = call /\ todo' = Tail(todo)
        /\ user' = user
    BY <1>1 DEF MicTypeOK, Makes
  <2>2. CASE todo = <<"Setup", "SetSamplingRate", "SetGain", "core.Setup">>
    BY <1>1, <2>1, <2>2 DEF RecordRest, Left
  <2>3. CASE todo = <<"SetSamplingRate", "SetGain", "core.Setup">>
    BY <1>1, <2>1, <2>3 DEF RecordRest, Left
  <2>4. CASE todo = <<"SetGain", "core.Setup">>
    BY <1>1, <2>1, <2>4 DEF RecordRest, Left
  <2>5. CASE todo = <<"core.Setup">>
    BY <1>1, <2>1, <2>5 DEF RecordRest, Left
  <2>6. QED
    BY <2>1, <2>2, <2>3, <2>4, <2>5 DEF RecordRest
<1>2. CASE user = "fir"
  <2>1. todo \in FirRest \ {<<>>} /\ Head(todo) = call /\ todo' = Tail(todo)
        /\ user' = user
    BY <1>2 DEF MicTypeOK, Makes
  <2>2. CASE todo = <<"Setup", "SetSamplingRate", "SetGain", "core.Setup", "SelectFIRCoeff">>
    BY <1>2, <2>1, <2>2 DEF FirRest, Left
  <2>3. CASE todo = <<"SetSamplingRate", "SetGain", "core.Setup", "SelectFIRCoeff">>
    BY <1>2, <2>1, <2>3 DEF FirRest, Left
  <2>4. CASE todo = <<"SetGain", "core.Setup", "SelectFIRCoeff">>
    BY <1>2, <2>1, <2>4 DEF FirRest, Left
  <2>5. CASE todo = <<"core.Setup", "SelectFIRCoeff">>
    BY <1>2, <2>1, <2>5 DEF FirRest, Left
  <2>6. CASE todo = <<"SelectFIRCoeff">>
    BY <1>2, <2>1, <2>6 DEF FirRest, Left
  <2>7. QED
    BY <2>1, <2>2, <2>3, <2>4, <2>5, <2>6 DEF FirRest
<1>3. QED
  BY <1>1, <1>2

(* The calls of the two programs that this is about.                       *)
LEMMA CallsOfPrograms ==
  /\ ProgramCalls("record") = <<"Setup", "SetSamplingRate", "SetGain", "core.Setup">>
  /\ ProgramCalls("fir")
       = <<"Setup", "SetSamplingRate", "SetGain", "core.Setup", "SelectFIRCoeff">>
<1>1. "record" # "fir" /\ "record" # "pipes" /\ "record" # "custom"
      /\ "fir" # "pipes" /\ "fir" # "custom"
  OBVIOUS
<1>2. QED
  BY <1>1, Zenon DEF ProgramCalls

(* Before any program ran, and in a program that has not set a rate,       *)
(* nothing is claimed.                                                     *)
LEMMA MicInitInv == MicInit => MicInv
<1> SUFFICES ASSUME MicInit PROVE MicInv
  OBVIOUS
<1>1. user = "none" /\ asked.gain = 0 /\ lost = FALSE
      /\ filter = [half \in {"first", "second"} |-> [table |-> "boot", rate |-> 0]]
  BY DEF MicInit
<1>2. user \notin {"record", "fir"}
  BY <1>1
<1>3. filter = [half \in {"first", "second"} |-> filter[half]]
  BY <1>1
<1>4. lost \in BOOLEAN
  BY <1>1, Zenon
<1>5. asked.gain \in Nat
  BY <1>1
<1>6. MicTypeOK
  BY <1>2, <1>3, <1>4, <1>5 DEF MicTypeOK
<1>7. QED
  BY <1>2, <1>6 DEF MicInv

(* A program that starts has everything before it.                         *)
LEMMA StartsProgramInv ==
  ASSUME MicInv, StartsProgram
  PROVE  MicInv'
<1>1. /\ asked' \in [frequency : AskedFrequencies, gain : AskedGains]
      /\ todo' = ProgramCalls(user') /\ lost' = FALSE /\ filter' = filter
  BY DEF StartsProgram, registers
<1>2. asked'.gain \in Nat
  BY <1>1, MicConfigConstants
<1>3. /\ user' = "record" => todo' \in RecordRest /\ Left' = 4
      /\ user' = "fir" => todo' \in FirRest /\ Left' = 4
  BY <1>1, CallsOfPrograms DEF RecordRest, FirRest, Left
<1>4. MicTypeOK'
  BY <1>1, <1>2, <1>3 DEF MicInv, MicTypeOK
<1>5. QED
  BY <1>3, <1>4 DEF MicInv, SoFar

(* What a call leaves alone, and that it is the next one of its program.   *)
LEMMA CallKeepsTypes ==
  ASSUME MicInv, NEW call, Makes(call), lost' \in BOOLEAN,
         filter' = [half \in {"first", "second"} |-> filter'[half]]
  PROVE  MicTypeOK'
<1>1. UNCHANGED <<user, asked>>
  BY DEF Makes
<1>2. CASE user \in {"record", "fir"}
  BY <1>1, <1>2, NextCall DEF MicInv, MicTypeOK
<1>3. CASE user \notin {"record", "fir"}
  BY <1>1, <1>3 DEF MicInv, MicTypeOK
<1>4. QED
  BY <1>2, <1>3

(* A failure is not forgotten before the next program.                     *)
LEMMA DoneRecords ==
  ASSUME MicInv, NEW accesses \in SUBSET BOOLEAN, Done(accesses)
  PROVE  lost' \in BOOLEAN /\ (~lost' => ~lost /\ FALSE \notin accesses)
  BY DEF MicInv, MicTypeOK, Done

(* Setup reads, it leaves the board as it is.                              *)
LEMMA SetupArrayInv ==
  ASSUME MicInv, SetupArray
  PROVE  MicInv'
<1>1. Makes("Setup") /\ filter' = filter
  BY DEF SetupArray, registers
<1>2. PICK gainRead \in BOOLEAN, rateRead \in BOOLEAN : Done({gainRead, rateRead})
  BY DEF SetupArray
<1>3. lost' \in BOOLEAN
  BY <1>2, DoneRecords
<1>4. MicTypeOK'
  BY <1>1, <1>3, CallKeepsTypes DEF MicInv, MicTypeOK
<1>5. ASSUME user \in {"record", "fir"} PROVE Left' = 3
  BY <1>1, <1>5, NextCall DEF MicInv
<1>6. user' = user
  BY <1>1 DEF Makes
<1>7. QED
  BY <1>4, <1>5, <1>6 DEF MicInv, SoFar

(* The row of the table is the one asked for; without it the call does     *)
(* nothing.                                                                *)
LEMMA SetsSamplingRateInv ==
  ASSUME MicInv, SetsSamplingRate
  PROVE  MicInv'
<1> DEFINE rows == {row \in MicFrequencies : row.frequency = asked.frequency}
<1>1. Makes("SetSamplingRate") /\ filter' = filter /\ UNCHANGED <<user, asked>>
  BY DEF SetsSamplingRate, registers, Makes
<1>2. CASE rows = {}
  <2>1. UNCHANGED lost
    BY <1>2 DEF SetsSamplingRate
  <2>2. MicTypeOK'
    BY <1>1, <2>1, CallKeepsTypes DEF MicInv, MicTypeOK
  <2>3. QED
    BY <1>1, <1>2, <2>2 DEF MicInv
<1>3. CASE rows # {}
  <2>1. PICK row \in rows, gainWritten \in BOOLEAN, rateWritten \in BOOLEAN :
          /\ sampling_frequency_' = row.frequency
          /\ SetGain(row.gain, gainWritten)
          /\ micConstant' = IF rateWritten THEN row.constant ELSE micConstant
          /\ Done({gainWritten, rateWritten})
    BY <1>3 DEF SetsSamplingRate
  <2>2. lost' \in BOOLEAN /\ (~lost' => gainWritten /\ rateWritten)
    BY <2>1, DoneRecords
  <2>3. MicTypeOK'
    BY <1>1, <2>2, CallKeepsTypes DEF MicInv, MicTypeOK
  <2>4. ASSUME user \in {"record", "fir"}, ~lost', NEW other \in MicFrequencies,
               other.frequency = asked.frequency
        PROVE  SoFar(other)'
    <3>1. Left' = 2
      BY <1>1, <2>4, NextCall DEF MicInv
    <3>2. other = row
      BY <2>1, <2>4, MicConfigConstants
    <3>3. /\ sampling_frequency_' = row.frequency /\ micConstant' = row.constant
          /\ gain_' = row.gain /\ micGain' = row.gain
      BY <2>1, <2>2, <2>4 DEF SetGain
    <3>4. QED
      BY <3>1, <3>2, <3>3 DEF SoFar
  <2>5. QED
    BY <1>1, <2>3, <2>4 DEF MicInv
<1>4. QED
  BY <1>2, <1>3

(* A gain that was asked for replaces the one of the rate.                 *)
LEMMA SetsGainInv ==
  ASSUME MicInv, SetsGain
  PROVE  MicInv'
<1>1. Makes("SetGain") /\ filter' = filter
      /\ UNCHANGED <<user, asked, sampling_frequency_, micConstant>>
  BY DEF SetsGain, Makes
<1>2. /\ lost' \in BOOLEAN /\ (~lost' => ~lost)
      /\ asked.gain = 0 => gain_' = gain_ /\ micGain' = micGain
      /\ asked.gain # 0 /\ ~lost' => gain_' = asked.gain /\ micGain' = asked.gain
  <2>1. CASE asked.gain = 0
    BY <2>1 DEF SetsGain, MicInv, MicTypeOK
  <2>2. CASE asked.gain # 0
    <3>1. PICK written \in BOOLEAN : SetGain(asked.gain, written) /\ Done({written})
      BY <2>2 DEF SetsGain
    <3>2. lost' \in BOOLEAN /\ (~lost' => ~lost /\ written)
      BY <3>1, DoneRecords
    <3>3. QED
      BY <2>2, <3>1, <3>2 DEF SetGain
  <2>3. QED
    BY <2>1, <2>2
<1>3. MicTypeOK'
  BY <1>1, <1>2, CallKeepsTypes DEF MicInv, MicTypeOK
<1>4. ASSUME user \in {"record", "fir"}, ~lost', NEW row \in MicFrequencies,
             row.frequency = asked.frequency
      PROVE  SoFar(row)'
  <2>1. Left = 2 /\ Left' = 1
    BY <1>1, <1>4, NextCall DEF MicInv
  <2>2. SoFar(row) /\ asked.gain \in Nat
    BY <1>2, <1>4 DEF MicInv, MicTypeOK
  <2>3. /\ micConstant' = row.constant /\ sampling_frequency_' = row.frequency
        /\ gain_ = micGain /\ micGain = row.gain
    BY <1>1, <2>1, <2>2 DEF SoFar
  <2>4. gain_' = micGain' /\ micGain' = IF asked.gain > 0 THEN asked.gain ELSE row.gain
    BY <1>2, <1>4, <2>2, <2>3
  <2>5. asked' = asked
    BY <1>1
  <2>6. QED
    BY <2>1, <2>3, <2>4, <2>5 DEF SoFar
<1>5. QED
  BY <1>1, <1>3, <1>4 DEF MicInv

(* The filter that a core writes is the one for the driver's rate.         *)
LEMMA SelectWrites ==
  ASSUME MicInv, NEW table, SelectFIRCoeff(table)
  PROVE  /\ UNCHANGED <<sampling_frequency_, gain_, micConstant, micGain>>
         /\ lost' \in BOOLEAN /\ (~lost' => ~lost)
         /\ filter' = [half \in {"first", "second"} |-> filter'[half]]
         /\ ~lost' /\ (\E row \in MicFrequencies : row.frequency = sampling_frequency_)
              => filter'["first"] = [table |-> table, rate |-> sampling_frequency_]
<1>1. UNCHANGED <<sampling_frequency_, gain_, micConstant, micGain>>
  BY DEF SelectFIRCoeff
<1>2. filter = [half \in {"first", "second"} |-> filter[half]] /\ lost \in BOOLEAN
  BY DEF MicInv, MicTypeOK
<1>3. CASE \E row \in MicFrequencies : row.frequency = sampling_frequency_
  <2> DEFINE new == [table |-> table, rate |-> sampling_frequency_]
  <2>1. PICK written \in BOOLEAN :
          /\ filter' = IF written THEN [filter EXCEPT !["first"] = new] ELSE filter
          /\ Done({written})
    BY <1>3 DEF SelectFIRCoeff, SetFIRCoeff
  <2>2. lost' \in BOOLEAN /\ (~lost' => ~lost /\ written)
    BY <2>1, DoneRecords
  <2> HIDE DEF new
  <2>3. filter' = [half \in {"first", "second"} |-> filter'[half]]
        /\ (written => filter'["first"] = new)
    BY <1>2, <2>1
  <2>4. QED
    BY <1>1, <2>2, <2>3 DEF new
<1>4. CASE ~ \E row \in MicFrequencies : row.frequency = sampling_frequency_
  BY <1>1, <1>2, <1>4 DEF SelectFIRCoeff
<1>5. QED
  BY <1>3, <1>4

(* Setup of the core and the choice of another filter.                     *)
LEMMA SelectsInv ==
  ASSUME MicInv, SetupCore \/ SelectsBandpass
  PROVE  MicInv'
<1> DEFINE call == IF Head(todo) = "core.Setup" THEN "core.Setup" ELSE "SelectFIRCoeff"
           table == IF Head(todo) = "core.Setup" THEN "default" ELSE "bandpass"
<1>1. Makes(call) /\ SelectFIRCoeff(table)
  BY DEF SetupCore, SelectsBandpass, Makes
<1>2. \/ call = "core.Setup" /\ table = "default"
      \/ call = "SelectFIRCoeff" /\ table = "bandpass"
  OBVIOUS
<1> HIDE DEF call, table
<1>3. UNCHANGED <<user, asked, sampling_frequency_, gain_, micConstant, micGain>>
      /\ lost' \in BOOLEAN /\ (~lost' => ~lost)
  BY <1>1, SelectWrites DEF Makes
<1>4. MicTypeOK'
  BY <1>1, <1>3, SelectWrites, CallKeepsTypes
<1>5. ASSUME user \in {"record", "fir"}, ~lost', NEW row \in MicFrequencies,
             row.frequency = asked.frequency
      PROVE  SoFar(row)'
  <2>1. Left' = Left - 1 /\ Left \in Int /\ (call = "core.Setup" => Left = 1)
        /\ (call = "SelectFIRCoeff" => Left = 0)
    BY <1>1, <1>5, NextCall DEF MicInv
  <2>2. SoFar(row)
    BY <1>3, <1>5 DEF MicInv
  <2>3. /\ micConstant = row.constant /\ sampling_frequency_ = row.frequency
        /\ gain_ = micGain
        /\ micGain = IF asked.gain > 0 THEN asked.gain ELSE row.gain
    BY <1>2, <2>1, <2>2 DEF SoFar
  <2>4. filter'["first"] = [table |-> table, rate |-> row.frequency]
    BY <1>1, <1>5, <2>3, SelectWrites
  <2>5. table = IF Left' < 0 THEN "bandpass" ELSE "default"
    BY <1>2, <2>1
  <2>6. Left' <= 1
    BY <1>2, <2>1
  <2>7. QED
    BY <1>3, <2>3, <2>4, <2>5, <2>6 DEF SoFar
<1>6. QED
  BY <1>3, <1>4, <1>5 DEF MicInv

(* Neither of the two programs chooses a filter of its own.                *)
LEMMA CustomInv ==
  ASSUME MicInv, SetCustomFIRCoeff
  PROVE  MicInv'
<1>1. Makes("SetCustomFIRCoeff") /\ user' = user
  BY DEF SetCustomFIRCoeff, Makes
<1>2. user \notin {"record", "fir"}
  BY <1>1, NextCall DEF MicInv
<1>3. lost' \in BOOLEAN /\ filter' = [half \in {"first", "second"} |-> filter'[half]]
  <2>1. filter = [half \in {"first", "second"} |-> filter[half]] /\ lost \in BOOLEAN
    BY DEF MicInv, MicTypeOK
  <2>2. CASE UNCHANGED <<filter, lost>>
    BY <2>1, <2>2
  <2>3. CASE SetFIRCoeff([table |-> "custom", rate |-> 0])
    <3>1. PICK written \in BOOLEAN :
            /\ filter' = IF written
                         THEN [filter EXCEPT !["first"] = [table |-> "custom", rate |-> 0]]
                         ELSE filter
            /\ Done({written})
      BY <2>3 DEF SetFIRCoeff
    <3>2. QED
      BY <2>1, <3>1, DoneRecords
  <2>4. QED
    BY <2>2, <2>3 DEF SetCustomFIRCoeff
<1>4. MicTypeOK'
  BY <1>1, <1>3, CallKeepsTypes
<1>5. QED
  BY <1>1, <1>2, <1>4 DEF MicInv

(* MicInv is inductive.                                                    *)
LEMMA MicNextInv == MicInv /\ [MicNext]_micVars => MicInv'
<1> SUFFICES ASSUME MicInv, [MicNext]_micVars PROVE MicInv'
  OBVIOUS
<1>1. CASE UNCHANGED micVars
  BY <1>1 DEF micVars, MicInv, MicTypeOK, SoFar, Left
<1>2. CASE MicNext
  BY <1>2, StartsProgramInv, SetupArrayInv, SetsSamplingRateInv, SetsGainInv, SelectsInv,
     CustomInv DEF MicNext
<1>3. QED
  BY <1>1, <1>2

(* The invariant of the configuration, for any table of rates and gains.   *)
THEOREM MicInvariant == MicSpec => []MicInv
<1>1. QED
  BY MicInitInv, MicNextInv, PTL DEF MicSpec

(* After Setup, SetSamplingRate, SetGain and the cores' Setup, and a filter, *)
(* in this order, the board and the driver have what was asked for.        *)
THEOREM BoardAsAsked == MicSpec => []ConfiguredAsAsked
<1>1. ASSUME MicInv, user \in {"record", "fir"}, todo = <<>>, ~lost,
             NEW row \in MicFrequencies, row.frequency = asked.frequency
      PROVE  AsAsked(row)
  <2>1. Left = IF user = "fir" THEN -1 ELSE 0
    BY <1>1 DEF Left
  <2>2. SoFar(row)
    BY <1>1 DEF MicInv
  <2>3. QED
    BY <1>1, <2>1, <2>2 DEF SoFar, AsAsked
<1>2. MicInv => ConfiguredAsAsked
  BY <1>1 DEF ConfiguredAsAsked
<1>3. QED
  BY <1>2, MicInvariant, PTL

(* The delays of the rate are in the window that Calculate looks at.       *)
FitsWindow == \A n \in DOMAIN Delays[rate] : Delays[rate][n] < MaxTof

(* The delay of a pair is one of the table, with the sign of the side that *)
(* the source is on.                                                       *)
LEMMA DelayInWindow ==
  ASSUME rate \in DOMAIN Delays, FitsWindow, NEW p \in Pairs, NEW d \in Directions
  PROVE  DelayOfPair(p, d) \in 1 - MaxTof .. MaxTof - 1
<1>1. Delays[rate] \in [1 .. 5 -> 0 .. Length \div 2]
  BY DoaConstants
<1>2. \A n \in 1 .. 5 : Delays[rate][n] \in 0 .. MaxTof - 1
  <2>1. MaxTof \in Nat /\ Length \div 2 \in Nat
    BY DoaConstants
  <2>2. QED
    BY <1>1, <2>1 DEF FitsWindow
<1> DEFINE beside == (d - 2 * p + 16) % 16
           angle == IF beside > 8 THEN 16 - beside ELSE beside
<1>3. angle \in 0 .. 8
  BY DEF Pairs, Directions
<1>4. DelayOfPair(p, d) = IF angle <= 4 THEN Delays[rate][angle + 1]
                          ELSE -Delays[rate][9 - angle]
  BY DEF DelayOfPair
<1>5. CASE angle <= 4
  <2>1. angle + 1 \in 1 .. 5
    BY <1>3, <1>5
  <2>2. QED
    BY <2>1, <1>2, <1>4, <1>5, DoaConstants
<1>6. CASE angle > 4
  <2>1. 9 - angle \in 1 .. 5
    BY <1>3, <1>6
  <2>2. DelayOfPair(p, d) = -Delays[rate][9 - angle]
    BY <1>3, <1>4, <1>6
  <2>3. QED
    BY <2>1, <2>2, <1>2, DoaConstants
<1>7. QED
  BY <1>3, <1>5, <1>6

(* The index at which the correlation has a delay.                         *)
IndexOf(delay) == IF delay >= 0 THEN delay ELSE Length + delay

(* Where the window has a delay.                                           *)
PlaceOf(delay) == IF delay >= 0 THEN delay + 1 ELSE 2 * MaxTof + 1 + delay

LEMMA WindowHalves == /\ MaxTof \in Nat \ {0} /\ Length \in Nat
                      /\ Length \div 2 \in Nat /\ 2 * (Length \div 2) <= Length
                      /\ Length < 2 * (Length \div 2) + 2
                      /\ MaxTof <= Length \div 2
  BY DoaConstants

(* The window has every index once, that of a short delay among them.      *)
LEMMA InWindow ==
  ASSUME NEW delay \in 1 - MaxTof .. MaxTof - 1
  PROVE  /\ DOMAIN Window = 1 .. 2 * MaxTof
         /\ \A k \in DOMAIN Window : Window[k] \in 0 .. Length - 1
         /\ PlaceOf(delay) \in DOMAIN Window
         /\ \A k \in DOMAIN Window : Window[k] = IndexOf(delay) <=> k = PlaceOf(delay)
<1>1. DOMAIN Window = 1 .. 2 * MaxTof
  BY DEF Window
<1>2. PlaceOf(delay) \in 1 .. 2 * MaxTof
  BY WindowHalves DEF PlaceOf
<1>3. ASSUME NEW k \in 1 .. 2 * MaxTof
      PROVE  /\ Window[k] \in 0 .. Length - 1
             /\ Window[k] = IndexOf(delay) <=> k = PlaceOf(delay)
  <2>1. Window[k] = IF k <= MaxTof THEN k - 1 ELSE Length - 2 * MaxTof + k - 1
    BY DEF Window
  <2>2. QED
    BY <2>1, WindowHalves DEF IndexOf, PlaceOf
<1>4. QED
  BY <1>1, <1>2, <1>3

(* Modulo length_ a short delay is the index of its peak.                  *)
LEMMA PeakOfDelay ==
  ASSUME NEW delay \in 1 - MaxTof .. MaxTof - 1
  PROVE  (delay + Length) % Length = IndexOf(delay)
  BY WindowHalves DEF IndexOf

(* Calculate finds the delay of each pair.                                 *)
LEMMA PeakFound ==
  ASSUME NEW p \in Pairs, DelayOfPair(p, heard) \in 1 - MaxTof .. MaxTof - 1
  PROVE  HighestPeak(Correlation(p)) = IndexOf(DelayOfPair(p, heard))
<1> DEFINE delay == DelayOfPair(p, heard)
           c == Correlation(p)
           Best(n) == \A k \in DOMAIN Window : /\ c[Window[n]] >= c[Window[k]]
                                               /\ k < n => c[Window[n]] > c[Window[k]]
           first == CHOOSE n \in DOMAIN Window : Best(n)
<1>1. ASSUME NEW k \in DOMAIN Window
      PROVE  c[Window[k]] = IF k = PlaceOf(delay) THEN 1 ELSE 0
  <2>1. Window[k] \in 0 .. Length - 1 /\ (Window[k] = IndexOf(delay) <=> k = PlaceOf(delay))
    BY InWindow
  <2>2. c[Window[k]] = IF Window[k] = (delay + Length) % Length THEN 1 ELSE 0
    BY <2>1 DEF Correlation
  <2>3. QED
    BY <2>1, <2>2, PeakOfDelay
<1>2. PlaceOf(delay) \in DOMAIN Window /\ DOMAIN Window = 1 .. 2 * MaxTof /\ MaxTof \in Nat
  BY InWindow, WindowHalves
<1>3. Best(PlaceOf(delay))
  <2> HIDE DEF c, delay
  <2>1. QED
    BY <1>1, <1>2
<1>4. first \in DOMAIN Window /\ Best(first)
  <2> HIDE DEF Best
  <2>1. QED
    BY <1>2, <1>3
<1>5. first = PlaceOf(delay)
  <2> HIDE DEF c, delay, first
  <2>1. QED
    BY <1>1, <1>2, <1>4
<1>6. HighestPeak(c) = Window[first]
  BY DEF HighestPeak
<1>7. QED
  BY <1>5, <1>6, InWindow

(* The distance that Calculate takes an index for: -1 counts as none.      *)
LEMMA DistanceOf ==
  ASSUME NEW delay \in 1 - MaxTof .. MaxTof - 1
  PROVE  /\ getAbsDiff(IndexOf(delay)) = IF delay >= 0 THEN delay ELSE (-delay) - 1
         /\ IndexOf(delay) > Length \div 2 <=> delay < 0
  BY WindowHalves DEF getAbsDiff, IndexOf

(* What Calculate compares the pairs by, in terms of the delays.           *)
Distance(delay) == IF delay >= 0 THEN delay ELSE (-delay) - 1

(* The pair that Calculate takes for perpendicular exists, whatever the    *)
(* indices: the first of the least.                                        *)
LEMMA PerpendicularExists ==
  ASSUME \A p \in Pairs : getAbsDiff(current_index_[p]) \in Nat
  PROVE  /\ Perpendicular \in Pairs
         /\ \A q \in Pairs :
              LET dp == getAbsDiff(current_index_[Perpendicular])
                  dq == getAbsDiff(current_index_[q])
              IN dp <= dq /\ (q < Perpendicular => dp < dq)
<1> DEFINE dist(p) == getAbsDiff(current_index_[p])
           Distances == {dist(p) : p \in Pairs}
           First(p) == \A q \in Pairs : dist(p) <= dist(q) /\ (q < p => dist(p) < dist(q))
<1>1. PICK m \in Distances : \A k \in Distances : m <= k
  <2>1. Distances \in SUBSET Nat /\ Distances # {}
    BY DEF Pairs
  <2>2. QED
    <3> HIDE DEF Distances
    <3>1. QED
      BY <2>1, LeastExists
<1> DEFINE Closest == {p \in Pairs : dist(p) = m}
<1>2. PICK p \in Closest : \A q \in Closest : p <= q
  <2>1. Closest \in SUBSET Nat /\ Closest # {}
    BY DEF Pairs
  <2>2. QED
    <3> HIDE DEF Closest
    <3>1. QED
      BY <2>1, LeastExists
<1>3. p \in Pairs /\ First(p)
  <2>1. \A q \in Pairs : dist(q) \in Nat
    OBVIOUS
  <2>2. \A q \in Pairs : m <= dist(q)
    BY <1>1
  <2>3. p \in Pairs /\ dist(p) = m
    BY <1>2
  <2>4. ASSUME NEW q \in Pairs, q < p PROVE dist(p) < dist(q)
    <3>1. dist(q) # m
      BY <1>2, <2>3, <2>4 DEF Pairs
    <3>2. QED
      <4> HIDE DEF dist
      <4>1. QED
        BY <2>1, <2>2, <2>3, <3>1
  <2>5. QED
    BY <2>2, <2>3, <2>4
<1>4. Perpendicular = CHOOSE q \in Pairs : First(q)
  BY DEF Perpendicular
<1>5. Perpendicular \in Pairs /\ First(Perpendicular)
  <2> HIDE DEF First
  <2>1. QED
    BY <1>3, <1>4
<1>6. QED
  BY <1>5

(* DelayOfPair, for delays a of the angles from 0 to 90 degrees.           *)
TableDelay(a, p, d) ==
  LET beside == (d - 2 * p + 16) % 16
      angle == IF beside > 8 THEN 16 - beside ELSE beside
  IN IF angle <= 4 THEN a[angle + 1] ELSE -a[9 - angle]

(* For every direction, the pair with the least distance is one across it, *)
(* and the sign of the pair across that one tells the side.                *)
LEMMA LeastIsAcross ==
  ASSUME NEW a \in [1 .. 5 -> Nat], a[1] > a[5] + 1, a[2] > a[4], a[2] > 1, a[3] > a[5] + 1,
         NEW d \in Directions, NEW delay \in [Pairs -> Int],
         \A p \in Pairs : delay[p] = TableDelay(a, p, d),
         NEW perp \in Pairs,
         \A q \in Pairs : Distance(delay[perp]) <= Distance(delay[q])
  PROVE  LET pair == (perp + 2) % 4
             mic == IF delay[pair] < 0 THEN pair + 4 ELSE pair
         IN (d - 2 * mic + 16) % 16 \in {0, 1, 15}
<1>1. CASE d = 0
  BY <1>1 DEF Pairs, Distance, TableDelay
<1>2. CASE d = 1
  BY <1>2 DEF Pairs, Distance, TableDelay
<1>3. CASE d = 2
  BY <1>3 DEF Pairs, Distance, TableDelay
<1>4. CASE d = 3
  BY <1>4 DEF Pairs, Distance, TableDelay
<1>5. CASE d = 4
  BY <1>5 DEF Pairs, Distance, TableDelay
<1>6. CASE d = 5
  BY <1>6 DEF Pairs, Distance, TableDelay
<1>7. CASE d = 6
  BY <1>7 DEF Pairs, Distance, TableDelay
<1>8. CASE d = 7
  BY <1>8 DEF Pairs, Distance, TableDelay
<1>9. CASE d = 8
  BY <1>9 DEF Pairs, Distance, TableDelay
<1>10. CASE d = 9
  BY <1>10 DEF Pairs, Distance, TableDelay
<1>11. CASE d = 10
  BY <1>11 DEF Pairs, Distance, TableDelay
<1>12. CASE d = 11
  BY <1>12 DEF Pairs, Distance, TableDelay
<1>13. CASE d = 12
  BY <1>13 DEF Pairs, Distance, TableDelay
<1>14. CASE d = 13
  BY <1>14 DEF Pairs, Distance, TableDelay
<1>15. CASE d = 14
  BY <1>15 DEF Pairs, Distance, TableDelay
<1>16. CASE d = 15
  BY <1>16 DEF Pairs, Distance, TableDelay
<1>17. QED
  BY <1>1, <1>2, <1>3, <1>4, <1>5, <1>6, <1>7, <1>8, <1>9, <1>10, <1>11, <1>12, <1>13,
     <1>14, <1>15, <1>16 DEF Directions

(* Between the loops of Calculate current_index_ is where the correlations *)
(* of the block have their peaks, and when a direction is shown it faces   *)
(* the source.                                                             *)
DoaInv ==
  /\ source \in Directions /\ heard \in Directions /\ rate \in DOMAIN Delays
  /\ turn \in {"read", "pairs", "direction", "show"}
  /\ turn = "direction" => current_index_ = [p \in Pairs |-> HighestPeak(Correlation(p))]
  /\ FacesSource

(* Nothing has been read: no direction is shown.                           *)
LEMMA DoaInitInv == DoaInit => DoaInv
  BY DEF DoaInit, DoaInv, FacesSource

(* What the second half of Calculate makes of the peaks faces the source.  *)
LEMMA FindsDirectionFaces ==
  ASSUME DoaInv, FitsWindow, FindsDirection
  PROVE  (heard - 2 * mic_direction_' + 16) % 16 \in {0, 1, 15}
<1> DEFINE delay == [p \in Pairs |-> DelayOfPair(p, heard)]
           pair == (Perpendicular + 2) % 4
           a == Delays[rate]
<1>1. /\ heard \in Directions /\ rate \in DOMAIN Delays
      /\ current_index_ = [p \in Pairs |-> HighestPeak(Correlation(p))]
      /\ mic_direction_' = IF current_index_[pair] > Length \div 2 THEN pair + 4 ELSE pair
  BY DEF DoaInv, FindsDirection
<1>2. ASSUME NEW p \in Pairs
      PROVE  /\ delay[p] \in 1 - MaxTof .. MaxTof - 1
             /\ current_index_[p] = IndexOf(delay[p])
  <2>1. DelayOfPair(p, heard) \in 1 - MaxTof .. MaxTof - 1
    BY <1>1, DelayInWindow
  <2>2. HighestPeak(Correlation(p)) = IndexOf(DelayOfPair(p, heard))
    BY <2>1, PeakFound
  <2>3. QED
    BY <1>1, <2>1, <2>2
<1>3. ASSUME NEW p \in Pairs
      PROVE  /\ delay[p] \in Int
             /\ getAbsDiff(current_index_[p]) = Distance(delay[p])
             /\ Distance(delay[p]) \in Nat
             /\ current_index_[p] > Length \div 2 <=> delay[p] < 0
  <2> HIDE DEF delay
  <2>1. delay[p] \in Int
    BY <1>2, WindowHalves
  <2>2. QED
    BY <1>2, <2>1, DistanceOf DEF Distance
<1>4. /\ Perpendicular \in Pairs
      /\ \A q \in Pairs : Distance(delay[Perpendicular]) <= Distance(delay[q])
  BY <1>3, PerpendicularExists
<1>5. pair \in Pairs
  BY <1>4 DEF Pairs
<1>6. /\ a \in [1 .. 5 -> Nat]
      /\ a[1] > a[5] + 1 /\ a[2] > a[4] /\ a[2] > 1 /\ a[3] > a[5] + 1
  BY <1>1, WindowHalves, DoaConstants, DoaGeometry
<1>7. \A p \in Pairs : delay[p] = TableDelay(a, p, heard)
  BY DEF DelayOfPair, TableDelay
<1>8. delay \in [Pairs -> Int]
  BY <1>3
<1> DEFINE mic == IF delay[pair] < 0 THEN pair + 4 ELSE pair
<1>9. (heard - 2 * mic + 16) % 16 \in {0, 1, 15}
  <2> HIDE DEF delay, a
  <2>1. QED
    BY <1>1, <1>4, <1>6, <1>7, <1>8, LeastIsAcross
<1>10. mic_direction_' = mic
  BY <1>1, <1>3, <1>5
<1>11. QED
  BY <1>9, <1>10

(* A new block, or a source that moves, changes nothing that is shown.     *)
LEMMA DoaNextInv == DoaInv /\ [DoaNext]_doaVars => DoaInv'
<1> SUFFICES ASSUME DoaInv, [DoaNext]_doaVars PROVE DoaInv'
  OBVIOUS
<1>1. CASE Moves
  BY <1>1 DEF Moves, DoaInv, FacesSource, Directions, Correlation, DelayOfPair
<1>2. CASE ReadsMics
  BY <1>2 DEF ReadsMics, DoaInv, FacesSource
<1>3. CASE FindsPeaks
  BY <1>3 DEF FindsPeaks, DoaInv, FacesSource, Correlation, DelayOfPair
<1>4. CASE FindsDirection
  <2>1. heard' = heard /\ rate' = rate /\ source' = source /\ turn' = "show"
    BY <1>4 DEF FindsDirection
  <2>2. FacesSource'
    BY <1>4, <2>1, FindsDirectionFaces DEF FacesSource, FitsWindow
  <2>3. QED
    BY <2>1, <2>2 DEF DoaInv
<1>5. CASE ShowsDirection
  BY <1>5 DEF ShowsDirection, DoaInv, FacesSource
<1>6. CASE UNCHANGED doaVars
  BY <1>6 DEF doaVars, DoaInv, FacesSource, Correlation, DelayOfPair
<1>7. QED
  BY <1>1, <1>2, <1>3, <1>4, <1>5, <1>6 DEF DoaNext

(* The direction shown is that of the microphone nearest to the source, or *)
(* of one of the two, for any size of block, any window and any circle     *)
(* that is wide enough for the rate.                                       *)
THEOREM SourceIsFaced == DoaSpec => []FacesSource
<1>1. DoaInv => FacesSource
  BY DEF DoaInv
<1>2. QED
  BY <1>1, DoaInitInv, DoaNextInv, PTL DEF DoaSpec
==============================================================================
