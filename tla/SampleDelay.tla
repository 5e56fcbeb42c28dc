----------------------------- MODULE SampleDelay -----------------------------
(***************************************************************************)
(* One CircularQueue at work: any sequence of Resize and PushPop calls.    *)
(***************************************************************************)
EXTENDS CircularQueue, Sequences

CONSTANTS Samples,      \* the values a sample may have
          MaxDelay,     \* bound on the argument of Resize
          MaxInput      \* bound on the samples pushed after a Resize

ASSUME DelayConstants == MaxDelay \in Nat /\ MaxInput \in Nat

VARIABLES queue,        \* the CircularQueue
          input,        \* history: the samples pushed since the last Resize
          output        \* what the last PushPop returned

vars == <<queue, input, output>>

Init == /\ queue = NewQueue
        /\ input = <<>>
        /\ output \in Samples

(* A negative N is refused.                                                *)
Resize(N) == /\ N >= 0
             /\ \E memory \in [0 .. N -> Samples] : queue' = Resized(N, memory)
             /\ input' = <<>>
             /\ UNCHANGED output

Push(data) == /\ queue' = AfterPushPop(queue, data)
              /\ output' = PushPop(queue, data)
              /\ input' = Append(input, data)

Next == \/ \E N \in -1 .. MaxDelay : Resize(N)
        \/ \E data \in Samples : Push(data) /\ Len(input) < MaxInput

Spec == Init /\ [][Next]_vars
------------------------------------------------------------------------------
N_ == IF queue.fifo_size_ > 1 THEN queue.fifo_size_ - 1 ELSE 0

Slots == 0 .. queue.fifo_size_ - 1

TypeOK == /\ queue.fifo_size_ \in 0 .. MaxDelay + 1
          /\ queue.pointer_ \in 0 .. N_
          /\ queue.fifo_ \in [Slots -> Samples]
          /\ input \in Seq(Samples)
          /\ output \in Samples

(* The slot of the d-th last sample pushed.                                *)
SlotOf(d) == queue.pointer_ - 1 - d + IF d < queue.pointer_ THEN 0
                                      ELSE queue.fifo_size_

(* The last N samples are in the buffer, going backwards from the slot two *)
(* before pointer_ (one before it is the slot of the next sample).         *)
LastSamplesHeld ==
  queue.fifo_size_ > 1 =>
    \A d \in 1 .. N_ :
      d <= Len(input) => queue.fifo_[SlotOf(d)] = input[Len(input) + 1 - d]

(* PushPop gives back the sample pushed N calls before, for every Resize:  *)
(* the queue implements the delay line.                                    *)
Line == INSTANCE DelayLine WITH delay <- N_

ImplementsDelayLine == Line!LineSpec
==============================================================================
