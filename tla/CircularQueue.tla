---------------------------- MODULE CircularQueue ----------------------------
(***************************************************************************)
(* CircularQueue<T> of src/cpp/driver/circular_queue.h: a buffer of        *)
(* fifo_size_ slots that PushPop writes one slot behind the one it reads.  *)
(* Resize allocates the buffer with new T[...], which leaves the slots of  *)
(* a sample type uninitialised: they may hold any sample.                  *)
(***************************************************************************)
EXTENDS Integers

NewQueue == [fifo_size_ |-> 0, pointer_ |-> 0, fifo_ |-> <<>>]

(* Resize(N) with N >= 0; memory is what the new slots happen to hold.     *)
Resized(N, memory) ==
  [fifo_size_ |-> N + 1, pointer_ |-> 0, fifo_ |-> memory]

(* Mutant of AfterPushPop: the pointer stays.                              *)
AfterPushPopStays(q, data) ==
  IF q.fifo_size_ > 1
  THEN [q EXCEPT !.fifo_[(q.pointer_ + q.fifo_size_ - 1) % q.fifo_size_] = data]
  ELSE q

(* The queue after PushPop(data), and what PushPop returns.                *)
AfterPushPop(q, data) ==
  IF q.fifo_size_ > 1
  THEN [q EXCEPT !.fifo_[(q.pointer_ + q.fifo_size_ - 1) % q.fifo_size_] = data,
                 !.pointer_ = (q.pointer_ + 1) % q.fifo_size_]
  ELSE q

(* Mutant of PushPop: reads after moving the pointer.                      *)
PushPopLate(q, data) ==
  IF q.fifo_size_ > 1
  THEN LET after == AfterPushPop(q, data) IN after.fifo_[after.pointer_]
  ELSE data

PushPop(q, data) ==
  IF q.fifo_size_ > 1 THEN AfterPushPop(q, data).fifo_[q.pointer_] ELSE data
==============================================================================
