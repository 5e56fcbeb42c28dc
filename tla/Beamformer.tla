------------------------------ MODULE Beamformer ------------------------------
(***************************************************************************)
(* Delay and sum in MicrophoneArray (src/cpp/driver/microphone_array.cpp): *)
(* CalculateDelays sizes one CircularQueue per microphone from its         *)
(* distance to the point the array is steered to, Read pushes every sample *)
(* through them.  Both are calls of one thread, and so is SetSamplingRate. *)
(*                                                                         *)
(* Time is counted in units in which sound travels the distances and the   *)
(* sampling periods are whole; what a microphone picks up at an instant is *)
(* the instant at which the source emitted it.                             *)
(***************************************************************************)
EXTENDS CircularQueue

CONSTANTS NumChannels,  \* kMicrophoneChannels
          Points,       \* the points the array may be steered to
          Source,       \* the one the sound comes from
          Travel,       \* Travel[p][c]: the time from point p to microphone c
          Periods,      \* the sampling periods that SetSamplingRate accepts
          FirstPoint,   \* where the constructor steers the array
          FirstPeriod,  \* the sampling period it starts with (16 kHz)
          BlockSize,    \* NumberOfSamples()
          Uninitialised,\* what a new slot holds
          MaxClock      \* bound on the time

Channels == 1 .. NumChannels

ASSUME BeamConstants == /\ NumChannels \in Nat \ {0}
                        /\ Source \in Points
                        /\ Travel \in [Points -> [Channels -> Nat]]
                        /\ Periods \subseteq Nat \ {0}
                        /\ FirstPoint \in Points /\ FirstPeriod \in Periods
                        /\ BlockSize \in Nat \ {0}
                        /\ Uninitialised \notin Int
                        /\ MaxClock \in Nat

VARIABLES fifos_,       \* the CircularQueue of each microphone
          period,       \* 1 / sampling_frequency_
          s,            \* the sample of the block that Read is at
          clock,        \* the time
          delayed,      \* the row of delayed_data_ written last
          steered,      \* the point of the last CalculateDelays
          since         \* the samples read since then

beamVars == <<fifos_, period, s, clock, delayed, steered, since>>

Nearest(p) == CHOOSE t \in {Travel[p][c] : c \in Channels} :
                \A c \in Channels : t <= Travel[p][c]

(* std::round of the extra distance in samples.                            *)
Delay(p, c, samplePeriod) ==
  (2 * (Travel[p][c] - Nearest(p)) + samplePeriod) \div (2 * samplePeriod)

(* distance_map has one entry per distance: of microphones at one distance *)
(* it keeps the last.                                                      *)
InDistanceMap(p) ==
  {c \in Channels : \A d \in Channels : d > c => Travel[p][d] # Travel[p][c]}

Uninit(N) == [slot \in 0 .. N |-> Uninitialised]

(* Mutant of AfterCalculateDelays: a queue that has slots is only rewound. *)
AfterRewind(p, fifos, samplePeriod) ==
  [c \in Channels |->
     IF fifos[c].fifo_size_ > 1 THEN [fifos[c] EXCEPT !.pointer_ = 0]
     ELSE IF c \in InDistanceMap(p)
     THEN LET N == Delay(p, c, samplePeriod) IN Resized(N, Uninit(N))
     ELSE fifos[c]]

AfterCalculateDelays(p, fifos, samplePeriod) ==
  [c \in Channels |->
     IF c \in InDistanceMap(p)
     THEN LET N == Delay(p, c, samplePeriod) IN Resized(N, Uninit(N))
     ELSE fifos[c]]

(* The constructor calls CalculateDelays.                                  *)
BeamInit ==
  /\ period = FirstPeriod
  /\ steered = FirstPoint
  /\ fifos_ = AfterCalculateDelays(steered, [c \in Channels |-> NewQueue], period)
  /\ s = 0
  /\ clock = 0
  /\ delayed = [c \in Channels |-> Uninitialised]
  /\ since = 0

(* With a sound speed of 0 it does nothing but complain.                   *)
CalculateDelays(p) ==
  /\ s = 0
  /\ fifos_' = AfterCalculateDelays(p, fifos_, period)
  /\ steered' = p
  /\ since' = 0
  /\ UNCHANGED <<period, s, clock, delayed>>

(* SetSamplingRate leaves the queues as they are.                          *)
SetSamplingRate(newPeriod) ==
  /\ s = 0
  /\ period' = newPeriod
  /\ UNCHANGED <<fifos_, s, clock, delayed, steered, since>>

PickedUp(c) == clock - Travel[Source][c]

(* One turn of Read's loop over samples.                                   *)
ReadSample ==
  /\ clock + period <= MaxClock
  /\ delayed' = [c \in Channels |-> PushPop(fifos_[c], PickedUp(c))]
  /\ fifos_' = [c \in Channels |-> AfterPushPop(fifos_[c], PickedUp(c))]
  /\ s' = (s + 1) % BlockSize
  /\ clock' = clock + period
  /\ since' = since + 1
  /\ UNCHANGED <<period, steered>>

BeamNext == \/ \E p \in Points : CalculateDelays(p)
            \/ \E newPeriod \in Periods : SetSamplingRate(newPeriod)
            \/ ReadSample

BeamSpec == BeamInit /\ [][BeamNext]_beamVars
------------------------------------------------------------------------------
DelayOf(c) == IF fifos_[c].fifo_size_ > 1 THEN fifos_[c].fifo_size_ - 1 ELSE 0

BeamTypeOK ==
  /\ \A c \in Channels :
       /\ fifos_[c].fifo_size_ \in Nat
       /\ fifos_[c].pointer_ \in 0 .. DelayOf(c)
       /\ fifos_[c].fifo_ \in [0 .. fifos_[c].fifo_size_ - 1
                                 -> Int \cup {Uninitialised}]
  /\ period \in Periods
  /\ s \in 0 .. BlockSize - 1
  /\ clock \in 0 .. MaxClock
  /\ delayed \in [Channels -> Int \cup {Uninitialised}]
  /\ steered \in Points
  /\ since \in Nat

(* Steering the array again, to any point, never gives a sample twice or   *)
(* out of order: what the resized queues held is dropped.                  *)
SamplesInOrder ==
  [][\A c \in Channels :
       delayed[c] \in Int /\ delayed'[c] \in Int /\ clock' # clock
         => delayed[c] < delayed'[c]]_beamVars

(* The noise of uninitialised slots is heard for no longer than the delay  *)
(* of the microphone after the array is steered, whatever the sampling     *)
(* rate does meanwhile.                                                    *)
NoiseEnds ==
  \A c \in Channels :
    delayed[c] = Uninitialised /\ since > 0 => since <= DelayOf(c)
==============================================================================
