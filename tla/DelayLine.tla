------------------------------ MODULE DelayLine ------------------------------
(***************************************************************************)
(* What a CircularQueue promises the beamformer: after Resize(N), PushPop  *)
(* gives back, from its N-th call on, the sample pushed N calls before.    *)
(***************************************************************************)
EXTENDS Integers, Sequences

CONSTANTS Samples,      \* the values a sample may have
          MaxDelay      \* bound on the delays asked for

VARIABLES delay,        \* the delay in force
          input,        \* the samples pushed since it was set
          output        \* what the last PushPop returned

lineVars == <<delay, input, output>>

LineInit == delay = 0 /\ input = <<>> /\ output \in Samples

SetDelay(n) == /\ delay' = n
               /\ input' = <<>>
               /\ UNCHANGED output

(* Until delay samples have been pushed the answer may be any sample.      *)
Shift(sample) ==
  /\ input' = Append(input, sample)
  /\ output' \in IF Len(input) < delay THEN Samples
                 ELSE {input'[Len(input') - delay]}
  /\ UNCHANGED delay

LineNext == \/ \E n \in 0 .. MaxDelay : SetDelay(n)
            \/ \E sample \in Samples : Shift(sample)

LineSpec == LineInit /\ [][LineNext]_lineVars
==============================================================================
