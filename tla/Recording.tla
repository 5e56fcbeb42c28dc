------------------------------ MODULE Recording ------------------------------
(***************************************************************************)
(* What the programs that record, or publish, while they capture promise,  *)
(* with no threads, no queue and no stream.  Blocks are captured, and then *)
(* handled one after the other in the order they were captured in, none    *)
(* skipped and none twice.  A block that is handled goes to every sink,    *)
(* but for the sinks that may miss a block; what a sink has stays as it    *)
(* is.  A recording that is closed handles nothing more, and if it drains, *)
(* all but the last block have been handled by then.                       *)
(***************************************************************************)
EXTENDS Naturals, Sequences

CONSTANTS Sinks,    \* the files and topics
          Lossy,    \* those of them that may miss a block
          Blocks,   \* what can be captured
          Draining  \* whether closing waits for what was captured

VARIABLES captured, \* the blocks captured so far, in order
          handled,  \* how many of them have been handled
          kept,     \* the blocks that each sink has
          closed    \* the recording is over

recordingVars == <<captured, handled, kept, closed>>

RecordingInit == /\ captured = <<>> /\ handled = 0
                 /\ kept = [s \in Sinks |-> <<>>]
                 /\ closed = FALSE

CaptureBlock(b) == /\ captured' = Append(captured, b)
                   /\ UNCHANGED <<handled, kept, closed>>

HandleBlock(missing) ==
  /\ ~closed /\ handled < Len(captured)
  /\ handled' = handled + 1
  /\ kept' = [s \in Sinks |-> IF s \in missing THEN kept[s]
                              ELSE Append(kept[s], captured[handled'])]
  /\ UNCHANGED <<captured, closed>>

CloseRecording == /\ ~closed /\ closed' = TRUE
                  /\ UNCHANGED <<captured, handled, kept>>

(* However late the last blocks come, one of them is lost, no more.        *)
LosesOne == closed /\ Draining => Len(captured) <= handled + 1

RecordingNext == /\ \/ \E b \in Blocks : CaptureBlock(b)
                    \/ \E missing \in SUBSET Lossy : HandleBlock(missing)
                    \/ CloseRecording
                 /\ LosesOne'

RecordingSpec == RecordingInit /\ [][RecordingNext]_recordingVars
==============================================================================
