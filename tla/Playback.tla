------------------------------- MODULE Playback -------------------------------
(***************************************************************************)
(* What a receiver promises that plays a stream while it arrives and saves *)
(* it at the end, with no buffer and no threads.  Samples are numbered as  *)
(* they arrive.  A chunk begins where the chunk before it ended, or, if    *)
(* that is too long ago, with the oldest sample that is not: what will be  *)
(* played depends on what was played last, and on nothing else that came   *)
(* before.                                                                 *)
(***************************************************************************)
EXTENDS Integers, Sequences

CONSTANTS Window, \* the newest samples, those that may still be played
          Chunk   \* how many samples are played at a time

VARIABLES arrived,  \* how many samples have arrived
          played,   \* the samples played
          ended,    \* the last of them, or 0
          saved,    \* what is in the file
          finished

playbackVars == <<arrived, played, ended, saved, finished>>

Samples(m, n) == [i \in 1 .. n - m |-> m + i]

PlaybackInit == /\ arrived = 0 /\ played = <<>> /\ ended = 0 /\ saved = <<>>
                /\ finished = FALSE

Arrive == /\ ~finished
          /\ arrived' \in Nat /\ arrived' > arrived
          /\ UNCHANGED <<played, ended, saved, finished>>

(* The sample that the next chunk comes after.                             *)
Behind == IF arrived - Window > ended THEN arrived - Window ELSE ended

PlayChunk == /\ ~finished /\ Behind + Chunk <= arrived
             /\ played' = played \o Samples(Behind, Behind + Chunk)
             /\ ended' = Behind + Chunk
             /\ UNCHANGED <<arrived, saved, finished>>

Finish == /\ ~finished /\ finished' = TRUE
          /\ saved' = Samples(0, arrived)
          /\ UNCHANGED <<arrived, played, ended>>

PlaybackNext == Arrive \/ PlayChunk \/ Finish

PlaybackSpec == PlaybackInit /\ [][PlaybackNext]_playbackVars
===============================================================================
