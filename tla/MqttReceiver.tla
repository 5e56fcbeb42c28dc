----------------------------- MODULE MqttReceiver -----------------------------
(***************************************************************************)
(* The scripts that play and save the audio that the programs publish:     *)
(* src/utils/mqtt_recv.py and its copy in src/tfg-pruebas.  paho's network *)
(* thread puts the samples into a deque that drops its oldest ones, a      *)
(* player thread takes chunks from it under a condition, and main ends     *)
(* both after a while and saves all samples.                               *)
(*                                                                         *)
(* Samples are numbered as they arrive.  What is done under buffer_lock is *)
(* one step.  A message that is empty, or has an odd length, changes       *)
(* nothing, and one that is lost has not arrived.                          *)
(***************************************************************************)
EXTENDS Integers, Sequences, FiniteSets, SequencesExt

CONSTANTS BUFFER_SIZE, CHUNK_SIZE,
          MessageSizes, \* the samples in a message
          MaxSamples    \* bound on the samples that arrive

VARIABLES main,        \* where main is
          running,
          player,      \* where playback_loop is
          network,     \* "off", "on", or "extend": in on_message, after the lock
          subscribed,  \* the broker sends messages
          audio_buffer,
          arrived,     \* the number of samples that have arrived
          all_samples,
          played,      \* history: the chunks, put together
          dropped,     \* history: the oldest samples, when they were too many
          saved        \* muestras.wav

receiverVars == <<main, running, player, network, subscribed, audio_buffer, arrived,
                  all_samples, played, dropped, saved>>

ReceiverInit ==
  /\ main = "connect" /\ running = TRUE /\ player = "none" /\ network = "off"
  /\ subscribed = FALSE /\ audio_buffer = <<>> /\ arrived = 0 /\ all_samples = <<>>
  /\ played = <<>> /\ dropped = {} /\ saved = <<>>

Numbers(m, n) == [i \in 1 .. n - m |-> m + i]
------------------------------------------------------------------------------
OnConnect == /\ network = "on" /\ ~subscribed /\ subscribed' = TRUE
             /\ UNCHANGED <<main, running, player, network, audio_buffer, arrived,
                            all_samples, played, dropped, saved>>

ConnectionLost == /\ network = "on" /\ subscribed /\ subscribed' = FALSE
                  /\ UNCHANGED <<main, running, player, network, audio_buffer, arrived,
                                 all_samples, played, dropped, saved>>

(* Mutant of Extended: a full deque takes nothing more.                    *)
ExtendedIfRoom(buffer, samples) ==
  LET all == buffer \o samples IN
    SubSeq(all, 1, IF Len(all) < BUFFER_SIZE THEN Len(all) ELSE BUFFER_SIZE)

(* deque(maxlen): the oldest samples go.                                   *)
Extended(buffer, samples) ==
  LET all == buffer \o samples IN
    SubSeq(all, IF Len(all) > BUFFER_SIZE THEN Len(all) - BUFFER_SIZE + 1 ELSE 1,
           Len(all))

(* on_message under the lock; notify wakes the player.                     *)
OnMessage ==
  /\ network = "on" /\ subscribed
  /\ \E n \in MessageSizes :
       /\ arrived + n <= MaxSamples
       /\ arrived' = arrived + n
       /\ LET samples == Numbers(arrived, arrived + n)
              all == audio_buffer \o samples
          IN /\ audio_buffer' = Extended(audio_buffer, samples)
             /\ dropped' = dropped \cup {all[i] : i \in 1 .. Len(all) - BUFFER_SIZE}
  /\ player' = IF player = "asleep" THEN "lock" ELSE player
  /\ network' = "extend"
  /\ UNCHANGED <<main, running, subscribed, all_samples, played, saved>>

(* all_samples.extend, after the lock.                                     *)
Extends == /\ network = "extend" /\ network' = "on"
           /\ all_samples' = all_samples \o Numbers(Len(all_samples), arrived)
           /\ UNCHANGED <<main, running, player, subscribed, audio_buffer, arrived,
                          played, dropped, saved>>

Network == OnConnect \/ ConnectionLost \/ OnMessage \/ Extends
------------------------------------------------------------------------------
TestsRunning == /\ player = "test"
                /\ player' = IF running THEN "lock" ELSE "ended"
                /\ UNCHANGED <<main, running, network, subscribed, audio_buffer, arrived,
                               all_samples, played, dropped, saved>>

(* Mutant of TakesChunk: the player sleeps whether or not it is stopped.   *)
TakesChunkOrSleeps ==
  /\ player = "lock"
  /\ IF Len(audio_buffer) >= CHUNK_SIZE
     THEN /\ player' = "play"
          /\ played' = played \o SubSeq(audio_buffer, 1, CHUNK_SIZE)
          /\ audio_buffer' = SubSeq(audio_buffer, CHUNK_SIZE + 1, Len(audio_buffer))
     ELSE player' = "asleep" /\ UNCHANGED <<audio_buffer, played>>
  /\ UNCHANGED <<main, running, network, subscribed, arrived, all_samples, dropped, saved>>

(* Mutant of TakesChunk: the deque is emptied behind the chunk.            *)
TakesChunkAndClears ==
  /\ player = "lock"
  /\ IF ~running THEN player' = "ended" /\ UNCHANGED <<audio_buffer, played>>
     ELSE IF Len(audio_buffer) < CHUNK_SIZE
     THEN player' = "asleep" /\ UNCHANGED <<audio_buffer, played>>
     ELSE /\ player' = "play"
          /\ played' = played \o SubSeq(audio_buffer, 1, CHUNK_SIZE)
          /\ audio_buffer' = <<>>
  /\ UNCHANGED <<main, running, network, subscribed, arrived, all_samples, dropped, saved>>

(* Under the lock: sleep, break, or a chunk.                               *)
TakesChunk ==
  /\ player = "lock"
  /\ IF ~running THEN player' = "ended" /\ UNCHANGED <<audio_buffer, played>>
     ELSE IF Len(audio_buffer) < CHUNK_SIZE
     THEN player' = "asleep" /\ UNCHANGED <<audio_buffer, played>>
     ELSE /\ player' = "play"
          /\ played' = played \o SubSeq(audio_buffer, 1, CHUNK_SIZE)
          /\ audio_buffer' = SubSeq(audio_buffer, CHUNK_SIZE + 1, Len(audio_buffer))
  /\ UNCHANGED <<main, running, network, subscribed, arrived, all_samples, dropped, saved>>

(* sd.play, blocking.                                                      *)
Plays == /\ player = "play" /\ player' = "test"
         /\ UNCHANGED <<main, running, network, subscribed, audio_buffer, arrived,
                        all_samples, played, dropped, saved>>

Player == TestsRunning \/ TakesChunk \/ Plays
------------------------------------------------------------------------------
Goto(from, to) == main = from /\ main' = to

(* connect may raise, before there are threads.                            *)
Connects == /\ main = "connect"
            /\ \/ main' = "failed" /\ UNCHANGED <<player, network>>
               \/ main' = "sleep" /\ player' = "test" /\ network' = "on"
            /\ UNCHANGED <<running, subscribed, audio_buffer, arrived, all_samples, played,
                           dropped, saved>>

(* The sleep ends: running is cleared without the lock.                    *)
Stops == /\ Goto("sleep", "notify") /\ running' = FALSE
         /\ UNCHANGED <<player, network, subscribed, audio_buffer, arrived, all_samples,
                        played, dropped, saved>>

Notifies == /\ Goto("notify", "loop_stop")
            /\ player' = IF player = "asleep" THEN "lock" ELSE player
            /\ UNCHANGED <<running, network, subscribed, audio_buffer, arrived, all_samples,
                           played, dropped, saved>>

(* loop_stop joins the network thread; disconnect.                         *)
LoopStops == /\ network = "on" /\ Goto("loop_stop", "join")
             /\ network' = "off" /\ subscribed' = FALSE
             /\ UNCHANGED <<running, player, audio_buffer, arrived, all_samples, played,
                            dropped, saved>>

JoinsAndSaves == /\ player = "ended" /\ Goto("join", "done")
                 /\ saved' = all_samples
                 /\ UNCHANGED <<running, player, network, subscribed, audio_buffer, arrived,
                                all_samples, played, dropped>>

Main == Connects \/ Stops \/ Notifies \/ LoopStops \/ JoinsAndSaves

ReceiverNext == Network \/ Player \/ Main

ReceiverSpec == ReceiverInit /\ [][ReceiverNext]_receiverVars

(* The threads are scheduled; the broker need not send anything.           *)
ReceiverFairness == /\ WF_receiverVars(Main) /\ WF_receiverVars(Player)
                    /\ WF_receiverVars(Extends)
------------------------------------------------------------------------------
(* The samples are played in the order they arrived in, each once, and     *)
(* only those are missed that the deque had to drop for newer ones: none   *)
(* as long as the player keeps up.                                         *)
PlayedInOrder ==
  LET taken == played \o audio_buffer IN
    /\ IsSorted(taken, <)
    /\ (1 .. arrived) \ ToSet(taken) = dropped

(* The file has every sample that arrived, in order, those that came while *)
(* main was stopping too.                                                  *)
SavesWhatArrived == main = "done" => saved = Numbers(0, arrived)

(* The last sample that was played.                                        *)
LastPlayed == IF played = <<>> THEN 0 ELSE played[Len(played)]

(* main ends, whatever arrives: the player does not sleep through the stop. *)
ReceiverEnds == <>(main \in {"done", "failed"})
================================================================================
