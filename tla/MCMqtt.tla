-------------------------------- MODULE MCMqtt --------------------------------
(* The two ends of the MQTT traffic: a behaviour is one of MqttDisconnect,  *)
(* of MqttSync or of MqttReceiver, the initial state says which.            *)
EXTENDS MqttDisconnect, MqttSync

CONSTANTS BUFFER_SIZE, CHUNK_SIZE, MessageSizes, MaxSamples

ASSUME ReceiverConstants ==
  /\ BUFFER_SIZE \in Nat /\ CHUNK_SIZE \in 1 .. BUFFER_SIZE
  /\ MessageSizes \subseteq Nat \ {0} /\ MaxSamples \in Nat

ASSUME SyncConstants == Topics \in Nat /\ MaxBlocksSent \in Nat

VARIABLES program, \* "disconnect", "sync" or "receiver"
          main, running, player, network, subscribed, audio_buffer, arrived,
          all_samples, played, dropped, saved

receiver == <<main, running, player, network, subscribed, audio_buffer, arrived,
              all_samples, played, dropped, saved>>

Receiver == INSTANCE MqttReceiver

MCInit == /\ program \in {"disconnect", "sync", "receiver"}
          /\ Init /\ SyncInit /\ Receiver!ReceiverInit
          /\ program # "disconnect" => code = "library" /\ pending = 0

MCNext == /\ UNCHANGED program
          /\ \/ program = "disconnect" /\ Next /\ UNCHANGED <<syncVars, receiver>>
             \/ program = "sync" /\ SyncNext /\ UNCHANGED <<vars, receiver>>
             \/ program = "receiver" /\ Receiver!ReceiverNext
                  /\ UNCHANGED <<vars, syncVars>>

MCSpec == /\ MCInit /\ [][MCNext]_<<program, vars, syncVars, receiver>>
          /\ program = "disconnect" => Fairness
          /\ program = "receiver" => Receiver!ReceiverFairness

(* What the receiver plays; see MqttReceiver.                               *)
PlayedInOrder == Receiver!PlayedInOrder

(* What the receiver saves; see MqttReceiver.                               *)
SavesWhatArrived == Receiver!SavesWhatArrived

Abstract == INSTANCE Playback WITH Window <- BUFFER_SIZE, Chunk <- CHUNK_SIZE,
                                   ended <- Receiver!LastPlayed,
                                   finished <- main = "done"

(* The deque and the threads of the receiver cannot be told from a player  *)
(* that goes on where it stopped, or BUFFER_SIZE samples behind the newest *)
(* if that is later, and that saves everything when it is over.            *)
ImplementsPlayback == Abstract!PlaybackSpec

(* The disconnection returns, unless the broker acknowledges some messages  *)
(* only, and the receiver ends; see MqttDisconnect and MqttReceiver.        *)
MqttProgramsEnd ==
  /\ program = "disconnect" => ReturnsUnlessPartlyAcknowledged
  /\ program = "receiver" => Receiver!ReceiverEnds
================================================================================
