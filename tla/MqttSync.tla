------------------------------- MODULE MqttSync -------------------------------
(***************************************************************************)
(* The synchronous client: connect_sync_mqtt_client,                       *)
(* disconnect_sync_mqtt_client and send_audio_mqtt_sync of                 *)
(* src/tfg/audio_processor.cpp, as src/tfg/test_mqtt_sync.cpp calls them.  *)
(* A block is published channel by channel; one try holds them all, so a   *)
(* publish that throws ends the block.  A publish may throw although the   *)
(* broker has the message: its acknowledgement was late or lost.           *)
(***************************************************************************)
EXTENDS Integers, Sequences, SequencesExt

CONSTANTS Topics,    \* the number of channels
          MaxBlocksSent \* bound on the blocks

VARIABLES sender,   \* where main is
          connected,\* is_connected()
          block,    \* the number of the block being sent
          channel,  \* the next channel to publish
          topics,   \* what a subscriber got on the topic of each channel
          ended     \* what disconnect_sync_mqtt_client returned, as a set

syncVars == <<sender, connected, block, channel, topics, ended>>

SyncInit == /\ sender = "connect" /\ connected = FALSE /\ block = 0 /\ channel = 1
            /\ topics = [c \in 1 .. Topics |-> <<>>] /\ ended = {}

(* main does not look at what connect_sync_mqtt_client returns.            *)
ConnectSync == /\ sender = "connect" /\ sender' = "capture"
               /\ connected' \in BOOLEAN
               /\ UNCHANGED <<block, channel, topics, ended>>

(* The client does not connect again by itself.                            *)
LosesConnection == /\ connected /\ connected' = FALSE
                   /\ UNCHANGED <<sender, block, channel, topics, ended>>

(* capture_audio_sync, until the time is over.                             *)
CapturesSync == /\ sender = "capture"
                /\ \/ /\ block < MaxBlocksSent
                      /\ block' = block + 1 /\ channel' = 1 /\ sender' = "publish"
                   \/ sender' = "disconnect" /\ UNCHANGED <<block, channel>>
                /\ UNCHANGED <<connected, topics, ended>>

Delivered == topics' = [topics EXCEPT ![channel] = Append(@, block)]

NextChannel == IF channel < Topics THEN sender' = "publish" /\ channel' = channel + 1
                                   ELSE sender' = "capture" /\ channel' = 1

Published == /\ sender = "publish" /\ connected /\ Delivered /\ NextChannel
             /\ UNCHANGED <<connected, block, ended>>

(* Mutant of PublishThrows: a try for every channel.                       *)
PublishThrowsForChannel == /\ sender = "publish" /\ NextChannel
                           /\ UNCHANGED <<connected, block, topics, ended>>

(* No connection, or no answer: the rest of the block is not sent.         *)
PublishThrows == /\ sender = "publish" /\ sender' = "capture" /\ channel' = 1
                 /\ \/ connected /\ Delivered
                    \/ UNCHANGED topics
                 /\ UNCHANGED <<connected, block, ended>>

(* Returns false without a connection, or when disconnect throws.          *)
DisconnectSync == /\ sender = "disconnect" /\ sender' = "done"
                  /\ \/ connected /\ connected' = FALSE /\ ended' = {TRUE}
                     \/ ended' = {FALSE} /\ UNCHANGED connected
                  /\ UNCHANGED <<block, channel, topics>>

SyncNext == \/ ConnectSync \/ LosesConnection \/ CapturesSync \/ Published
            \/ PublishThrows \/ DisconnectSync

SyncSpec == SyncInit /\ [][SyncNext]_syncVars

(* Connections fail or are lost, publishes throw with or without effect:   *)
(* on each topic every block comes at most once, in order, and a block     *)
(* that came on one came on all topics before it.                          *)
ChannelsInStep ==
  \A c \in 1 .. Topics :
    /\ IsSorted(topics[c], <)
    /\ c > 1 => ToSet(topics[c]) \subseteq ToSet(topics[c - 1])
================================================================================
