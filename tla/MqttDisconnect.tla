---------------------------- MODULE MqttDisconnect ----------------------------
(***************************************************************************)
(* How the asynchronous programs part with the broker while published      *)
(* messages are still unacknowledged: disconnect_async_mqtt_client         *)
(* (src/tfg/audio_processor.cpp:333-363), which counts a retry only when   *)
(* the count of pending messages is the one it began with, and the end of  *)
(* main in src/tfg/matrix_read.cpp:259-282, which counts every turn.       *)
(*                                                                         *)
(* The MQTT client acknowledges messages in its own thread, as the broker  *)
(* answers; no message is published any more.                              *)
(***************************************************************************)
EXTENDS Integers

CONSTANTS Retries,      \* set_retries_send_unsent_messages, or 5
          MaxPending,   \* bound on the messages pending at the start
          WaitForUnsent \* wait_for_unsent_messages

ASSUME MqttConstants == /\ Retries \in Nat
                        /\ MaxPending \in Nat
                        /\ WaitForUnsent \in BOOLEAN

VARIABLES code,         \* which of the two: "library" or "matrix_read"
          pc,           \* where the thread is
          pending,      \* get_pending_delivery_tokens().size()
          message_count,\* the count it began with
          new_message_count,
          retry_cnt,
          ackSeen       \* history: a turn saw less than message_count

vars == <<code, pc, pending, message_count, new_message_count, retry_cnt, ackSeen>>

CountsEveryTurn == code = "matrix_read"

(* set_retries_send_unsent_messages: 0 becomes 1.                          *)
num_retries == IF Retries = 0 /\ ~CountsEveryTurn THEN 1 ELSE Retries

Init == /\ code \in {"library", "matrix_read"}
        /\ pc = "count"
        /\ pending \in 0 .. MaxPending
        /\ message_count = 0
        /\ new_message_count = 0
        /\ retry_cnt = num_retries
        /\ ackSeen = FALSE

(* The broker acknowledges some messages.                                  *)
Acknowledge == \E left \in 0 .. MaxPending :
                 /\ left < pending
                 /\ pending' = left
                 /\ UNCHANGED <<code, pc, message_count, new_message_count, retry_cnt,
                                ackSeen>>

Goto(from, to) == pc = from /\ pc' = to

Count == /\ Goto("count", IF CountsEveryTurn \/ (WaitForUnsent /\ pending # 0)
                          THEN "while" ELSE "disconnect")
         /\ message_count' = pending
         /\ UNCHANGED <<code, pending, new_message_count, retry_cnt, ackSeen>>

While == /\ Goto("while", IF pending = 0 THEN "disconnect"
                          ELSE IF CountsEveryTurn THEN "retryTest" ELSE "size")
         /\ UNCHANGED <<code, pending, message_count, new_message_count, retry_cnt, ackSeen>>

(* disconnect_async_mqtt_client: look again, sleep, compare.               *)
ReadSize == /\ Goto("size", "sleep")
            /\ new_message_count' = pending
            /\ ackSeen' = (ackSeen \/ pending < message_count)
            /\ UNCHANGED <<code, pending, message_count, retry_cnt>>

Sleep == /\ Goto("sleep", "retry")
         /\ UNCHANGED <<code, pending, message_count, new_message_count, retry_cnt, ackSeen>>

(* Mutant of CountRetry: counts every turn of both loops.                  *)
CountRetryAlways ==
  /\ retry_cnt' = retry_cnt - 1
  /\ Goto("retry", IF ~CountsEveryTurn /\ retry_cnt' = 0 THEN "disconnect"
                   ELSE "while")
  /\ UNCHANGED <<code, pending, message_count, new_message_count, ackSeen>>

CountRetry ==
  /\ retry_cnt' = IF CountsEveryTurn \/ new_message_count = message_count
                  THEN retry_cnt - 1 ELSE retry_cnt
  /\ Goto("retry", IF ~CountsEveryTurn /\ retry_cnt' = 0 THEN "disconnect"
                   ELSE "while")
  /\ UNCHANGED <<code, pending, message_count, new_message_count, ackSeen>>

(* matrix_read: break before sleeping.                                     *)
RetryTest == /\ Goto("retryTest", IF retry_cnt = 0 THEN "disconnect" ELSE "sleep")
             /\ UNCHANGED <<code, pending, message_count, new_message_count, retry_cnt,
                            ackSeen>>

(* disconnect()->wait(), or wait_for(): taken to end, or to throw, which   *)
(* is caught.                                                              *)
Disconnect == /\ Goto("disconnect", "done")
              /\ UNCHANGED <<code, pending, message_count, new_message_count, retry_cnt,
                             ackSeen>>

Thread == Count \/ While \/ ReadSize \/ Sleep \/ CountRetry \/ RetryTest \/ Disconnect

Next == Thread \/ Acknowledge

Spec == Init /\ [][Next]_vars

(* The thread is scheduled; nothing is asked of the broker.                *)
Fairness == WF_vars(Thread)
------------------------------------------------------------------------------
TypeOK == /\ code \in {"library", "matrix_read"}
          /\ pc \in {"count", "while", "size", "sleep", "retry", "retryTest",
                     "disconnect", "done"}
          /\ pending \in 0 .. MaxPending
          /\ message_count \in 0 .. MaxPending
          /\ new_message_count \in 0 .. MaxPending
          /\ retry_cnt \in Int
          /\ ackSeen \in BOOLEAN

(* disconnect_async_mqtt_client gives messages up only to a broker that    *)
(* was silent for as many turns as it was told to retry: a slow broker     *)
(* that acknowledges anything in time gets to acknowledge all.             *)
GivesUpOnlyOnSilence ==
  code = "library" /\ pc = "done" /\ pending > 0 /\ WaitForUnsent =>
    /\ retry_cnt = 0
    /\ ~ackSeen

(* It returns if the broker is silent for good, or acknowledges all; the   *)
(* loop of matrix_read returns whatever the broker does.  (A broker that   *)
(* acknowledges some messages and then is silent keeps the library's loop  *)
(* for ever: new_message_count is not message_count, and no retry counts.) *)
ReturnsUnlessPartlyAcknowledged ==
  (\/ code = "matrix_read"
   \/ <>(pending = 0)
   \/ [](pc # "count" => pending = message_count)) => <>(pc = "done")
==============================================================================
