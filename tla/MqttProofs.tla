------------------------------- MODULE MqttProofs -------------------------------
(***************************************************************************)
(* Proofs about the two ends of the MQTT traffic, for every number of      *)
(* retries, messages, topics and blocks, and every size of the receiver's  *)
(* buffer, chunks and messages.                                            *)
(***************************************************************************)
EXTENDS MCMqtt, SequenceTheorems, TLAPS

InLoop == pc \in {"while", "size", "sleep", "retry"}

(* In the loop of the library some retries are left; it was left because   *)
(* nothing was pending, or with none left and no answer.                   *)
RetriesLeft ==
  code = "library" =>
    /\ pc # "retryTest"
    /\ pc = "count" => retry_cnt > 0
    /\ InLoop => retry_cnt > 0
    /\ pc \in {"disconnect", "done"} =>
         pending = 0 \/ ~WaitForUnsent \/ (retry_cnt = 0 /\ ~ackSeen)

(* Once the broker has acknowledged something, no turn counts as a retry.  *)
AnswerRemembered ==
  ackSeen => pc # "count" /\ pending < message_count /\ new_message_count < message_count

DisconnectInv == TypeOK /\ RetriesLeft /\ AnswerRemembered

(* A disconnection begins with its retries.                                *)
LEMMA InitDisconnectInv == Init => DisconnectInv
<1>. SUFFICES ASSUME Init PROVE DisconnectInv
  OBVIOUS
<1>1. num_retries \in Nat /\ (code = "library" => num_retries > 0)
  BY MqttConstants DEF num_retries, CountsEveryTurn
<1>2. TypeOK
  <2>1. ackSeen \in BOOLEAN
    BY DEF Init
  <2>. QED
    BY <1>1, <2>1, MqttConstants DEF Init, TypeOK
<1>3. RetriesLeft /\ AnswerRemembered
  BY <1>1 DEF Init, RetriesLeft, AnswerRemembered, InLoop
<1>. QED
  BY <1>2, <1>3 DEF DisconnectInv

(* The broker's acknowledgements only make less pending.                   *)
LEMMA AcknowledgeInv ==
  ASSUME DisconnectInv, Acknowledge
  PROVE  DisconnectInv'
<1>1. PICK left \in 0 .. MaxPending : left < pending /\ pending' = left
  BY DEF Acknowledge
<1>2. UNCHANGED <<code, pc, message_count, new_message_count, retry_cnt, ackSeen>>
  BY DEF Acknowledge
<1>3. TypeOK'
  BY <1>1, <1>2 DEF DisconnectInv, TypeOK
<1>4. (RetriesLeft /\ AnswerRemembered)'
  BY <1>1, <1>2, MqttConstants
     DEF DisconnectInv, TypeOK, RetriesLeft, AnswerRemembered, InLoop
<1>. QED
  BY <1>3, <1>4 DEF DisconnectInv

(* The thread's steps, the counting of a retry aside.                      *)
LEMMA ThreadStepInv ==
  ASSUME DisconnectInv,
         Count \/ While \/ ReadSize \/ Sleep \/ RetryTest \/ Disconnect
  PROVE  DisconnectInv'
<1>. USE MqttConstants DEF DisconnectInv, TypeOK, RetriesLeft, AnswerRemembered, InLoop,
                           CountsEveryTurn, Goto
<1>1. CASE Count
  <2>1. TypeOK'
    BY <1>1 DEF Count
  <2>2. AnswerRemembered'
    BY <1>1 DEF Count
  <2>3. RetriesLeft'
    BY <1>1 DEF Count
  <2>. QED
    BY <2>1, <2>2, <2>3
<1>2. CASE While
  BY <1>2 DEF While
<1>3. CASE ReadSize
  <2>1. ackSeen' = (ackSeen \/ pending < message_count)
    BY <1>3 DEF ReadSize
  <2>2. ackSeen' \in BOOLEAN /\ (ackSeen' => pending < message_count)
    BY <1>3, <2>1 DEF ReadSize
  <2>3. TypeOK'
    BY <1>3, <2>2 DEF ReadSize
  <2>4. RetriesLeft'
    BY <1>3, <2>2 DEF ReadSize
  <2>5. AnswerRemembered'
    BY <1>3, <2>2 DEF ReadSize
  <2>. QED
    BY <2>3, <2>4, <2>5
<1>4. CASE Sleep
  BY <1>4 DEF Sleep
<1>5. CASE RetryTest
  BY <1>5 DEF RetryTest
<1>6. CASE Disconnect
  BY <1>6 DEF Disconnect
<1>. QED
  BY <1>1, <1>2, <1>3, <1>4, <1>5, <1>6

(* The last retry is counted in a turn without an answer, and there was    *)
(* none before.                                                            *)
LEMMA CountRetryInv ==
  ASSUME DisconnectInv, CountRetry
  PROVE  DisconnectInv'
<1>. USE DEF CountRetry, DisconnectInv, CountsEveryTurn, Goto
<1>1. /\ retry_cnt \in Int /\ pc = "retry"
      /\ UNCHANGED <<code, pending, message_count, new_message_count, ackSeen>>
  BY DEF TypeOK
<1>2. TypeOK'
  BY <1>1 DEF TypeOK
<1>3. AnswerRemembered'
  BY <1>1 DEF AnswerRemembered
<1>4. CASE code # "library"
  BY <1>1, <1>2, <1>3, <1>4 DEF RetriesLeft
<1>5. CASE code = "library"
  <2>1. retry_cnt > 0
    BY <1>1, <1>5 DEF RetriesLeft, InLoop
  <2>2. ackSeen => retry_cnt' = retry_cnt
    BY <1>1, <1>5 DEF TypeOK, AnswerRemembered
  <2>3. retry_cnt' \in Nat
    BY <1>1, <2>1
  <2>4. pc' = IF retry_cnt' = 0 THEN "disconnect" ELSE "while"
    BY <1>5
  <2>. QED
    BY <1>1, <1>2, <1>3, <2>1, <2>2, <2>3, <2>4 DEF RetriesLeft, InLoop, TypeOK
<1>. QED
  BY <1>4, <1>5

(* The invariant of the disconnection, for any number of retries.          *)
THEOREM DisconnectInvariant == Spec => []DisconnectInv
<1>1. DisconnectInv /\ [Next]_vars => DisconnectInv'
  <2>. SUFFICES ASSUME DisconnectInv, [Next]_vars PROVE DisconnectInv'
    OBVIOUS
  <2>1. CASE UNCHANGED vars
    BY <2>1 DEF vars, DisconnectInv, TypeOK, RetriesLeft, AnswerRemembered, InLoop
  <2>2. CASE Next
    BY <2>2, AcknowledgeInv, ThreadStepInv, CountRetryInv DEF Next, Thread
  <2>. QED
    BY <2>1, <2>2
<1>. QED
  BY <1>1, InitDisconnectInv, PTL DEF Spec

(* The library gives messages up only to a broker that was silent in as    *)
(* many turns as it was told to try.                                       *)
THEOREM GivesUpAfterSilence == Spec => []GivesUpOnlyOnSilence
<1>1. DisconnectInv => GivesUpOnlyOnSilence
  BY MqttConstants DEF DisconnectInv, TypeOK, RetriesLeft, GivesUpOnlyOnSilence
<1>. QED
  BY <1>1, DisconnectInvariant, PTL
------------------------------------------------------------------------------
(* IsSorted(s, <), without an operator as an argument.                     *)
Ascending(s) == \A i, j \in 1 .. Len(s) : i < j => s[i] < s[j]

(* The elements of a sequence, with one appended.                          *)
LEMMA ToSetAppend ==
  ASSUME NEW s \in Seq(Nat), NEW e \in Nat
  PROVE  ToSet(Append(s, e)) = ToSet(s) \cup {e}
  BY AppendProperties, LenProperties DEF ToSet

(* A sequence of numbers in order, with a greater one appended.            *)
LEMMA SortedAppend ==
  ASSUME NEW s \in Seq(Nat), NEW e \in Nat, Ascending(s),
         \A x \in ToSet(s) : x < e
  PROVE  Ascending(Append(s, e))
  BY AppendProperties, LenProperties DEF ToSet, Ascending
------------------------------------------------------------------------------
SyncTypeOK == /\ sender \in {"connect", "capture", "publish", "disconnect", "done"}
              /\ connected \in BOOLEAN
              /\ block \in Nat
              /\ channel = 1 \/ channel \in 1 .. Topics
              /\ topics \in [1 .. Topics -> Seq(Nat)]
              /\ ended \subseteq BOOLEAN

(* The block being sent is on the topics of the channels before this one   *)
(* and on no other yet.                                                    *)
BlockOnItsWay ==
  \A c \in 1 .. Topics :
    /\ \A b \in ToSet(topics[c]) : b <= block
    /\ sender = "publish" => (block \in ToSet(topics[c]) <=> c < channel)

(* ChannelsInStep, with Ascending.                                         *)
TopicsAscend ==
  \A c \in 1 .. Topics : /\ Ascending(topics[c])
                         /\ c > 1 => ToSet(topics[c]) \subseteq ToSet(topics[c - 1])

SyncInv == SyncTypeOK /\ BlockOnItsWay /\ TopicsAscend

(* Nothing has been sent.                                                  *)
LEMMA SyncInitInv == SyncInit => SyncInv
<1>. SUFFICES ASSUME SyncInit PROVE SyncInv
  OBVIOUS
<1>1. SyncTypeOK
  <2>1. topics \in [1 .. Topics -> Seq(Nat)]
    BY EmptySeq DEF SyncInit
  <2>. QED
    BY <2>1 DEF SyncInit, SyncTypeOK
<1>2. \A c \in 1 .. Topics : topics[c] = <<>> /\ ToSet(topics[c]) = {}
  BY DEF SyncInit, ToSet
<1>3. BlockOnItsWay
  BY <1>2 DEF BlockOnItsWay, SyncInit
<1>4. TopicsAscend
  BY <1>2, SyncConstants DEF TopicsAscend, Ascending
<1>. QED
  BY <1>1, <1>3, <1>4 DEF SyncInv

(* A block that is delivered on a channel was on those before it, and is   *)
(* the newest of the topic.                                                *)
LEMMA DeliveredInStep ==
  ASSUME SyncInv, sender = "publish", Delivered
  PROVE  /\ topics' \in [1 .. Topics -> Seq(Nat)]
         /\ TopicsAscend'
         /\ \A c \in 1 .. Topics : /\ \A b \in ToSet(topics'[c]) : b <= block
                                   /\ block \in ToSet(topics'[c]) <=> c <= channel
<1>1. /\ topics \in [1 .. Topics -> Seq(Nat)] /\ block \in Nat
      /\ topics' = [topics EXCEPT ![channel] = Append(@, block)]
      /\ channel \in Nat /\ Topics \in Nat
  BY SyncConstants DEF Delivered, SyncInv, SyncTypeOK
<1>2. \A c \in 1 .. Topics : \A b \in ToSet(topics[c]) : b <= block
  BY DEF SyncInv, BlockOnItsWay
<1>a. \A c \in 1 .. Topics : block \in ToSet(topics[c]) <=> c < channel
  BY DEF SyncInv, BlockOnItsWay
<1>b. TopicsAscend
  BY DEF SyncInv
<1>c. \A c \in 1 .. Topics : c > 1 => ToSet(topics[c]) \subseteq ToSet(topics[c - 1])
  BY <1>b DEF TopicsAscend
<1>3. topics' \in [1 .. Topics -> Seq(Nat)]
  BY <1>1, AppendProperties
<1>4. \A c \in 1 .. Topics :
         topics'[c] = IF c = channel THEN Append(topics[c], block) ELSE topics[c]
  BY <1>1
<1>5. \A c \in 1 .. Topics :
         ToSet(topics'[c]) = IF c = channel THEN ToSet(topics[c]) \cup {block}
                                            ELSE ToSet(topics[c])
  <2>. SUFFICES ASSUME NEW c \in 1 .. Topics
                PROVE  ToSet(topics'[c]) = IF c = channel THEN ToSet(topics[c]) \cup {block}
                                                          ELSE ToSet(topics[c])
    OBVIOUS
  <2>1. ToSet(Append(topics[c], block)) = ToSet(topics[c]) \cup {block}
    BY <1>1, ToSetAppend
  <2>. QED
    BY <1>4, <2>1
<1>6. \A c \in 1 .. Topics : Ascending(topics'[c])
  <2>. SUFFICES ASSUME NEW c \in 1 .. Topics PROVE Ascending(topics'[c])
    OBVIOUS
  <2>1. CASE c = channel
    <3>1. \A b \in ToSet(topics[c]) : b < block
      <4>. SUFFICES ASSUME NEW b \in ToSet(topics[c]) PROVE b < block
        OBVIOUS
      <4>1. b \in Nat
        BY <1>1, LenProperties DEF ToSet
      <4>. QED
        BY <1>1, <1>2, <1>a, <2>1, <4>1
    <3>. QED
      BY <1>1, <1>4, <1>b, <2>1, <3>1, SortedAppend DEF TopicsAscend
  <2>. QED
    BY <1>4, <1>b, <2>1 DEF TopicsAscend
<1>7. \A c \in 1 .. Topics : /\ \A b \in ToSet(topics'[c]) : b <= block
                             /\ block \in ToSet(topics'[c]) <=> c <= channel
  <2>. SUFFICES ASSUME NEW c \in 1 .. Topics
                PROVE  /\ \A b \in ToSet(topics'[c]) : b <= block
                       /\ block \in ToSet(topics'[c]) <=> c <= channel
    OBVIOUS
  <2>1. c <= channel <=> c < channel \/ c = channel
    BY <1>1
  <2>2. block <= block
    BY <1>1
  <2>3. CASE c = channel
    <3>1. ToSet(topics'[c]) = ToSet(topics[c]) \cup {block}
      BY <1>5, <2>3
    <3>. QED
      BY <1>2, <2>1, <2>2, <2>3, <3>1
  <2>4. CASE c # channel
    <3>1. ToSet(topics'[c]) = ToSet(topics[c])
      BY <1>5, <2>4
    <3>. QED
      BY <1>2, <1>a, <2>1, <2>4, <3>1
  <2>. QED
    BY <2>3, <2>4
<1>8. \A c \in 1 .. Topics : c > 1 => ToSet(topics'[c]) \subseteq ToSet(topics'[c - 1])
  <2>. SUFFICES ASSUME NEW c \in 1 .. Topics, c > 1
                PROVE  ToSet(topics'[c]) \subseteq ToSet(topics'[c - 1])
    OBVIOUS
  <2>1. c - 1 \in 1 .. Topics
    BY <1>1
  <2>2. ToSet(topics[c]) \subseteq ToSet(topics[c - 1])
    BY <1>c
  <2>3. ToSet(topics[c - 1]) \subseteq ToSet(topics'[c - 1])
    BY <1>5, <2>1
  <2>4. c = channel => block \in ToSet(topics'[c - 1])
    BY <1>1, <1>7, <2>1
  <2>. QED
    BY <1>5, <2>2, <2>3, <2>4
<1>. QED
  BY <1>3, <1>6, <1>7, <1>8 DEF TopicsAscend

(* A publish, with or without effect, is followed by the next channel or   *)
(* the next block.                                                         *)
LEMMA PublishInv ==
  ASSUME SyncInv, Published \/ PublishThrows
  PROVE  SyncInv'
<1>1. /\ sender = "publish" /\ UNCHANGED <<connected, block, ended>>
      /\ Delivered \/ UNCHANGED topics
      /\ block \in Nat /\ Topics \in Nat /\ (channel = 1 \/ channel \in 1 .. Topics)
  BY SyncConstants DEF Published, PublishThrows, SyncInv, SyncTypeOK
<1>2. /\ topics' \in [1 .. Topics -> Seq(Nat)]
      /\ TopicsAscend'
      /\ \A c \in 1 .. Topics : \A b \in ToSet(topics'[c]) : b <= block
  <2>1. CASE Delivered
    BY <1>1, <2>1, DeliveredInStep
  <2>2. CASE UNCHANGED topics
    BY <2>2 DEF SyncInv, SyncTypeOK, BlockOnItsWay, TopicsAscend
  <2>. QED
    BY <1>1, <2>1, <2>2
<1>3. CASE sender' = "capture" /\ channel' = 1
  <2>1. SyncTypeOK'
    BY <1>1, <1>2, <1>3 DEF SyncInv, SyncTypeOK
  <2>2. BlockOnItsWay'
    BY <1>1, <1>2, <1>3 DEF BlockOnItsWay
  <2>. QED
    BY <1>2, <2>1, <2>2 DEF SyncInv
<1>4. CASE Published /\ channel < Topics
  <2>1. sender' = "publish" /\ channel' = channel + 1 /\ Delivered
    BY <1>4 DEF Published, NextChannel
  <2>2. SyncTypeOK'
    <3>1. channel' \in 1 .. Topics
      BY <1>1, <1>4, <2>1
    <3>. QED
      BY <1>1, <1>2, <2>1, <3>1 DEF SyncInv, SyncTypeOK
  <2>3. \A c \in 1 .. Topics : block \in ToSet(topics'[c]) <=> c < channel'
    BY <1>1, <2>1, DeliveredInStep
  <2>4. BlockOnItsWay'
    BY <1>1, <1>2, <2>3 DEF BlockOnItsWay
  <2>. QED
    BY <1>2, <2>2, <2>4 DEF SyncInv
<1>. QED
  BY <1>3, <1>4 DEF Published, PublishThrows, NextChannel

(* A new block is on no topic yet; the other steps leave the topics alone. *)
LEMMA OtherSyncStepsInv ==
  ASSUME SyncInv, ConnectSync \/ LosesConnection \/ CapturesSync \/ DisconnectSync
  PROVE  SyncInv'
<1>1. UNCHANGED topics
  BY DEF ConnectSync, LosesConnection, CapturesSync, DisconnectSync
<1>2. TopicsAscend'
  BY <1>1 DEF SyncInv, TopicsAscend
<1>3. CASE CapturesSync /\ sender' = "publish"
  <2>1. block' = block + 1 /\ channel' = 1 /\ UNCHANGED <<connected, ended>>
    BY <1>3 DEF CapturesSync
  <2>2. SyncTypeOK'
    BY <1>1, <1>3, <2>1 DEF SyncInv, SyncTypeOK
  <2>3. BlockOnItsWay'
    <3>1. block \in Nat /\ topics \in [1 .. Topics -> Seq(Nat)]
      BY DEF SyncInv, SyncTypeOK
    <3>2. \A c \in 1 .. Topics : \A b \in ToSet(topics[c]) : b \in Nat /\ b <= block
      BY <3>1, LenProperties DEF SyncInv, BlockOnItsWay, ToSet
    <3>3. \A c \in 1 .. Topics : ~(c < 1)
      BY SyncConstants
    <3>. QED
      BY <1>1, <2>1, <3>1, <3>2, <3>3 DEF BlockOnItsWay
  <2>. QED
    BY <1>2, <2>2, <2>3 DEF SyncInv
<1>4. CASE UNCHANGED <<block, channel>> /\ (sender' = sender \/ sender' # "publish")
  <2>1. SyncTypeOK'
    BY <1>1, <1>4
       DEF SyncInv, SyncTypeOK, ConnectSync, LosesConnection, CapturesSync, DisconnectSync
  <2>2. BlockOnItsWay'
    BY <1>1, <1>4 DEF SyncInv, BlockOnItsWay
  <2>. QED
    BY <1>2, <2>1, <2>2 DEF SyncInv
<1>. QED
  BY <1>3, <1>4 DEF ConnectSync, LosesConnection, CapturesSync, DisconnectSync

(* The invariant of the synchronous client, for any number of topics.      *)
THEOREM SyncInvariant == SyncSpec => []SyncInv
<1>1. SyncInv /\ [SyncNext]_syncVars => SyncInv'
  <2>. SUFFICES ASSUME SyncInv, [SyncNext]_syncVars PROVE SyncInv'
    OBVIOUS
  <2>1. CASE UNCHANGED syncVars
    BY <2>1 DEF syncVars, SyncInv, SyncTypeOK, BlockOnItsWay, TopicsAscend
  <2>2. CASE SyncNext
    BY <2>2, PublishInv, OtherSyncStepsInv DEF SyncNext
  <2>. QED
    BY <2>1, <2>2
<1>. QED
  BY <1>1, SyncInitInv, PTL DEF SyncSpec

(* Whatever fails, each topic gets its blocks in order, at most once, and  *)
(* none that the topic before it did not get.                              *)
THEOREM TopicsInStep == SyncSpec => []ChannelsInStep
<1>1. TopicsAscend => ChannelsInStep
  <2>. SUFFICES ASSUME TopicsAscend, NEW c \in 1 .. Topics
                PROVE  /\ IsSorted(topics[c], <)
                       /\ c > 1 => ToSet(topics[c]) \subseteq ToSet(topics[c - 1])
    BY DEF ChannelsInStep
  <2>1. Ascending(topics[c])
    BY DEF TopicsAscend
  <2>2. IsSorted(topics[c], <)
    BY <2>1 DEF Ascending, IsSorted
  <2>3. c > 1 => ToSet(topics[c]) \subseteq ToSet(topics[c - 1])
    BY DEF TopicsAscend
  <2>. QED
    BY <2>2, <2>3
<1>. QED
  BY <1>1, SyncInvariant, PTL DEF SyncInv
------------------------------------------------------------------------------
(* The elements of two sequences put together.                             *)
LEMMA ToSetConcat ==
  ASSUME NEW s \in Seq(Nat), NEW t \in Seq(Nat)
  PROVE  ToSet(s \o t) = ToSet(s) \cup ToSet(t)
<1>1. /\ Len(s) \in Nat /\ Len(t) \in Nat /\ Len(s \o t) = Len(s) + Len(t)
      /\ DOMAIN s = 1 .. Len(s) /\ DOMAIN t = 1 .. Len(t)
      /\ DOMAIN (s \o t) = 1 .. Len(s) + Len(t)
      /\ \A i \in 1 .. Len(s) + Len(t) :
           (s \o t)[i] = IF i <= Len(s) THEN s[i] ELSE t[i - Len(s)]
  BY ConcatProperties, LenProperties
<1>2. ToSet(s \o t) \subseteq ToSet(s) \cup ToSet(t)
  BY <1>1 DEF ToSet
<1>3. ToSet(s) \subseteq ToSet(s \o t)
  BY <1>1 DEF ToSet
<1>4. ASSUME NEW i \in 1 .. Len(t) PROVE t[i] \in ToSet(s \o t)
  <2>1. Len(s) + i \in 1 .. Len(s) + Len(t) /\ (s \o t)[Len(s) + i] = t[i]
    BY <1>1
  <2>. QED
    BY <1>1, <2>1 DEF ToSet
<1>5. ToSet(t) \subseteq ToSet(s \o t)
  BY <1>1, <1>4 DEF ToSet
<1>. QED
  BY <1>2, <1>3, <1>5

(* Two sequences in order, the first before the second.                    *)
LEMMA AscendingConcat ==
  ASSUME NEW s \in Seq(Nat), NEW t \in Seq(Nat), Ascending(s), Ascending(t),
         \A x \in ToSet(s), y \in ToSet(t) : x < y
  PROVE  Ascending(s \o t)
<1>1. /\ Len(s) \in Nat /\ Len(t) \in Nat /\ Len(s \o t) = Len(s) + Len(t)
      /\ \A i \in 1 .. Len(s) : s[i] \in ToSet(s)
      /\ \A i \in 1 .. Len(t) : t[i] \in ToSet(t)
      /\ \A i \in 1 .. Len(s) + Len(t) :
           (s \o t)[i] = IF i <= Len(s) THEN s[i] ELSE t[i - Len(s)]
  BY ConcatProperties, LenProperties DEF ToSet
<1>. SUFFICES ASSUME NEW i \in 1 .. Len(s) + Len(t), NEW j \in 1 .. Len(s) + Len(t),
                     i < j
              PROVE  (s \o t)[i] < (s \o t)[j]
  BY <1>1 DEF Ascending
<1>2. CASE j <= Len(s)
  BY <1>1, <1>2 DEF Ascending
<1>3. CASE i > Len(s)
  <2>1. i - Len(s) \in 1 .. Len(t) /\ j - Len(s) \in 1 .. Len(t) /\ i - Len(s) < j - Len(s)
    BY <1>1, <1>3
  <2>2. t[i - Len(s)] < t[j - Len(s)]
    BY <2>1 DEF Ascending
  <2>. QED
    BY <1>1, <1>3, <2>2
<1>4. CASE i <= Len(s) /\ j > Len(s)
  <2>1. i \in 1 .. Len(s) /\ j - Len(s) \in 1 .. Len(t)
    BY <1>1, <1>4
  <2>2. s[i] < t[j - Len(s)]
    BY <1>1, <2>1
  <2>. QED
    BY <1>1, <1>4, <2>2
<1>. QED
  BY <1>1, <1>2, <1>3, <1>4

(* The length of what SubSeq leaves after k elements.                      *)
LEMMA LengthOfBack ==
  ASSUME NEW n \in Nat, NEW k \in 0 .. n
  PROVE  (IF k + 1 <= n THEN n - (k + 1) + 1 ELSE 0) = n - k
  OBVIOUS

(* A sequence cut in two.                                                  *)
LEMMA CutInTwo ==
  ASSUME NEW s \in Seq(Nat), NEW k \in 0 .. Len(s)
  PROVE  LET front == SubSeq(s, 1, k)
             back == SubSeq(s, k + 1, Len(s))
         IN  /\ front \in Seq(Nat) /\ Len(front) = k
             /\ \A i \in 1 .. k : front[i] = s[i]
             /\ back \in Seq(Nat) /\ Len(back) = Len(s) - k
             /\ \A i \in 1 .. Len(s) - k : back[i] = s[k + i]
<1>. DEFINE front == SubSeq(s, 1, k)
            back == SubSeq(s, k + 1, Len(s))
<1>0. Len(s) \in Nat /\ k \in 0 .. Len(s)
  BY LenProperties
<1>1. Len(s) \in Nat /\ k \in Nat /\ DOMAIN s = 1 .. Len(s)
      /\ \A i \in 1 .. Len(s) : s[i] \in Nat
  BY LenProperties
<1>2. /\ front \in Seq(Nat) /\ Len(front) = k
      /\ \A i \in 1 .. k : front[i] = s[i]
  <2>1. \A i \in 1 .. k : s[i] \in Nat
    BY <1>1
  <2>. QED
    BY <1>1, <2>1, SubSeqProperties
<1>3. /\ back \in Seq(Nat) /\ Len(back) = Len(s) - k
      /\ \A i \in 1 .. Len(s) - k : back[i] = s[k + i]
  <2>1. \A i \in k + 1 .. Len(s) : s[i] \in Nat
    BY <1>1
  <2>2. /\ back \in Seq(Nat)
        /\ Len(back) = IF k + 1 <= Len(s) THEN Len(s) - (k + 1) + 1 ELSE 0
        /\ \A i \in 1 .. Len(s) - (k + 1) + 1 : back[i] = s[k + 1 + i - 1]
    BY <1>1, <2>1, SubSeqProperties
  <2>3. Len(s) - (k + 1) + 1 = Len(s) - k
    BY <1>1
  <2>4. ASSUME NEW i \in 1 .. Len(s) - k PROVE back[i] = s[k + i]
    <3>1. k + 1 + i - 1 = k + i /\ i \in 1 .. Len(s) - (k + 1) + 1
      BY <1>1
    <3>. QED
      BY <2>2, <3>1
  <2>5. Len(back) = Len(s) - k
    <3>1. (IF k + 1 <= Len(s) THEN Len(s) - (k + 1) + 1 ELSE 0) = Len(s) - k
      BY <1>0, LengthOfBack
    <3>. QED
      BY <2>2, <3>1
  <2>. QED
    BY <2>2, <2>4, <2>5
<1>. QED
  BY <1>2, <1>3

(* A sequence in order, cut in two.                                        *)
LEMMA AscendingCut ==
  ASSUME NEW s \in Seq(Nat), Ascending(s), NEW k \in 0 .. Len(s)
  PROVE  LET front == SubSeq(s, 1, k)
             back == SubSeq(s, k + 1, Len(s))
         IN  /\ front \in Seq(Nat) /\ back \in Seq(Nat)
             /\ Ascending(front) /\ Ascending(back)
             /\ \A x \in ToSet(front), y \in ToSet(back) : x < y
             /\ ToSet(front) \cup ToSet(back) = ToSet(s)
             /\ ToSet(front) = {s[i] : i \in 1 .. k}
<1>. DEFINE front == SubSeq(s, 1, k)
            back == SubSeq(s, k + 1, Len(s))
<1>1. Len(s) \in Nat /\ k \in Nat /\ DOMAIN s = 1 .. Len(s)
  BY LenProperties
<1>2. /\ front \in Seq(Nat) /\ Len(front) = k
      /\ \A i \in 1 .. k : front[i] = s[i]
  BY CutInTwo
<1>3. /\ back \in Seq(Nat) /\ Len(back) = Len(s) - k
      /\ \A i \in 1 .. Len(s) - k : back[i] = s[k + i]
  BY CutInTwo
<1>4. ToSet(front) = {s[i] : i \in 1 .. k} /\ ToSet(back) = {s[i] : i \in k + 1 .. Len(s)}
  <2>1. DOMAIN front = 1 .. k /\ DOMAIN back = 1 .. Len(s) - k
    BY <1>2, <1>3, LenProperties
  <2>2. ToSet(front) = {s[i] : i \in 1 .. k}
    BY <1>2, <2>1 DEF ToSet
  <2>3. ASSUME NEW i \in k + 1 .. Len(s)
        PROVE  i - k \in 1 .. Len(s) - k /\ back[i - k] = s[i]
    <3>1. i - k \in 1 .. Len(s) - k /\ k + (i - k) = i
      BY <1>1
    <3>. QED
      BY <1>3, <3>1
  <2>4. {s[i] : i \in k + 1 .. Len(s)} \subseteq ToSet(back)
    BY <2>1, <2>3 DEF ToSet
  <2>5. ToSet(back) \subseteq {s[i] : i \in k + 1 .. Len(s)}
    <3>1. \A i \in 1 .. Len(s) - k : k + i \in k + 1 .. Len(s)
      BY <1>1
    <3>. QED
      BY <1>3, <2>1, <3>1 DEF ToSet
  <2>. QED
    BY <2>2, <2>4, <2>5
<1>5. Ascending(front)
  BY <1>1, <1>2 DEF Ascending
<1>6. Ascending(back)
  <2>. SUFFICES ASSUME NEW i \in 1 .. Len(s) - k, NEW j \in 1 .. Len(s) - k, i < j
                PROVE  back[i] < back[j]
    BY <1>3 DEF Ascending
  <2>1. k + i \in 1 .. Len(s) /\ k + j \in 1 .. Len(s) /\ k + i < k + j
    BY <1>1
  <2>. QED
    BY <1>3, <2>1 DEF Ascending
<1>7. \A x \in ToSet(front), y \in ToSet(back) : x < y
  <2>. SUFFICES ASSUME NEW i \in 1 .. k, NEW j \in k + 1 .. Len(s)
                PROVE  s[i] < s[j]
    BY <1>4
  <2>1. i \in 1 .. Len(s) /\ j \in 1 .. Len(s) /\ i < j
    BY <1>1
  <2>. QED
    BY <2>1 DEF Ascending
<1>8. ToSet(front) \cup ToSet(back) = ToSet(s)
  <2>1. 1 .. Len(s) = (1 .. k) \cup (k + 1 .. Len(s))
    BY <1>1
  <2>. QED
    BY <1>1, <1>4, <2>1 DEF ToSet
<1>. QED
  BY <1>2, <1>3, <1>4, <1>5, <1>6, <1>7, <1>8

(* The samples of a message are numbered in order.                         *)
LEMMA NumbersAscend ==
  ASSUME NEW m \in Nat, NEW n \in Nat, m <= n
  PROVE  LET numbers == Receiver!Numbers(m, n)
         IN  /\ numbers \in Seq(Nat) /\ Len(numbers) = n - m
             /\ Ascending(numbers) /\ ToSet(numbers) = m + 1 .. n
             /\ \A i \in 1 .. n - m : numbers[i] = m + i
<1>. DEFINE numbers == Receiver!Numbers(m, n)
<1>1. n - m \in Nat /\ numbers = [i \in 1 .. n - m |-> m + i]
  BY DEF Receiver!Numbers
<1>2. numbers \in Seq(Nat) /\ Len(numbers) = n - m /\ DOMAIN numbers = 1 .. n - m
  BY <1>1
<1>3. ASSUME NEW x \in m + 1 .. n PROVE x \in ToSet(numbers)
  <2>1. x - m \in 1 .. n - m /\ m + (x - m) = x
    OBVIOUS
  <2>2. numbers[x - m] = x
    BY <1>1, <2>1
  <2>. QED
    BY <1>2, <2>1, <2>2 DEF ToSet
<1>4. ToSet(numbers) = m + 1 .. n
  <2>1. \A i \in 1 .. n - m : m + i \in m + 1 .. n
    OBVIOUS
  <2>. QED
    BY <1>1, <1>2, <1>3, <2>1 DEF ToSet
<1>5. Ascending(numbers)
  BY <1>1, <1>2 DEF Ascending
<1>. QED
  BY <1>1, <1>2, <1>4, <1>5

(* Numbers that follow each other, put together.                           *)
LEMMA NumbersConcat ==
  ASSUME NEW m \in Nat, NEW k \in Nat, NEW n \in Nat, m <= k, k <= n
  PROVE  Receiver!Numbers(m, k) \o Receiver!Numbers(k, n) = Receiver!Numbers(m, n)
<1>. DEFINE first == Receiver!Numbers(m, k)
            second == Receiver!Numbers(k, n)
            whole == Receiver!Numbers(m, n)
<1>1. /\ first \in Seq(Nat) /\ Len(first) = k - m
      /\ \A i \in 1 .. k - m : first[i] = m + i
  BY NumbersAscend
<1>2. /\ second \in Seq(Nat) /\ Len(second) = n - k
      /\ \A i \in 1 .. n - k : second[i] = k + i
  BY NumbersAscend
<1>3. /\ m <= n /\ whole \in Seq(Nat) /\ Len(whole) = n - m
      /\ \A i \in 1 .. n - m : whole[i] = m + i
  <2>1. m <= n
    OBVIOUS
  <2>. QED
    BY <2>1, NumbersAscend
<1>. HIDE DEF first, second, whole
<1>4. (k - m) + (n - k) = n - m
  OBVIOUS
<1>5. /\ first \o second \in Seq(Nat) /\ Len(first \o second) = n - m
      /\ \A i \in 1 .. n - m :
           (first \o second)[i] = IF i <= k - m THEN first[i] ELSE second[i - (k - m)]
  <2>1. /\ first \o second \in Seq(Nat) /\ Len(first \o second) = Len(first) + Len(second)
        /\ \A i \in 1 .. Len(first) + Len(second) :
             (first \o second)[i] = IF i <= Len(first) THEN first[i]
                                   ELSE second[i - Len(first)]
    BY <1>1, <1>2, ConcatProperties
  <2>2. Len(first) + Len(second) = n - m /\ Len(first) = k - m
    BY <1>1, <1>2, <1>4
  <2>. QED
    BY <2>1, <2>2
<1>6. ASSUME NEW i \in 1 .. n - m PROVE (first \o second)[i] = whole[i]
  <2>1. CASE i <= k - m
    BY <1>1, <1>3, <1>5, <2>1
  <2>2. CASE ~(i <= k - m)
    <3>1. i - (k - m) \in 1 .. n - k /\ k + (i - (k - m)) = m + i
      BY <2>2
    <3>. QED
      BY <1>2, <1>3, <1>5, <2>2, <3>1
  <2>. QED
    BY <2>1, <2>2
<1>7. first \o second = whole
  BY <1>3, <1>5, <1>6, SeqEqual
<1>. QED
  BY <1>7 DEF first, second, whole

(* Numbers cut in two.                                                     *)
LEMMA NumbersCut ==
  ASSUME NEW m \in Nat, NEW n \in Nat, m <= n, NEW k \in 0 .. n - m
  PROVE  LET numbers == Receiver!Numbers(m, n)
         IN  /\ SubSeq(numbers, 1, k) = Receiver!Numbers(m, m + k)
             /\ SubSeq(numbers, k + 1, Len(numbers)) = Receiver!Numbers(m + k, n)
<1>. DEFINE numbers == Receiver!Numbers(m, n)
            front == SubSeq(numbers, 1, k)
            back == SubSeq(numbers, k + 1, Len(numbers))
<1>1. /\ numbers \in Seq(Nat) /\ Len(numbers) = n - m
      /\ \A i \in 1 .. n - m : numbers[i] = m + i
  BY NumbersAscend
<1>. HIDE DEF numbers
<1>2. k \in 0 .. Len(numbers)
  BY <1>1
<1>3. /\ front \in Seq(Nat) /\ Len(front) = k
      /\ \A i \in 1 .. k : front[i] = numbers[i]
      /\ back \in Seq(Nat) /\ Len(back) = n - m - k
      /\ \A i \in 1 .. n - m - k : back[i] = numbers[k + i]
  <2>1. Len(numbers) - k = n - m - k
    BY <1>1
  <2>. QED
    BY <1>1, <1>2, <2>1, CutInTwo
<1>4. /\ m + k \in Nat /\ m <= m + k /\ m + k <= n
      /\ m + k - m = k /\ n - (m + k) = n - m - k
  OBVIOUS
<1>5. /\ Receiver!Numbers(m, m + k) \in Seq(Nat)
      /\ Len(Receiver!Numbers(m, m + k)) = k
      /\ \A i \in 1 .. k : Receiver!Numbers(m, m + k)[i] = m + i
  <2>. DEFINE e == m + k
  <2>1. e \in Nat /\ m <= e /\ e - m = k
    BY <1>4
  <2>. HIDE DEF e
  <2>2. /\ Receiver!Numbers(m, e) \in Seq(Nat) /\ Len(Receiver!Numbers(m, e)) = e - m
        /\ \A i \in 1 .. e - m : Receiver!Numbers(m, e)[i] = m + i
    BY <2>1, NumbersAscend
  <2>. QED
    BY <2>1, <2>2 DEF e
<1>6. /\ Receiver!Numbers(m + k, n) \in Seq(Nat)
      /\ Len(Receiver!Numbers(m + k, n)) = n - m - k
      /\ \A i \in 1 .. n - m - k : Receiver!Numbers(m + k, n)[i] = m + k + i
  <2>. DEFINE e == m + k
  <2>1. e \in Nat /\ e <= n /\ n - e = n - m - k
    BY <1>4
  <2>. HIDE DEF e
  <2>2. /\ Receiver!Numbers(e, n) \in Seq(Nat) /\ Len(Receiver!Numbers(e, n)) = n - e
        /\ \A i \in 1 .. n - e : Receiver!Numbers(e, n)[i] = e + i
    BY <2>1, NumbersAscend
  <2>. QED
    BY <2>1, <2>2 DEF e
<1>7. front = Receiver!Numbers(m, m + k)
  <2>1. \A i \in 1 .. k : i \in 1 .. n - m
    OBVIOUS
  <2>2. \A i \in 1 .. k : front[i] = Receiver!Numbers(m, m + k)[i]
    BY <1>1, <1>3, <1>5, <2>1
  <2>. HIDE DEF front
  <2>. QED
    BY <1>3, <1>5, <2>2, SeqEqual
<1>8. back = Receiver!Numbers(m + k, n)
  <2>1. \A i \in 1 .. n - m - k : k + i \in 1 .. n - m /\ m + (k + i) = m + k + i
    OBVIOUS
  <2>2. \A i \in 1 .. n - m - k : back[i] = Receiver!Numbers(m + k, n)[i]
    BY <1>1, <1>3, <1>6, <2>1
  <2>. HIDE DEF back
  <2>. QED
    BY <1>3, <1>6, <2>2, SeqEqual
<1>. QED
  BY <1>7, <1>8 DEF numbers

(* All samples, from the first.                                            *)
LEMMA NumbersFromOne ==
  ASSUME NEW n \in Nat
  PROVE  LET numbers == Receiver!Numbers(0, n)
         IN  /\ numbers \in Seq(Nat) /\ Len(numbers) = n
             /\ \A i \in 1 .. n : numbers[i] = i
<1>. DEFINE numbers == Receiver!Numbers(0, n)
<1>1. n - 0 = n /\ numbers = [i \in 1 .. n - 0 |-> 0 + i]
  BY DEF Receiver!Numbers
<1>2. \A i \in 1 .. n : 0 + i = i
  OBVIOUS
<1>3. numbers = [i \in 1 .. n |-> i]
  BY <1>1, <1>2
<1>. QED
  BY <1>3
------------------------------------------------------------------------------
ReceiverTypeOK ==
  /\ main \in {"connect", "failed", "sleep", "notify", "loop_stop", "join", "done"}
  /\ running \in BOOLEAN /\ subscribed \in BOOLEAN
  /\ player \in {"none", "test", "lock", "play", "asleep", "ended"}
  /\ network \in {"off", "on", "extend"}
  /\ arrived \in Nat
  /\ audio_buffer \in Seq(Nat) /\ played \in Seq(Nat)
  /\ all_samples \in Seq(Nat) /\ saved \in Seq(Nat)
  /\ dropped \subseteq Nat

(* What is played, what is waiting: each in order, the first before the    *)
(* second, and with what was dropped it is all that arrived.               *)
SamplesAccounted ==
  /\ Ascending(played) /\ Ascending(audio_buffer)
  /\ \A p \in ToSet(played), b \in ToSet(audio_buffer) : p < b
  /\ ToSet(played) \cup ToSet(audio_buffer) \subseteq 1 .. arrived
  /\ dropped = (1 .. arrived) \ (ToSet(played) \cup ToSet(audio_buffer))

(* all_samples is behind only in on_message, and the file is written when  *)
(* the network thread is gone.                                             *)
SavedAtEnd ==
  /\ Len(all_samples) <= arrived
  /\ all_samples = Receiver!Numbers(0, Len(all_samples))
  /\ network # "extend" => Len(all_samples) = arrived
  /\ main \in {"connect", "join", "done"} => network = "off"
  /\ main = "done" => saved = all_samples

ReceiverInv == ReceiverTypeOK /\ SamplesAccounted /\ SavedAtEnd

(* Nothing has arrived.                                                    *)
LEMMA ReceiverInitInv == Receiver!ReceiverInit => ReceiverInv
<1>. SUFFICES ASSUME Receiver!ReceiverInit PROVE ReceiverInv
  OBVIOUS
<1>1. ToSet(<<>>) = {} /\ Ascending(<<>>) /\ Len(<<>>) = 0
  BY DEF ToSet, Ascending
<1>2. ReceiverTypeOK
  <2>1. running \in BOOLEAN /\ subscribed \in BOOLEAN
    BY DEF Receiver!ReceiverInit
  <2>2. <<>> \in Seq(Nat)
    BY EmptySeq
  <2>. QED
    BY <2>1, <2>2 DEF Receiver!ReceiverInit, ReceiverTypeOK
<1>3. SamplesAccounted
  BY <1>1 DEF Receiver!ReceiverInit, SamplesAccounted
<1>4. SavedAtEnd
  <2>1. Receiver!Numbers(0, 0) = <<>>
    BY NumbersAscend, EmptySeq
  <2>. QED
    BY <1>1, <2>1 DEF Receiver!ReceiverInit, SavedAtEnd
<1>. QED
  BY <1>2, <1>3, <1>4 DEF ReceiverInv

(* The deque cuts its oldest samples off, and they are the ones dropped.   *)
LEMMA OnMessageAccounted ==
  ASSUME ReceiverInv, Receiver!OnMessage
  PROVE  SamplesAccounted' /\ audio_buffer' \in Seq(Nat) /\ arrived' \in Nat
         /\ arrived <= arrived' /\ dropped' \subseteq Nat
<1>1. PICK n \in MessageSizes :
         LET samples == Receiver!Numbers(arrived, arrived + n)
             all == audio_buffer \o samples
         IN  /\ arrived' = arrived + n
             /\ audio_buffer' = Receiver!Extended(audio_buffer, samples)
             /\ dropped' = dropped \cup {all[i] : i \in 1 .. Len(all) - BUFFER_SIZE}
  BY DEF Receiver!OnMessage
<1>. DEFINE samples == Receiver!Numbers(arrived, arrived + n)
            all == audio_buffer \o samples
            k == IF Len(all) > BUFFER_SIZE THEN Len(all) - BUFFER_SIZE ELSE 0
            oldest == SubSeq(all, 1, k)
<1>2. /\ arrived \in Nat /\ n \in Nat /\ BUFFER_SIZE \in Nat
      /\ audio_buffer \in Seq(Nat) /\ played \in Seq(Nat) /\ played' = played
  BY ReceiverConstants DEF ReceiverInv, ReceiverTypeOK, Receiver!OnMessage
<1>3. /\ samples \in Seq(Nat) /\ Ascending(samples)
      /\ ToSet(samples) = arrived + 1 .. arrived + n
  <2>1. arrived + n \in Nat /\ arrived <= arrived + n
    BY <1>2
  <2>. QED
    BY <1>2, <2>1, NumbersAscend
<1>4. /\ Ascending(played) /\ Ascending(audio_buffer)
      /\ \A p \in ToSet(played), b \in ToSet(audio_buffer) : p < b
      /\ ToSet(played) \subseteq 1 .. arrived /\ ToSet(audio_buffer) \subseteq 1 .. arrived
      /\ dropped = (1 .. arrived) \ (ToSet(played) \cup ToSet(audio_buffer))
  BY DEF ReceiverInv, SamplesAccounted
<1>5. /\ all \in Seq(Nat) /\ Ascending(all) /\ Len(all) \in Nat
      /\ ToSet(all) = ToSet(audio_buffer) \cup (arrived + 1 .. arrived + n)
  <2>1. \A x \in ToSet(audio_buffer), y \in ToSet(samples) : x < y
    BY <1>2, <1>3, <1>4
  <2>2. all \in Seq(Nat)
    BY <1>2, <1>3, ConcatProperties
  <2>3. Len(all) \in Nat
    BY <2>2, LenProperties
  <2>4. Ascending(all)
    BY <1>2, <1>3, <1>4, <2>1, AscendingConcat
  <2>5. ToSet(all) = ToSet(audio_buffer) \cup ToSet(samples)
    BY <1>2, <1>3, ToSetConcat
  <2>. QED
    BY <1>3, <2>2, <2>3, <2>4, <2>5
<1>6. k \in 0 .. Len(all)
  BY <1>2, <1>5
<1>7. audio_buffer' = SubSeq(all, k + 1, Len(all))
  <2>1. k + 1 = IF Len(all) > BUFFER_SIZE THEN Len(all) - BUFFER_SIZE + 1 ELSE 1
    BY <1>2, <1>5
  <2>. QED
    BY <1>1, <2>1 DEF Receiver!Extended
<1>8. dropped' = dropped \cup {all[i] : i \in 1 .. k}
  <2>1. 1 .. Len(all) - BUFFER_SIZE = 1 .. k
    BY <1>2, <1>5
  <2>. QED
    BY <1>1, <2>1
<1>. HIDE DEF all, k, samples
<1>9. /\ audio_buffer' \in Seq(Nat) /\ Ascending(audio_buffer')
      /\ \A x \in ToSet(oldest), y \in ToSet(audio_buffer') : x < y
      /\ ToSet(oldest) \cup ToSet(audio_buffer') = ToSet(all)
      /\ dropped' = dropped \cup ToSet(oldest)
  BY <1>5, <1>6, <1>7, <1>8, AscendingCut
<1>. HIDE DEF oldest
<1>10. arrived' = arrived + n
  BY <1>1
<1>11. \A p \in ToSet(played), b \in ToSet(all) : p < b
  BY <1>2, <1>4, <1>5
<1>12. ToSet(all) \subseteq 1 .. arrived'
  BY <1>2, <1>4, <1>5, <1>10
<1>13. 1 .. arrived' = (1 .. arrived) \cup (arrived + 1 .. arrived + n)
  BY <1>2, <1>10
<1>14. \A x \in 1 .. arrived' : ~(x < x)
  BY <1>2, <1>10
<1>15. dropped' = (1 .. arrived') \ (ToSet(played) \cup ToSet(audio_buffer'))
  <2>1. ToSet(oldest) \cap ToSet(audio_buffer') = {} /\ ToSet(played) \cap ToSet(all) = {}
    BY <1>9, <1>11, <1>12, <1>14
  <2>2. ToSet(played) \cap (arrived + 1 .. arrived + n) = {}
    BY <1>2, <1>4
  <2>3. ToSet(audio_buffer) \cap (arrived + 1 .. arrived + n) = {}
    BY <1>2, <1>4
  <2>. QED
    <3>1. ASSUME NEW x \in dropped' PROVE x \in 1 .. arrived'
      BY <1>4, <1>9, <1>12, <1>13
    <3>2. ASSUME NEW x \in dropped' PROVE x \notin ToSet(played) \cup ToSet(audio_buffer')
      <4>1. CASE x \in dropped
        <5>1. x \in 1 .. arrived /\ x \notin ToSet(played) /\ x \notin ToSet(audio_buffer)
          BY <1>4, <4>1
        <5>2. x \notin arrived + 1 .. arrived + n
          BY <1>2, <5>1
        <5>. QED
          BY <1>5, <1>9, <5>1, <5>2
      <4>2. CASE x \in ToSet(oldest)
        BY <1>9, <2>1, <4>2
      <4>. QED
        BY <1>9, <4>1, <4>2
    <3>3. ASSUME NEW x \in 1 .. arrived', x \notin ToSet(played) \cup ToSet(audio_buffer')
          PROVE  x \in dropped'
      BY <1>4, <1>5, <1>9, <1>13, <3>3
    <3>. QED
      BY <3>1, <3>2, <3>3
<1>16. ToSet(played) \cup ToSet(audio_buffer') \subseteq 1 .. arrived'
  BY <1>4, <1>9, <1>12, <1>13
<1>17. SamplesAccounted'
  BY <1>2, <1>4, <1>9, <1>11, <1>15, <1>16 DEF SamplesAccounted
<1>18. dropped' \subseteq Nat /\ arrived' \in Nat /\ arrived <= arrived'
  BY <1>2, <1>10, <1>15
<1>. QED
  BY <1>9, <1>17, <1>18

(* A chunk goes from the front of the deque to the back of what is played. *)
LEMMA TakesChunkAccounted ==
  ASSUME ReceiverInv, Receiver!TakesChunk
  PROVE  SamplesAccounted' /\ audio_buffer' \in Seq(Nat) /\ played' \in Seq(Nat)
<1>1. /\ audio_buffer \in Seq(Nat) /\ played \in Seq(Nat) /\ Len(audio_buffer) \in Nat
      /\ CHUNK_SIZE \in Nat /\ UNCHANGED <<arrived, dropped>>
  BY ReceiverConstants, LenProperties
     DEF Receiver!TakesChunk, ReceiverInv, ReceiverTypeOK
<1>2. CASE UNCHANGED <<audio_buffer, played>>
  BY <1>1, <1>2 DEF ReceiverInv, SamplesAccounted
<1>3. CASE ~UNCHANGED <<audio_buffer, played>>
  <2>. DEFINE chunk == SubSeq(audio_buffer, 1, CHUNK_SIZE)
  <2>1. /\ ~(Len(audio_buffer) < CHUNK_SIZE)
        /\ played' = played \o chunk
        /\ audio_buffer' = SubSeq(audio_buffer, CHUNK_SIZE + 1, Len(audio_buffer))
    BY <1>3 DEF Receiver!TakesChunk
  <2>2. CHUNK_SIZE \in 0 .. Len(audio_buffer)
    BY <1>1, <2>1
  <2>3. /\ Ascending(played) /\ Ascending(audio_buffer)
        /\ \A p \in ToSet(played), b \in ToSet(audio_buffer) : p < b
        /\ ToSet(played) \cup ToSet(audio_buffer) \subseteq 1 .. arrived
        /\ dropped = (1 .. arrived) \ (ToSet(played) \cup ToSet(audio_buffer))
    BY DEF ReceiverInv, SamplesAccounted
  <2>4. /\ chunk \in Seq(Nat) /\ audio_buffer' \in Seq(Nat)
        /\ Ascending(chunk) /\ Ascending(audio_buffer')
        /\ \A x \in ToSet(chunk), y \in ToSet(audio_buffer') : x < y
        /\ ToSet(chunk) \cup ToSet(audio_buffer') = ToSet(audio_buffer)
    BY <1>1, <2>1, <2>2, <2>3, AscendingCut
  <2>. HIDE DEF chunk
  <2>5. played' \in Seq(Nat) /\ ToSet(played') = ToSet(played) \cup ToSet(chunk)
    BY <1>1, <2>1, <2>4, ToSetConcat, ConcatProperties
  <2>6. Ascending(played')
    BY <1>1, <2>1, <2>3, <2>4, AscendingConcat
  <2>7. ToSet(played') \cup ToSet(audio_buffer') = ToSet(played) \cup ToSet(audio_buffer)
    BY <2>4, <2>5
  <2>8. \A p \in ToSet(played'), b \in ToSet(audio_buffer') : p < b
    BY <2>3, <2>4, <2>5
  <2>. QED
    BY <1>1, <2>3, <2>4, <2>5, <2>6, <2>7, <2>8 DEF SamplesAccounted
<1>. QED
  BY <1>2, <1>3

(* The steps that neither receive nor play leave the samples where they    *)
(* are.                                                                    *)
LEMMA OthersAccounted ==
  ASSUME ReceiverInv, UNCHANGED <<audio_buffer, played, arrived, dropped>>
  PROVE  SamplesAccounted'
  BY DEF ReceiverInv, SamplesAccounted

(* all_samples catches up with what has arrived.                           *)
LEMMA ExtendsSaved ==
  ASSUME ReceiverInv, Receiver!Extends
  PROVE  /\ all_samples' = Receiver!Numbers(0, arrived)
         /\ all_samples' \in Seq(Nat) /\ Len(all_samples') = arrived
<1>. DEFINE l == Len(all_samples)
            rest == Receiver!Numbers(l, arrived)
            whole == Receiver!Numbers(0, arrived)
<1>1. /\ all_samples \in Seq(Nat) /\ arrived \in Nat /\ l \in Nat /\ l <= arrived
      /\ all_samples = Receiver!Numbers(0, l)
      /\ all_samples' = all_samples \o rest
  BY LenProperties DEF ReceiverInv, ReceiverTypeOK, SavedAtEnd, Receiver!Extends
<1>2. /\ rest \in Seq(Nat) /\ Len(rest) = arrived - l
      /\ \A i \in 1 .. arrived - l : rest[i] = l + i
  BY <1>1, NumbersAscend
<1>3. /\ whole \in Seq(Nat) /\ Len(whole) = arrived
      /\ \A i \in 1 .. arrived : whole[i] = i
  BY <1>1, NumbersFromOne
<1>4. \A i \in 1 .. l : all_samples[i] = i
  BY <1>1, NumbersFromOne
<1>. HIDE DEF rest, whole
<1>5. /\ all_samples' \in Seq(Nat) /\ Len(all_samples') = l + (arrived - l)
      /\ \A i \in 1 .. l + (arrived - l) :
           all_samples'[i] = IF i <= l THEN all_samples[i] ELSE rest[i - l]
  BY <1>1, <1>2, ConcatProperties
<1>. HIDE DEF l
<1>6. l + (arrived - l) = arrived
  BY <1>1
<1>7. ASSUME NEW i \in 1 .. arrived PROVE all_samples'[i] = whole[i]
  <2>1. CASE i <= l
    BY <1>1, <1>3, <1>4, <1>5, <1>6, <2>1
  <2>2. CASE ~(i <= l)
    <3>1. i - l \in 1 .. arrived - l /\ l + (i - l) = i
      BY <1>1, <2>2
    <3>. QED
      BY <1>2, <1>3, <1>5, <1>6, <2>2, <3>1
  <2>. QED
    BY <2>1, <2>2
<1>8. all_samples' = whole
  BY <1>3, <1>5, <1>6, <1>7, SeqEqual
<1>. QED
  BY <1>5, <1>6, <1>8 DEF whole

(* A message waits for all_samples to be extended; the file is written     *)
(* when no message can come.                                               *)
LEMMA NextSaved ==
  ASSUME ReceiverInv, Receiver!ReceiverNext
  PROVE  SavedAtEnd' /\ all_samples' \in Seq(Nat) /\ saved' \in Seq(Nat)
<1>1. SavedAtEnd /\ arrived \in Nat /\ all_samples \in Seq(Nat) /\ saved \in Seq(Nat)
      /\ network \in {"off", "on", "extend"}
  BY DEF ReceiverInv, ReceiverTypeOK
<1>2. CASE Receiver!Extends
  <2>1. /\ network = "extend" /\ network' = "on"
        /\ UNCHANGED <<main, arrived, saved>>
    BY <1>2 DEF Receiver!Extends
  <2>2. main' \notin {"connect", "join", "done"}
    BY <1>1, <2>1 DEF SavedAtEnd
  <2>3. arrived <= arrived
    BY <1>1
  <2>. QED
    BY <1>1, <1>2, <2>1, <2>2, <2>3, ExtendsSaved DEF SavedAtEnd
<1>3. CASE Receiver!OnMessage
  <2>1. /\ network = "on" /\ network' = "extend" /\ UNCHANGED <<main, all_samples, saved>>
    BY <1>3 DEF Receiver!OnMessage
  <2>2. arrived' \in Nat /\ arrived <= arrived' /\ Len(all_samples) = arrived
    BY <1>1, <1>3, <2>1, OnMessageAccounted DEF SavedAtEnd
  <2>3. Len(all_samples) <= arrived'
    BY <2>2
  <2>. QED
    BY <1>1, <2>1, <2>3 DEF SavedAtEnd
<1>4. CASE Receiver!JoinsAndSaves
  BY <1>1, <1>4 DEF Receiver!JoinsAndSaves, Receiver!Goto, SavedAtEnd
<1>5. CASE \/ Receiver!OnConnect \/ Receiver!ConnectionLost \/ Receiver!Player
           \/ Receiver!Connects \/ Receiver!Stops \/ Receiver!Notifies
           \/ Receiver!LoopStops
  <2>1. UNCHANGED <<arrived, all_samples, saved>>
    BY <1>5 DEF Receiver!OnConnect, Receiver!ConnectionLost, Receiver!Player,
                Receiver!TestsRunning, Receiver!TakesChunk, Receiver!Plays,
                Receiver!Connects, Receiver!Stops, Receiver!Notifies, Receiver!LoopStops
  <2>2. /\ network' = "extend" <=> network = "extend"
        /\ main' \in {"connect", "join", "done"} => network' = "off"
        /\ main' = "done" => main = "done"
    BY <1>1, <1>5
       DEF Receiver!OnConnect, Receiver!ConnectionLost, Receiver!Player,
           Receiver!TestsRunning, Receiver!TakesChunk, Receiver!Plays,
           Receiver!Connects, Receiver!Stops, Receiver!Notifies, Receiver!LoopStops,
           Receiver!Goto, SavedAtEnd
  <2>. QED
    BY <1>1, <2>1, <2>2 DEF SavedAtEnd
<1>. QED
  BY <1>2, <1>3, <1>4, <1>5 DEF Receiver!ReceiverNext, Receiver!Network, Receiver!Main

(* The places of the threads, and what they hold, keep their types.        *)
LEMMA NextReceiverTypeOK ==
  ASSUME ReceiverInv, Receiver!ReceiverNext
  PROVE  ReceiverTypeOK'
<1>. USE DEF ReceiverTypeOK
<1>1. ReceiverTypeOK
  BY DEF ReceiverInv
<1>2. all_samples' \in Seq(Nat) /\ saved' \in Seq(Nat)
  BY NextSaved
<1>3. CASE Receiver!OnMessage
  <2>1. audio_buffer' \in Seq(Nat) /\ arrived' \in Nat /\ dropped' \subseteq Nat
    BY <1>3, OnMessageAccounted
  <2>. QED
    BY <1>1, <1>2, <1>3, <2>1 DEF Receiver!OnMessage
<1>4. CASE Receiver!TakesChunk
  <2>1. audio_buffer' \in Seq(Nat) /\ played' \in Seq(Nat)
    BY <1>4, TakesChunkAccounted
  <2>. QED
    BY <1>1, <1>2, <1>4, <2>1 DEF Receiver!TakesChunk
<1>5. CASE Receiver!OnConnect \/ Receiver!ConnectionLost \/ Receiver!Extends
  BY <1>1, <1>2, <1>5 DEF Receiver!OnConnect, Receiver!ConnectionLost, Receiver!Extends
<1>6. CASE Receiver!TestsRunning \/ Receiver!Plays
  BY <1>1, <1>2, <1>6 DEF Receiver!TestsRunning, Receiver!Plays
<1>7. CASE Receiver!Main
  BY <1>1, <1>2, <1>7
     DEF Receiver!Main, Receiver!Connects, Receiver!Stops, Receiver!Notifies,
         Receiver!LoopStops, Receiver!JoinsAndSaves, Receiver!Goto
<1>. QED
  BY <1>3, <1>4, <1>5, <1>6, <1>7
     DEF Receiver!ReceiverNext, Receiver!Network, Receiver!Player

(* The invariant of the receiver, for every buffer, chunk and message.     *)
THEOREM ReceiverInvariant == Receiver!ReceiverSpec => []ReceiverInv
<1>1. ReceiverInv /\ [Receiver!ReceiverNext]_(Receiver!receiverVars) => ReceiverInv'
  <2>. SUFFICES ASSUME ReceiverInv, [Receiver!ReceiverNext]_(Receiver!receiverVars)
                PROVE  ReceiverInv'
    OBVIOUS
  <2>1. CASE UNCHANGED Receiver!receiverVars
    BY <2>1 DEF Receiver!receiverVars, ReceiverInv, ReceiverTypeOK, SamplesAccounted,
                SavedAtEnd
  <2>2. CASE Receiver!ReceiverNext
    <3>1. ASSUME Receiver!OnMessage PROVE SamplesAccounted'
      BY <3>1, OnMessageAccounted
    <3>2. ASSUME Receiver!TakesChunk PROVE SamplesAccounted'
      BY <3>2, TakesChunkAccounted
    <3>3. ASSUME UNCHANGED <<audio_buffer, played, arrived, dropped>>
          PROVE  SamplesAccounted'
      BY <3>3, OthersAccounted
    <3>4. SamplesAccounted'
      BY <2>2, <3>1, <3>2, <3>3
         DEF Receiver!ReceiverNext, Receiver!Network, Receiver!Player, Receiver!Main,
             Receiver!OnConnect, Receiver!ConnectionLost, Receiver!Extends,
             Receiver!TestsRunning, Receiver!Plays, Receiver!Connects, Receiver!Stops,
             Receiver!Notifies, Receiver!LoopStops, Receiver!JoinsAndSaves
    <3>. QED
      BY <2>2, <3>4, NextSaved, NextReceiverTypeOK DEF ReceiverInv
  <2>. QED
    BY <2>1, <2>2
<1>. QED
  BY <1>1, ReceiverInitInv, PTL DEF Receiver!ReceiverSpec

(* Played and waiting samples are in the order they arrived in, and all    *)
(* that arrived but those dropped for newer ones.                          *)
THEOREM ReceiverPlaysInOrder == Receiver!ReceiverSpec => []PlayedInOrder
<1>1. ReceiverInv => PlayedInOrder
  <2>. SUFFICES ASSUME ReceiverInv PROVE PlayedInOrder
    OBVIOUS
  <2>1. played \in Seq(Nat) /\ audio_buffer \in Seq(Nat) /\ SamplesAccounted
    BY DEF ReceiverInv, ReceiverTypeOK
  <2>2. Ascending(played \o audio_buffer)
    BY <2>1, AscendingConcat DEF SamplesAccounted
  <2>3. ToSet(played \o audio_buffer) = ToSet(played) \cup ToSet(audio_buffer)
    BY <2>1, ToSetConcat
  <2>4. (1 .. arrived) \ ToSet(played \o audio_buffer) = dropped
    BY <2>1, <2>3 DEF SamplesAccounted
  <2>. QED
    BY <2>2, <2>4 DEF PlayedInOrder, Receiver!PlayedInOrder, Receiver!IsSorted,
                      Receiver!ToSet, ToSet, Ascending
<1>. QED
  BY <1>1, ReceiverInvariant, PTL

(* The file that main leaves has every sample that arrived, in order.      *)
THEOREM ReceiverSavesAll == Receiver!ReceiverSpec => []SavesWhatArrived
<1>1. ReceiverInv => SavesWhatArrived
  BY DEF ReceiverInv, SavedAtEnd, SavesWhatArrived, Receiver!SavesWhatArrived
<1>. QED
  BY <1>1, ReceiverInvariant, PTL
------------------------------------------------------------------------------
(* The deque holds what has arrived and may still be played; its threads   *)
(* have ended when the file is written.                                    *)
BufferIsWindow ==
  /\ Receiver!LastPlayed \in Nat /\ Abstract!Behind \in 0 .. arrived
  /\ audio_buffer = Receiver!Numbers(Abstract!Behind, arrived)

PlayerEnded == /\ main \in {"connect", "failed"} => player = "none"
               /\ main = "done" => player = "ended"

PlaybackInv == BufferIsWindow /\ PlayerEnded

(* Nothing is played once main has joined the player.                      *)
LEMMA NextPlayerEnded ==
  ASSUME PlayerEnded, Receiver!ReceiverNext
  PROVE  PlayerEnded'
<1>1. CASE Receiver!Network
  BY <1>1 DEF PlayerEnded, Receiver!Network, Receiver!OnConnect, Receiver!ConnectionLost,
              Receiver!OnMessage, Receiver!Extends
<1>2. CASE Receiver!Player
  BY <1>2 DEF PlayerEnded, Receiver!Player, Receiver!TestsRunning, Receiver!TakesChunk,
              Receiver!Plays
<1>3. CASE Receiver!Main
  BY <1>3 DEF PlayerEnded, Receiver!Main, Receiver!Connects, Receiver!Stops,
              Receiver!Notifies, Receiver!LoopStops, Receiver!JoinsAndSaves, Receiver!Goto
<1>. QED
  BY <1>1, <1>2, <1>3 DEF Receiver!ReceiverNext

(* A message moves the window, and the deque with it.                      *)
LEMMA OnMessageArrives ==
  ASSUME ReceiverInv, PlaybackInv, Receiver!OnMessage
  PROVE  BufferIsWindow' /\ Abstract!Arrive
<1>1. PICK n \in MessageSizes :
        /\ arrived' = arrived + n
        /\ audio_buffer' = Receiver!Extended(audio_buffer,
                                            Receiver!Numbers(arrived, arrived + n))
  BY DEF Receiver!OnMessage
<1>2. /\ network = "on" /\ UNCHANGED <<main, played, saved>>
      /\ Receiver!LastPlayed' = Receiver!LastPlayed
  BY DEF Receiver!OnMessage, Receiver!LastPlayed
<1>. DEFINE last == Receiver!LastPlayed
            low == Abstract!Behind
            size == BUFFER_SIZE
            end == arrived + n
<1>3. /\ arrived \in Nat /\ n \in Nat \ {0} /\ size \in Nat
      /\ last \in Nat /\ low \in Nat /\ low <= arrived
      /\ low = IF arrived - size > last THEN arrived - size ELSE last
      /\ audio_buffer = Receiver!Numbers(low, arrived)
  BY ReceiverConstants DEF ReceiverInv, ReceiverTypeOK, PlaybackInv, BufferIsWindow,
                           Abstract!Behind
<1>4. Abstract!Behind' = IF end - size > last THEN end - size ELSE last
  BY <1>1, <1>2 DEF Abstract!Behind
<1>5. Abstract!Arrive
  <2>1. main # "done"
    BY <1>2 DEF ReceiverInv, SavedAtEnd
  <2>2. arrived' \in Nat /\ arrived' > arrived
    BY <1>1, <1>3
  <2>. QED
    BY <1>2, <2>1, <2>2 DEF Abstract!Arrive
<1>. DEFINE next == Abstract!Behind'
            all == Receiver!Numbers(low, end)
<1>. HIDE DEF last, low, size
<1>6. end \in Nat /\ arrived <= end /\ low <= end
  BY <1>3
<1>7. audio_buffer \o Receiver!Numbers(arrived, end) = all
  <2>. HIDE DEF end
  <2>. QED
    BY <1>3, <1>6, NumbersConcat
<1>8. Len(all) = end - low
  <2>. HIDE DEF end
  <2>. QED
    BY <1>3, <1>6, NumbersAscend
<1>9. audio_buffer' = SubSeq(all, IF Len(all) > size THEN Len(all) - size + 1 ELSE 1,
                             Len(all))
  BY <1>1, <1>7 DEF Receiver!Extended, size
<1>. DEFINE k == IF end - low > size THEN end - low - size ELSE 0
<1>10. k \in 0 .. end - low /\ low + k = next
  BY <1>3, <1>4, <1>6 DEF last, low, size
<1>11. (IF Len(all) > size THEN Len(all) - size + 1 ELSE 1) = k + 1
  <2>. HIDE DEF all, end
  <2>. QED
    BY <1>3, <1>6, <1>8
<1>. HIDE DEF k, next
<1>12. SubSeq(all, k + 1, Len(all)) = Receiver!Numbers(low + k, end)
  <2>. HIDE DEF end
  <2>. QED
    BY <1>3, <1>6, <1>10, NumbersCut
<1>13. audio_buffer' = Receiver!Numbers(next, arrived')
  BY <1>1, <1>9, <1>10, <1>11, <1>12
<1>14. next \in 0 .. arrived'
  <2>1. next \in Nat /\ next <= end
    BY <1>3, <1>6, <1>10
  <2>. QED
    BY <1>1, <1>6, <2>1
<1>. QED
  BY <1>2, <1>3, <1>5, <1>13, <1>14 DEF BufferIsWindow, last, next

(* The front of the deque is the chunk that comes next.                    *)
LEMMA TakesChunkPlays ==
  ASSUME ReceiverInv, PlaybackInv, Receiver!TakesChunk
  PROVE  /\ BufferIsWindow'
         /\ Abstract!PlayChunk \/ UNCHANGED Abstract!playbackVars
<1>1. UNCHANGED <<main, arrived, saved>> /\ player = "lock"
  BY DEF Receiver!TakesChunk
<1>2. CASE UNCHANGED <<audio_buffer, played>>
  <2>1. Receiver!LastPlayed' = Receiver!LastPlayed /\ Abstract!Behind' = Abstract!Behind
    BY <1>1, <1>2 DEF Receiver!LastPlayed, Abstract!Behind
  <2>. QED
    BY <1>1, <1>2, <2>1 DEF PlaybackInv, BufferIsWindow, Abstract!playbackVars
<1>3. CASE ~UNCHANGED <<audio_buffer, played>>
  <2>. DEFINE last == Receiver!LastPlayed
              low == Abstract!Behind
              chunk == CHUNK_SIZE
              end == low + chunk
              numbers == Receiver!Numbers(low, arrived)
              front == Receiver!Numbers(low, end)
  <2>1. /\ ~(Len(audio_buffer) < chunk)
        /\ played' = played \o SubSeq(audio_buffer, 1, chunk)
        /\ audio_buffer' = SubSeq(audio_buffer, chunk + 1, Len(audio_buffer))
    BY <1>3 DEF Receiver!TakesChunk
  <2>2. /\ arrived \in Nat /\ chunk \in Nat \ {0} /\ BUFFER_SIZE \in Nat
        /\ last \in Nat /\ low \in Nat /\ low <= arrived
        /\ low = IF arrived - BUFFER_SIZE > last THEN arrived - BUFFER_SIZE ELSE last
        /\ audio_buffer = numbers /\ played \in Seq(Nat)
    BY ReceiverConstants DEF ReceiverInv, ReceiverTypeOK, PlaybackInv, BufferIsWindow,
                             Abstract!Behind
  <2>. HIDE DEF last, low, chunk
  <2>3. Len(numbers) = arrived - low
    BY <2>2, NumbersAscend
  <2>4. chunk \in 0 .. arrived - low /\ end \in Nat /\ low <= end /\ end <= arrived
        /\ end - low = chunk
    BY <2>1, <2>2, <2>3
  <2>5. /\ SubSeq(numbers, 1, chunk) = front
        /\ SubSeq(numbers, chunk + 1, Len(numbers)) = Receiver!Numbers(end, arrived)
    BY <2>2, <2>4, NumbersCut
  <2>6. /\ front \in Seq(Nat) /\ Len(front) = chunk
        /\ \A i \in 1 .. chunk : front[i] = low + i
    <3>. HIDE DEF end
    <3>. QED
      BY <2>2, <2>4, NumbersAscend
  <2>7. played' = played \o front /\ audio_buffer' = Receiver!Numbers(end, arrived)
    BY <2>1, <2>2, <2>5
  <2>8. Receiver!LastPlayed' = end
    <3>. HIDE DEF front, end
    <3>1. /\ Len(played) \in Nat /\ Len(played') = Len(played) + chunk
          /\ \A i \in 1 .. Len(played) + chunk :
               played'[i] = IF i <= Len(played) THEN played[i] ELSE front[i - Len(played)]
      BY <2>2, <2>6, <2>7, LenProperties, ConcatProperties
    <3>2. /\ Len(played) + chunk \in 1 .. Len(played) + chunk
          /\ ~(Len(played) + chunk <= Len(played))
          /\ (Len(played) + chunk) - Len(played) = chunk /\ chunk \in 1 .. chunk
      BY <2>2, <3>1
    <3>3. played'[Len(played')] = low + chunk
      BY <2>6, <3>1, <3>2
    <3>4. played' # <<>>
      <4>1. Len(<<>>) = 0
        OBVIOUS
      <4>. QED
        BY <2>2, <3>1, <4>1
    <3>. QED
      BY <3>3, <3>4 DEF Receiver!LastPlayed, end
  <2>9. Abstract!Behind' = end
    <3>1. Abstract!Behind' = IF arrived - BUFFER_SIZE > end THEN arrived - BUFFER_SIZE
                             ELSE end
      BY <1>1, <2>8 DEF Abstract!Behind
    <3>2. ~(arrived - BUFFER_SIZE > end)
      BY <2>2
    <3>. QED
      BY <3>1, <3>2
  <2>10. BufferIsWindow'
    BY <1>1, <2>2, <2>4, <2>7, <2>8, <2>9 DEF BufferIsWindow
  <2>11. main # "done"
    BY <1>1 DEF PlaybackInv, PlayerEnded
  <2>12. Abstract!PlayChunk
    <3>1. Abstract!Samples(low, end) = front
      BY DEF Abstract!Samples, Receiver!Numbers
    <3>2. /\ played' = played \o Abstract!Samples(low, low + chunk)
          /\ Receiver!LastPlayed' = low + chunk /\ low + chunk <= arrived
      BY <2>4, <2>7, <2>8, <3>1
    <3>. QED
      BY <1>1, <2>11, <3>2 DEF Abstract!PlayChunk, low, chunk
  <2>. QED
    BY <2>10, <2>12
<1>. QED
  BY <1>2, <1>3

(* main writes the file when nothing arrives any more; the other steps are *)
(* none of the player's.                                                   *)
LEMMA OthersPlayNothing ==
  ASSUME ReceiverInv, PlaybackInv, Receiver!ReceiverNext,
         ~Receiver!OnMessage, ~Receiver!TakesChunk
  PROVE  /\ BufferIsWindow'
         /\ Abstract!Finish \/ UNCHANGED Abstract!playbackVars
<1>1. UNCHANGED <<arrived, played, audio_buffer>>
  BY DEF Receiver!ReceiverNext, Receiver!Network, Receiver!Player, Receiver!Main,
         Receiver!OnConnect, Receiver!ConnectionLost, Receiver!Extends,
         Receiver!TestsRunning, Receiver!Plays, Receiver!Connects, Receiver!Stops,
         Receiver!Notifies, Receiver!LoopStops, Receiver!JoinsAndSaves
<1>2. Receiver!LastPlayed' = Receiver!LastPlayed /\ Abstract!Behind' = Abstract!Behind
  BY <1>1 DEF Receiver!LastPlayed, Abstract!Behind
<1>3. BufferIsWindow'
  BY <1>1, <1>2 DEF PlaybackInv, BufferIsWindow
<1>4. CASE Receiver!JoinsAndSaves
  <2>1. /\ main = "join" /\ main' = "done" /\ saved' = all_samples
    BY <1>4 DEF Receiver!JoinsAndSaves, Receiver!Goto
  <2>2. all_samples = Receiver!Numbers(0, arrived)
    BY <2>1 DEF ReceiverInv, SavedAtEnd
  <2>3. saved' = Abstract!Samples(0, arrived)
    BY <2>1, <2>2 DEF Abstract!Samples, Receiver!Numbers
  <2>. QED
    BY <1>1, <1>2, <1>3, <2>1, <2>3 DEF Abstract!Finish
<1>5. CASE ~Receiver!JoinsAndSaves
  <2>1. UNCHANGED saved /\ (main' = "done" <=> main = "done")
    BY <1>5 DEF Receiver!ReceiverNext, Receiver!Network, Receiver!Player, Receiver!Main,
           Receiver!OnConnect, Receiver!ConnectionLost, Receiver!Extends,
           Receiver!TestsRunning, Receiver!TakesChunk, Receiver!OnMessage,
           Receiver!Plays, Receiver!Connects, Receiver!Stops, Receiver!Notifies,
           Receiver!LoopStops, Receiver!Goto
  <2>2. (main = "done")' = (main = "done")
    BY <2>1
  <2>. QED
    BY <1>1, <1>2, <1>3, <2>1, <2>2 DEF Abstract!playbackVars
<1>. QED
  BY <1>4, <1>5

(* The receiver is a player that goes on where it stopped, or BUFFER_SIZE  *)
(* samples behind the newest if that is later, and saves everything at the *)
(* end: nothing else of its deque, its threads, and the moments at which   *)
(* messages come can be heard or found in the file, for every size of the  *)
(* buffer, of a chunk and of a message.                                    *)
THEOREM ReceiverImplementsPlayback == Receiver!ReceiverSpec => ImplementsPlayback
<1>1. Receiver!ReceiverInit => PlaybackInv /\ Abstract!PlaybackInit
  <2>. SUFFICES ASSUME Receiver!ReceiverInit PROVE PlaybackInv /\ Abstract!PlaybackInit
    OBVIOUS
  <2>1. /\ arrived = 0 /\ played = <<>> /\ audio_buffer = <<>> /\ saved = <<>>
        /\ main = "connect" /\ player = "none"
    BY DEF Receiver!ReceiverInit
  <2>2. Receiver!LastPlayed = 0
    BY <2>1 DEF Receiver!LastPlayed
  <2>3. Abstract!Behind = 0
    <3>1. ~(arrived - BUFFER_SIZE > 0)
      BY <2>1, ReceiverConstants
    <3>. QED
      BY <2>2, <3>1 DEF Abstract!Behind
  <2>4. Receiver!Numbers(0, 0) = <<>>
    BY NumbersAscend, EmptySeq
  <2>5. BufferIsWindow
    BY <2>1, <2>2, <2>3, <2>4 DEF BufferIsWindow
  <2>. QED
    BY <2>1, <2>2, <2>5 DEF PlaybackInv, PlayerEnded, Abstract!PlaybackInit
<1>2. ReceiverInv /\ PlaybackInv /\ [Receiver!ReceiverNext]_(Receiver!receiverVars)
        => PlaybackInv' /\ [Abstract!PlaybackNext]_(Abstract!playbackVars)
  <2>. SUFFICES ASSUME ReceiverInv, PlaybackInv,
                       [Receiver!ReceiverNext]_(Receiver!receiverVars)
                PROVE  PlaybackInv' /\ [Abstract!PlaybackNext]_(Abstract!playbackVars)
    OBVIOUS
  <2>1. CASE Receiver!ReceiverNext
    <3>1. PlayerEnded'
      BY <2>1, NextPlayerEnded DEF PlaybackInv
    <3>2. CASE Receiver!OnMessage
      BY <3>1, <3>2, OnMessageArrives DEF PlaybackInv, Abstract!PlaybackNext
    <3>3. CASE Receiver!TakesChunk
      BY <3>1, <3>3, TakesChunkPlays DEF PlaybackInv, Abstract!PlaybackNext
    <3>4. CASE ~Receiver!OnMessage /\ ~Receiver!TakesChunk
      BY <2>1, <3>1, <3>4, OthersPlayNothing DEF PlaybackInv, Abstract!PlaybackNext
    <3>. QED
      BY <3>2, <3>3, <3>4
  <2>2. CASE UNCHANGED Receiver!receiverVars
    <3>1. UNCHANGED <<main, player, audio_buffer, arrived, played, saved>>
      BY <2>2 DEF Receiver!receiverVars
    <3>2. Receiver!LastPlayed' = Receiver!LastPlayed /\ Abstract!Behind' = Abstract!Behind
      BY <3>1 DEF Receiver!LastPlayed, Abstract!Behind
    <3>. QED
      BY <3>1, <3>2 DEF PlaybackInv, BufferIsWindow, PlayerEnded, Abstract!playbackVars
  <2>. QED
    BY <2>1, <2>2
<1>. QED
  BY <1>1, <1>2, ReceiverInvariant, PTL
     DEF Receiver!ReceiverSpec, ImplementsPlayback, Abstract!PlaybackSpec
================================================================================
