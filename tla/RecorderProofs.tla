---------------------------- MODULE RecorderProofs -----------------------------
(***************************************************************************)
(* The recorders that do not use SafeQueue's stop, proved for any number   *)
(* of files and blocks, and for any rate, size of a block and duration:    *)
(* the validation recorder keeps the stream between its files and its      *)
(* queue, and the demos stay inside their arrays and record the stream.    *)
(***************************************************************************)
EXTENDS MCRecorders, SequenceTheorems, TLAPS

Numbers(n) == [i \in 1 .. n |-> i]

Content == 1 .. MaxBlocks \cup {Header}

(* A thread is at the places where it has the block it works on.           *)
InHand == /\ capture \in {"read", "push"} => pushed < MaxBlocks
          /\ recorder = "write" => block \in 1 .. MaxBlocks

(* Opening goes through the files in order and finds nothing popped.       *)
OpenedSoFar ==
  /\ recorder \in {"none", "open"} => queue = Numbers(pushed)
  /\ recorder = "none" => channel = 1
  /\ recorder = "open" => \A c \in Channels : c < channel => files[c] = StartOfFile
  /\ recorder \in {"test", "pop"} => channel = 1
  /\ failed => recorder = "ended"
  /\ recorder # "none" => main \notin {"init", "spawn"}

ValInv == TypeOK /\ InHand /\ OpenedSoFar /\ FilesThenQueue
------------------------------------------------------------------------------
(* The oldest block leaves the queue for a file.                           *)
LEMMA HeadMoves ==
  ASSUME NEW V, NEW f \in Seq(V), NEW q \in Seq(V), q # <<>>
  PROVE  Append(f, Head(q)) \o Tail(q) = f \o q
<1>1. /\ Head(q) \in V /\ Head(q) = q[1]
      /\ Tail(q) \in Seq(V) /\ Len(Tail(q)) = Len(q) - 1
      /\ Len(q) \in Nat /\ Len(q) # 0
      /\ \A i \in 1 .. Len(q) - 1 : Tail(q)[i] = q[i + 1]
  BY HeadTailProperties, EmptySeq
<1>2. Append(f, Head(q)) \o Tail(q) \in Seq(V) /\ f \o q \in Seq(V)
  BY <1>1
<1>3. Len(Append(f, Head(q)) \o Tail(q)) = Len(f \o q)
  BY <1>1
<1>4. ASSUME NEW i \in 1 .. Len(f \o q)
      PROVE  (Append(f, Head(q)) \o Tail(q))[i] = (f \o q)[i]
  BY <1>1
<1>5. QED
  BY <1>2, <1>3, <1>4, SeqEqual

(* A block appended to the queue is appended to file and queue together.   *)
LEMMA AppendMoves ==
  ASSUME NEW V, NEW f \in Seq(V), NEW q \in Seq(V), NEW x \in V
  PROVE  f \o Append(q, x) = Append(f \o q, x)
<1>1. f \o Append(q, x) \in Seq(V) /\ Append(f \o q, x) \in Seq(V)
  OBVIOUS
<1>2. Len(f \o Append(q, x)) = Len(Append(f \o q, x))
  OBVIOUS
<1>3. ASSUME NEW i \in 1 .. Len(f \o Append(q, x))
      PROVE  (f \o Append(q, x))[i] = Append(f \o q, x)[i]
  OBVIOUS
<1>4. QED
  BY <1>1, <1>2, <1>3, SeqEqual

(* The numbers from 1 on, and one more.                                    *)
LEMMA OneMoreNumber ==
  ASSUME NEW n \in Nat
  PROVE  Append(Numbers(n), n + 1) = Numbers(n + 1) /\ Numbers(n) \in Seq(1 .. n)
BY DEF Numbers

(* What a file starts with, and the numbers of the blocks, are content.    *)
LEMMA ContentSequences ==
  /\ StartOfFile \in Seq(Content) /\ <<>> \in Seq(Content)
  /\ \A n \in 0 .. MaxBlocks : Numbers(n) \in Seq(Content)
  /\ \A q \in Seq(1 .. MaxBlocks) : q \in Seq(Content)
<1>1. Header \in Content /\ 1 .. MaxBlocks \subseteq Content
  BY DEF Content
<1>2. <<Header>> \in Seq(Content) /\ <<>> \in Seq(Content)
  BY <1>1, EmptySeq
<1>3. StartOfFile \in Seq(Content)
  BY <1>2 DEF StartOfFile
<1>4. ASSUME NEW n \in 0 .. MaxBlocks PROVE Numbers(n) \in Seq(Content)
  <2>1. n \in Nat /\ \A i \in 1 .. n : i \in Content
    BY ValConstants, <1>1
  <2>2. Numbers(n) \in [1 .. n -> Content]
    BY <2>1 DEF Numbers
  <2>3. QED
    BY <2>1, <2>2, SeqDef
<1>5. ASSUME NEW q \in Seq(1 .. MaxBlocks) PROVE q \in Seq(Content)
  <2>1. /\ Len(q) \in Nat /\ DOMAIN q = 1 .. Len(q)
        /\ q = [i \in 1 .. Len(q) |-> q[i]] /\ \A i \in 1 .. Len(q) : q[i] \in 1 .. MaxBlocks
    BY ElementOfSeq, LenProperties
  <2>2. q \in [1 .. Len(q) -> Content]
    BY <1>1, <2>1
  <2>3. QED
    BY <2>1, <2>2, SeqDef
<1>6. QED
  BY <1>2, <1>3, <1>4, <1>5
------------------------------------------------------------------------------
(* main, the clock, the interrupt and the capture thread's tests touch      *)
(* neither the queue nor the files.                                        *)
LEMMA OtherStepsKeepStream ==
  ASSUME ValInv, Main \/ Expires \/ FrameArrives \/ CaptureReads \/ CaptureEnds
  PROVE  /\ UNCHANGED <<format, timed, queue, channel, block, files, pushed, failed>>
         /\ \/ main = "spawn" /\ recorder' = "open" /\ main' = "join"
            \/ /\ recorder' = recorder
               /\ main' \in {"init", "spawn"} => main \in {"init", "spawn"}
<1> USE DEF chosen, recording, capturing
<1>1. CASE GivesUp \/ Spawns \/ JoinsCapture \/ JoinsRecorder
  BY <1>1 DEF GivesUp, Spawns, JoinsCapture, JoinsRecorder
<1>2. CASE SpawnsRecorder
  BY <1>2 DEF SpawnsRecorder
<1>3. CASE Expires \/ FrameArrives
  BY <1>3 DEF Expires, FrameArrives
<1>4. CASE CaptureReads \/ CaptureEnds
  BY <1>4 DEF CaptureReads, CaptureEnds
<1>5. QED
  BY <1>1, <1>2, <1>3, <1>4 DEF Main

(* Before the recorder's thread exists it has opened and popped nothing.   *)
LEMMA NotYetSpawned ==
  ASSUME ValInv, main = "spawn"
  PROVE  recorder = "none" /\ channel = 1 /\ ~failed
BY DEF ValInv, OpenedSoFar

(* They keep the invariant.                                                *)
LEMMA OtherStepsValInv ==
  ASSUME ValInv, Main \/ Expires \/ FrameArrives \/ CaptureReads \/ CaptureEnds
  PROVE  ValInv'
<1>1. /\ UNCHANGED <<format, timed, queue, channel, block, files, pushed, failed>>
      /\ \/ main = "spawn" /\ recorder' = "open" /\ main' = "join"
         \/ recorder' = recorder /\ (main' \in {"init", "spawn"} => main \in {"init", "spawn"})
  BY OtherStepsKeepStream
<1>2. TypeOK'
  <2>1. running' \in BOOLEAN /\ expired' \in BOOLEAN
    BY DEF ValInv, TypeOK, Main, GivesUp, Spawns, SpawnsRecorder, JoinsCapture,
       JoinsRecorder, Expires, FrameArrives, CaptureReads, CaptureEnds, capturing
  <2>2. main' \in {"init", "spawn", "join", "stop", "returned"}
    BY DEF ValInv, TypeOK, Main, GivesUp, Spawns, SpawnsRecorder, JoinsCapture,
       JoinsRecorder, Expires, FrameArrives, CaptureReads, CaptureEnds
  <2>3. capture' \in {"none", "test", "read", "push", "ended"}
    BY DEF ValInv, TypeOK, Main, GivesUp, Spawns, SpawnsRecorder, JoinsCapture,
       JoinsRecorder, Expires, FrameArrives, CaptureReads, CaptureEnds, capturing
  <2>4. recorder' \in {"none", "open", "test", "pop", "write", "ended"}
    BY <1>1 DEF ValInv, TypeOK
  <2>5. QED
    BY <1>1, <2>1, <2>2, <2>3, <2>4 DEF ValInv, TypeOK
<1>3. InHand'
  <2>1. capture' \in {"read", "push"} => capture \in {"read", "push"} \/ pushed < MaxBlocks
    BY DEF Main, GivesUp, Spawns, SpawnsRecorder, JoinsCapture, JoinsRecorder,
       Expires, FrameArrives, CaptureReads, CaptureEnds, capturing
  <2>2. QED
    BY <1>1, <2>1, NotYetSpawned DEF ValInv, InHand
<1>4. OpenedSoFar'
  <2>1. CASE main = "spawn" /\ recorder' = "open" /\ main' = "join"
    <3>1. recorder = "none" /\ channel = 1 /\ ~failed
      BY <2>1, NotYetSpawned
    <3>2. \A c \in Channels : ~(c < channel)
      BY <3>1 DEF Channels
    <3>3. QED
      BY <1>1, <2>1, <3>1, <3>2 DEF ValInv, OpenedSoFar
  <2>2. CASE recorder' = recorder /\ (main' \in {"init", "spawn"} => main \in {"init", "spawn"})
    BY <1>1, <2>2 DEF ValInv, OpenedSoFar, StartOfFile
  <2>3. QED
    BY <1>1, <2>1, <2>2
<1>5. FilesThenQueue'
  BY <1>1 DEF ValInv, FilesThenQueue, Written, StartOfFile
<1>6. QED
  BY <1>2, <1>3, <1>4, <1>5 DEF ValInv

(* A pushed block comes behind the queue, and so behind the stream.        *)
LEMMA CapturePushesValInv ==
  ASSUME ValInv, CapturePushes
  PROVE  ValInv'
<1>1. /\ UNCHANGED <<format, timed, expired, running, main, recorder, channel, block,
                      files, failed>>
      /\ capture' = "test" /\ pushed' = pushed + 1 /\ queue' = Append(queue, pushed + 1)
  BY DEF CapturePushes, chosen, recording
<1>2. pushed \in Nat /\ pushed + 1 \in 1 .. MaxBlocks
  BY ValConstants DEF ValInv, TypeOK, InHand, CapturePushes
<1>3. queue \in Seq(1 .. MaxBlocks) /\ queue' \in Seq(1 .. MaxBlocks)
  BY <1>1, <1>2 DEF ValInv, TypeOK
<1>4. TypeOK' /\ InHand'
  BY <1>1, <1>2, <1>3 DEF ValInv, TypeOK, InHand
<1>5. Append(Numbers(pushed), pushed + 1) = Numbers(pushed')
  BY <1>1, <1>2, OneMoreNumber
<1>6. OpenedSoFar'
  BY <1>1, <1>5 DEF ValInv, OpenedSoFar, StartOfFile
<1>7. FilesThenQueue'
  <2> SUFFICES ASSUME recorder \in {"test", "pop", "write"} \/ (recorder = "ended" /\ ~failed),
                      NEW c \in Channels
               PROVE  Written(c) \o queue' = StartOfFile \o Numbers(pushed')
    BY <1>1 DEF FilesThenQueue, Written, StartOfFile, Numbers
  <2>1. Written(c) \o queue = StartOfFile \o Numbers(pushed)
    BY DEF ValInv, FilesThenQueue, Numbers
  <2>2. Written(c) \in Seq(Content)
    BY DEF ValInv, TypeOK, InHand, Written, Content
  <2>3. StartOfFile \in Seq(Content) /\ Numbers(pushed) \in Seq(Content)
    <3>1. pushed \in 0 .. MaxBlocks
      BY DEF ValInv, TypeOK
    <3>2. QED
      BY <3>1, ContentSequences
  <2>4. queue \in Seq(Content) /\ pushed + 1 \in Content
    <3>1. pushed + 1 \in Content
      BY <1>2 DEF Content
    <3>2. QED
      BY <1>3, <3>1, ContentSequences
  <2>5. Written(c) \o queue' = Append(Written(c) \o queue, pushed + 1)
    BY <1>1, <2>2, <2>4, AppendMoves
  <2>6. StartOfFile \o Append(Numbers(pushed), pushed + 1)
          = Append(StartOfFile \o Numbers(pushed), pushed + 1)
    BY <2>3, <2>4, AppendMoves
  <2>7. QED
    BY <1>5, <2>1, <2>5, <2>6
<1>8. QED
  BY <1>4, <1>6, <1>7 DEF ValInv

(* Opening truncates: each file then has what a recording starts with.     *)
LEMMA OpeningValInv ==
  ASSUME ValInv, Opening
  PROVE  ValInv'
<1>1. /\ UNCHANGED <<format, timed, expired, queue, main, capture, pushed, block>>
      /\ recorder = "open"
  BY DEF Opening, OpenNext, OpenFails, chosen, capturing
<1>2. CASE OpenFails
  <2>1. recorder' = "ended" /\ failed' = TRUE /\ running' = FALSE
        /\ UNCHANGED <<channel, files>>
    BY <1>2 DEF OpenFails
  <2>2. TypeOK' /\ InHand'
    BY <1>1, <2>1 DEF ValInv, TypeOK, InHand
  <2>3. OpenedSoFar' /\ FilesThenQueue'
    BY <1>1, <2>1 DEF ValInv, OpenedSoFar, FilesThenQueue
  <2>4. QED
    BY <2>2, <2>3 DEF ValInv
<1>3. CASE OpenNext
  <2>1. /\ files' = [files EXCEPT ![channel] = StartOfFile]
        /\ \/ channel < NumChannels /\ channel' = channel + 1 /\ recorder' = "open"
           \/ ~(channel < NumChannels) /\ channel' = 1 /\ recorder' = "test"
        /\ UNCHANGED <<running, failed>>
    BY <1>1, <1>3 DEF OpenNext
  <2>2. StartOfFile \in Seq(Content) /\ StartOfFile' = StartOfFile
    <3>1. StartOfFile' = StartOfFile
      BY <1>1 DEF StartOfFile
    <3>2. QED
      BY <3>1, ContentSequences
  <2>3. files' \in [Channels -> Seq(Content)] /\ channel' \in Channels /\ channel \in Channels
    <3>1. files \in [Channels -> Seq(Content)] /\ channel \in Channels
      BY DEF ValInv, TypeOK, Content
    <3>2. files' \in [Channels -> Seq(Content)]
      BY <2>1, <2>2, <3>1
    <3>3. QED
      BY <2>1, <3>1, <3>2, ValConstants DEF Channels
  <2>4. TypeOK' /\ InHand'
    BY <1>1, <2>1, <2>3 DEF ValInv, TypeOK, InHand, Content
  <2>5. \A c \in Channels : c < channel \/ c = channel => files'[c] = StartOfFile
    <3>1. files \in [Channels -> Seq(Content)]
      BY DEF ValInv, TypeOK, Content
    <3>2. \A c \in Channels : c < channel => files[c] = StartOfFile
      BY <1>1 DEF ValInv, OpenedSoFar
    <3>3. \A c \in Channels : c < channel => c # channel
      BY DEF Channels
    <3>4. QED
      BY <2>1, <3>1, <3>2, <3>3
  <2>6. queue = Numbers(pushed) /\ ~failed /\ main \notin {"init", "spawn"}
    BY <1>1 DEF ValInv, OpenedSoFar
  <2>7. CASE channel < NumChannels
    <3>1. \A c \in Channels : c < channel' => c < channel \/ c = channel
      BY <2>1, <2>3, <2>7, ValConstants DEF Channels
    <3>2. QED
      BY <1>1, <2>1, <2>2, <2>4, <2>5, <2>6, <2>7, <3>1
         DEF ValInv, OpenedSoFar, FilesThenQueue
  <2>8. CASE ~(channel < NumChannels)
    <3>1. \A c \in Channels : files'[c] = StartOfFile
      BY <2>3, <2>5, <2>8, ValConstants DEF Channels
    <3>2. recorder' = "test" /\ channel' = 1
      BY <2>1, <2>8
    <3>3. OpenedSoFar'
      BY <1>1, <2>1, <2>6, <3>2 DEF OpenedSoFar
    <3>4. FilesThenQueue'
      BY <1>1, <2>2, <2>6, <3>1, <3>2 DEF FilesThenQueue, Written, Numbers
    <3>5. QED
      BY <2>4, <3>3, <3>4 DEF ValInv
  <2>9. QED
    BY <2>7, <2>8
<1>4. QED
  BY <1>2, <1>3 DEF Opening

(* The block that is popped is written to every file before the next.      *)
LEMMA LoopValInv ==
  ASSUME ValInv, Loop
  PROVE  ValInv'
<1>1. UNCHANGED <<format, timed, expired, running, main, capture, pushed, failed>>
  BY DEF Loop, RecorderTests, Pops, PopsNothing, WriteChannel, chosen, capturing
<1>2. StartOfFile' = StartOfFile
  BY <1>1 DEF StartOfFile
<1>3. CASE RecorderTests \/ PopsNothing
  <2>1. /\ UNCHANGED <<queue, channel, block, files>>
        /\ recorder \in {"test", "pop"} /\ recorder' \in {"test", "pop", "ended"}
    BY <1>3 DEF RecorderTests, PopsNothing
  <2>2. TypeOK' /\ InHand'
    BY <1>1, <2>1 DEF ValInv, TypeOK, InHand
  <2>3. OpenedSoFar' /\ FilesThenQueue'
    BY <1>1, <1>2, <2>1 DEF ValInv, OpenedSoFar, FilesThenQueue, Written
  <2>4. QED
    BY <2>2, <2>3 DEF ValInv
<1>4. CASE Pops
  <2>1. /\ recorder = "pop" /\ recorder' = "write" /\ queue # <<>> /\ channel = 1
        /\ block' = Head(queue) /\ queue' = Tail(queue)
        /\ UNCHANGED <<channel, files>>
    BY <1>4 DEF Pops, ValInv, OpenedSoFar
  <2>2. queue \in Seq(1 .. MaxBlocks) /\ files \in [Channels -> Seq(Content)]
    BY DEF ValInv, TypeOK, Content
  <2>3. block' \in 1 .. MaxBlocks /\ queue' \in Seq(1 .. MaxBlocks)
    BY <2>1, <2>2, HeadTailProperties
  <2>4. TypeOK' /\ InHand'
    BY <1>1, <2>1, <2>3 DEF ValInv, TypeOK, InHand
  <2>5. OpenedSoFar'
    BY <1>1, <2>1 DEF ValInv, OpenedSoFar
  <2>6. FilesThenQueue'
    <3>1. ASSUME NEW c \in Channels
          PROVE  Written(c)' \o queue' = StartOfFile' \o [i \in 1 .. pushed' |-> i]
      <4>1. files[c] \o queue = StartOfFile \o [i \in 1 .. pushed |-> i]
        BY <2>1 DEF ValInv, FilesThenQueue, Written
      <4>2. files[c] \in Seq(Content) /\ queue \in Seq(Content)
        BY <2>2, ContentSequences
      <4>3. Append(files[c], Head(queue)) \o Tail(queue) = files[c] \o queue
        BY <2>1, <4>2, HeadMoves
      <4>4. c >= channel'
        BY <2>1 DEF Channels
      <4>5. Written(c)' = Append(files[c], Head(queue))
        BY <2>1, <4>4 DEF Written
      <4>6. QED
        BY <1>1, <1>2, <2>1, <4>1, <4>3, <4>5
    <3>2. QED
      BY <3>1 DEF FilesThenQueue
  <2>7. QED
    BY <2>4, <2>5, <2>6 DEF ValInv
<1>5. CASE WriteChannel
  <2>1. /\ recorder = "write" /\ UNCHANGED <<queue, block>>
        /\ files' = [files EXCEPT ![channel] = Append(@, block)]
        /\ \/ channel < NumChannels /\ channel' = channel + 1 /\ recorder' = "write"
           \/ ~(channel < NumChannels) /\ channel' = 1 /\ recorder' = "test"
    BY <1>5 DEF WriteChannel
  <2>2. /\ files \in [Channels -> Seq(Content)] /\ channel \in Channels
        /\ block \in 1 .. MaxBlocks /\ block \in Content
    BY <2>1 DEF ValInv, TypeOK, InHand, Content
  <2>3. files' \in [Channels -> Seq(Content)] /\ channel' \in Channels
    <3>1. Append(files[channel], block) \in Seq(Content)
      BY <2>2
    <3>2. QED
      BY <2>1, <2>2, <3>1, ValConstants DEF Channels
  <2>4. TypeOK' /\ InHand'
    BY <1>1, <2>1, <2>2, <2>3 DEF ValInv, TypeOK, InHand, Content
  <2>5. OpenedSoFar'
    BY <1>1, <2>1 DEF ValInv, OpenedSoFar
  <2>6. \A c \in Channels : Written(c)' = Written(c)
    BY <2>1, <2>2, ValConstants DEF Written, Channels
  <2>7. FilesThenQueue'
    BY <1>1, <1>2, <2>1, <2>6 DEF ValInv, FilesThenQueue
  <2>8. QED
    BY <2>4, <2>5, <2>7 DEF ValInv
<1>6. QED
  BY <1>3, <1>4, <1>5 DEF Loop

(* The validation recorder begins with no file and an empty queue.         *)
LEMMA InitValInv == Init => ValInv
<1> SUFFICES ASSUME Init PROVE ValInv
  OBVIOUS
<1>1. queue = <<>> /\ <<>> \in Seq(1 .. MaxBlocks)
  BY EmptySeq DEF Init
<1>2. channel \in Channels
  BY ValConstants DEF Init, Channels
<1>3. files \in [Channels -> Seq(1 .. MaxBlocks \cup {Header})]
  BY EmptySeq DEF Init
<1>4. pushed \in 0 .. MaxBlocks /\ block \in 0 .. MaxBlocks
  BY ValConstants DEF Init
<1>5. TypeOK
  BY <1>1, <1>2, <1>3, <1>4 DEF Init, TypeOK
<1>6. queue = Numbers(pushed)
  BY DEF Init, Numbers
<1>7. QED
  BY <1>5, <1>6 DEF Init, ValInv, InHand, OpenedSoFar, FilesThenQueue

(* The invariant of the validation recorder is inductive.                  *)
LEMMA NextValInv == ValInv /\ [Next]_vars => ValInv'
<1>1. ASSUME ValInv, Next PROVE ValInv'
  <2>1. \/ Main \/ Expires \/ FrameArrives \/ CaptureReads \/ CaptureEnds
        \/ CapturePushes \/ Opening \/ Loop
    BY <1>1 DEF Next, Old, Capture, Recorder
  <2>2. CASE Main \/ Expires \/ FrameArrives \/ CaptureReads \/ CaptureEnds
    BY <1>1, <2>2, OtherStepsValInv
  <2>3. QED
    BY <1>1, <2>1, <2>2, CapturePushesValInv, OpeningValInv, LoopValInv
<1>2. ASSUME ValInv, UNCHANGED vars PROVE ValInv'
  <2>1. TypeOK' /\ InHand'
    BY <1>2 DEF vars, ValInv, TypeOK, InHand
  <2>2. OpenedSoFar'
    BY <1>2 DEF vars, ValInv, OpenedSoFar, StartOfFile
  <2>3. FilesThenQueue'
    BY <1>2 DEF vars, ValInv, FilesThenQueue, Written, StartOfFile
  <2>4. QED
    BY <2>1, <2>2, <2>3 DEF ValInv
<1>3. QED
  BY <1>1, <1>2

(* The invariant of the validation recorder, in whichever recorder runs.   *)
THEOREM ValInvariant == MCSpec => []ValInv
<1>1. MCInit => ValInv
  BY InitValInv DEF MCInit
<1>2. ValInv /\ [MCNext]_<<vars, demoVars, program>> => ValInv'
  BY NextValInv DEF MCNext
<1>3. QED
  BY <1>1, <1>2, PTL DEF MCSpec

(* The validation recorder is type correct.                                *)
THEOREM ValTypeCorrect == MCSpec => []TypeOK
<1>1. ValInv => TypeOK
  BY DEF ValInv
<1>2. QED
  BY <1>1, ValInvariant, PTL

(* From the moment the files are open, every file and the queue together   *)
(* are what was captured, even in the middle of writing a block.           *)
THEOREM FilesKeepStream == MCSpec => []FilesThenQueue
<1>1. ValInv => FilesThenQueue
  BY DEF ValInv
<1>2. QED
  BY <1>1, ValInvariant, PTL
------------------------------------------------------------------------------
(* What is not opened yet has nothing in it.                               *)
NotOpened == recorder \in {"none", "open"} =>
               \A c \in Channels : c >= channel => files[c] = <<>>

(* It stays so until OpenNext comes to it.                                 *)
LEMMA NotOpenedInv == NotOpened /\ ValInv /\ [Next]_vars => NotOpened'
<1> SUFFICES ASSUME NotOpened, ValInv, [Next]_vars PROVE NotOpened'
  OBVIOUS
<1>1. CASE Main \/ Expires \/ FrameArrives \/ CaptureReads \/ CaptureEnds
  <2>1. /\ UNCHANGED <<channel, files>>
        /\ recorder' = recorder \/ recorder = "none"
    BY <1>1, OtherStepsKeepStream, NotYetSpawned
  <2>2. QED
    BY <2>1 DEF NotOpened
<1>2. CASE CapturePushes
  BY <1>2 DEF CapturePushes, NotOpened, recording
<1>3. CASE OpenNext
  <2>1. CASE channel < NumChannels
    <3>1. /\ recorder = "open" /\ channel' = channel + 1
          /\ files' = [files EXCEPT ![channel] = StartOfFile]
      BY <1>3, <2>1 DEF OpenNext
    <3>2. ASSUME NEW c \in Channels, c >= channel' PROVE files'[c] = <<>>
      <4>1. c # channel /\ c >= channel
        BY <3>1, <3>2 DEF ValInv, TypeOK, Channels
      <4>2. files[c] = <<>>
        BY <3>1, <4>1 DEF NotOpened
      <4>3. QED
        BY <3>1, <4>1, <4>2 DEF ValInv, TypeOK
    <3>3. QED
      BY <3>2 DEF NotOpened
  <2>2. CASE ~(channel < NumChannels)
    BY <1>3, <2>2 DEF OpenNext, NotOpened
  <2>3. QED
    BY <2>1, <2>2
<1>4. CASE OpenFails
  BY <1>4 DEF OpenFails, NotOpened
<1>5. CASE Loop
  BY <1>5 DEF Loop, RecorderTests, Pops, PopsNothing, WriteChannel, NotOpened
<1>6. CASE UNCHANGED vars
  BY <1>6 DEF vars, NotOpened
<1>7. QED
  BY <1>1, <1>2, <1>3, <1>4, <1>5, <1>6 DEF Next, Old, Capture, Recorder, Opening

(* What lies behind the first s elements, and one more.                    *)
LEMMA BehindGrows ==
  ASSUME NEW V, NEW f \in Seq(V), NEW x \in V, NEW s \in Nat, s <= Len(f)
  PROVE  SubSeq(Append(f, x), s + 1, Len(Append(f, x)))
           = Append(SubSeq(f, s + 1, Len(f)), x)
<1> DEFINE A == Append(f, x)
           L == SubSeq(A, s + 1, Len(A))
           B == SubSeq(f, s + 1, Len(f))
<1>1. /\ Len(f) \in Nat /\ A \in Seq(V) /\ Len(A) = Len(f) + 1
      /\ \A i \in 1 .. Len(f) : A[i] = f[i]
      /\ A[Len(f) + 1] = x
  BY AppendProperties, LenProperties
<1>2. /\ L \in Seq(V) /\ Len(L) = Len(f) + 1 - s
      /\ \A i \in 1 .. Len(f) + 1 - s : L[i] = A[s + i]
  BY <1>1
<1>3. /\ B \in Seq(V) /\ Len(B) = Len(f) - s
      /\ \A i \in 1 .. Len(f) - s : B[i] = f[s + i]
  BY <1>1
<1>4. /\ Append(B, x) \in Seq(V) /\ Len(Append(B, x)) = Len(f) - s + 1
      /\ \A i \in 1 .. Len(f) - s : Append(B, x)[i] = f[s + i]
      /\ Append(B, x)[Len(f) - s + 1] = x
  <2> HIDE DEF B
  <2>1. QED
    BY <1>3, AppendProperties
<1>5. Len(L) = Len(Append(B, x))
  BY <1>1, <1>2, <1>4
<1>6. ASSUME NEW i \in 1 .. Len(L) PROVE L[i] = Append(B, x)[i]
  <2> HIDE DEF A, B, L
  <2>1. CASE i \in 1 .. Len(f) - s
    <3>1. s + i \in 1 .. Len(f) /\ i \in 1 .. Len(f) + 1 - s
      BY <1>1, <2>1
    <3>2. L[i] = f[s + i]
      BY <1>1, <1>2, <3>1
    <3>3. QED
      BY <1>4, <2>1, <3>2
  <2>2. CASE i = Len(f) - s + 1
    <3>1. s + i = Len(f) + 1 /\ i \in 1 .. Len(f) + 1 - s
      BY <1>1, <2>2
    <3>2. L[i] = x
      BY <1>1, <1>2, <3>1
    <3>3. QED
      BY <1>4, <2>2, <3>2
  <2>3. i \in 1 .. Len(f) - s \/ i = Len(f) - s + 1
    <3>1. Len(f) \in Nat /\ Len(L) = Len(f) + 1 - s
      BY <1>1, <1>2
    <3>2. QED
      BY <3>1
  <2>4. QED
    BY <2>1, <2>2, <2>3
<1>7. QED
  <2> HIDE DEF A, B, L
  <2>1. L = Append(B, x)
    BY <1>2, <1>4, <1>5, <1>6, SeqEqual
  <2>2. QED
    BY <2>1 DEF A, B, L

(* File and queue together being the header and the numbers up to n, the   *)
(* file has its header, and the number of the queue's first block is the   *)
(* one behind those of the blocks that have left it.                       *)
LEMMA HeadIsNext ==
  ASSUME NEW f \in Seq(Content), NEW q \in Seq(1 .. MaxBlocks), q # <<>>,
         NEW n \in 0 .. MaxBlocks, f \o q = StartOfFile \o Numbers(n)
  PROVE  /\ Len(StartOfFile) <= Len(f) /\ Len(q) <= n
         /\ Head(q) = n - Len(q) + 1
<1> DEFINE S == StartOfFile
           s == Len(S)
<1>1. /\ q \in Seq(Content) /\ S \in Seq(Content) /\ Numbers(n) \in Seq(Content)
  BY ContentSequences
<1>2. /\ n \in Nat /\ Numbers(n) \in Seq(1 .. n) /\ Len(Numbers(n)) = n
      /\ \A i \in 1 .. n : Numbers(n)[i] = i
  BY ValConstants, OneMoreNumber DEF Numbers
<1>3. /\ s \in {0, 1} /\ (s = 1 => S[1] = Header)
  BY DEF StartOfFile
<1>4. /\ Len(f) \in Nat /\ Len(q) \in Nat \ {0} /\ q[1] \in 1 .. MaxBlocks /\ Head(q) = q[1]
  <2> DEFINE V == 1 .. MaxBlocks
  <2>1. q \in Seq(V)
    OBVIOUS
  <2> HIDE DEF V
  <2>2. Len(f) \in Nat
    BY LenProperties
  <2>3. Len(q) \in Nat \ {0}
    BY <2>1, EmptySeq
  <2>4. Head(q) = q[1] /\ q[1] \in V
    BY <2>1, <2>3, ElementOfSeq
  <2>5. QED
    BY <2>2, <2>3, <2>4 DEF V
<1> HIDE DEF S, s
<1>5. /\ Len(f \o q) = Len(f) + Len(q)
      /\ \A i \in 1 .. Len(f) + Len(q) :
           (f \o q)[i] = IF i <= Len(f) THEN f[i] ELSE q[i - Len(f)]
  BY <1>1, ConcatProperties
<1>6. /\ Len(S \o Numbers(n)) = s + n
      /\ \A i \in 1 .. s + n :
           (S \o Numbers(n))[i] = IF i <= s THEN S[i] ELSE Numbers(n)[i - s]
  BY <1>1, <1>2, ConcatProperties DEF s
<1>7. f \o q = S \o Numbers(n)
  BY DEF S
<1>8. Len(f) + Len(q) = s + n
  BY <1>5, <1>6, <1>7
<1>9. (f \o q)[Len(f) + 1] = Head(q) /\ Len(f) + 1 \in 1 .. s + n
  BY <1>4, <1>5, <1>8
<1>10. s <= Len(f)
  <2> SUFFICES ASSUME ~(s <= Len(f)) PROVE FALSE
    OBVIOUS
  <2>1. s = 1 /\ Len(f) = 0
    BY <1>3, <1>4
  <2>2. Head(q) = Header
    BY <1>3, <1>6, <1>7, <1>9, <2>1
  <2>3. QED
    BY <1>4, <2>2, ValConstants
<1>11. Head(q) = Len(f) + 1 - s
  <2>1. ~(Len(f) + 1 <= s) /\ Len(f) + 1 - s \in 1 .. n
    BY <1>3, <1>4, <1>9, <1>10
  <2>2. Head(q) = Numbers(n)[Len(f) + 1 - s]
    <3>1. PICK m \in 1 .. s + n : m = Len(f) + 1
      BY <1>9
    <3>2. Head(q) = (S \o Numbers(n))[m] /\ ~(m <= s)
      BY <1>7, <1>9, <2>1, <3>1
    <3>3. Head(q) = Numbers(n)[m - s]
      BY <1>6, <3>2
    <3>4. QED
      BY <1>3, <1>4, <3>1, <3>3
  <2>3. QED
    BY <1>2, <2>1, <2>2
<1>12. QED
  BY <1>2, <1>3, <1>4, <1>8, <1>10, <1>11 DEF S, s

(* The recording is over when the recorder has ended, its files open.      *)
Over == recorder = "ended" /\ ~failed

(* A step that leaves the queue, and what the files are to hold, as they   *)
(* are is no step of the recording.                                        *)
LEMMA RecordingStays ==
  ASSUME UNCHANGED <<pushed, queue>>, Over' = Over,
         \A c \in Channels : InFile(c)' = InFile(c)
  PROVE  UNCHANGED R!recordingVars
BY DEF R!recordingVars, Over

(* main, the clock, the interrupt and the tests of the capture thread.     *)
LEMMA OtherStepsRecordNothing ==
  ASSUME ValInv, Main \/ Expires \/ FrameArrives \/ CaptureReads \/ CaptureEnds
  PROVE  UNCHANGED R!recordingVars
<1>1. /\ UNCHANGED <<format, queue, channel, block, files, pushed, failed>>
      /\ recorder' = recorder \/ (recorder = "none" /\ recorder' = "open")
  BY OtherStepsKeepStream, NotYetSpawned
<1>2. Over' = Over
  BY <1>1 DEF Over
<1>3. ASSUME NEW c \in Channels PROVE InFile(c)' = InFile(c)
  BY <1>1 DEF InFile, Written, StartOfFile
<1>4. QED
  BY <1>1, <1>2, <1>3, RecordingStays

(* A block that is pushed is captured.                                     *)
LEMMA CapturePushesCaptures ==
  ASSUME ValInv, CapturePushes
  PROVE  \E b \in 1 .. MaxBlocks : R!CaptureBlock(b)
<1>1. /\ UNCHANGED <<format, recorder, channel, block, files, failed>>
      /\ pushed' = pushed + 1 /\ queue' = Append(queue, pushed + 1)
  BY DEF CapturePushes, chosen, recording
<1>2. pushed \in Nat /\ pushed + 1 \in 1 .. MaxBlocks /\ queue \in Seq(1 .. MaxBlocks)
  BY ValConstants DEF ValInv, TypeOK, InHand, CapturePushes
<1>3. [i \in 1 .. pushed' |-> i] = Append([i \in 1 .. pushed |-> i], pushed + 1)
  BY <1>1, <1>2, OneMoreNumber DEF Numbers
<1>4. pushed' - Len(queue') = pushed - Len(queue)
  BY <1>1, <1>2
<1>5. Over' = Over
  BY <1>1 DEF Over
<1>6. ASSUME NEW c \in Channels PROVE InFile(c)' = InFile(c)
  BY <1>1 DEF InFile, Written, StartOfFile
<1>7. PICK b \in 1 .. MaxBlocks : b = pushed + 1
  BY <1>2
<1>8. R!CaptureBlock(b)
  BY <1>3, <1>4, <1>5, <1>6, <1>7 DEF R!CaptureBlock, Over
<1>9. QED
  BY <1>8

(* Opening puts nothing behind a header.                                   *)
LEMMA OpeningRecordsNothing ==
  ASSUME ValInv, NotOpened, Opening
  PROVE  UNCHANGED R!recordingVars
<1>1. UNCHANGED <<format, queue, pushed, block>> /\ recorder = "open" /\ ~failed
  BY DEF Opening, OpenNext, OpenFails, chosen, capturing, ValInv, OpenedSoFar
<1>2. Over' = Over
  BY <1>1 DEF Opening, OpenNext, OpenFails, Over
<1>3. ASSUME NEW c \in Channels PROVE InFile(c)' = InFile(c)
  <2>1. StartOfFile' = StartOfFile /\ StartOfFile \in {<<>>, <<Header>>}
    BY <1>1 DEF StartOfFile
  <2>2. Written(c) = files[c] /\ Written(c)' = files'[c]
    BY <1>1 DEF Opening, OpenNext, OpenFails, Written
  <2>3. CASE files'[c] = files[c]
    BY <2>1, <2>2, <2>3 DEF InFile
  <2>4. CASE files'[c] # files[c]
    <3>1. /\ channel \in Channels /\ files \in [Channels -> Seq(Content)]
          /\ files' = [files EXCEPT ![channel] = StartOfFile]
      BY <2>4 DEF Opening, OpenNext, OpenFails, ValInv, TypeOK, Content
    <3>2. c = channel /\ files'[c] = StartOfFile
      BY <2>4, <3>1
    <3>3. files[c] = <<>>
      BY <1>1, <3>1, <3>2 DEF NotOpened, Channels
    <3>4. InFile(c) = <<>>
      <4>1. SubSeq(<<>>, Len(StartOfFile) + 1, 0) = <<>>
        BY <2>1
      <4>2. QED
        BY <2>2, <3>3, <4>1 DEF InFile
    <3>5. InFile(c)' = <<>>
      <4>1. SubSeq(StartOfFile, Len(StartOfFile) + 1, Len(StartOfFile)) = <<>>
        BY <2>1
      <4>2. QED
        BY <2>1, <2>2, <3>2, <4>1 DEF InFile
    <3>6. QED
      BY <3>4, <3>5
  <2>5. QED
    BY <2>3, <2>4
<1>4. QED
  BY <1>1, <1>2, <1>3, RecordingStays

(* A block that is popped goes to every file, the files being written one  *)
(* after the other.                                                        *)
LEMMA PopsHandles ==
  ASSUME ValInv, Pops
  PROVE  R!HandleBlock({})
<1>1. /\ recorder = "pop" /\ recorder' = "write" /\ queue # <<>> /\ channel = 1
      /\ block' = Head(queue) /\ queue' = Tail(queue) /\ ~failed
      /\ UNCHANGED <<channel, files, pushed, failed, format>>
  BY DEF Pops, ValInv, OpenedSoFar, chosen, capturing
<1>2. /\ queue \in Seq(1 .. MaxBlocks) /\ files \in [Channels -> Seq(Content)]
      /\ pushed \in 0 .. MaxBlocks /\ pushed \in Nat
  BY ValConstants DEF ValInv, TypeOK, Content
<1>3. /\ Len(queue) \in Nat \ {0} /\ Len(queue') = Len(queue) - 1
      /\ Head(queue) \in 1 .. MaxBlocks
  BY <1>1, <1>2, HeadTailProperties, EmptySeq, LenProperties
<1>4. ASSUME NEW c \in Channels
      PROVE  /\ Len(StartOfFile) <= Len(files[c]) /\ Len(queue) <= pushed
             /\ Head(queue) = pushed - Len(queue) + 1
  <2>1. files[c] \o queue = StartOfFile \o Numbers(pushed)
    BY <1>1 DEF ValInv, FilesThenQueue, Written, Numbers
  <2>2. QED
    BY <1>1, <1>2, <2>1, HeadIsNext
<1>5. ASSUME NEW c \in Channels PROVE InFile(c)' = Append(InFile(c), Head(queue))
  <2>1. files[c] \in Seq(Content) /\ Head(queue) \in Content
    BY <1>2, <1>3 DEF Content
  <2>2. StartOfFile' = StartOfFile /\ Len(StartOfFile) \in Nat
    BY <1>1 DEF StartOfFile
  <2>3. Written(c) = files[c] /\ Written(c)' = Append(files[c], Head(queue))
    <3>1. c >= channel'
      BY <1>1 DEF Channels
    <3>2. QED
      BY <1>1, <3>1 DEF Written
  <2>4. QED
    BY <1>4, <2>1, <2>2, <2>3, BehindGrows DEF InFile
<1>6. 1 \in Channels
  BY ValConstants DEF Channels
<1>7. /\ pushed' - Len(queue') = pushed - Len(queue) + 1
      /\ pushed - Len(queue) < pushed /\ pushed - Len(queue) + 1 \in 1 .. pushed
  BY <1>1, <1>2, <1>3, <1>4, <1>6
<1>8. [i \in 1 .. pushed |-> i][pushed - Len(queue) + 1] = Head(queue)
  BY <1>4, <1>6, <1>7
<1>9. Len([i \in 1 .. pushed |-> i]) = pushed
  BY <1>2
<1>10. ~Over /\ ~Over'
  BY <1>1 DEF Over
<1>11. [c \in Channels |-> InFile(c)]'
         = [c \in Channels |->
              IF c \in {} THEN [d \in Channels |-> InFile(d)][c]
              ELSE Append([d \in Channels |-> InFile(d)][c], Head(queue))]
  BY <1>5
<1>12. QED
  BY <1>1, <1>7, <1>8, <1>9, <1>10, <1>11 DEF R!HandleBlock, Over

(* The other steps of the loop: one may end the recording, and writing     *)
(* the file of a channel only does what was begun.                         *)
LEMMA LoopClosesOrStays ==
  ASSUME ValInv, RecorderTests \/ PopsNothing \/ WriteChannel
  PROVE  R!CloseRecording \/ UNCHANGED R!recordingVars
<1>1. UNCHANGED <<format, queue, pushed, block, failed>> /\ ~failed /\ ~Over
  BY DEF RecorderTests, PopsNothing, WriteChannel, chosen, capturing, ValInv,
     OpenedSoFar, Over
<1>2. ASSUME NEW c \in Channels PROVE InFile(c)' = InFile(c)
  <2>1. CASE RecorderTests \/ PopsNothing
    BY <1>1, <2>1 DEF RecorderTests, PopsNothing, InFile, Written, StartOfFile
  <2>2. CASE WriteChannel
    <3>1. /\ recorder = "write"
          /\ files' = [files EXCEPT ![channel] = Append(@, block)]
          /\ \/ channel < NumChannels /\ channel' = channel + 1 /\ recorder' = "write"
             \/ ~(channel < NumChannels) /\ channel' = 1 /\ recorder' = "test"
      BY <2>2 DEF WriteChannel
    <3>2. files \in [Channels -> Seq(Content)] /\ channel \in Channels
      BY DEF ValInv, TypeOK, Content
    <3>3. Written(c)' = Written(c)
      BY <1>1, <3>1, <3>2, ValConstants DEF Written, Channels
    <3>4. QED
      BY <1>1, <3>3 DEF InFile, StartOfFile
  <2>3. QED
    BY <2>1, <2>2
<1>3. CASE Over'
  BY <1>1, <1>2, <1>3 DEF R!CloseRecording, Over
<1>4. CASE ~Over'
  <2>1. Over' = Over
    BY <1>1, <1>4 DEF Over
  <2>2. QED
    BY <1>1, <1>2, <2>1, RecordingStays
<1>5. QED
  BY <1>3, <1>4

(* Every step is one of the recording, or none.                            *)
LEMMA ValStepRecords ==
  ASSUME ValInv, NotOpened, [Next]_vars
  PROVE  [R!RecordingNext]_(R!recordingVars)
<1>1. R!LosesOne'
  BY DEF R!LosesOne
<1>2. CASE Main \/ Expires \/ FrameArrives \/ CaptureReads \/ CaptureEnds
  BY <1>2, OtherStepsRecordNothing
<1>3. CASE CapturePushes
  BY <1>1, <1>3, CapturePushesCaptures DEF R!RecordingNext
<1>4. CASE Opening
  BY <1>4, OpeningRecordsNothing
<1>5. CASE Pops
  <2>1. {} \in SUBSET {}
    OBVIOUS
  <2>2. QED
    BY <1>1, <1>5, <2>1, PopsHandles DEF R!RecordingNext
<1>6. CASE RecorderTests \/ PopsNothing \/ WriteChannel
  BY <1>1, <1>6, LoopClosesOrStays DEF R!RecordingNext
<1>7. CASE UNCHANGED vars
  BY <1>7 DEF vars, R!recordingVars, InFile, Written, StartOfFile
<1>8. QED
  BY <1>2, <1>3, <1>4, <1>5, <1>6, <1>7 DEF Next, Old, Capture, Recorder, Loop

(* The validation recorder is a recording: its files, written one after    *)
(* the other while blocks are pushed, only grow, each by the block that is *)
(* next; nothing is skipped or handled twice before it is over, whatever   *)
(* the format and wherever running falls.                                  *)
THEOREM ValImplementsRecording == MCSpec => ImplementsRecording
<1>1. MCInit => R!RecordingInit /\ NotOpened
  <2> SUFFICES ASSUME Init PROVE R!RecordingInit /\ NotOpened
    BY DEF MCInit
  <2>1. \A c \in Channels : files[c] = <<>>
    BY DEF Init
  <2>2. Len(StartOfFile) \in {0, 1}
    BY DEF StartOfFile
  <2>3. ASSUME NEW c \in Channels PROVE InFile(c) = <<>>
    <3>1. Written(c) = <<>>
      BY <2>1 DEF Init, Written
    <3>2. SubSeq(<<>>, Len(StartOfFile) + 1, 0) = <<>>
      BY <2>2
    <3>3. QED
      BY <3>1, <3>2 DEF InFile
  <2>4. pushed = 0 /\ Len(queue) = 0
    BY EmptySeq DEF Init
  <2>5. pushed - Len(queue) = 0
    BY <2>4
  <2>6. [i \in 1 .. pushed |-> i] = <<>>
    BY <2>4
  <2>7. QED
    BY <2>1, <2>3, <2>5, <2>6 DEF Init, R!RecordingInit, NotOpened
<1>2. NotOpened /\ ValInv /\ [MCNext]_<<vars, demoVars, program>> => NotOpened'
  BY NotOpenedInv DEF MCNext
<1>3. NotOpened /\ ValInv /\ [MCNext]_<<vars, demoVars, program>>
        => [R!RecordingNext]_(R!recordingVars)
  BY ValStepRecords DEF MCNext
<1>4. QED
  BY <1>1, <1>2, <1>3, ValInvariant, PTL DEF MCSpec, ImplementsRecording, R!RecordingSpec
------------------------------------------------------------------------------
(* The demos.  The samples that one second takes from the microphones.     *)
Whole == Demo!Blocks * NumberOfSamples

(* The samples kept of the first k blocks of a second.                     *)
Held(k) == IF k = Demo!Blocks THEN Demo!Kept ELSE k * NumberOfSamples

(* k blocks of this second have been read, and the array holds what is     *)
(* kept of them, from the first sample of the second on.                   *)
Gathered(k) ==
  /\ stream = second * Whole + k * NumberOfSamples
  /\ buffer = [i \in 1 .. Held(k) |-> second * Whole + i]
  /\ demoMain \in {"start", "second", "join", "returned"} => k = 0
  /\ demoMain = "read" => k # Demo!Blocks

(* The demo with the pipes gathers nothing.                                *)
OnlyPipes == /\ second = 0 /\ buffer = <<>>
             /\ demoMain \in {"start", "second", "returned"}

Gathering == IF demo = "pipes" THEN OnlyPipes
             ELSE \E k \in 0 .. Demo!Blocks : Gathered(k)

(* Opened files hold the complete seconds, others nothing.                 *)
Recorded ==
  /\ opened =>
       demoFiles = [i \in 1 .. second * Demo!Kept |->
                      ((i - 1) \div Demo!Kept) * Demo!Blocks * NumberOfSamples
                        + ((i - 1) % Demo!Kept) + 1]
  /\ ~opened => demoFiles = <<>>
  /\ demoMain = "start" => second = 0 /\ ~opened

Ascending(s) == \A i, j \in 1 .. Len(s) : i < j => s[i] < s[j]

(* What was heard is in order and was read.                                *)
Heard == /\ heard \in Seq(Nat) /\ Ascending(heard)
         /\ \A i \in 1 .. Len(heard) : heard[i] <= stream

DemoTypeOK ==
  /\ demo \in {"simple", "filter", "pipes", "recorder", "raw", "fir"}
  /\ demoMain \in {"start", "second", "read", "publish", "test", "join", "returned"}
  /\ led \in Nat /\ second \in Nat /\ stream \in Nat
  /\ opened \in BOOLEAN

DemoInv == DemoTypeOK /\ Gathering /\ Recorded /\ Heard
------------------------------------------------------------------------------
(* The blocks of a second are the fewest that fill it.                     *)
LEMMA BlocksFill ==
  /\ Demo!Blocks \in Nat \ {0}
  /\ (Demo!Blocks - 1) * NumberOfSamples < SamplingRate
  /\ SamplingRate <= Demo!Blocks * NumberOfSamples
BY DemoConstants DEF Demo!Blocks

(* What is kept of them is at least a second, and no more than was read.   *)
LEMMA KeptFill ==
  /\ Whole \in Nat /\ Demo!Kept \in Nat \ {0}
  /\ SamplingRate <= Demo!Kept /\ Demo!Kept <= Whole
  /\ Demo!Kept = IF demo = "filter" THEN SamplingRate ELSE Whole
BY BlocksFill, DemoConstants DEF Whole, Demo!Kept

(* Before the last block of a second the array lacks samples, and with it  *)
(* it has them all.                                                        *)
LEMMA HeldFill ==
  ASSUME NEW k \in 0 .. Demo!Blocks
  PROVE  /\ Held(k) \in Nat /\ Held(k) <= k * NumberOfSamples
         /\ k = 0 => Held(k) = 0
         /\ Held(k) < SamplingRate <=> k # Demo!Blocks
         /\ Held(k) <= Demo!BufferLength
<1>1. CASE k = Demo!Blocks
  <2>1. Held(k) = Demo!Kept /\ k * NumberOfSamples = Whole /\ k # 0
    BY <1>1, BlocksFill DEF Held, Whole
  <2>2. Whole <= SamplingRate + NumberOfSamples
    BY BlocksFill, DemoConstants DEF Whole
  <2>3. QED
    BY <1>1, <2>1, <2>2, KeptFill, DemoConstants DEF Demo!BufferLength
<1>2. CASE k # Demo!Blocks
  <2>1. k \in Nat /\ k <= Demo!Blocks - 1 /\ Demo!Blocks \in Nat
    BY <1>2, BlocksFill
  <2>2. k * NumberOfSamples <= (Demo!Blocks - 1) * NumberOfSamples
    BY <2>1, DemoConstants
  <2>3. Held(k) = k * NumberOfSamples /\ Held(k) \in Nat /\ (k = 0 => Held(k) = 0)
    BY <1>2, <2>1, DemoConstants DEF Held
  <2>4. Held(k) < SamplingRate
    BY <2>1, <2>2, <2>3, BlocksFill, DemoConstants
  <2>5. QED
    BY <1>2, <2>3, <2>4, DemoConstants DEF Demo!BufferLength
<1>3. QED
  BY <1>1, <1>2

(* The array is a sequence of as many samples.                             *)
LEMMA BufferIsSequence ==
  ASSUME NEW n \in Nat, NEW b \in Nat, buffer = [i \in 1 .. n |-> b + i]
  PROVE  /\ buffer \in Seq(Nat) /\ Len(buffer) = n /\ Ascending(buffer)
         /\ \A i \in 1 .. n : buffer[i] = b + i
<1>1. buffer \in [1 .. n -> Nat]
  OBVIOUS
<1>2. buffer \in Seq(Nat)
  BY <1>1, SeqDef
<1>3. DOMAIN buffer = 1 .. n
  OBVIOUS
<1>4. Len(buffer) = n
  BY <1>2, <1>3, LenProperties
<1>5. QED
  BY <1>2, <1>4 DEF Ascending

(* A block is a sequence of as many samples, those that come next.         *)
LEMMA BlockIsSequence ==
  ASSUME stream \in Nat
  PROVE  /\ Demo!Block \in Seq(Nat) /\ Len(Demo!Block) = NumberOfSamples
         /\ \A i \in 1 .. NumberOfSamples : Demo!Block[i] = stream + i
<1>1. Demo!Block = [i \in 1 .. NumberOfSamples |-> stream + i]
  BY DEF Demo!Block
<1>2. Demo!Block \in [1 .. NumberOfSamples -> Nat] /\ NumberOfSamples \in Nat
  BY <1>1, DemoConstants
<1>3. Demo!Block \in Seq(Nat)
  BY <1>2, SeqDef
<1>4. QED
  BY <1>1, <1>2, <1>3, LenProperties

(* The numbers of samples do not change while a demo runs.                 *)
LEMMA SameDemo ==
  ASSUME demo' = demo
  PROVE  /\ Demo!Kept' = Demo!Kept /\ Whole' = Whole /\ Demo!Blocks' = Demo!Blocks
         /\ \A k : Held(k)' = Held(k)
BY DEF Demo!Kept, Whole, Demo!Blocks, Held
------------------------------------------------------------------------------
(* The steps that read and write nothing.                                  *)
DemoWaits == \/ Demo!GivesUp \/ Demo!Starts \/ Demo!NextSecond \/ Demo!Joins
             \/ Demo!ReadsOn \/ Demo!ShowsProgress

(* They keep DemoInv.                                                      *)
LEMMA DemoWaitsInv ==
  ASSUME DemoInv, DemoWaits
  PROVE  DemoInv'
<1>1. /\ UNCHANGED <<demo, second, stream, buffer, demoFiles, heard>>
      /\ opened' = opened \/ (demoMain = "start" /\ opened' \in BOOLEAN)
      /\ demoMain' = "start" => demoMain = "start" /\ opened' = opened
  BY DEF DemoInv, DemoTypeOK, DemoWaits, Demo!GivesUp, Demo!Starts, Demo!NextSecond, Demo!Joins,
     Demo!ReadsOn, Demo!ShowsProgress
<1>2. DemoTypeOK'
  <2>1. led' \in Nat
    <3>1. led \in Nat
      BY DEF DemoInv, DemoTypeOK
    <3>2. \/ led' \in {led, 0, NumLeds + 1}
          \/ led > 0 /\ led' = led - 1
      BY DEF DemoWaits, Demo!GivesUp, Demo!Starts, Demo!NextSecond, Demo!Joins,
         Demo!ReadsOn, Demo!ShowsProgress
    <3>3. QED
      BY <3>1, <3>2, DemoConstants
  <2>2. demoMain' \in {"start", "second", "read", "publish", "test", "join", "returned"}
    BY DEF DemoInv, DemoTypeOK, DemoWaits, Demo!GivesUp, Demo!Starts,
       Demo!NextSecond, Demo!Joins, Demo!ReadsOn, Demo!ShowsProgress
  <2>3. opened' \in BOOLEAN
    BY <1>1 DEF DemoInv, DemoTypeOK
  <2>4. QED
    BY <1>1, <2>1, <2>2, <2>3 DEF DemoInv, DemoTypeOK
<1>3. Gathering'
  <2>1. CASE demo = "pipes"
    <3>1. demoMain' \in {"start", "second", "returned"}
      BY <2>1 DEF DemoInv, Gathering, OnlyPipes, DemoWaits, Demo!GivesUp, Demo!Starts,
         Demo!NextSecond, Demo!Joins, Demo!ReadsOn, Demo!ShowsProgress
    <3>2. QED
      BY <1>1, <2>1, <3>1 DEF DemoInv, Gathering, OnlyPipes
  <2>2. CASE demo # "pipes"
    <3>1. PICK k \in 0 .. Demo!Blocks : Gathered(k)
      BY <2>2 DEF DemoInv, Gathering
    <3>2. Len(buffer) = Held(k)
      <4>1. second * Whole \in Nat /\ Held(k) \in Nat
        BY HeldFill, KeptFill DEF DemoInv, DemoTypeOK
      <4>2. QED
        BY <3>1, <4>1, BufferIsSequence DEF Gathered
    <3>3. /\ demoMain' \in {"start", "second", "join", "returned"} => k = 0
          /\ demoMain' = "read" => k # Demo!Blocks
      BY <3>1, <3>2, HeldFill, BlocksFill DEF Gathered, DemoWaits, Demo!GivesUp, Demo!Starts,
         Demo!NextSecond, Demo!Joins, Demo!ReadsOn, Demo!ShowsProgress
    <3>4. Gathered(k)'
      BY <1>1, <3>1, <3>3, SameDemo DEF Gathered
    <3>5. QED
      BY <1>1, <2>2, <3>4, SameDemo DEF Gathering
  <2>3. QED
    BY <2>1, <2>2
<1>4. Recorded'
  <2>1. CASE opened' = opened
    BY <1>1, <2>1, SameDemo DEF DemoInv, Recorded
  <2>2. CASE demoMain = "start" /\ opened' \in BOOLEAN
    <3>1. second = 0 /\ second * Demo!Kept = 0 /\ demoFiles = <<>>
      BY <2>2, KeptFill DEF DemoInv, Recorded
    <3>2. QED
      BY <1>1, <2>2, <3>1, SameDemo DEF DemoInv, Recorded
  <2>3. QED
    BY <1>1, <2>1, <2>2
<1>5. Heard'
  BY <1>1 DEF DemoInv, Heard, Ascending
<1>6. QED
  BY <1>2, <1>3, <1>4, <1>5 DEF DemoInv

(* A block goes behind what this second has gathered.                      *)
LEMMA ReadsBlockInv ==
  ASSUME DemoInv, Demo!ReadsBlock
  PROVE  DemoInv'
<1>1. /\ demo # "pipes" /\ demoMain = "read"
      /\ UNCHANGED <<demo, led, second, demoFiles, opened, heard>>
      /\ demoMain' \in {"publish", "test"}
      /\ stream' = stream + NumberOfSamples
      /\ buffer' = buffer \o Demo!Fits(Demo!Block)
  BY DEF Demo!ReadsBlock
<1>2. PICK k \in 0 .. Demo!Blocks : Gathered(k)
  BY <1>1 DEF DemoInv, Gathering
<1>3. k # Demo!Blocks /\ k \in Nat /\ k + 1 \in 0 .. Demo!Blocks
  BY <1>1, <1>2, BlocksFill DEF Gathered
<1>4. second \in Nat /\ stream \in Nat /\ Whole \in Nat /\ second * Whole \in Nat
  BY KeptFill DEF DemoInv, DemoTypeOK
<1>5. /\ Held(k) = k * NumberOfSamples /\ Held(k) \in Nat
      /\ stream = second * Whole + Held(k)
  BY <1>2, <1>3, HeldFill DEF Held, Gathered
<1>6. /\ buffer \in Seq(Nat) /\ Len(buffer) = Held(k)
      /\ \A i \in 1 .. Held(k) : buffer[i] = second * Whole + i
  BY <1>2, <1>4, <1>5, BufferIsSequence DEF Gathered
<1>7. /\ Demo!Block \in Seq(Nat) /\ Len(Demo!Block) = NumberOfSamples
      /\ \A i \in 1 .. NumberOfSamples : Demo!Block[i] = stream + i
  BY <1>4, BlockIsSequence
<1>8. (k + 1) * NumberOfSamples = Held(k) + NumberOfSamples
  BY <1>3, <1>5, DemoConstants
<1>9. k + 1 = Demo!Blocks => Held(k) + NumberOfSamples = Whole
  BY <1>8 DEF Whole
<1>10. Held(k + 1) = IF demo = "filter" /\ Held(k) + NumberOfSamples > SamplingRate
                     THEN SamplingRate ELSE Held(k) + NumberOfSamples
  <2>1. CASE k + 1 = Demo!Blocks
    BY <1>5, <1>9, <2>1, KeptFill, DemoConstants DEF Held
  <2>2. CASE k + 1 # Demo!Blocks
    <3>1. Held(k + 1) = Held(k) + NumberOfSamples
      BY <1>8, <2>2 DEF Held
    <3>2. Held(k + 1) < SamplingRate
      BY <1>3, <2>2, HeldFill
    <3>3. QED
      BY <1>5, <3>1, <3>2, DemoConstants
  <2>3. QED
    BY <2>1, <2>2
<1>11. /\ Demo!Fits(Demo!Block) \in Seq(Nat)
       /\ Len(Demo!Fits(Demo!Block)) = Held(k + 1) - Held(k)
       /\ \A i \in 1 .. Held(k + 1) - Held(k) : Demo!Fits(Demo!Block)[i] = stream + i
  <2>1. CASE demo = "filter" /\ Held(k) + NumberOfSamples > SamplingRate
    <3>1. Demo!Fits(Demo!Block) = SubSeq(Demo!Block, 1, SamplingRate - Held(k))
      BY <1>6, <2>1 DEF Demo!Fits
    <3>2. Held(k + 1) = SamplingRate /\ Held(k) < SamplingRate
      BY <1>3, <1>10, <2>1, HeldFill
    <3>3. /\ SamplingRate - Held(k) \in Int /\ 1 \in Int /\ 1 <= SamplingRate - Held(k)
          /\ SamplingRate - Held(k) <= NumberOfSamples
      BY <1>5, <2>1, <3>2, DemoConstants
    <3>4. \A i \in 1 .. SamplingRate - Held(k) : Demo!Block[i] \in Nat
      BY <1>4, <1>7, <3>3, DemoConstants
    <3>5. /\ SubSeq(Demo!Block, 1, SamplingRate - Held(k)) \in Seq(Nat)
          /\ Len(SubSeq(Demo!Block, 1, SamplingRate - Held(k)))
               = SamplingRate - Held(k) - 1 + 1
          /\ \A i \in 1 .. SamplingRate - Held(k) - 1 + 1 :
               SubSeq(Demo!Block, 1, SamplingRate - Held(k))[i] = Demo!Block[1 + i - 1]
      BY <3>3, <3>4, SubSeqProperties
    <3>6. SamplingRate - Held(k) - 1 + 1 = SamplingRate - Held(k)
      BY <3>3
    <3>7. ASSUME NEW i \in 1 .. SamplingRate - Held(k)
          PROVE  SubSeq(Demo!Block, 1, SamplingRate - Held(k))[i] = stream + i
      <4>1. i \in 1 .. NumberOfSamples /\ 1 + i - 1 = i
        BY <3>3, DemoConstants
      <4>2. QED
        BY <1>7, <3>5, <3>6, <4>1
    <3>8. QED
      BY <3>1, <3>2, <3>5, <3>6, <3>7
  <2>2. CASE ~(demo = "filter" /\ Held(k) + NumberOfSamples > SamplingRate)
    <3>1. Demo!Fits(Demo!Block) = Demo!Block
      BY <1>6, <2>2 DEF Demo!Fits
    <3>2. Held(k + 1) - Held(k) = NumberOfSamples
      BY <1>5, <1>10, <2>2, DemoConstants
    <3>3. QED
      BY <1>7, <3>1, <3>2
  <2>3. QED
    BY <2>1, <2>2
<1>12. Held(k + 1) \in Nat /\ Held(k) <= Held(k + 1)
  BY <1>3, <1>5, <1>10, HeldFill, DemoConstants
<1>13. buffer' = [i \in 1 .. Held(k + 1) |-> second * Whole + i]
  <2>1. /\ buffer' \in Seq(Nat) /\ Len(buffer') = Held(k) + (Held(k + 1) - Held(k))
        /\ \A i \in 1 .. Held(k) + (Held(k + 1) - Held(k)) :
             buffer'[i] = IF i <= Held(k) THEN buffer[i]
                          ELSE Demo!Fits(Demo!Block)[i - Held(k)]
    <3>1. /\ buffer' \in Seq(Nat) /\ Len(buffer') = Len(buffer) + Len(Demo!Fits(Demo!Block))
          /\ \A i \in 1 .. Len(buffer) + Len(Demo!Fits(Demo!Block)) :
               buffer'[i] = IF i <= Len(buffer) THEN buffer[i]
                            ELSE Demo!Fits(Demo!Block)[i - Len(buffer)]
      <4>1. buffer \in Seq(Nat) /\ Demo!Fits(Demo!Block) \in Seq(Nat)
        BY <1>6, <1>11
      <4>2. buffer' = buffer \o Demo!Fits(Demo!Block)
        BY <1>1
      <4>3. QED
        BY ONLY <4>1, <4>2, ConcatProperties
    <3>2. QED
      BY ONLY <1>6, <1>11, <3>1
  <2>2. Held(k) + (Held(k + 1) - Held(k)) = Held(k + 1)
    BY <1>5, <1>12
  <2>3. ASSUME NEW i \in 1 .. Held(k + 1) PROVE buffer'[i] = second * Whole + i
    <3>1. CASE i <= Held(k)
      BY <1>5, <1>6, <2>1, <2>2, <3>1
    <3>2. CASE i > Held(k)
      <4>1. i - Held(k) \in 1 .. Held(k + 1) - Held(k)
        BY <1>5, <1>12, <3>2
      <4>2. buffer'[i] = stream + (i - Held(k))
        BY <1>5, <1>11, <2>1, <2>2, <3>2, <4>1
      <4>3. QED
        BY <1>4, <1>5, <4>2
    <3>3. QED
      BY <1>5, <3>1, <3>2
  <2>4. DOMAIN buffer' = 1 .. Held(k + 1) /\ buffer' = [i \in DOMAIN buffer' |-> buffer'[i]]
    <3>1. DOMAIN buffer' = 1 .. Len(buffer')
      BY <2>1, LenProperties
    <3>2. QED
      BY <2>1, <2>2, <3>1, ElementOfSeq
  <2>5. QED
    BY <2>3, <2>4
<1>14. Gathered(k + 1)'
  <2>1. stream' = second * Whole + (k + 1) * NumberOfSamples
    BY <1>1, <1>4, <1>5, <1>8, DemoConstants
  <2>2. QED
    BY <1>1, <1>13, <2>1, SameDemo DEF Gathered
<1>15. Gathering'
  BY <1>1, <1>3, <1>14, SameDemo DEF Gathering
<1>16. DemoTypeOK'
  <2>1. stream' \in Nat
    BY <1>1, <1>4, DemoConstants
  <2>2. QED
    BY <1>1, <2>1 DEF DemoInv, DemoTypeOK
<1>17. Recorded'
  BY <1>1, SameDemo DEF DemoInv, Recorded
<1>18. Heard'
  <2>1. heard \in Seq(Nat) /\ \A i \in 1 .. Len(heard) : heard[i] \in Nat /\ heard[i] <= stream
    BY ElementOfSeq DEF DemoInv, Heard
  <2>2. \A i \in 1 .. Len(heard) : heard[i] <= stream'
    BY <1>1, <1>4, <2>1, DemoConstants
  <2>3. QED
    BY <1>1, <2>2 DEF DemoInv, Heard, Ascending
<1>19. QED
  BY <1>15, <1>16, <1>17, <1>18 DEF DemoInv

(* What the array holds is in order and was read.                          *)
LEMMA BufferWasRead ==
  ASSUME DemoInv, demo # "pipes"
  PROVE  /\ buffer \in Seq(Nat) /\ Ascending(buffer)
         /\ \A i \in 1 .. Len(buffer) : buffer[i] <= stream
<1>1. PICK k \in 0 .. Demo!Blocks : Gathered(k)
  BY DEF DemoInv, Gathering
<1>2. second * Whole \in Nat /\ Held(k) \in Nat /\ Held(k) <= k * NumberOfSamples
  BY HeldFill, KeptFill DEF DemoInv, DemoTypeOK
<1>3. /\ buffer \in Seq(Nat) /\ Len(buffer) = Held(k) /\ Ascending(buffer)
      /\ \A i \in 1 .. Held(k) : buffer[i] = second * Whole + i
  BY <1>1, <1>2, BufferIsSequence DEF Gathered
<1>4. k * NumberOfSamples \in Nat /\ stream = second * Whole + k * NumberOfSamples
  BY <1>1, BlocksFill, DemoConstants DEF Gathered
<1>5. QED
  BY <1>2, <1>3, <1>4

(* A subscriber hears the array.                                           *)
LEMMA PublishesInv ==
  ASSUME DemoInv, Demo!Publishes
  PROVE  DemoInv'
<1>1. /\ demoMain = "publish" /\ demoMain' = "test" /\ heard' \in {heard, buffer}
      /\ UNCHANGED <<demo, led, second, stream, buffer, demoFiles, opened>>
  BY DEF Demo!Publishes
<1>2. demo # "pipes"
  BY <1>1 DEF DemoInv, Gathering, OnlyPipes
<1>3. DemoTypeOK'
  BY <1>1 DEF DemoInv, DemoTypeOK
<1>4. Gathering'
  <2>1. PICK k \in 0 .. Demo!Blocks : Gathered(k)
    BY <1>2 DEF DemoInv, Gathering
  <2>2. Gathered(k)'
    BY <1>1, <2>1, SameDemo DEF Gathered
  <2>3. QED
    BY <1>1, <1>2, <2>2, SameDemo DEF Gathering
<1>5. Recorded'
  BY <1>1, SameDemo DEF DemoInv, Recorded
<1>6. Heard'
  <2>1. CASE heard' = heard
    BY <1>1, <2>1 DEF DemoInv, Heard, Ascending
  <2>2. CASE heard' = buffer
    BY <1>1, <1>2, <2>2, BufferWasRead DEF Heard, Ascending
  <2>3. QED
    BY <1>1, <2>1, <2>2
<1>7. QED
  BY <1>3, <1>4, <1>5, <1>6 DEF DemoInv

(* The division that finds the second of a sample of a file.               *)
LEMMA PlaceInSecond ==
  ASSUME NEW kept \in Nat \ {0}, NEW s \in Nat, NEW j \in 1 .. kept
  PROVE  /\ (s * kept + j - 1) \div kept = s
         /\ (s * kept + j - 1) % kept = j - 1
<1>1. s * kept \in Nat /\ s * kept + j - 1 \in Nat
  OBVIOUS
<1>2. j - 1 \in Nat /\ j - 1 < kept /\ s * kept + j - 1 = s * kept + (j - 1)
  BY <1>1
<1>3. ASSUME NEW a \in Nat, NEW b \in Nat \ {0}, NEW q \in Nat, NEW r \in Nat,
             r < b, a = q * b + r
      PROVE  a \div b = q /\ a % b = r
  BY <1>3
<1>4. QED
  BY <1>1, <1>2, <1>3

(* A complete second goes behind those in the files.                       *)
LEMMA WritesSecondInv ==
  ASSUME DemoInv, Demo!WritesSecond
  PROVE  DemoInv'
<1>1. /\ demoMain = "test" /\ Len(buffer) >= SamplingRate
      /\ demoMain' = "second" /\ buffer' = <<>> /\ second' = second + 1
      /\ heard' \in {heard, buffer}
      /\ demoFiles' = IF opened THEN demoFiles \o buffer ELSE demoFiles
      /\ UNCHANGED <<demo, led, stream, opened>>
  BY DEF Demo!WritesSecond
<1>2. demo # "pipes"
  BY <1>1 DEF DemoInv, Gathering, OnlyPipes
<1>3. PICK k \in 0 .. Demo!Blocks : Gathered(k)
  BY <1>2 DEF DemoInv, Gathering
<1>4. second \in Nat /\ Whole \in Nat /\ second * Whole \in Nat /\ Held(k) \in Nat
  BY KeptFill, HeldFill DEF DemoInv, DemoTypeOK
<1>5. /\ buffer \in Seq(Nat) /\ Len(buffer) = Held(k)
      /\ \A i \in 1 .. Held(k) : buffer[i] = second * Whole + i
  BY <1>3, <1>4, BufferIsSequence DEF Gathered
<1>6. k = Demo!Blocks /\ Held(k) = Demo!Kept
  <2>1. ~(Held(k) < SamplingRate)
    BY <1>1, <1>4, <1>5, DemoConstants
  <2>2. QED
    BY <2>1, HeldFill DEF Held
<1>7. stream = (second + 1) * Whole
  BY <1>3, <1>4, <1>6, BlocksFill, DemoConstants DEF Gathered, Whole
<1>8. DemoTypeOK'
  BY <1>1, <1>4 DEF DemoInv, DemoTypeOK
<1>9. Gathering'
  <2>1. 0 \in 0 .. Demo!Blocks /\ Held(0) = 0 /\ 0 # Demo!Blocks
    BY BlocksFill, HeldFill
  <2>2. buffer' = [i \in 1 .. Held(0) |-> second' * Whole + i]
    BY <1>1, <2>1
  <2>3. stream' = second' * Whole + 0 * NumberOfSamples
    BY <1>1, <1>4, <1>7, DemoConstants
  <2>4. Gathered(0)'
    BY <1>1, <2>1, <2>2, <2>3, SameDemo DEF Gathered
  <2>5. QED
    BY <1>1, <1>2, <2>1, <2>4, SameDemo DEF Gathering
<1>10. Recorded'
  <2> DEFINE At(i) == ((i - 1) \div Demo!Kept) * Demo!Blocks * NumberOfSamples
                        + ((i - 1) % Demo!Kept) + 1
             end == second * Demo!Kept
  <2>1. CASE ~opened
    BY <1>1, <2>1 DEF DemoInv, Recorded
  <2>2. CASE opened
    <3>1. end \in Nat /\ Demo!Kept \in Nat \ {0} /\ Demo!Kept \in Nat
      BY <1>4, KeptFill
    <3>2. (second + 1) * Demo!Kept = end + Demo!Kept
      BY <1>4, <3>1
    <3>3. demoFiles = [i \in 1 .. end |-> At(i)]
      BY <2>2 DEF DemoInv, Recorded
    <3>4. ASSUME NEW i \in 1 .. end + Demo!Kept PROVE At(i) \in Nat
      <4>1. /\ i - 1 \in Nat /\ (i - 1) \div Demo!Kept \in Nat /\ (i - 1) % Demo!Kept \in Nat
        BY <3>1
      <4>2. ((i - 1) \div Demo!Kept) * Demo!Blocks * NumberOfSamples \in Nat
        BY <4>1, BlocksFill, DemoConstants
      <4>3. QED
        BY <4>1, <4>2
    <3>5. /\ demoFiles \in Seq(Nat) /\ Len(demoFiles) = end
          /\ \A i \in 1 .. end : demoFiles[i] = At(i)
      <4>1. demoFiles \in [1 .. end -> Nat]
        BY <3>1, <3>3, <3>4
      <4>2. demoFiles \in Seq(Nat)
        BY <3>1, <4>1, SeqDef
      <4>3. QED
        BY <3>1, <3>3, <4>1, <4>2, LenProperties
    <3>6. ASSUME NEW j \in 1 .. Demo!Kept PROVE At(end + j) = second * Whole + j
      <4>1. (end + j) - 1 = end + j - 1
        BY <3>1
      <4>2. ((end + j) - 1) \div Demo!Kept = second /\ ((end + j) - 1) % Demo!Kept = j - 1
        BY <1>4, <3>1, <4>1, PlaceInSecond
      <4>3. At(end + j) = second * Demo!Blocks * NumberOfSamples + (j - 1) + 1
        BY <4>2
      <4>4. second * Demo!Blocks * NumberOfSamples = second * Whole
        BY <1>4, BlocksFill, DemoConstants DEF Whole
      <4>5. second * Whole + (j - 1) + 1 = second * Whole + j
        BY <1>4, <3>1
      <4>6. QED
        BY ONLY <4>3, <4>4, <4>5
    <3>7. demoFiles' = demoFiles \o buffer
      BY <1>1, <2>2
    <3>8. /\ demoFiles' \in Seq(Nat) /\ Len(demoFiles') = end + Demo!Kept
          /\ \A i \in 1 .. end + Demo!Kept :
               demoFiles'[i] = IF i <= end THEN demoFiles[i] ELSE buffer[i - end]
      <4>1. /\ demoFiles' \in Seq(Nat) /\ Len(demoFiles') = Len(demoFiles) + Len(buffer)
            /\ \A i \in 1 .. Len(demoFiles) + Len(buffer) :
                 demoFiles'[i] = IF i <= Len(demoFiles) THEN demoFiles[i]
                                 ELSE buffer[i - Len(demoFiles)]
        BY ONLY <1>5, <3>5, <3>7, ConcatProperties
      <4>2. QED
        BY <1>5, <1>6, <3>5, <4>1
    <3>9. ASSUME NEW i \in 1 .. end + Demo!Kept PROVE demoFiles'[i] = At(i)
      <4>1. CASE i <= end
        BY <3>1, <3>5, <3>8, <4>1
      <4>2. CASE i > end
        <5>1. i - end \in 1 .. Demo!Kept /\ end + (i - end) = i
          BY <3>1, <4>2
        <5>2. demoFiles'[i] = second * Whole + (i - end)
          BY <1>5, <1>6, <3>1, <3>8, <4>2, <5>1
        <5>3. QED
          BY <3>6, <5>1, <5>2
      <4>3. QED
        BY <3>1, <4>1, <4>2
    <3>10. demoFiles' = [i \in 1 .. end + Demo!Kept |-> At(i)]
      <4>1. DOMAIN demoFiles' = 1 .. end + Demo!Kept
            /\ demoFiles' = [i \in DOMAIN demoFiles' |-> demoFiles'[i]]
        BY <3>8, LenProperties, ElementOfSeq
      <4>2. QED
        BY <3>9, <4>1
    <3>11. second' * Demo!Kept' = end + Demo!Kept /\ demoMain' # "start" /\ opened'
      BY <1>1, <2>2, <3>2, SameDemo
    <3>12. QED
      BY <1>1, <3>10, <3>11, SameDemo DEF Recorded
  <2>3. QED
    BY <2>1, <2>2
<1>11. Heard'
  <2>1. CASE heard' = heard
    BY <1>1, <2>1 DEF DemoInv, Heard, Ascending
  <2>2. CASE heard' = buffer
    BY <1>1, <1>2, <2>2, BufferWasRead DEF Heard, Ascending
  <2>3. QED
    BY <1>1, <2>1, <2>2
<1>12. QED
  BY <1>8, <1>9, <1>10, <1>11 DEF DemoInv

(* What goes into a pipe follows what went before.                         *)
LEMMA PipesInv ==
  ASSUME DemoInv, Demo!Pipes
  PROVE  DemoInv'
<1>1. /\ demo = "pipes" /\ demoMain = "second"
      /\ stream' = stream + NumberOfSamples
      /\ heard' \in {heard, heard \o Demo!Block}
      /\ UNCHANGED <<demo, demoMain, led, second, buffer, demoFiles, opened>>
  BY DEF Demo!Pipes
<1>2. stream \in Nat /\ stream' \in Nat /\ stream <= stream' /\ NumberOfSamples \in Nat
  BY <1>1, DemoConstants DEF DemoInv, DemoTypeOK
<1>3. DemoTypeOK'
  BY <1>1, <1>2 DEF DemoInv, DemoTypeOK
<1>4. Gathering' /\ Recorded'
  BY <1>1, SameDemo DEF DemoInv, Gathering, OnlyPipes, Recorded
<1>5. /\ heard \in Seq(Nat) /\ Ascending(heard) /\ Len(heard) \in Nat
      /\ \A i \in 1 .. Len(heard) : heard[i] \in Nat /\ heard[i] <= stream
  BY ElementOfSeq, LenProperties DEF DemoInv, Heard
<1>6. Heard'
  <2>1. CASE heard' = heard
    <3>1. \A i \in 1 .. Len(heard) : heard[i] <= stream'
      BY <1>2, <1>5
    <3>2. QED
      BY <1>5, <2>1, <3>1 DEF Heard, Ascending
  <2>2. CASE heard' = heard \o Demo!Block
    <3>1. /\ Demo!Block \in Seq(Nat) /\ Len(Demo!Block) = NumberOfSamples
          /\ \A i \in 1 .. NumberOfSamples : Demo!Block[i] = stream + i
      BY <1>2, BlockIsSequence
    <3>2. /\ heard' \in Seq(Nat) /\ Len(heard') = Len(heard) + NumberOfSamples
          /\ \A i \in 1 .. Len(heard) + NumberOfSamples :
               heard'[i] = IF i <= Len(heard) THEN heard[i] ELSE Demo!Block[i - Len(heard)]
      BY <1>5, <2>2, <3>1, ConcatProperties
    <3>3. ASSUME NEW i \in 1 .. Len(heard) + NumberOfSamples
          PROVE  /\ heard'[i] \in Nat /\ heard'[i] <= stream'
                 /\ i <= Len(heard) => heard'[i] = heard[i] /\ heard'[i] <= stream
                 /\ i > Len(heard) => heard'[i] = stream + (i - Len(heard))
      <4>1. CASE i <= Len(heard)
        BY <1>2, <1>5, <3>2, <4>1
      <4>2. CASE i > Len(heard)
        <5>1. i - Len(heard) \in 1 .. NumberOfSamples
          BY <1>2, <1>5, <4>2
        <5>2. heard'[i] = stream + (i - Len(heard))
          BY <1>2, <1>5, <3>1, <3>2, <4>2, <5>1
        <5>3. QED
          BY <1>1, <1>2, <1>5, <4>2, <5>1, <5>2
      <4>3. QED
        BY <1>2, <1>5, <4>1, <4>2
    <3>4. ASSUME NEW i \in 1 .. Len(heard'), NEW j \in 1 .. Len(heard'), i < j
          PROVE  heard'[i] < heard'[j]
      <4>1. i \in 1 .. Len(heard) + NumberOfSamples /\ j \in 1 .. Len(heard) + NumberOfSamples
        BY <3>2
      <4>2. CASE j <= Len(heard)
        <5>1. i <= Len(heard) /\ i \in 1 .. Len(heard) /\ j \in 1 .. Len(heard)
          BY <1>2, <1>5, <3>4, <4>1, <4>2
        <5>2. heard[i] < heard[j]
          BY <1>5, <3>4, <5>1 DEF Ascending
        <5>3. QED
          BY <3>3, <4>1, <4>2, <5>1, <5>2
      <4>3. CASE j > Len(heard)
        <5>1. heard'[j] = stream + (j - Len(heard)) /\ j - Len(heard) \in Nat \ {0}
          BY <1>5, <3>3, <4>1, <4>3
        <5>2. CASE i <= Len(heard)
          BY <1>2, <3>3, <4>1, <5>1, <5>2
        <5>3. CASE i > Len(heard)
          <6>1. heard'[i] = stream + (i - Len(heard)) /\ i - Len(heard) < j - Len(heard)
            BY <1>5, <3>3, <3>4, <4>1, <5>3
          <6>2. QED
            BY <1>2, <1>5, <4>1, <5>1, <6>1
        <5>4. QED
          BY <1>5, <4>1, <5>2, <5>3
      <4>4. QED
        BY <1>2, <1>5, <4>1, <4>2, <4>3
    <3>5. \A i \in 1 .. Len(heard') : heard'[i] <= stream'
      BY <3>2, <3>3
    <3>6. QED
      BY <3>2, <3>4, <3>5 DEF Heard, Ascending
  <2>3. QED
    BY <1>1, <2>1, <2>2
<1>7. QED
  BY <1>3, <1>4, <1>6 DEF DemoInv
------------------------------------------------------------------------------
(* A demo starts with nothing read and nothing recorded.                   *)
LEMMA InitDemoInv == Demo!DemoInit => DemoInv
<1> SUFFICES ASSUME Demo!DemoInit PROVE DemoInv
  OBVIOUS
<1>1. DemoTypeOK
  BY DEF Demo!DemoInit, Demo!WithLeds, DemoTypeOK
<1>2. Gathering
  <2>1. CASE demo = "pipes"
    BY <2>1 DEF Demo!DemoInit, Gathering, OnlyPipes
  <2>2. CASE demo # "pipes"
    <3>1. 0 \in 0 .. Demo!Blocks /\ Held(0) = 0 /\ 0 # Demo!Blocks
      BY BlocksFill, HeldFill
    <3>2. stream = second * Whole + 0 * NumberOfSamples /\ buffer = <<>>
      BY KeptFill, DemoConstants DEF Demo!DemoInit
    <3>3. buffer = [i \in 1 .. Held(0) |-> second * Whole + i]
      BY <3>1, <3>2
    <3>4. Gathered(0)
      BY <3>1, <3>2, <3>3 DEF Demo!DemoInit, Gathered
    <3>5. QED
      BY <2>2, <3>1, <3>4 DEF Gathering
  <2>3. QED
    BY <2>1, <2>2
<1>3. Recorded
  BY DEF Demo!DemoInit, Recorded
<1>4. Heard
  BY EmptySeq DEF Demo!DemoInit, Heard, Ascending
<1>5. QED
  BY <1>1, <1>2, <1>3, <1>4 DEF DemoInv

(* The invariant of the demos is inductive.                                *)
LEMMA NextDemoInv == DemoInv /\ [Demo!DemoNext]_demoVars => DemoInv'
<1>1. ASSUME DemoInv, Demo!DemoNext PROVE DemoInv'
  <2>1. DemoWaits \/ Demo!ReadsBlock \/ Demo!Publishes \/ Demo!WritesSecond \/ Demo!Pipes
    BY <1>1 DEF Demo!DemoNext, Demo!DemoMain, Demo!SimpleMicRead, Demo!MicReadFilter,
       Demo!MicarrayRecorder, Demo!MicarrayRawRecorder, Demo!MicDemoFir, Demo!Recording,
       DemoWaits
  <2>2. QED
    BY <1>1, <2>1, DemoWaitsInv, ReadsBlockInv, PublishesInv, WritesSecondInv, PipesInv
<1>2. ASSUME DemoInv, UNCHANGED demoVars PROVE DemoInv'
  <2>1. UNCHANGED <<demo, demoMain, led, second, stream, buffer, demoFiles, opened, heard>>
    BY <1>2 DEF demoVars
  <2>2. DemoTypeOK' /\ Heard' /\ Recorded'
    BY <1>2, <2>1, SameDemo DEF DemoInv, DemoTypeOK, Heard, Ascending, Recorded
  <2>3. Gathering'
    BY <1>2, <2>1, SameDemo DEF DemoInv, Gathering, OnlyPipes, Gathered
  <2>4. QED
    BY <2>2, <2>3 DEF DemoInv
<1>3. QED
  BY <1>1, <1>2

(* The invariant of the demos, in whichever recorder runs.                 *)
THEOREM DemoInvariant == MCSpec => []DemoInv
<1>1. MCInit => DemoInv
  BY InitDemoInv DEF MCInit
<1>2. DemoInv /\ [MCNext]_<<vars, demoVars, program>> => DemoInv'
  BY NextDemoInv DEF MCNext
<1>3. QED
  BY <1>1, <1>2, PTL DEF MCSpec

(* No demo writes past the end of its array, whatever the sampling rate    *)
(* and the size of a block, nor begins a second with samples in it.        *)
THEOREM DemosStayInside == MCSpec => []InsideTheArray
<1>1. ASSUME DemoInv PROVE InsideTheArray
  <2>1. CASE demo = "pipes"
    <3>1. buffer = <<>> /\ Demo!BufferLength \in Nat
      BY <1>1, <2>1, DemoConstants DEF DemoInv, Gathering, OnlyPipes, Demo!BufferLength
    <3>2. QED
      BY <3>1 DEF InsideTheArray, Demo!InsideTheArray
  <2>2. CASE demo # "pipes"
    <3>1. PICK k \in 0 .. Demo!Blocks : Gathered(k)
      BY <1>1, <2>2 DEF DemoInv, Gathering
    <3>2. second * Whole \in Nat /\ Held(k) \in Nat
      BY <1>1, KeptFill, HeldFill DEF DemoInv, DemoTypeOK
    <3>3. Len(buffer) = Held(k)
      BY <3>1, <3>2, BufferIsSequence DEF Gathered
    <3>4. Held(k) = 0 => buffer = <<>>
      BY <3>1 DEF Gathered
    <3>5. QED
      BY <3>1, <3>3, <3>4, HeldFill DEF Gathered, InsideTheArray, Demo!InsideTheArray
  <2>3. QED
    BY <2>1, <2>2
<1>2. QED
  BY <1>1, DemoInvariant, PTL

(* The files of a demo are the stream of the microphones, but for what     *)
(* mic_read_filter drops at the end of every second, and what is published *)
(* or piped is in the order it was read.                                   *)
THEOREM DemosRecordTheStream == MCSpec => []RecordsTheStream
<1>1. DemoInv => RecordsTheStream
  BY DEF DemoInv, Recorded, Heard, Ascending, RecordsTheStream,
     Demo!RecordsTheStream, Demo!IsSorted
<1>2. QED
  BY <1>1, DemoInvariant, PTL
==============================================================================
