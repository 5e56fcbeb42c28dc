------------------------------ MODULE WavProofs ------------------------------
(***************************************************************************)
(* What the .wav files hold, proved for any number of channels and blocks  *)
(* and any size of a block: what a kill costs record_all_channels_wav, and *)
(* what record_all_channels_wav_sync keeps through failed calls and kills. *)
(***************************************************************************)
EXTENDS WavRecorders, SequenceTheorems, TLAPS

Files == [exists : BOOLEAN, declared : DeclaredSizes, data : Seq(1 .. MaxBlocks)]
Buffers == [declared : DeclaredSizes, data : Seq(1 .. MaxBlocks)]

(* Where each recorder may be, and what it has been given there.           *)
Places ==
  /\ pc \in {"writeOld", "header", "seekBack", "data", "return"} => taken > 0
  /\ pc \in {"idle", "take", "return"} => ch = 1
  /\ recorder = "async" => /\ pc \notin {"idle", "writeOld", "return"}
                           /\ pc = "open" => taken = 0
  /\ recorder = "sync" => /\ pc \notin {"take", "closed"}
                          /\ pc = "open" => taken > 0

ShapeInv == TypeOK /\ Places
------------------------------------------------------------------------------
(* What is written behind a file, or behind a buffer.                      *)
LEMMA PutParts ==
  ASSUME NEW w \in Buffers
  PROVE  /\ \A f \in Files :
              /\ Put(f, w) \in Files /\ Put(f, w).data = f.data \o w.data
              /\ Put(f, w).declared = IF w.declared = NoHeader THEN f.declared ELSE w.declared
         /\ \A b \in Buffers :
              /\ Put(b, w) \in Buffers /\ Put(b, w).data = b.data \o w.data
              /\ Put(b, w).declared = IF w.declared = NoHeader THEN b.declared ELSE w.declared
<1>1. w.data \in Seq(1 .. MaxBlocks) /\ w.declared \in DeclaredSizes
  BY DEF Buffers
<1>2. ASSUME NEW f \in Files
      PROVE  /\ Put(f, w) \in Files /\ Put(f, w).data = f.data \o w.data
             /\ Put(f, w).declared = IF w.declared = NoHeader THEN f.declared ELSE w.declared
  <2>1. f.data \o w.data \in Seq(1 .. MaxBlocks)
    BY <1>1 DEF Files
  <2>2. QED
    BY <1>1, <2>1 DEF Files, Put
<1>3. ASSUME NEW b \in Buffers
      PROVE  /\ Put(b, w) \in Buffers /\ Put(b, w).data = b.data \o w.data
             /\ Put(b, w).declared = IF w.declared = NoHeader THEN b.declared ELSE w.declared
  <2>1. b.data \o w.data \in Seq(1 .. MaxBlocks)
    BY <1>1 DEF Buffers
  <2>2. QED
    BY <1>1, <2>1 DEF Buffers, Put
<1>4. QED
  BY <1>2, <1>3

(* The headers and blocks that the recorders write.                        *)
LEMMA WrittenTypes ==
  /\ Nothing \in Buffers /\ Nothing.data = <<>> /\ Nothing.declared = NoHeader
  /\ Empty \in Files /\ Empty.data = <<>> /\ Empty.declared = NoHeader
  /\ Missing \in Files /\ Missing.data = <<>> /\ Missing.declared = NoHeader
  /\ \A n \in Int : /\ HeaderOp(n) \in Buffers /\ HeaderOp(n).data = <<>>
                    /\ HeaderOp(n).declared = n % Wrap /\ n % Wrap # NoHeader
  /\ \A n \in 1 .. MaxBlocks : /\ DataOp(n) \in Buffers /\ DataOp(n).data = <<n>>
                               /\ DataOp(n).declared = NoHeader
  /\ \A f \in Files : /\ OldContent(f) \in Buffers /\ OldContent(f).data = f.data
                      /\ OldContent(f).declared = f.declared
<1>1. NoHeader \in DeclaredSizes /\ <<>> \in Seq(1 .. MaxBlocks)
  BY EmptySeq DEF DeclaredSizes
<1>2. ASSUME NEW n \in Int PROVE n % Wrap \in DeclaredSizes /\ n % Wrap # NoHeader
  BY WavConstants DEF DeclaredSizes, NoHeader
<1>3. ASSUME NEW n \in 1 .. MaxBlocks PROVE <<n>> \in Seq(1 .. MaxBlocks)
  OBVIOUS
<1>4. Nothing \in Buffers /\ Nothing.data = <<>> /\ Nothing.declared = NoHeader
  BY <1>1 DEF Nothing, Writes, Buffers
<1>5. /\ Empty \in Files /\ Empty.data = <<>> /\ Empty.declared = NoHeader
      /\ Missing \in Files /\ Missing.data = <<>> /\ Missing.declared = NoHeader
  BY <1>1 DEF Empty, Missing, Files
<1>6. ASSUME NEW n \in Int
      PROVE  /\ HeaderOp(n) \in Buffers /\ HeaderOp(n).data = <<>>
             /\ HeaderOp(n).declared = n % Wrap /\ n % Wrap # NoHeader
  BY <1>1, <1>2 DEF HeaderOp, Writes, Buffers
<1>7. ASSUME NEW n \in 1 .. MaxBlocks
      PROVE  /\ DataOp(n) \in Buffers /\ DataOp(n).data = <<n>>
             /\ DataOp(n).declared = NoHeader
  BY <1>1, <1>3 DEF DataOp, Writes, Buffers
<1>8. ASSUME NEW f \in Files
      PROVE  /\ OldContent(f) \in Buffers /\ OldContent(f).data = f.data
             /\ OldContent(f).declared = f.declared
  BY DEF OldContent, Writes, Buffers, Files
<1>9. QED
  BY <1>4, <1>5, <1>6, <1>7, <1>8

(* What a stream will leave on disk.                                       *)
LEMMA FlushedParts ==
  ASSUME FilesTypeOK, NEW c \in Channels
  PROVE  /\ disk[c] \in Files /\ buffer[c] \in Buffers /\ Flushed(c) \in Files
         /\ Flushed(c).data = disk[c].data \o buffer[c].data
         /\ Flushed(c).declared = IF buffer[c].declared = NoHeader
                                  THEN disk[c].declared ELSE buffer[c].declared
<1>1. disk[c] \in Files /\ buffer[c] \in Buffers
  BY DEF FilesTypeOK, Files, Buffers
<1>2. QED
  BY <1>1, PutParts DEF Flushed

(* The same after a step.                                                  *)
LEMMA FlushedPartsAfter ==
  ASSUME FilesTypeOK', NEW c \in Channels
  PROVE  /\ disk'[c] \in Files /\ buffer'[c] \in Buffers /\ Flushed(c)' \in Files
         /\ Flushed(c)'.data = disk'[c].data \o buffer'[c].data
         /\ Flushed(c)'.declared = IF buffer'[c].declared = NoHeader
                                   THEN disk'[c].declared ELSE buffer'[c].declared
<1>1. disk'[c] \in Files /\ buffer'[c] \in Buffers
  BY DEF FilesTypeOK, Files, Buffers, DeclaredSizes
<1>2. Flushed(c)' = Put(disk'[c], buffer'[c])
  BY DEF Flushed, Put
<1>3. /\ Put(disk'[c], buffer'[c]) \in Files
      /\ Put(disk'[c], buffer'[c]).data = disk'[c].data \o buffer'[c].data
      /\ Put(disk'[c], buffer'[c]).declared = IF buffer'[c].declared = NoHeader
                                   THEN disk'[c].declared ELSE buffer'[c].declared
  BY <1>1, PutParts
<1>4. QED
  BY ONLY <1>1, <1>2, <1>3
------------------------------------------------------------------------------
(* The library moves the oldest part to disk, and the file to come is the  *)
(* same.                                                                   *)
LEMMA FlushParts ==
  ASSUME FilesTypeOK, NEW k \in Channels, SomeIsFlushed(k)
  PROVE  /\ FilesTypeOK' /\ UNCHANGED <<pc, ch, taken>>
         /\ \A c \in Channels \ {k} : disk'[c] = disk[c] /\ buffer'[c] = buffer[c]
         /\ \/ /\ buffer[k].declared # NoHeader
               /\ disk'[k].declared = buffer[k].declared /\ disk'[k].data = disk[k].data
               /\ buffer'[k].declared = NoHeader /\ buffer'[k].data = buffer[k].data
            \/ /\ buffer[k].declared = NoHeader /\ buffer[k].data # <<>>
               /\ disk'[k].declared = disk[k].declared
               /\ disk'[k].data = Append(disk[k].data, Head(buffer[k].data))
               /\ buffer'[k].declared = NoHeader /\ buffer'[k].data = Tail(buffer[k].data)
<1>1. /\ disk \in [Channels -> Files] /\ buffer \in [Channels -> Buffers]
      /\ disk[k] \in Files /\ buffer[k] \in Buffers
  BY DEF FilesTypeOK, Files, Buffers
<1>2. buffer[k].data \in Seq(1 .. MaxBlocks) /\ disk[k].data \in Seq(1 .. MaxBlocks)
      /\ buffer[k].declared \in DeclaredSizes /\ NoHeader \in DeclaredSizes
  BY <1>1 DEF Files, Buffers, DeclaredSizes
<1>3. UNCHANGED <<pc, ch, taken>>
  BY DEF SomeIsFlushed
<1>4. CASE HeaderIsFlushed(k)
  <2>1. /\ buffer[k].declared # NoHeader
        /\ disk' = [disk EXCEPT ![k] = [disk[k] EXCEPT !.declared = buffer[k].declared]]
        /\ buffer' = [buffer EXCEPT ![k] = [buffer[k] EXCEPT !.declared = NoHeader]]
    BY <1>4 DEF HeaderIsFlushed
  <2>2. [disk[k] EXCEPT !.declared = buffer[k].declared] \in Files
    BY <1>1, <1>2 DEF Files
  <2>3. [buffer[k] EXCEPT !.declared = NoHeader] \in Buffers
    BY <1>1, <1>2 DEF Buffers
  <2>4. disk' \in [Channels -> Files] /\ buffer' \in [Channels -> Buffers]
    BY <1>1, <2>1, <2>2, <2>3
  <2>5. FilesTypeOK'
    BY <2>4 DEF FilesTypeOK, Files, Buffers, DeclaredSizes
  <2>6. /\ disk'[k].declared = buffer[k].declared /\ disk'[k].data = disk[k].data
        /\ buffer'[k].declared = NoHeader /\ buffer'[k].data = buffer[k].data
    BY <1>1, <2>1 DEF Files, Buffers
  <2>7. \A c \in Channels \ {k} : disk'[c] = disk[c] /\ buffer'[c] = buffer[c]
    BY <1>1, <2>1
  <2>8. QED
    BY <1>3, <2>1, <2>5, <2>6, <2>7
<1>5. CASE BlockIsFlushed(k)
  <2>1. /\ buffer[k].declared = NoHeader /\ buffer[k].data # <<>>
        /\ disk' = [disk EXCEPT ![k] = [disk[k] EXCEPT
                      !.data = Append(disk[k].data, Head(buffer[k].data))]]
        /\ buffer' = [buffer EXCEPT ![k] = [buffer[k] EXCEPT !.data = Tail(buffer[k].data)]]
    BY <1>5 DEF BlockIsFlushed
  <2>2. /\ Head(buffer[k].data) \in 1 .. MaxBlocks
        /\ Tail(buffer[k].data) \in Seq(1 .. MaxBlocks)
        /\ Append(disk[k].data, Head(buffer[k].data)) \in Seq(1 .. MaxBlocks)
    <3>1. /\ Head(buffer[k].data) \in 1 .. MaxBlocks
          /\ Tail(buffer[k].data) \in Seq(1 .. MaxBlocks)
      BY <1>2, <2>1, HeadTailProperties
    <3>2. QED
      BY <1>2, <3>1
  <2>3. [disk[k] EXCEPT !.data = Append(disk[k].data, Head(buffer[k].data))] \in Files
    BY <1>1, <2>2 DEF Files
  <2>4. [buffer[k] EXCEPT !.data = Tail(buffer[k].data)] \in Buffers
    BY <1>1, <2>2 DEF Buffers
  <2>5. disk' \in [Channels -> Files] /\ buffer' \in [Channels -> Buffers]
    BY <1>1, <2>1, <2>3, <2>4
  <2>6. FilesTypeOK'
    BY <2>5 DEF FilesTypeOK, Files, Buffers, DeclaredSizes
  <2>7. /\ disk'[k].declared = disk[k].declared
        /\ disk'[k].data = Append(disk[k].data, Head(buffer[k].data))
        /\ buffer'[k].declared = NoHeader /\ buffer'[k].data = Tail(buffer[k].data)
    BY <1>1, <2>1 DEF Files, Buffers
  <2>8. \A c \in Channels \ {k} : disk'[c] = disk[c] /\ buffer'[c] = buffer[c]
    BY <1>1, <2>1
  <2>9. QED
    BY <1>3, <2>1, <2>6, <2>7, <2>8
<1>6. QED
  BY <1>4, <1>5 DEF SomeIsFlushed

(* The writes of a recorder to one channel, and what they leave alone.     *)
LEMMA OpenParts ==
  ASSUME FilesTypeOK, NEW k \in Channels, OpenForOutput(k)
  PROVE  /\ FilesTypeOK' /\ disk'[k] = Empty /\ buffer'[k] = Nothing
         /\ \A c \in Channels \ {k} : disk'[c] = disk[c] /\ buffer'[c] = buffer[c]
<1>1. disk \in [Channels -> Files] /\ buffer \in [Channels -> Buffers]
  BY DEF FilesTypeOK, Files, Buffers
<1>2. disk' = [disk EXCEPT ![k] = Empty] /\ buffer' = [buffer EXCEPT ![k] = Nothing]
  BY DEF OpenForOutput
<1>3. disk' \in [Channels -> Files] /\ buffer' \in [Channels -> Buffers]
  BY <1>1, <1>2, WrittenTypes
<1>4. FilesTypeOK'
  BY <1>3 DEF FilesTypeOK, Files, Buffers, DeclaredSizes
<1>5. QED
  BY <1>1, <1>2, <1>4

(* What is written to a stream goes behind its buffer.                     *)
LEMMA WriteParts ==
  ASSUME FilesTypeOK, NEW k \in Channels, NEW w \in Buffers, WriteTo(k, w)
  PROVE  /\ FilesTypeOK' /\ disk' = disk /\ buffer'[k] = Put(buffer[k], w)
         /\ \A c \in Channels \ {k} : buffer'[c] = buffer[c]
<1>1. /\ disk \in [Channels -> Files] /\ buffer \in [Channels -> Buffers]
      /\ buffer[k] \in Buffers
  BY DEF FilesTypeOK, Files, Buffers
<1>2. disk' = disk /\ buffer' = [buffer EXCEPT ![k] = Put(buffer[k], w)]
  BY DEF WriteTo
<1>3. buffer' \in [Channels -> Buffers]
  BY <1>1, <1>2, PutParts
<1>4. FilesTypeOK'
  BY <1>1, <1>2, <1>3 DEF FilesTypeOK, Files, Buffers, DeclaredSizes
<1>5. QED
  BY <1>1, <1>2, <1>4

(* A seek moves the buffer to disk before the write.                       *)
LEMMA SeekParts ==
  ASSUME FilesTypeOK, NEW k \in Channels, NEW w \in Buffers, SeekAndWrite(k, w)
  PROVE  /\ FilesTypeOK' /\ disk'[k] = Flushed(k) /\ buffer'[k] = w
         /\ \A c \in Channels \ {k} : disk'[c] = disk[c] /\ buffer'[c] = buffer[c]
<1>1. /\ disk \in [Channels -> Files] /\ buffer \in [Channels -> Buffers]
      /\ Flushed(k) \in Files
  BY FlushedParts DEF FilesTypeOK, Files, Buffers
<1>2. disk' = [disk EXCEPT ![k] = Flushed(k)] /\ buffer' = [buffer EXCEPT ![k] = w]
  BY DEF SeekAndWrite
<1>3. disk' \in [Channels -> Files] /\ buffer' \in [Channels -> Buffers]
  BY <1>1, <1>2
<1>4. FilesTypeOK'
  BY <1>3 DEF FilesTypeOK, Files, Buffers, DeclaredSizes
<1>5. QED
  BY <1>1, <1>2, <1>4

(* Closing moves every buffer to disk.                                     *)
LEMMA CloseParts ==
  ASSUME FilesTypeOK, CloseAll
  PROVE  /\ FilesTypeOK'
         /\ \A c \in Channels : disk'[c] = Flushed(c) /\ buffer'[c] = Nothing
<1>1. \A c \in Channels : Flushed(c) \in Files
  BY FlushedParts
<1>2. /\ disk' = [c \in Channels |-> Flushed(c)]
      /\ buffer' = [c \in Channels |-> Nothing]
  BY DEF CloseAll
<1>3. disk' \in [Channels -> Files] /\ buffer' \in [Channels -> Buffers]
  BY <1>1, <1>2, WrittenTypes
<1>4. FilesTypeOK'
  BY <1>3 DEF FilesTypeOK, Files, Buffers, DeclaredSizes
<1>5. QED
  BY <1>2, <1>4

(* A kill leaves the disk as it is.                                        *)
LEMMA LoseParts ==
  ASSUME FilesTypeOK, LoseBuffers
  PROVE  /\ FilesTypeOK' /\ disk' = disk /\ \A c \in Channels : buffer'[c] = Nothing
<1>1. disk \in [Channels -> Files]
  BY DEF FilesTypeOK, Files
<1>2. disk' = disk /\ buffer' = [c \in Channels |-> Nothing]
  BY DEF LoseBuffers
<1>3. buffer' \in [Channels -> Buffers]
  BY <1>2, WrittenTypes
<1>4. FilesTypeOK'
  BY <1>1, <1>2, <1>3 DEF FilesTypeOK, Files, Buffers, DeclaredSizes
<1>5. QED
  BY <1>2, <1>4
------------------------------------------------------------------------------
(* The invariant of the places is inductive.                               *)
LEMMA InitShapeInv == Init => ShapeInv
<1> SUFFICES ASSUME Init PROVE ShapeInv
  OBVIOUS
<1>1. disk = [c \in Channels |-> Missing] /\ buffer = [c \in Channels |-> Nothing]
  BY DEF Init, WavInit
<1>2. disk \in [Channels -> Files] /\ buffer \in [Channels -> Buffers]
  BY <1>1, WrittenTypes
<1>3. FilesTypeOK
  BY <1>2 DEF FilesTypeOK, Files, Buffers
<1>4. initial \in [Channels -> Files] /\ audio_lens \in [Channels -> 0 .. Wrap - 1]
  BY <1>2, WavConstants DEF Init
<1>5. ch \in Channels /\ ch = 1 /\ taken = 0 /\ taken \in 0 .. MaxBlocks
  BY WavConstants DEF Init, WavInit, Channels
<1>6. recorder \in {"async", "sync"} /\ pc = IF recorder = "async" THEN "open" ELSE "idle"
  BY DEF Init
<1>7. TypeOK
  BY <1>3, <1>4, <1>5, <1>6 DEF TypeOK, Files
<1>8. Places
  BY <1>5, <1>6 DEF Places
<1>9. QED
  BY <1>7, <1>8 DEF ShapeInv

(* The parts of write_wav_header.                                          *)
LEMMA HeaderParts ==
  ASSUME FilesTypeOK, NEW k \in Channels, NEW n \in Int, write_wav_header(k, n)
  PROVE  /\ FilesTypeOK' /\ disk'[k] = Flushed(k) /\ buffer'[k] = HeaderOp(n)
         /\ \A c \in Channels \ {k} : disk'[c] = disk[c] /\ buffer'[c] = buffer[c]
         /\ pc' = IF Flushed(k).declared = NoHeader THEN "data" ELSE "seekBack"
<1>1. HeaderOp(n) \in Buffers
  BY WrittenTypes
<1>2. SeekAndWrite(k, HeaderOp(n))
  BY DEF write_wav_header
<1>3. pc' = IF Flushed(k).declared = NoHeader THEN "data" ELSE "seekBack"
  BY DEF write_wav_header
<1>4. QED
  BY <1>1, <1>2, <1>3, SeekParts

(* What the header of SyncWriteHeader is computed from.                    *)
LEMMA SizeIsInt ==
  ASSUME NEW f \in Files
  PROVE  SizeOf(f) \in Nat
<1>1. Len(f.data) \in Nat
  BY LenProperties DEF Files
<1>2. BlockBytes * Len(f.data) \in Nat
  BY <1>1, WavConstants
<1>3. QED
  BY <1>2 DEF SizeOf, WAV_HEADER_LEN

(* The actions of each recorder, one by one.                               *)
Step ==
  \/ recorder = "async" /\ OpenNext("take")
  \/ recorder = "sync" /\ OpenNext("writeOld")
  \/ recorder = "async" /\ (OpenFails \/ Take \/ WriteHeader \/ Close)
  \/ recorder = "sync" /\ (Call \/ SyncOpenFails \/ WriteOld \/ SyncWriteHeader
                           \/ Return \/ Restart)
  \/ SeekBack /\ UNCHANGED own
  \/ recorder = "async" /\ WriteBlock("header", "take") /\ UNCHANGED own
  \/ recorder = "sync" /\ WriteBlock("writeOld", "return") /\ UNCHANGED own
  \/ Killed
  \/ \E c \in Channels : SomeIsFlushed(c) /\ UNCHANGED own

(* Next, its actions named one by one.                                     *)
LEMMA NextIsStep == Next => Step
BY DEF Next, AsyncNext, SyncNext, Step

(* Each action leaves the files well formed.                               *)
LEMMA FilesStayTyped ==
  ASSUME ShapeInv, Step
  PROVE  FilesTypeOK'
<1>1. FilesTypeOK /\ ch \in Channels /\ TypeOK /\ Places
  BY DEF ShapeInv, TypeOK
<1>2. CASE OpenNext("take") \/ OpenNext("writeOld")
  <2>1. OpenForOutput(ch)
    BY <1>2 DEF OpenNext
  <2>2. QED
    BY <1>1, <2>1, OpenParts
<1>3. CASE OpenFails \/ Take \/ Call \/ SyncOpenFails \/ Restart
  <2>1. UNCHANGED <<disk, buffer>>
    BY <1>3 DEF OpenFails, Take, Call, SyncOpenFails, Restart, fileVars
  <2>2. QED
    BY <1>1, <2>1 DEF FilesTypeOK, DeclaredSizes
<1>4. CASE WriteHeader
  <2>1. audio_lens'[ch] \in Int /\ write_wav_header(ch, audio_lens'[ch])
    BY <1>1, <1>4, WavConstants DEF WriteHeader, TypeOK
  <2>2. QED
    BY <1>1, <2>1, HeaderParts
<1>5. CASE SyncWriteHeader
  <2>1. initial[ch] \in Files
    BY <1>1 DEF TypeOK, Files
  <2>2. BlockBytes + SizeOf(initial[ch]) - WAV_HEADER_LEN \in Int
    BY <2>1, SizeIsInt, WavConstants DEF WAV_HEADER_LEN
  <2>3. QED
    BY <1>1, <1>5, <2>2, HeaderParts DEF SyncWriteHeader
<1>6. CASE WriteOld
  <2>1. initial[ch] \in Files
    BY <1>1 DEF TypeOK, Files
  <2>2. QED
    BY <1>1, <1>6, <2>1, WrittenTypes, WriteParts DEF WriteOld
<1>7. CASE SeekBack
  BY <1>1, <1>7, WrittenTypes, SeekParts DEF SeekBack
<1>8. CASE WriteBlock("header", "take") \/ WriteBlock("writeOld", "return")
  <2>1. taken \in 1 .. MaxBlocks /\ WriteTo(ch, DataOp(taken))
    BY <1>1, <1>8 DEF Places, TypeOK, WriteBlock
  <2>2. QED
    BY <1>1, <2>1, WrittenTypes, WriteParts
<1>9. CASE Close \/ Return
  BY <1>1, <1>9, CloseParts DEF Close, Return
<1>10. CASE Killed
  BY <1>1, <1>10, LoseParts DEF Killed
<1>11. CASE \E c \in Channels : SomeIsFlushed(c)
  BY <1>1, <1>11, FlushParts
<1>12. QED
  BY <1>2, <1>3, <1>4, <1>5, <1>6, <1>7, <1>8, <1>9, <1>10, <1>11 DEF Step

(* Every action keeps the places and the types.                            *)
LEMMA StepShapeInv ==
  ASSUME ShapeInv, Step
  PROVE  ShapeInv'
<1>1. /\ ch \in Channels /\ ch + 1 > ch /\ 1 \in Channels
      /\ ch < NumChannels => ch + 1 \in Channels
  BY WavConstants DEF ShapeInv, TypeOK, Channels
<1>2. ch' \in Channels
  BY <1>1 DEF Step, OpenNext, OpenFails, Take, WriteHeader, Close, Call,
     SyncOpenFails, WriteOld, SyncWriteHeader, write_wav_header, Return, Restart,
     SeekBack, WriteBlock, Killed, SomeIsFlushed
<1>3. taken' \in 0 .. MaxBlocks /\ taken' >= taken
  <2>1. taken' = taken \/ (taken < MaxBlocks /\ taken' = taken + 1)
    BY DEF Step, OpenNext, OpenFails, Take, WriteHeader, Close, Call,
       SyncOpenFails, WriteOld, SyncWriteHeader, Return, Restart,
       SeekBack, WriteBlock, Killed, SomeIsFlushed
  <2>2. taken \in 0 .. MaxBlocks
    BY DEF ShapeInv, TypeOK
  <2>3. QED
    BY <2>1, <2>2, WavConstants
<1>4. recorder' = recorder
  BY DEF Step, OpenNext, OpenFails, Take, WriteHeader, Close, Call,
     SyncOpenFails, WriteOld, SyncWriteHeader, Return, Restart,
     SeekBack, WriteBlock, Killed, SomeIsFlushed, own
<1>5. pc' \in {"idle", "open", "take", "writeOld", "header", "seekBack",
               "data", "return", "closed", "killed"}
  BY DEF ShapeInv, TypeOK, Step, OpenNext, OpenFails, Take, WriteHeader, Close, Call,
     SyncOpenFails, WriteOld, SyncWriteHeader, write_wav_header, Return, Restart,
     SeekBack, WriteBlock, Killed, SomeIsFlushed
<1>6. audio_lens' \in [Channels -> 0 .. Wrap - 1]
  <2>1. audio_lens \in [Channels -> 0 .. Wrap - 1]
    BY DEF ShapeInv, TypeOK
  <2>2. (audio_lens[ch] + BlockBytes) % Wrap \in 0 .. Wrap - 1
    BY <1>1, <2>1, WavConstants
  <2>3. \/ audio_lens' = audio_lens
        \/ audio_lens' = [audio_lens EXCEPT ![ch] = (@ + BlockBytes) % Wrap]
    BY DEF Step, OpenNext, OpenFails, Take, WriteHeader, Close, Call,
       SyncOpenFails, WriteOld, SyncWriteHeader, Return, Restart,
       SeekBack, WriteBlock, Killed, SomeIsFlushed, own
  <2>4. QED
    BY <2>1, <2>2, <2>3
<1>7. initial' \in [Channels -> Files]
  <2>1. initial \in [Channels -> Files] /\ disk \in [Channels -> Files]
    BY DEF ShapeInv, TypeOK, FilesTypeOK, Files
  <2>2. initial' = initial \/ initial' = disk
    BY DEF Step, OpenNext, OpenFails, Take, WriteHeader, Close, Call,
       SyncOpenFails, WriteOld, SyncWriteHeader, Return, Restart,
       SeekBack, WriteBlock, Killed, SomeIsFlushed, own
  <2>3. QED
    BY <2>1, <2>2
<1>8. TypeOK'
  <2>1. FilesTypeOK' /\ recorder \in {"async", "sync"}
    BY FilesStayTyped DEF ShapeInv, TypeOK
  <2>2. QED
    BY <1>2, <1>3, <1>4, <1>5, <1>6, <1>7, <2>1 DEF TypeOK, Files, DeclaredSizes
<1>9. Places'
  <2>1. ch \in Nat /\ taken \in Nat
    BY WavConstants DEF ShapeInv, TypeOK, Channels
  <2>2. QED
    BY <1>4, <2>1 DEF ShapeInv, Places, Step, OpenNext, OpenFails, Take,
       WriteHeader, Close, Call, SyncOpenFails, WriteOld, SyncWriteHeader,
       write_wav_header, Return, Restart, SeekBack, WriteBlock, Killed, SomeIsFlushed
<1>10. QED
  BY <1>8, <1>9 DEF ShapeInv

(* The invariant of the places is inductive.                               *)
LEMMA NextShapeInv == ShapeInv /\ [Next]_vars => ShapeInv'
<1>1. ASSUME ShapeInv, UNCHANGED vars PROVE ShapeInv'
  BY <1>1 DEF ShapeInv, TypeOK, FilesTypeOK, DeclaredSizes, Places, vars, fileVars, own
<1>2. QED
  BY <1>1, NextIsStep, StepShapeInv
------------------------------------------------------------------------------
Numbers(n) == [i \in 1 .. n |-> i]

(* The size that a header declares once n blocks were announced.           *)
HeaderFor(n) == IF n = 0 THEN NoHeader ELSE BlockBytes * n % Wrap

(* The blocks that record_all_channels_wav has written to the stream of a  *)
(* channel, and those that its header counts.                              *)
Written(c) == IF pc \in {"header", "seekBack", "data"} /\ ~(c < ch)
              THEN taken - 1 ELSE taken
Announced(c) == IF pc \in {"seekBack", "data"} /\ c = ch THEN taken ELSE Written(c)

(* A stream holds back one block at most, and the header that announces it *)
(* or the next.                                                            *)
AsyncChannel(c) ==
  /\ Flushed(c).data = Numbers(Written(c))
  /\ Flushed(c).declared = HeaderFor(Announced(c))
  /\ Len(buffer[c].data) <= 1
  /\ pc \in {"seekBack", "data"} /\ c = ch => buffer[c].data = <<>>
  /\ pc \in {"open", "closed"} => buffer[c] = Nothing
  /\ audio_lens[c] = BlockBytes * Announced(c) % Wrap
  /\ buffer[c].declared # NoHeader =>
       /\ disk[c].declared = HeaderFor(Len(disk[c].data))
       /\ Announced(c) = Len(disk[c].data) + 1

(* What a kill leaves.                                                     *)
AfterKill(c) ==
  /\ \E lost \in 0 .. 2 : disk[c].data = [i \in 1 .. taken - lost |-> i]
  /\ HeaderNearData(c)

AsyncInv ==
  /\ ShapeInv
  /\ recorder = "async" =>
       \A c \in Channels : IF pc = "killed" THEN AfterKill(c) /\ buffer[c] = Nothing
                           ELSE AsyncChannel(c)
------------------------------------------------------------------------------
(* The oldest block leaves a buffer for the file.                          *)
LEMMA HeadMoves ==
  ASSUME NEW V, NEW f \in Seq(V), NEW q \in Seq(V), q # <<>>
  PROVE  Append(f, Head(q)) \o Tail(q) = f \o q
<1>1. /\ Head(q) \in V /\ Head(q) = q[1]
      /\ Tail(q) \in Seq(V) /\ Len(Tail(q)) = Len(q) - 1
      /\ Len(q) \in Nat /\ Len(q) # 0
      /\ \A i \in 1 .. Len(q) - 1 : Tail(q)[i] = q[i + 1]
  BY HeadTailProperties, EmptySeq
<1>2. Append(f, Head(q)) \o Tail(q) \in Seq(V) /\ f \o q \in Seq(V)
  BY <1>1
<1>3. Len(Append(f, Head(q)) \o Tail(q)) = Len(f \o q)
  BY <1>1
<1>4. ASSUME NEW i \in 1 .. Len(f \o q)
      PROVE  (Append(f, Head(q)) \o Tail(q))[i] = (f \o q)[i]
  BY <1>1
<1>5. QED
  BY <1>2, <1>3, <1>4, SeqEqual

(* Moving the oldest part to disk does not change the file to come.        *)
LEMMA FlushKeeps ==
  ASSUME FilesTypeOK, NEW k \in Channels, SomeIsFlushed(k), NEW c \in Channels
  PROVE  /\ Flushed(c)'.data = Flushed(c).data
         /\ Flushed(c)'.declared = Flushed(c).declared
<1>1. /\ Flushed(c).data = disk[c].data \o buffer[c].data
      /\ Flushed(c).declared = IF buffer[c].declared = NoHeader
                               THEN disk[c].declared ELSE buffer[c].declared
      /\ disk[c].data \in Seq(1 .. MaxBlocks) /\ buffer[c].data \in Seq(1 .. MaxBlocks)
  BY FlushedParts DEF Files, Buffers
<1>2. FilesTypeOK'
  BY FlushParts
<1>3. /\ Flushed(c)'.data = disk'[c].data \o buffer'[c].data
      /\ Flushed(c)'.declared = IF buffer'[c].declared = NoHeader
                                THEN disk'[c].declared ELSE buffer'[c].declared
  BY <1>2, FlushedPartsAfter
<1>4. CASE c # k
  BY <1>1, <1>3, <1>4, FlushParts
<1>5. CASE c = k
  <2>1. \/ /\ buffer[c].declared # NoHeader
           /\ disk'[c].declared = buffer[c].declared /\ disk'[c].data = disk[c].data
           /\ buffer'[c].declared = NoHeader /\ buffer'[c].data = buffer[c].data
        \/ /\ buffer[c].declared = NoHeader /\ buffer[c].data # <<>>
           /\ disk'[c].declared = disk[c].declared
           /\ disk'[c].data = Append(disk[c].data, Head(buffer[c].data))
           /\ buffer'[c].declared = NoHeader /\ buffer'[c].data = Tail(buffer[c].data)
    BY <1>5, FlushParts
  <2>2. Flushed(c)'.declared = Flushed(c).declared
    BY <1>1, <1>3, <2>1
  <2>3. disk'[c].data \o buffer'[c].data = disk[c].data \o buffer[c].data
    BY <1>1, <2>1, HeadMoves
  <2>4. QED
    BY <1>1, <1>3, <2>2, <2>3
<1>6. QED
  BY <1>4, <1>5

(* The first n numbers, split between a file and its buffer.               *)
LEMMA NumbersSplit ==
  ASSUME NEW n \in Nat, NEW V, NEW f \in Seq(V), NEW b \in Seq(V), f \o b = Numbers(n)
  PROVE  Len(f) + Len(b) = n /\ f = Numbers(Len(f)) /\ Len(f) \in Nat /\ Len(b) \in Nat
<1>1. Len(f) \in Nat /\ Len(b) \in Nat
  BY LenProperties
<1>2. f \o b \in Seq(V) /\ Len(f \o b) = Len(f) + Len(b)
  BY ConcatProperties
<1>4. DOMAIN (f \o b) = 1 .. n
  BY DEF Numbers
<1>5. Len(f) + Len(b) = n
  <2>1. DOMAIN (f \o b) = 1 .. Len(f) + Len(b)
    BY <1>2, LenProperties
  <2>2. ASSUME NEW i \in Nat, NEW j \in Nat, 1 .. i = 1 .. j PROVE i = j
    <3>1. \A k \in Nat : (1 <= k /\ k <= i) <=> (1 <= k /\ k <= j)
      BY <2>2
    <3>2. QED
      BY <3>1
  <2>3. Len(f) + Len(b) \in Nat /\ 1 .. Len(f) + Len(b) = 1 .. n
    BY <1>1, <1>4, <2>1
  <2>4. QED
    BY ONLY <2>2, <2>3, n \in Nat
<1>6. ASSUME NEW i \in 1 .. Len(f) PROVE f[i] = i
  <2>1. (f \o b)[i] = f[i] /\ i \in 1 .. n
    BY <1>1, <1>5, ConcatProperties
  <2>2. QED
    BY <2>1 DEF Numbers
<1>7. f = [i \in 1 .. Len(f) |-> f[i]]
  BY ElementOfSeq, LenProperties
<1>8. QED
  BY <1>1, <1>5, <1>6, <1>7 DEF Numbers

(* At most one of w is missing.                                            *)
LEMMA OneHeldBack ==
  ASSUME NEW w \in Nat, NEW a \in Nat, NEW b \in Nat, a + b = w, b <= 1
  PROVE  a = w \/ a = w - 1
OBVIOUS

(* From what a stream holds back follows what a kill costs.                *)
LEMMA AsyncCost ==
  ASSUME ShapeInv, NEW c \in Channels, AsyncChannel(c)
  PROVE  AfterKill(c)
<1>1. /\ Flushed(c).data = disk[c].data \o buffer[c].data
      /\ Flushed(c).declared = IF buffer[c].declared = NoHeader
                               THEN disk[c].declared ELSE buffer[c].declared
      /\ disk[c].data \in Seq(1 .. MaxBlocks) /\ buffer[c].data \in Seq(1 .. MaxBlocks)
  BY FlushedParts DEF ShapeInv, TypeOK, Files, Buffers
<1>2. /\ Written(c) \in Nat /\ Written(c) \in {taken, taken - 1} /\ taken \in Nat
      /\ Announced(c) \in {Written(c), Written(c) + 1}
      /\ Announced(c) = Written(c) + 1 => pc \in {"seekBack", "data"} /\ c = ch
      /\ Announced(c) \in Nat
  BY DEF ShapeInv, TypeOK, Places, Written, Announced
<1>3. /\ Len(disk[c].data) + Len(buffer[c].data) = Written(c)
      /\ disk[c].data = Numbers(Len(disk[c].data))
      /\ Len(disk[c].data) \in Nat /\ Len(buffer[c].data) \in Nat
  <2>1. disk[c].data \o buffer[c].data = Numbers(Written(c))
    BY <1>1 DEF AsyncChannel
  <2>2. QED
    BY <1>1, <1>2, <2>1, NumbersSplit
<1>4. Len(buffer[c].data) <= 1
  BY DEF AsyncChannel
<1>5. \E lost \in 0 .. 2 : disk[c].data = [i \in 1 .. taken - lost |-> i]
  <2>1. PICK lost \in 0 .. 2 : Len(disk[c].data) = taken - lost
    <3>1. Len(disk[c].data) = Written(c) \/ Len(disk[c].data) = Written(c) - 1
      BY <1>2, <1>3, <1>4, OneHeldBack
    <3>2. taken - Len(disk[c].data) \in 0 .. 2
      BY <1>2, <1>3, <3>1
    <3>3. Len(disk[c].data) = taken - (taken - Len(disk[c].data))
      BY <1>2, <1>3
    <3>4. QED
      BY <3>2, <3>3
  <2>2. QED
    BY <1>3, <2>1 DEF Numbers
<1>6. HeaderNearData(c)
  <2> DEFINE n == Len(disk[c].data)
  <2>1. CASE buffer[c].declared # NoHeader
    <3>1. disk[c].declared = HeaderFor(n)
      BY <2>1 DEF AsyncChannel
    <3>2. QED
      BY <1>3, <3>1 DEF HeaderNearData, HeaderFor
  <2>2. CASE buffer[c].declared = NoHeader
    <3>1. disk[c].declared = HeaderFor(Announced(c))
      BY <1>1, <2>2 DEF AsyncChannel
    <3>2. Announced(c) = n \/ Announced(c) = n + 1
      <4>1. CASE Announced(c) = Written(c) + 1
        <5>1. Len(buffer[c].data) = 0
          BY <1>2, <4>1, EmptySeq DEF AsyncChannel
        <5>2. QED
          BY <1>2, <1>3, <4>1, <5>1
      <4>2. CASE Announced(c) = Written(c)
        <5>1. n = Written(c) \/ n = Written(c) - 1
          BY <1>2, <1>3, <1>4, OneHeldBack
        <5>2. QED
          BY <1>2, <1>3, <4>2, <5>1
      <4>3. QED
        BY <1>2, <4>1, <4>2
    <3>3. QED
      BY <1>3, <3>1, <3>2 DEF HeaderNearData, HeaderFor
  <2>3. QED
    BY <2>1, <2>2
<1>7. QED
  BY <1>5, <1>6 DEF AfterKill

(* The header's sizes wrap, but they add up.                               *)
LEMMA SizesAdd ==
  ASSUME NEW n \in Nat
  PROVE  /\ BlockBytes * n \in Nat /\ BlockBytes * (n + 1) \in Nat
         /\ ((BlockBytes * n % Wrap) + BlockBytes) % Wrap = BlockBytes * (n + 1) % Wrap
         /\ (BlockBytes * n % Wrap) % Wrap = BlockBytes * n % Wrap
         /\ BlockBytes * n % Wrap \in Nat /\ BlockBytes * n % Wrap # NoHeader
<1>1. ASSUME NEW w \in Nat \ {0}, NEW i \in Nat, NEW j \in Nat
      PROVE  ((i % w) + j) % w = (i + j) % w /\ (i % w) % w = i % w
  <2> DEFINE q == i \div w
             r == i % w
             s == (r + j) \div w
             t == (r + j) % w
  <2>1. q \in Nat /\ r \in Nat /\ r < w /\ i = q * w + r
    OBVIOUS
  <2>2. s \in Nat /\ t \in Nat /\ t < w /\ r + j = s * w + t
    BY <2>1
  <2>3. i + j = (q + s) * w + t
    BY <2>1, <2>2
  <2>4. ASSUME NEW a \in Nat, NEW b \in Nat, NEW c \in Nat, c < w, a = b * w + c
        PROVE  a % w = c
    BY <2>4
  <2>5. (i + j) % w = t
    <3>1. i + j \in Nat /\ q + s \in Nat
      BY <2>1, <2>2
    <3>2. QED
      BY ONLY <2>2, <2>3, <2>4, <3>1
  <2>6. r % w = r
    BY <2>1
  <2>7. QED
    BY <2>5, <2>6
<1>2. BlockBytes * n \in Nat /\ BlockBytes * (n + 1) = BlockBytes * n + BlockBytes
  BY WavConstants
<1>3. BlockBytes * n % Wrap \in Nat /\ BlockBytes * n % Wrap # NoHeader
  BY <1>2, WavConstants DEF NoHeader
<1>4. /\ ((BlockBytes * n % Wrap) + BlockBytes) % Wrap = (BlockBytes * n + BlockBytes) % Wrap
      /\ (BlockBytes * n % Wrap) % Wrap = BlockBytes * n % Wrap
  BY <1>1, <1>2, WavConstants
<1>5. QED
  BY <1>2, <1>3, <1>4, WavConstants

(* A stream that nothing touches will leave the same file.                 *)
LEMMA Untouched ==
  ASSUME NEW c \in Channels, disk'[c] = disk[c], buffer'[c] = buffer[c]
  PROVE  Flushed(c)' = Flushed(c)
BY DEF Flushed, Put

(* A stream that holds nothing back has left it.                           *)
LEMMA NothingHeld ==
  ASSUME FilesTypeOK, NEW c \in Channels, buffer[c] = Nothing
  PROVE  Flushed(c).data = disk[c].data /\ Flushed(c).declared = disk[c].declared
<1>1. disk[c].data \in Seq(1 .. MaxBlocks)
  BY FlushedParts DEF Files
<1>2. disk[c].data \o <<>> = disk[c].data
  BY <1>1, ConcatEmptySeq
<1>3. QED
  BY <1>2, FlushedParts, WrittenTypes

(* The same after a step.                                                  *)
LEMMA NothingHeldAfter ==
  ASSUME FilesTypeOK', NEW c \in Channels, buffer'[c] = Nothing
  PROVE  /\ Flushed(c)'.data = disk'[c].data /\ Flushed(c)'.declared = disk'[c].declared
<1>1. disk'[c].data \in Seq(1 .. MaxBlocks)
  BY FlushedPartsAfter DEF Files
<1>2. disk'[c].data \o <<>> = disk'[c].data
  BY <1>1, ConcatEmptySeq
<1>3. QED
  BY <1>2, FlushedPartsAfter, WrittenTypes
------------------------------------------------------------------------------
(* Opening, and the steps that write nothing.                              *)
LEMMA AsyncOpens ==
  ASSUME AsyncInv, ShapeInv', recorder = "async", OpenNext("take"), NEW c \in Channels
  PROVE  AsyncChannel(c)'
<1>1. /\ pc = "open" /\ pc' \in {"open", "take"} /\ taken = 0 /\ taken' = 0
      /\ audio_lens' = audio_lens /\ OpenForOutput(ch) /\ AsyncChannel(c) /\ ch \in Channels
      /\ FilesTypeOK /\ FilesTypeOK'
  BY DEF OpenNext, own, AsyncInv, ShapeInv, Places, TypeOK
<1>2. Written(c) = 0 /\ Announced(c) = 0 /\ Written(c)' = 0 /\ Announced(c)' = 0
  BY <1>1 DEF Written, Announced
<1>3. buffer[c] = Nothing
  BY <1>1 DEF AsyncChannel
<1>4. buffer'[c] = Nothing /\ buffer'[c].declared = NoHeader /\ Len(buffer'[c].data) <= 1
  BY <1>1, <1>3, OpenParts, WrittenTypes, EmptySeq
<1>5. Flushed(c)'.data = Numbers(0) /\ Flushed(c)'.declared = NoHeader
  <2>1. CASE c = ch
    <3>1. disk'[c].data = <<>> /\ disk'[c].declared = NoHeader
      BY <1>1, <2>1, OpenParts, WrittenTypes
    <3>2. Numbers(0) = <<>>
      BY DEF Numbers
    <3>3. QED
      BY <1>1, <1>4, <3>1, <3>2, NothingHeldAfter
  <2>2. CASE c # ch
    <3>1. Flushed(c)' = Flushed(c)
      BY <1>1, <2>2, OpenParts, Untouched
    <3>2. QED
      BY <1>1, <1>2, <3>1 DEF AsyncChannel, HeaderFor
  <2>3. QED
    BY <2>1, <2>2
<1>6. audio_lens'[c] = BlockBytes * 0 % Wrap
  BY <1>1, <1>2 DEF AsyncChannel
<1>7. Numbers(0)' = Numbers(0) /\ HeaderFor(0)' = NoHeader
  BY DEF Numbers, HeaderFor
<1>8. QED
  BY <1>1, <1>2, <1>4, <1>5, <1>6, <1>7 DEF AsyncChannel, HeaderFor

(* A failed open and a new block leave the files as they are.              *)
LEMMA AsyncIdles ==
  ASSUME AsyncInv, ShapeInv', recorder = "async", OpenFails \/ Take, NEW c \in Channels
  PROVE  AsyncChannel(c)'
<1>1. /\ pc # "killed" /\ pc \in {"open", "take"} /\ UNCHANGED <<disk, buffer, ch, audio_lens>>
      /\ pc' \in {"closed", "header"} /\ AsyncChannel(c)
      /\ pc' = "closed" => pc = "open" /\ taken' = taken
      /\ pc' = "header" => ch = 1 /\ taken' = taken + 1
      /\ taken \in Nat /\ ~(c < 1)
  BY DEF OpenFails, Take, own, fileVars, AsyncInv, ShapeInv, TypeOK, Places, Channels
<1>2. Written(c)' = Written(c) /\ Announced(c)' = Announced(c)
  BY <1>1 DEF Written, Announced
<1>3. Flushed(c)' = Flushed(c)
  BY <1>1, Untouched
<1>4. QED
  BY <1>1, <1>2, <1>3 DEF AsyncChannel, Numbers, HeaderFor

(* The header of a block: seekp has moved what the stream held back.       *)
LEMMA AsyncWritesHeader ==
  ASSUME AsyncInv, ShapeInv', recorder = "async", WriteHeader, NEW c \in Channels
  PROVE  AsyncChannel(c)'
<1>1. /\ pc = "header" /\ ch' = ch /\ taken' = taken /\ AsyncChannel(c)
      /\ taken \in Nat /\ taken - 1 \in Nat
      /\ ch \in Channels /\ FilesTypeOK /\ FilesTypeOK' /\ AsyncChannel(ch)
      /\ audio_lens' = [audio_lens EXCEPT ![ch] = (@ + BlockBytes) % Wrap]
      /\ audio_lens \in [Channels -> 0 .. Wrap - 1]
      /\ write_wav_header(ch, audio_lens'[ch])
  BY DEF WriteHeader, AsyncInv, ShapeInv, TypeOK, Places
<1>2. Written(ch) = taken - 1 /\ Announced(ch) = taken - 1
  BY <1>1, WavConstants DEF Written, Announced, Channels
<1>3. audio_lens'[ch] = BlockBytes * taken % Wrap
  <2>1. audio_lens[ch] = BlockBytes * (taken - 1) % Wrap
    BY <1>1, <1>2 DEF AsyncChannel
  <2>2. ((BlockBytes * (taken - 1) % Wrap) + BlockBytes) % Wrap
          = BlockBytes * ((taken - 1) + 1) % Wrap
    BY <1>1, SizesAdd
  <2>3. (taken - 1) + 1 = taken
    BY <1>1
  <2>4. audio_lens'[ch] = (audio_lens[ch] + BlockBytes) % Wrap
    BY <1>1
  <2>5. QED
    BY <2>1, <2>2, <2>3, <2>4
<1>4. taken \in Nat /\ taken # 0
  BY <1>1 DEF AsyncInv, ShapeInv, Places, TypeOK
<1>5. audio_lens'[ch] \in Nat /\ audio_lens'[ch] % Wrap = BlockBytes * taken % Wrap
      /\ audio_lens'[ch] \in Int
  BY <1>3, <1>4, SizesAdd
<1>6. /\ disk'[ch] = Flushed(ch) /\ buffer'[ch] = HeaderOp(audio_lens'[ch])
      /\ \A d \in Channels \ {ch} : disk'[d] = disk[d] /\ buffer'[d] = buffer[d]
      /\ pc' \in {"data", "seekBack"}
  BY <1>1, <1>5, HeaderParts
<1>7. CASE c = ch
  <2>1. Written(c)' = taken - 1 /\ Announced(c)' = taken
    BY <1>1, <1>6, <1>7, WavConstants DEF Written, Announced, Channels
  <2>2. /\ buffer'[c].data = <<>> /\ buffer'[c].declared = BlockBytes * taken % Wrap
        /\ buffer'[c].declared # NoHeader /\ Len(buffer'[c].data) <= 1
    BY <1>5, <1>6, <1>7, WrittenTypes, EmptySeq
  <2>3. /\ Flushed(c)'.data = disk'[c].data \o buffer'[c].data
        /\ Flushed(c)'.declared = buffer'[c].declared
        /\ disk'[c].data \in Seq(1 .. MaxBlocks)
    BY <1>1, <2>2, FlushedPartsAfter DEF Files
  <2>4. disk'[c].data = Numbers(taken - 1) /\ disk'[c].declared = HeaderFor(taken - 1)
    BY <1>1, <1>2, <1>6, <1>7 DEF AsyncChannel
  <2>5. Flushed(c)'.data = Numbers(taken - 1)
    BY <2>2, <2>3, <2>4, ConcatEmptySeq
  <2>6. Len(disk'[c].data) = taken - 1
    BY <1>1, <2>3, <2>4, LenProperties DEF Numbers
  <2>7. HeaderFor(taken) = BlockBytes * taken % Wrap
    BY <1>4 DEF HeaderFor
  <2>8. audio_lens'[c] = BlockBytes * taken % Wrap
    BY <1>3, <1>7
  <2>9. taken = (taken - 1) + 1
    BY <1>4
  <2>10. pc' \notin {"open", "closed"}
    BY <1>6
  <2>11. Flushed(c)'.declared = HeaderFor(taken)
    BY <2>2, <2>3, <2>7
  <2>12. QED
    BY ONLY <2>1, <2>2, <2>4, <2>5, <2>6, <2>8, <2>9, <2>10, <2>11
       DEF AsyncChannel, Numbers, HeaderFor
<1>8. CASE c # ch
  <2>1. Flushed(c)' = Flushed(c) /\ disk'[c] = disk[c] /\ buffer'[c] = buffer[c]
    BY <1>6, <1>8, Untouched
  <2>2. Written(c)' = Written(c) /\ Announced(c)' = Announced(c)
    BY <1>1, <1>6, <1>8 DEF Written, Announced
  <2>3. audio_lens'[c] = audio_lens[c]
    BY <1>1, <1>8
  <2>4. QED
    BY <1>1, <1>6, <1>8, <2>1, <2>2, <2>3 DEF AsyncChannel, Numbers, HeaderFor
<1>9. QED
  BY <1>7, <1>8

(* Back to the end: the header reaches the disk.                           *)
LEMMA AsyncSeeksBack ==
  ASSUME AsyncInv, ShapeInv', recorder = "async", SeekBack, UNCHANGED own, NEW c \in Channels
  PROVE  AsyncChannel(c)'
<1>1. /\ pc = "seekBack" /\ pc' = "data" /\ UNCHANGED <<ch, taken, audio_lens>>
      /\ AsyncChannel(c) /\ ch \in Channels /\ FilesTypeOK /\ FilesTypeOK'
      /\ SeekAndWrite(ch, Nothing)
  BY DEF SeekBack, own, AsyncInv, ShapeInv, TypeOK
<1>2. /\ disk'[ch] = Flushed(ch) /\ buffer'[ch] = Nothing
      /\ \A d \in Channels \ {ch} : disk'[d] = disk[d] /\ buffer'[d] = buffer[d]
  BY <1>1, WrittenTypes, SeekParts
<1>3. Written(c)' = Written(c) /\ Announced(c)' = Announced(c)
  BY <1>1 DEF Written, Announced
<1>4. CASE c = ch
  <2>1. /\ buffer'[c] = Nothing /\ buffer'[c].data = <<>> /\ buffer'[c].declared = NoHeader
        /\ Len(buffer'[c].data) <= 1
    BY <1>2, <1>4, WrittenTypes, EmptySeq
  <2>2. Flushed(c)'.data = Flushed(c).data /\ Flushed(c)'.declared = Flushed(c).declared
    BY <1>1, <1>2, <1>4, NothingHeldAfter
  <2>3. QED
    BY <1>1, <1>3, <2>1, <2>2 DEF AsyncChannel, Numbers, HeaderFor
<1>5. CASE c # ch
  <2>1. Flushed(c)' = Flushed(c) /\ disk'[c] = disk[c] /\ buffer'[c] = buffer[c]
    BY <1>2, <1>5, Untouched
  <2>2. QED
    BY <1>1, <1>3, <1>5, <2>1 DEF AsyncChannel, Numbers, HeaderFor
<1>6. QED
  BY <1>4, <1>5

(* The block: the stream held no block back before it.                     *)
LEMMA AsyncWritesBlock ==
  ASSUME AsyncInv, ShapeInv', recorder = "async", WriteBlock("header", "take"),
         UNCHANGED own, NEW c \in Channels
  PROVE  AsyncChannel(c)'
<1>1. /\ pc = "data" /\ taken' = taken /\ audio_lens' = audio_lens
      /\ AsyncChannel(c) /\ AsyncChannel(ch) /\ ch \in Channels
      /\ FilesTypeOK /\ FilesTypeOK' /\ taken \in 1 .. MaxBlocks
      /\ WriteTo(ch, DataOp(taken))
      /\ \/ ch < NumChannels /\ pc' = "header" /\ ch' = ch + 1
         \/ ~(ch < NumChannels) /\ pc' = "take" /\ ch' = 1
  BY DEF WriteBlock, own, AsyncInv, ShapeInv, TypeOK, Places
<1>2. /\ disk' = disk /\ buffer'[ch] = Put(buffer[ch], DataOp(taken))
      /\ \A d \in Channels \ {ch} : buffer'[d] = buffer[d]
  BY <1>1, WrittenTypes, WriteParts
<1>3. /\ Written(c)' = IF c = ch THEN taken ELSE Written(c)
      /\ Announced(c)' = Announced(c)
  BY <1>1, WavConstants DEF Written, Announced, Channels
<1>4. CASE c = ch
  <2>1. Written(c) = taken - 1 /\ Announced(c) = taken /\ buffer[c].data = <<>>
    BY <1>1, <1>4, WavConstants DEF AsyncChannel, Written, Announced, Channels
  <2>2. /\ buffer[c] \in Buffers /\ disk[c] \in Files
        /\ Flushed(c).data = disk[c].data \o <<>>
        /\ Flushed(c).declared = IF buffer[c].declared = NoHeader
                                 THEN disk[c].declared ELSE buffer[c].declared
    BY <1>1, <2>1, FlushedParts
  <2>3. /\ DataOp(taken) \in Buffers /\ DataOp(taken).data = <<taken>>
        /\ DataOp(taken).declared = NoHeader
    BY <1>1, WrittenTypes
  <2>4. /\ buffer'[c].data = buffer[c].data \o <<taken>>
        /\ buffer'[c].declared = buffer[c].declared
    <3>1. /\ Put(buffer[c], DataOp(taken)).data = buffer[c].data \o DataOp(taken).data
          /\ Put(buffer[c], DataOp(taken)).declared
               = IF DataOp(taken).declared = NoHeader THEN buffer[c].declared
                 ELSE DataOp(taken).declared
      BY <2>2, <2>3, PutParts
    <3>2. buffer'[c] = Put(buffer[c], DataOp(taken))
      BY <1>2, <1>4
    <3>3. QED
      BY ONLY <2>3, <3>1, <3>2
  <2>5. buffer'[c].data = <<taken>>
    BY <1>1, <2>1, <2>4
  <2>6. /\ Flushed(c)'.data = disk[c].data \o <<taken>>
        /\ Flushed(c)'.declared = Flushed(c).declared
    BY <1>1, <1>2, <2>2, <2>4, <2>5, FlushedPartsAfter
  <2>7. disk[c].data = Numbers(taken - 1)
    <3>1. disk[c].data \o <<>> = disk[c].data
      BY <2>2, ConcatEmptySeq DEF Files
    <3>2. QED
      BY <1>1, <2>1, <2>2, <3>1 DEF AsyncChannel
  <2>8. Numbers(taken - 1) \o <<taken>> = Numbers(taken)
    <3>1. ASSUME NEW n \in Nat PROVE Numbers(n) \o <<n + 1>> = Numbers(n + 1)
      BY DEF Numbers
    <3>2. taken - 1 \in Nat /\ (taken - 1) + 1 = taken
      BY <1>1
    <3>3. QED
      BY <3>1, <3>2
  <2>9. Len(buffer'[c].data) <= 1
    BY <2>5
  <2>10. pc' \notin {"open", "closed"} /\ pc' \notin {"seekBack", "data"}
    BY <1>1
  <2>11. QED
    BY <1>1, <1>2, <1>3, <1>4, <2>4, <2>6, <2>7, <2>8, <2>9, <2>10
       DEF AsyncChannel, Numbers, HeaderFor
<1>5. CASE c # ch
  <2>1. Flushed(c)' = Flushed(c) /\ disk'[c] = disk[c] /\ buffer'[c] = buffer[c]
    BY <1>2, <1>5, Untouched
  <2>2. QED
    BY <1>1, <1>3, <1>5, <2>1 DEF AsyncChannel, Numbers, HeaderFor
<1>6. QED
  BY <1>4, <1>5

(* Closing moves everything to disk.                                       *)
LEMMA AsyncCloses ==
  ASSUME AsyncInv, ShapeInv', recorder = "async", Close, NEW c \in Channels
  PROVE  AsyncChannel(c)'
<1>1. /\ pc = "take" /\ pc' = "closed" /\ ch' = ch /\ taken' = taken /\ audio_lens' = audio_lens
      /\ AsyncChannel(c) /\ FilesTypeOK /\ FilesTypeOK' /\ CloseAll
  BY DEF Close, own, AsyncInv, ShapeInv, TypeOK
<1>2. /\ disk'[c] = Flushed(c) /\ buffer'[c] = Nothing /\ buffer'[c].declared = NoHeader
      /\ Len(buffer'[c].data) <= 1
  BY <1>1, CloseParts, WrittenTypes, EmptySeq
<1>3. Written(c)' = Written(c) /\ Announced(c)' = Announced(c)
  BY <1>1 DEF Written, Announced
<1>4. Flushed(c)'.data = Flushed(c).data /\ Flushed(c)'.declared = Flushed(c).declared
  BY <1>1, <1>2, NothingHeldAfter
<1>5. QED
  BY <1>1, <1>2, <1>3, <1>4 DEF AsyncChannel, Numbers, HeaderFor

(* The library moves a part of a buffer to disk by itself.                 *)
LEMMA AsyncFlushes ==
  ASSUME AsyncInv, ShapeInv', recorder = "async", pc # "killed", NEW k \in Channels,
         SomeIsFlushed(k), UNCHANGED own, NEW c \in Channels
  PROVE  AsyncChannel(c)'
<1>1. /\ AsyncChannel(c) /\ AsyncChannel(k) /\ FilesTypeOK /\ FilesTypeOK'
      /\ UNCHANGED <<pc, ch, taken, audio_lens>>
  BY FlushParts DEF own, AsyncInv, ShapeInv, TypeOK
<1>2. Flushed(c)'.data = Flushed(c).data /\ Flushed(c)'.declared = Flushed(c).declared
  BY <1>1, FlushKeeps
<1>3. Written(c)' = Written(c) /\ Announced(c)' = Announced(c)
  BY <1>1 DEF Written, Announced
<1>4. CASE c # k
  <2>1. disk'[c] = disk[c] /\ buffer'[c] = buffer[c]
    BY <1>1, <1>4, FlushParts
  <2>2. QED
    BY <1>1, <1>2, <1>3, <2>1 DEF AsyncChannel, Numbers, HeaderFor
<1>5. CASE c = k
  <2>1. buffer'[c].declared = NoHeader
    BY <1>1, <1>5, FlushParts
  <2>2. buffer[c].declared # NoHeader \/ buffer[c].data # <<>>
    BY <1>1, <1>5, FlushParts
  <2>3. buffer[c] # Nothing /\ pc \notin {"open", "closed"}
    BY <1>1, <2>2, WrittenTypes DEF AsyncChannel
  <2>4. /\ Len(buffer'[c].data) <= 1
        /\ pc \in {"seekBack", "data"} /\ c = ch => buffer'[c].data = <<>>
    <3>1. CASE buffer'[c].data = buffer[c].data
      BY <1>1, <3>1 DEF AsyncChannel
    <3>2. CASE buffer[c].data # <<>> /\ buffer'[c].data = Tail(buffer[c].data)
      <4>1. buffer[c].data \in Seq(1 .. MaxBlocks)
        BY <1>1, FlushedParts DEF Buffers
      <4>2. Len(Tail(buffer[c].data)) = Len(buffer[c].data) - 1 /\ Len(buffer[c].data) \in Nat
        BY <3>2, <4>1, HeadTailProperties, LenProperties
      <4>3. Len(buffer[c].data) <= 1
        BY <1>1 DEF AsyncChannel
      <4>4. Len(buffer'[c].data) <= 1
        BY <3>2, <4>2, <4>3
      <4>5. QED
        BY <1>1, <3>2, <4>4 DEF AsyncChannel
    <3>3. QED
      BY <1>1, <1>5, <3>1, <3>2, FlushParts
  <2>5. QED
    BY <1>1, <1>2, <1>3, <2>1, <2>3, <2>4 DEF AsyncChannel, Numbers, HeaderFor
<1>6. QED
  BY <1>4, <1>5

(* A kill: whatever was held back is lost.                                 *)
LEMMA AsyncKilled ==
  ASSUME AsyncInv, ShapeInv', recorder = "async", Killed, NEW c \in Channels
  PROVE  pc' = "killed" /\ AfterKill(c)' /\ buffer'[c] = Nothing
<1>1. /\ pc # "killed" /\ pc' = "killed" /\ taken' = taken /\ LoseBuffers
      /\ ShapeInv /\ FilesTypeOK /\ AsyncChannel(c)
  BY DEF Killed, AsyncInv, ShapeInv, TypeOK
<1>2. disk' = disk /\ buffer'[c] = Nothing
  BY <1>1, LoseParts
<1>3. AfterKill(c)
  BY <1>1, AsyncCost
<1>4. QED
  BY <1>1, <1>2, <1>3 DEF AfterKill, HeaderNearData

(* The invariant of record_all_channels_wav is inductive.                  *)
LEMMA NextAsyncInv == AsyncInv /\ [Next]_vars => AsyncInv'
<1>1. ASSUME AsyncInv, Step PROVE AsyncInv'
  <2>1. ShapeInv /\ ShapeInv' /\ recorder' = recorder
    <3>1. ShapeInv'
      BY <1>1, StepShapeInv DEF AsyncInv
    <3>2. QED
      BY <1>1, <3>1 DEF AsyncInv, Step, OpenNext, OpenFails, Take, WriteHeader, Close,
         Call, SyncOpenFails, WriteOld, SyncWriteHeader, Return, Restart,
         SeekBack, WriteBlock, Killed, SomeIsFlushed, own
  <2>2. ASSUME recorder = "async", NEW c \in Channels
        PROVE  IF pc' = "killed" THEN AfterKill(c)' /\ buffer'[c] = Nothing
               ELSE AsyncChannel(c)'
    <3>1. CASE OpenNext("take")
      <4>1. pc' # "killed"
        BY <3>1 DEF OpenNext
      <4>2. QED
        BY <1>1, <2>1, <2>2, <3>1, <4>1, AsyncOpens
    <3>2. CASE OpenFails \/ Take
      <4>1. pc' # "killed"
        BY <3>2 DEF OpenFails, Take
      <4>2. QED
        BY <1>1, <2>1, <2>2, <3>2, <4>1, AsyncIdles
    <3>3. CASE WriteHeader
      <4>1. pc' # "killed"
        BY <3>3 DEF WriteHeader, write_wav_header
      <4>2. QED
        BY <1>1, <2>1, <2>2, <3>3, <4>1, AsyncWritesHeader
    <3>4. CASE SeekBack /\ UNCHANGED own
      <4>1. pc' # "killed"
        BY <3>4 DEF SeekBack
      <4>2. QED
        BY <1>1, <2>1, <2>2, <3>4, <4>1, AsyncSeeksBack
    <3>5. CASE WriteBlock("header", "take") /\ UNCHANGED own
      <4>1. pc' # "killed"
        BY <3>5 DEF WriteBlock
      <4>2. QED
        BY <1>1, <2>1, <2>2, <3>5, <4>1, AsyncWritesBlock
    <3>6. CASE Close
      <4>1. pc' # "killed"
        BY <3>6 DEF Close
      <4>2. QED
        BY <1>1, <2>1, <2>2, <3>6, <4>1, AsyncCloses
    <3>7. CASE Killed
      BY <1>1, <2>1, <2>2, <3>7, AsyncKilled
    <3>8. CASE \E k \in Channels : SomeIsFlushed(k) /\ UNCHANGED own
      <4>1. PICK k \in Channels : SomeIsFlushed(k) /\ UNCHANGED own
        BY <3>8
      <4>2. FilesTypeOK /\ pc' = pc
        BY <2>1, <4>1 DEF ShapeInv, TypeOK, SomeIsFlushed
      <4>3. buffer[k] # Nothing
        BY <4>1, <4>2, FlushParts, WrittenTypes
      <4>4. pc # "killed"
        BY <1>1, <2>2, <4>3 DEF AsyncInv
      <4>5. QED
        BY <1>1, <2>1, <2>2, <4>1, <4>2, <4>4, AsyncFlushes
    <3>9. QED
      BY <1>1, <2>2, <3>1, <3>2, <3>3, <3>4, <3>5, <3>6, <3>7, <3>8 DEF Step
  <2>3. QED
    BY <2>1, <2>2 DEF AsyncInv
<1>2. ASSUME AsyncInv, UNCHANGED vars PROVE AsyncInv'
  <2>1. ShapeInv'
    BY <1>2, NextShapeInv DEF AsyncInv
  <2>2. UNCHANGED <<disk, buffer, pc, ch, taken, recorder, audio_lens, initial>>
    BY <1>2 DEF vars, fileVars, own
  <2>3. \A c \in Channels : AsyncChannel(c)' = AsyncChannel(c)
    BY <2>2 DEF AsyncChannel, Flushed, Put, Numbers, HeaderFor, Written, Announced
  <2>4. \A c \in Channels : AfterKill(c)' = AfterKill(c)
    BY <2>2 DEF AfterKill, HeaderNearData
  <2>5. QED
    BY <1>2, <2>1, <2>2, <2>3, <2>4 DEF AsyncInv
<1>3. QED
  BY <1>1, <1>2, NextIsStep

(* record_all_channels_wav begins with no file and empty streams.          *)
LEMMA InitAsyncInv == Init => AsyncInv
<1> SUFFICES ASSUME Init, recorder = "async", NEW c \in Channels PROVE AsyncChannel(c)
  BY InitShapeInv DEF AsyncInv, Init
<1>1. /\ disk[c] = Missing /\ buffer[c] = Nothing /\ audio_lens[c] = 0
      /\ pc = "open" /\ taken = 0 /\ FilesTypeOK
  BY InitShapeInv DEF Init, WavInit, ShapeInv, TypeOK
<1>2. /\ Missing.data = <<>> /\ Missing.declared = NoHeader /\ Nothing.data = <<>>
      /\ Nothing.declared = NoHeader
  BY WrittenTypes
<1>3. Written(c) = 0 /\ Announced(c) = 0
  BY <1>1 DEF Written, Announced
<1>4. Flushed(c).data = <<>> /\ Flushed(c).declared = NoHeader
  BY <1>1, <1>2, NothingHeld
<1>5. Numbers(0) = <<>> /\ HeaderFor(0) = NoHeader
  BY DEF Numbers, HeaderFor
<1>6. BlockBytes * 0 % Wrap = 0
  BY WavConstants
<1>7. Len(buffer[c].data) <= 1 /\ buffer[c].data = <<>> /\ buffer[c].declared = NoHeader
  BY <1>1, <1>2, EmptySeq
<1>8. QED
  BY <1>1, <1>3, <1>4, <1>5, <1>6, <1>7 DEF AsyncChannel

(* The invariant of record_all_channels_wav.                               *)
THEOREM AsyncInvariant == Spec => []AsyncInv
<1>1. QED
  BY InitAsyncInv, NextAsyncInv, PTL DEF Spec

(* The recorders are type correct.                                         *)
THEOREM RecordersTypeCorrect == Spec => []TypeOK
<1>1. AsyncInv => TypeOK
  BY DEF AsyncInv, ShapeInv
<1>2. QED
  BY <1>1, AsyncInvariant, PTL

(* At any moment a kill costs a file of record_all_channels_wav two blocks *)
(* at most, and leaves a header at most one block ahead of the data.       *)
THEOREM KillsAreCheap == Spec => []KillCostsTwoBlocks
<1>1. AsyncInv => KillCostsTwoBlocks
  BY AsyncCost DEF AsyncInv, KillCostsTwoBlocks, AfterKill
<1>2. QED
  BY <1>1, AsyncInvariant, PTL

(* When record_all_channels_wav returns, every file has every block, and a *)
(* header that declares them.                                              *)
THEOREM FilesAreExact == Spec => []ClosedFilesAreExact
<1>1. ASSUME AsyncInv, recorder = "async", pc = "closed", NEW c \in Channels
      PROVE  /\ disk[c].data = [i \in 1 .. taken |-> i]
             /\ taken > 0 => disk[c].declared = BlockBytes * taken % Wrap
  <2>1. AsyncChannel(c) /\ FilesTypeOK /\ taken \in Nat
    BY <1>1 DEF AsyncInv, ShapeInv, TypeOK
  <2>2. buffer[c] = Nothing /\ Written(c) = taken /\ Announced(c) = taken
    BY <1>1, <2>1 DEF AsyncChannel, Written, Announced
  <2>3. disk[c].data = Flushed(c).data /\ disk[c].declared = Flushed(c).declared
    BY <2>1, <2>2, NothingHeld
  <2>4. QED
    BY <2>1, <2>2, <2>3 DEF AsyncChannel, Numbers, HeaderFor
<1>2. AsyncInv => ClosedFilesAreExact
  BY <1>1 DEF ClosedFilesAreExact
<1>3. QED
  BY <1>2, AsyncInvariant, PTL
------------------------------------------------------------------------------
(* record_all_channels_wav_sync.  The blocks of a file come in the order   *)
(* they were taken, and none is later than n.                              *)
Rising(s, n) == \A i \in 1 .. Len(s) :
                  s[i] <= n /\ \A j \in 1 .. Len(s) : i < j => s[i] < s[j]

(* Blocks follow a header, and rise.                                       *)
Good(file, n) == Rising(file.data, n) /\ (file.declared = NoHeader => file.data = <<>>)

(* The header that the call writes for a channel.                          *)
NewHeader(c) == (BlockBytes + SizeOf(initial[c]) - WAV_HEADER_LEN) % Wrap

(* The channels whose turn is to come, has come and is over.               *)
Waits(c) == pc # "return" /\ (c > ch \/ (c = ch /\ pc = "writeOld"))
HasTurn(c) == c = ch /\ pc \in {"header", "seekBack", "data"}
IsDone(c) == pc = "return" \/ c < ch

(* What the stream of a channel will leave: nothing yet, what the file     *)
(* held, with its header or the new one, or that and the new block.        *)
SyncStream(c) ==
  /\ Waits(c) => disk[c] = Empty /\ buffer[c] = Nothing
  /\ HasTurn(c) => /\ Flushed(c).data = initial[c].data
                   /\ Flushed(c).declared = IF pc = "header" THEN initial[c].declared
                                            ELSE NewHeader(c)
  /\ IsDone(c) => /\ Flushed(c).data = Append(initial[c].data, taken)
                  /\ Flushed(c).declared = NewHeader(c)

SyncChannel(c) ==
  /\ Good(disk[c], taken) /\ Good(initial[c], taken - 1)
  /\ pc \in {"idle", "killed", "open"} => buffer[c] = Nothing
  /\ pc = "open" => disk[c] = IF c < ch THEN Empty ELSE initial[c]
  /\ pc \in {"writeOld", "header", "seekBack", "data", "return"} => SyncStream(c)

SyncInv == ShapeInv /\ (recorder = "sync" => \A c \in Channels : SyncChannel(c))
------------------------------------------------------------------------------
(* Blocks that rise, and the next one.                                     *)
LEMMA RisingMore ==
  ASSUME NEW s \in Seq(1 .. MaxBlocks), NEW n \in Nat, Rising(s, n - 1)
  PROVE  /\ Rising(s, n)
         /\ n \in 1 .. MaxBlocks => Rising(Append(s, n), n)
<1>1. /\ Len(s) \in Nat /\ \A i \in 1 .. Len(s) : s[i] \in Nat /\ s[i] <= n - 1
      /\ \A i, j \in 1 .. Len(s) : i < j => s[i] < s[j]
  <2>1. Len(s) \in Nat /\ \A i \in 1 .. Len(s) : s[i] \in 1 .. MaxBlocks
    BY ElementOfSeq, LenProperties
  <2>2. QED
    BY <2>1 DEF Rising
<1>2. Rising(s, n)
  BY <1>1 DEF Rising
<1>3. ASSUME n \in 1 .. MaxBlocks PROVE Rising(Append(s, n), n)
  <2>1. /\ Len(Append(s, n)) = Len(s) + 1
        /\ \A i \in 1 .. Len(s) + 1 :
             Append(s, n)[i] = IF i <= Len(s) THEN s[i] ELSE n
    BY <1>3
  <2>2. QED
    BY <1>1, <2>1 DEF Rising
<1>4. QED
  BY <1>2, <1>3

(* A block behind a file and its buffer.                                   *)
LEMMA BlockBehind ==
  \A f, b \in Seq(1 .. MaxBlocks), x \in 1 .. MaxBlocks :
    f \o (b \o <<x>>) = Append(f \o b, x)
<1> DEFINE V == 1 .. MaxBlocks
<1> SUFFICES ASSUME NEW f \in Seq(V), NEW b \in Seq(V), NEW x \in V
             PROVE  f \o (b \o <<x>>) = Append(f \o b, x)
  OBVIOUS
<1> HIDE DEF V
<1>1. f \o b \in Seq(V)
  BY ConcatProperties
<1>2. <<x>> \in Seq(V)
  OBVIOUS
<1>3. b \o <<x>> \in Seq(V) /\ f \o (b \o <<x>>) \in Seq(V) /\ Append(f \o b, x) \in Seq(V)
  BY <1>1, <1>2, ConcatProperties, AppendProperties
<1>4. Len(f \o (b \o <<x>>)) = Len(Append(f \o b, x))
  BY <1>1
<1>5. ASSUME NEW i \in 1 .. Len(f \o (b \o <<x>>))
      PROVE  (f \o (b \o <<x>>))[i] = Append(f \o b, x)[i]
  BY <1>1
<1>6. QED
  BY <1>3, <1>4, <1>5, SeqEqual

(* The beginning of blocks that rise rises.                                *)
LEMMA RisingPrefix ==
  ASSUME NEW f \in Seq(1 .. MaxBlocks), NEW b \in Seq(1 .. MaxBlocks), NEW n \in Nat,
         Rising(f \o b, n)
  PROVE  Rising(f, n)
<1>1. /\ Len(f) \in Nat /\ Len(b) \in Nat /\ Len(f \o b) = Len(f) + Len(b)
      /\ \A i \in 1 .. Len(f) : (f \o b)[i] = f[i]
  BY ConcatProperties, LenProperties
<1>2. \A i \in 1 .. Len(f) : i \in 1 .. Len(f \o b)
  BY <1>1
<1>3. QED
  BY <1>1, <1>2 DEF Rising

(* A file that was good with n is with a later block.                      *)
LEMMA GoodLater ==
  ASSUME NEW f \in Files, NEW n \in Nat, Good(f, n - 1)
  PROVE  Good(f, n)
BY RisingMore DEF Good, Files

(* The new header is a size.                                               *)
LEMMA NewHeaderIsSize ==
  ASSUME ShapeInv, NEW c \in Channels
  PROVE  /\ BlockBytes + SizeOf(initial[c]) - WAV_HEADER_LEN \in Int
         /\ NewHeader(c) # NoHeader
<1>1. initial[c] \in Files
  BY DEF ShapeInv, TypeOK, Files
<1>2. BlockBytes + SizeOf(initial[c]) - WAV_HEADER_LEN \in Int
  BY <1>1, SizeIsInt, WavConstants DEF WAV_HEADER_LEN
<1>3. QED
  BY <1>2, WrittenTypes DEF NewHeader

(* Whatever a stream will leave is good.                                   *)
LEMMA FlushedGood ==
  ASSUME ShapeInv, recorder = "sync", NEW c \in Channels, SyncChannel(c)
  PROVE  Good(Flushed(c), taken)
<1>1. /\ disk[c] \in Files /\ initial[c] \in Files /\ Flushed(c) \in Files
      /\ taken \in Nat /\ ch \in Channels /\ c \in Nat /\ ch \in Nat /\ FilesTypeOK
  <2>1. FilesTypeOK /\ taken \in Nat /\ ch \in Channels /\ initial[c] \in Files
    BY DEF ShapeInv, TypeOK, Files
  <2>2. disk[c] \in Files /\ Flushed(c) \in Files
    BY <2>1, FlushedParts
  <2>3. QED
    BY <2>1, <2>2, WavConstants DEF Channels
<1>2. CASE pc \in {"idle", "killed", "open"}
  <2>1. buffer[c] = Nothing /\ Good(disk[c], taken)
    BY <1>2 DEF SyncChannel
  <2>2. QED
    BY <1>1, <2>1, NothingHeld DEF Good
<1>3. CASE pc \in {"writeOld", "header", "seekBack", "data", "return"}
  <2>1. SyncStream(c) /\ Good(initial[c], taken - 1) /\ taken \in 1 .. MaxBlocks
    BY <1>3 DEF SyncChannel, ShapeInv, Places, TypeOK
  <2>2. Good(initial[c], taken)
    BY <1>1, <2>1, GoodLater
  <2>3. CASE Waits(c)
    <3>1. disk[c] = Empty /\ buffer[c] = Nothing
      BY <2>1, <2>3 DEF SyncStream
    <3>2. Flushed(c).data = <<>> /\ Flushed(c).declared = NoHeader
      BY <1>1, <3>1, NothingHeld, WrittenTypes
    <3>3. QED
      BY <3>2, EmptySeq DEF Good, Rising
  <2>4. CASE HasTurn(c)
    <3>1. /\ Flushed(c).data = initial[c].data
          /\ Flushed(c).declared = initial[c].declared \/ Flushed(c).declared = NewHeader(c)
      BY <2>1, <2>4 DEF SyncStream
    <3>2. QED
      BY <2>2, <3>1, NewHeaderIsSize DEF Good
  <2>5. CASE IsDone(c)
    <3>1. /\ Flushed(c).data = Append(initial[c].data, taken)
          /\ Flushed(c).declared = NewHeader(c)
      BY <2>1, <2>5 DEF SyncStream
    <3>2. Rising(Append(initial[c].data, taken), taken)
      BY <1>1, <2>1, RisingMore DEF Good, Files
    <3>3. QED
      BY <3>1, <3>2, NewHeaderIsSize DEF Good
  <2>6. QED
    BY <1>1, <1>3, <2>3, <2>4, <2>5 DEF Waits, HasTurn, IsDone
<1>4. QED
  BY <1>2, <1>3 DEF ShapeInv, TypeOK, Places
------------------------------------------------------------------------------
(* The call begins: it finds the files as the disk has them.               *)
LEMMA SyncCalls ==
  ASSUME SyncInv, ShapeInv', recorder = "sync", Call, NEW c \in Channels
  PROVE  SyncChannel(c)'
<1>1. /\ pc = "idle" /\ pc' = "open" /\ taken' = taken + 1 /\ initial' = disk
      /\ disk' = disk /\ buffer' = buffer /\ ch' = 1 /\ SyncChannel(c)
      /\ taken \in Nat /\ disk[c] \in Files /\ ~(c < 1)
  <2>1. /\ pc = "idle" /\ pc' = "open" /\ taken' = taken + 1 /\ initial' = disk
        /\ disk' = disk /\ buffer' = buffer /\ ch' = ch
    BY DEF Call, fileVars
  <2>2. FilesTypeOK /\ taken \in Nat /\ ch = 1 /\ SyncChannel(c)
    BY <2>1 DEF SyncInv, ShapeInv, TypeOK, Places
  <2>3. disk[c] \in Files /\ ~(c < 1)
    <3>1. disk[c] \in Files
      BY <2>2, FlushedParts
    <3>2. ~(c < 1)
      BY WavConstants DEF Channels
    <3>3. QED
      BY <3>1, <3>2
  <2>4. QED
    BY <2>1, <2>2, <2>3
<1>2. Good(disk[c], taken) /\ buffer[c] = Nothing
  BY <1>1 DEF SyncChannel
<1>3. taken' - 1 = taken /\ taken' \in Nat
  BY <1>1
<1>4. Good(disk[c], taken')
  BY <1>1, <1>2, <1>3, GoodLater
<1>5. Good(disk[c], taken)' /\ Good(initial[c], taken - 1)'
  BY <1>1, <1>2, <1>3, <1>4 DEF Good, Rising
<1>6. QED
  BY <1>1, <1>2, <1>5 DEF SyncChannel

(* An empty file is good.                                                  *)
LEMMA EmptyIsGood == \A n \in Int : Good(Empty, n)
BY WrittenTypes, EmptySeq DEF Good, Rising

(* What a call keeps while it runs.                                        *)
LEMMA SyncKeeps ==
  ASSUME SyncInv, recorder = "sync", NEW c \in Channels,
         initial' = initial, taken' = taken
  PROVE  Good(initial[c], taken - 1)' /\ NewHeader(c)' = NewHeader(c)
BY DEF SyncInv, SyncChannel, Good, Rising, NewHeader, SizeOf

(* Opening truncates one file after the other.                             *)
LEMMA SyncOpens ==
  ASSUME SyncInv, ShapeInv', recorder = "sync", OpenNext("writeOld"), NEW c \in Channels
  PROVE  SyncChannel(c)'
<1>1. /\ pc = "open" /\ taken' = taken /\ initial' = initial /\ OpenForOutput(ch)
      /\ SyncChannel(c) /\ taken \in Nat /\ FilesTypeOK /\ ch \in Channels
      /\ \/ ch < NumChannels /\ pc' = "open" /\ ch' = ch + 1
         \/ ~(ch < NumChannels) /\ pc' = "writeOld" /\ ch' = 1
  BY DEF OpenNext, own, SyncInv, ShapeInv, TypeOK
<1>2. /\ disk'[ch] = Empty /\ buffer'[ch] = Nothing
      /\ \A d \in Channels \ {ch} : disk'[d] = disk[d] /\ buffer'[d] = buffer[d]
  BY <1>1, OpenParts
<1>3. buffer[c] = Nothing /\ disk[c] = IF c < ch THEN Empty ELSE initial[c]
  BY <1>1 DEF SyncChannel
<1>4. buffer'[c] = Nothing /\ disk'[c] = IF c < ch \/ c = ch THEN Empty ELSE initial[c]
  BY <1>2, <1>3
<1>5. Good(disk[c], taken)'
  <2>1. Good(disk'[c], taken)
    BY <1>1, <1>2, EmptyIsGood DEF SyncChannel
  <2>2. QED
    BY <1>1, <2>1 DEF Good, Rising
<1>6. Good(initial[c], taken - 1)'
  BY <1>1, SyncKeeps
<1>7. CASE ch < NumChannels
  <2>1. c < ch' <=> c < ch \/ c = ch
    BY <1>1, <1>7, WavConstants DEF Channels
  <2>2. QED
    BY <1>1, <1>4, <1>5, <1>6, <1>7, <2>1 DEF SyncChannel
<1>8. CASE ~(ch < NumChannels)
  <2>1. disk'[c] = Empty
    BY <1>1, <1>4, <1>8, WavConstants DEF Channels
  <2>2. ~(c < 1)
    BY DEF Channels
  <2>3. SyncStream(c)'
    BY <1>1, <1>4, <1>8, <2>1, <2>2 DEF SyncStream, Waits, HasTurn, IsDone, Empty, Nothing,
       Missing, Writes
  <2>4. QED
    BY <1>1, <1>4, <1>5, <1>6, <1>8, <2>3 DEF SyncChannel
<1>9. QED
  BY <1>7, <1>8

(* A call that fails or is killed, and the program that starts again.      *)
LEMMA SyncStops ==
  ASSUME SyncInv, ShapeInv', recorder = "sync", SyncOpenFails \/ Restart \/ Killed,
         NEW c \in Channels
  PROVE  SyncChannel(c)'
<1>1. /\ pc' \in {"idle", "killed"} /\ taken' = taken /\ initial' = initial /\ disk' = disk
      /\ SyncChannel(c) /\ FilesTypeOK
      /\ LoseBuffers \/ (pc \in {"open", "killed"} /\ buffer' = buffer)
  BY DEF SyncOpenFails, Restart, Killed, LoseBuffers, own, fileVars, SyncInv, ShapeInv, TypeOK
<1>2. buffer'[c] = Nothing
  BY <1>1, LoseParts DEF SyncChannel
<1>3. Good(disk[c], taken)' /\ Good(initial[c], taken - 1)'
  BY <1>1, SyncKeeps DEF SyncChannel, Good, Rising
<1>4. QED
  BY <1>1, <1>2, <1>3 DEF SyncChannel

(* What the file held goes back, header and all.                           *)
LEMMA SyncWritesOld ==
  ASSUME SyncInv, ShapeInv', recorder = "sync", WriteOld, NEW c \in Channels
  PROVE  SyncChannel(c)'
<1>1. /\ pc = "writeOld" /\ pc' = "header" /\ UNCHANGED <<ch, taken, initial>>
      /\ SyncChannel(c) /\ taken \in Nat /\ FilesTypeOK /\ FilesTypeOK' /\ ch \in Channels
      /\ initial[ch] \in Files /\ WriteTo(ch, OldContent(initial[ch]))
  BY DEF WriteOld, own, SyncInv, ShapeInv, TypeOK, Files
<1>2. /\ OldContent(initial[ch]) \in Buffers
      /\ OldContent(initial[ch]).data = initial[ch].data
      /\ OldContent(initial[ch]).declared = initial[ch].declared
  BY <1>1, WrittenTypes
<1>3. /\ disk' = disk /\ buffer'[ch] = Put(buffer[ch], OldContent(initial[ch]))
      /\ \A d \in Channels \ {ch} : buffer'[d] = buffer[d]
  BY <1>1, <1>2, WriteParts
<1>4. Good(disk[c], taken)' /\ Good(initial[c], taken - 1)'
  BY <1>1, <1>3, SyncKeeps DEF SyncChannel, Good, Rising
<1>5. SyncStream(c) /\ NewHeader(c)' = NewHeader(c)
  BY <1>1, SyncKeeps DEF SyncChannel
<1>6. SyncStream(c)'
  <2>1. CASE c = ch
    <3>1. disk[c] = Empty /\ buffer[c] = Nothing
      BY <1>1, <1>5, <2>1 DEF SyncStream, Waits
    <3>2. /\ buffer'[c].data = Nothing.data \o initial[c].data
          /\ buffer'[c].declared = IF initial[c].declared = NoHeader THEN NoHeader
                                   ELSE initial[c].declared
      <4>1. /\ Put(Nothing, OldContent(initial[c])).data = Nothing.data \o initial[c].data
            /\ Put(Nothing, OldContent(initial[c])).declared
                 = IF initial[c].declared = NoHeader THEN NoHeader ELSE initial[c].declared
        <5>1. /\ OldContent(initial[c]) \in Buffers /\ Nothing \in Buffers
              /\ OldContent(initial[c]).data = initial[c].data
              /\ OldContent(initial[c]).declared = initial[c].declared
              /\ Nothing.declared = NoHeader
          BY <1>2, <2>1, WrittenTypes
        <5>2. /\ Put(Nothing, OldContent(initial[c])).data
                   = Nothing.data \o OldContent(initial[c]).data
              /\ Put(Nothing, OldContent(initial[c])).declared
                   = IF OldContent(initial[c]).declared = NoHeader THEN Nothing.declared
                     ELSE OldContent(initial[c]).declared
          BY <5>1, PutParts
        <5>3. QED
          BY ONLY <5>1, <5>2
      <4>2. buffer'[c] = Put(Nothing, OldContent(initial[c]))
        BY <1>3, <2>1, <3>1
      <4>3. QED
        BY ONLY <4>1, <4>2
    <3>3. initial[c].data \in Seq(1 .. MaxBlocks)
      BY <1>1, <2>1 DEF Files
    <3>4. /\ buffer'[c].data = initial[c].data
          /\ disk'[c].data = <<>> /\ disk'[c].declared = NoHeader
      BY <1>3, <3>1, <3>2, <3>3, WrittenTypes, ConcatEmptySeq
    <3>5. /\ Flushed(c)'.data = disk'[c].data \o buffer'[c].data
          /\ Flushed(c)'.declared = IF buffer'[c].declared = NoHeader
                                    THEN disk'[c].declared ELSE buffer'[c].declared
      BY <1>1, FlushedPartsAfter
    <3>6. Flushed(c)'.data = initial[c].data /\ Flushed(c)'.declared = initial[c].declared
      BY <3>2, <3>3, <3>4, <3>5, ConcatEmptySeq
    <3>7. ~(c > ch) /\ ~(c < ch)
      BY <2>1 DEF Channels
    <3>8. QED
      BY <1>1, <2>1, <3>6, <3>7 DEF SyncStream, Waits, HasTurn, IsDone
  <2>2. CASE c # ch
    <3>1. Flushed(c)' = Flushed(c) /\ disk'[c] = disk[c] /\ buffer'[c] = buffer[c]
      BY <1>3, <2>2, Untouched
    <3>2. QED
      BY <1>1, <1>5, <2>2, <3>1 DEF SyncStream, Waits, HasTurn, IsDone, Empty, Missing,
         Nothing, Writes
  <2>3. QED
    BY <2>1, <2>2
<1>7. QED
  BY <1>1, <1>4, <1>6 DEF SyncChannel

(* seekp moves what waits to disk: a new header waits, or nothing.         *)
LEMMA SyncSeeks ==
  ASSUME SyncInv, ShapeInv', recorder = "sync", SyncWriteHeader \/ (SeekBack /\ UNCHANGED own),
         NEW c \in Channels
  PROVE  SyncChannel(c)'
<1>1. /\ pc \in {"header", "seekBack"} /\ UNCHANGED <<ch, taken, initial>>
      /\ SyncChannel(c) /\ taken \in Nat /\ FilesTypeOK /\ FilesTypeOK' /\ ch \in Channels
      /\ ShapeInv
  BY DEF SyncWriteHeader, SeekBack, own, SyncInv, ShapeInv, TypeOK
<1>2. /\ disk'[ch] = Flushed(ch) /\ pc' \in {"seekBack", "data"}
      /\ \A d \in Channels \ {ch} : disk'[d] = disk[d] /\ buffer'[d] = buffer[d]
      /\ \/ /\ pc = "header" /\ buffer'[ch].data = <<>> /\ buffer'[ch].declared = NewHeader(ch)
         \/ pc = "seekBack" /\ buffer'[ch] = Nothing
  <2>1. CASE SyncWriteHeader
    <3>1. /\ BlockBytes + SizeOf(initial[ch]) - WAV_HEADER_LEN \in Int /\ pc = "header"
          /\ write_wav_header(ch, BlockBytes + SizeOf(initial[ch]) - WAV_HEADER_LEN)
      BY <1>1, <2>1, NewHeaderIsSize DEF SyncWriteHeader
    <3>2. /\ disk'[ch] = Flushed(ch) /\ pc' \in {"seekBack", "data"}
          /\ buffer'[ch] = HeaderOp(BlockBytes + SizeOf(initial[ch]) - WAV_HEADER_LEN)
          /\ \A d \in Channels \ {ch} : disk'[d] = disk[d] /\ buffer'[d] = buffer[d]
      BY <1>1, <3>1, HeaderParts
    <3>3. buffer'[ch].data = <<>> /\ buffer'[ch].declared = NewHeader(ch)
      BY <3>1, <3>2, WrittenTypes DEF NewHeader
    <3>4. QED
      BY <3>1, <3>2, <3>3
  <2>2. CASE SeekBack
    BY <1>1, <2>2, WrittenTypes, SeekParts DEF SeekBack
  <2>3. QED
    BY <2>1, <2>2
<1>3. Good(initial[c], taken - 1)' /\ NewHeader(c)' = NewHeader(c)
  BY <1>1, SyncKeeps
<1>4. SyncStream(c)
  BY <1>1 DEF SyncChannel
<1>5. CASE c = ch
  <2>1. HasTurn(c) /\ ~Waits(c) /\ ~IsDone(c) /\ HasTurn(c)' /\ ~Waits(c)' /\ ~IsDone(c)'
    BY <1>1, <1>2, <1>5 DEF HasTurn, Waits, IsDone, Channels
  <2>2. /\ Flushed(c).data = initial[c].data
        /\ Flushed(c).declared = IF pc = "header" THEN initial[c].declared ELSE NewHeader(c)
    BY <1>4, <2>1 DEF SyncStream
  <2>3. Good(Flushed(c), taken)
    BY <1>1, FlushedGood
  <2>4. Good(disk[c], taken)'
    BY <1>1, <1>2, <1>5, <2>3 DEF Good, Rising
  <2>5. NewHeader(c) # NoHeader
    BY <1>1, NewHeaderIsSize
  <2>6. Flushed(c)'.data = initial[c].data /\ Flushed(c)'.declared = NewHeader(c)
    <3>1. CASE pc = "header"
      <4>1. buffer'[c].data = <<>> /\ buffer'[c].declared = NewHeader(c)
        BY <1>2, <1>5, <3>1
      <4>2. disk'[c].data = initial[c].data
        BY <1>2, <1>5, <2>2
      <4>3. initial[c].data \in Seq(1 .. MaxBlocks)
        BY <1>1 DEF ShapeInv, TypeOK
      <4>4. initial[c].data \o <<>> = initial[c].data
        BY <4>3, ConcatEmptySeq
      <4>5. QED
        BY <1>1, <2>5, <4>1, <4>2, <4>4, FlushedPartsAfter
    <3>2. CASE pc = "seekBack"
      <4>1. buffer'[c] = Nothing /\ disk'[c] = Flushed(c)
        BY <1>2, <1>5, <3>2
      <4>2. QED
        BY <1>1, <2>2, <3>2, <4>1, NothingHeldAfter
    <3>3. QED
      BY <1>1, <3>1, <3>2
  <2>7. pc' # "header" /\ initial' = initial
    BY <1>1, <1>2
  <2>8. SyncStream(c)'
    BY <1>3, <2>1, <2>6, <2>7 DEF SyncStream
  <2>9. QED
    BY <1>2, <1>3, <2>4, <2>8 DEF SyncChannel
<1>6. CASE c # ch
  <2>1. Flushed(c)' = Flushed(c) /\ disk'[c] = disk[c] /\ buffer'[c] = buffer[c]
    BY <1>2, <1>6, Untouched
  <2>2. Good(disk[c], taken)'
    BY <1>1, <2>1 DEF SyncChannel, Good, Rising
  <2>3. SyncStream(c)'
    BY <1>1, <1>2, <1>3, <1>4, <1>6, <2>1 DEF SyncStream, Waits, HasTurn, IsDone, Empty,
       Missing, Nothing, Writes
  <2>4. QED
    BY <1>2, <1>3, <2>2, <2>3 DEF SyncChannel
<1>7. QED
  BY <1>5, <1>6

(* The new block goes behind what the file held.                           *)
LEMMA SyncWritesBlock ==
  ASSUME SyncInv, ShapeInv', recorder = "sync", WriteBlock("writeOld", "return"),
         UNCHANGED own, NEW c \in Channels
  PROVE  SyncChannel(c)'
<1>1. /\ pc = "data" /\ UNCHANGED <<taken, initial>>
      /\ SyncChannel(c) /\ FilesTypeOK /\ FilesTypeOK' /\ ch \in Channels
      /\ taken \in 1 .. MaxBlocks /\ WriteTo(ch, DataOp(taken))
      /\ \/ ch < NumChannels /\ pc' = "writeOld" /\ ch' = ch + 1
         \/ ~(ch < NumChannels) /\ pc' = "return" /\ ch' = 1
  BY DEF WriteBlock, own, SyncInv, ShapeInv, TypeOK, Places
<1>2. /\ disk' = disk /\ buffer'[ch] = Put(buffer[ch], DataOp(taken))
      /\ \A d \in Channels \ {ch} : buffer'[d] = buffer[d]
  BY <1>1, WrittenTypes, WriteParts
<1>3. /\ Good(disk[c], taken)' /\ Good(initial[c], taken - 1)'
      /\ SyncStream(c) /\ NewHeader(c)' = NewHeader(c)
  BY <1>1, <1>2, SyncKeeps DEF SyncChannel, Good, Rising
<1>4. ~HasTurn(c)'
  BY <1>1 DEF HasTurn
<1>5. CASE c = ch
  <2>1. HasTurn(c) /\ IsDone(c)' /\ ~Waits(c)'
    BY <1>1, <1>5, WavConstants DEF HasTurn, IsDone, Waits, Channels
  <2>2. Flushed(c).data = initial[c].data /\ Flushed(c).declared = NewHeader(c)
    BY <1>1, <1>3, <2>1 DEF SyncStream
  <2>3. /\ buffer[c] \in Buffers /\ disk[c] \in Files
        /\ Flushed(c).data = disk[c].data \o buffer[c].data
        /\ Flushed(c).declared = IF buffer[c].declared = NoHeader
                                 THEN disk[c].declared ELSE buffer[c].declared
    BY <1>1, FlushedParts
  <2>4. /\ DataOp(taken) \in Buffers /\ DataOp(taken).data = <<taken>>
        /\ DataOp(taken).declared = NoHeader
    BY <1>1, WrittenTypes
  <2>5. /\ buffer'[c].data = buffer[c].data \o <<taken>>
        /\ buffer'[c].declared = buffer[c].declared
    <3>1. /\ Put(buffer[c], DataOp(taken)).data = buffer[c].data \o DataOp(taken).data
          /\ Put(buffer[c], DataOp(taken)).declared
               = IF DataOp(taken).declared = NoHeader THEN buffer[c].declared
                 ELSE DataOp(taken).declared
      BY <2>3, <2>4, PutParts
    <3>2. buffer'[c] = Put(buffer[c], DataOp(taken))
      BY <1>2, <1>5
    <3>3. QED
      BY ONLY <2>4, <3>1, <3>2
  <2>6. /\ Flushed(c)'.data = disk[c].data \o (buffer[c].data \o <<taken>>)
        /\ Flushed(c)'.declared = NewHeader(c)
    BY <1>1, <1>2, <2>2, <2>3, <2>5, FlushedPartsAfter
  <2>7. disk[c].data \o (buffer[c].data \o <<taken>>) = Append(initial[c].data, taken)
    <3>1. disk[c].data \in Seq(1 .. MaxBlocks) /\ buffer[c].data \in Seq(1 .. MaxBlocks)
      BY <2>3 DEF Files, Buffers
    <3>2. taken \in 1 .. MaxBlocks
      BY <1>1
    <3>3. disk[c].data \o (buffer[c].data \o <<taken>>)
            = Append(disk[c].data \o buffer[c].data, taken)
      BY ONLY <3>1, <3>2, BlockBehind, Zenon
    <3>4. QED
      BY <2>2, <2>3, <3>3
  <2>8. SyncStream(c)'
    BY <1>1, <1>3, <1>4, <2>1, <2>6, <2>7 DEF SyncStream
  <2>9. QED
    BY <1>1, <1>3, <2>8 DEF SyncChannel
<1>6. CASE c # ch
  <2>1. Flushed(c)' = Flushed(c) /\ disk'[c] = disk[c] /\ buffer'[c] = buffer[c]
    BY <1>2, <1>6, Untouched
  <2>2. (Waits(c)' => Waits(c)) /\ (IsDone(c)' => IsDone(c))
    BY <1>1, <1>6, WavConstants DEF Waits, IsDone, Channels
  <2>3. SyncStream(c)'
    BY <1>1, <1>3, <1>4, <2>1, <2>2 DEF SyncStream, Empty, Missing, Nothing, Writes
  <2>4. QED
    BY <1>1, <1>3, <2>3 DEF SyncChannel
<1>7. QED
  BY <1>5, <1>6

(* The call returns, with everything on disk.                              *)
LEMMA SyncReturns ==
  ASSUME SyncInv, ShapeInv', recorder = "sync", Return, NEW c \in Channels
  PROVE  SyncChannel(c)'
<1>1. /\ pc = "return" /\ pc' = "idle" /\ UNCHANGED <<taken, initial>> /\ CloseAll
      /\ SyncChannel(c) /\ FilesTypeOK /\ ShapeInv
  BY DEF Return, own, SyncInv, ShapeInv, TypeOK
<1>2. disk'[c] = Flushed(c) /\ buffer'[c] = Nothing
  BY <1>1, CloseParts
<1>3. Good(Flushed(c), taken)
  BY <1>1, FlushedGood
<1>4. Good(disk[c], taken)' /\ Good(initial[c], taken - 1)'
  BY <1>1, <1>2, <1>3, SyncKeeps DEF Good, Rising
<1>5. QED
  BY <1>1, <1>2, <1>4 DEF SyncChannel

(* The library moves a part of a buffer to disk by itself.                 *)
LEMMA SyncFlushes ==
  ASSUME SyncInv, ShapeInv', recorder = "sync", NEW k \in Channels, SomeIsFlushed(k),
         UNCHANGED own, NEW c \in Channels
  PROVE  SyncChannel(c)'
<1>1. /\ SyncChannel(c) /\ FilesTypeOK /\ FilesTypeOK' /\ ShapeInv /\ taken \in Nat
      /\ UNCHANGED <<pc, ch, taken, initial>>
  BY FlushParts DEF own, SyncInv, ShapeInv, TypeOK
<1>2. Flushed(c)'.data = Flushed(c).data /\ Flushed(c)'.declared = Flushed(c).declared
  BY <1>1, FlushKeeps
<1>3. Good(initial[c], taken - 1)' /\ NewHeader(c)' = NewHeader(c)
  BY <1>1, SyncKeeps
<1>4. CASE c # k
  <2>1. disk'[c] = disk[c] /\ buffer'[c] = buffer[c]
    BY <1>1, <1>4, FlushParts
  <2>2. Good(disk[c], taken)'
    BY <1>1, <2>1 DEF SyncChannel, Good, Rising
  <2>3. pc \in {"writeOld", "header", "seekBack", "data", "return"} => SyncStream(c)'
    BY <1>1, <1>2, <1>3, <2>1 DEF SyncChannel, SyncStream, Waits, HasTurn, IsDone, Empty,
       Missing, Nothing, Writes
  <2>4. QED
    BY <1>1, <1>3, <2>1, <2>2, <2>3 DEF SyncChannel, Empty, Missing, Nothing, Writes
<1>5. CASE c = k
  <2>1. buffer[c] # Nothing
    BY <1>1, <1>5, FlushParts, WrittenTypes
  <2>2. pc \notin {"idle", "killed", "open"}
    BY <1>1, <2>1 DEF SyncChannel
  <2>3. SyncStream(c)' /\ pc' \notin {"idle", "killed", "open"}
    <3>1. SyncStream(c) /\ ~Waits(c)
      BY <1>1, <2>1, <2>2 DEF SyncChannel, SyncStream, ShapeInv, TypeOK, Places
    <3>2. QED
      BY <1>1, <1>2, <1>3, <2>2, <3>1 DEF SyncStream, Waits, HasTurn, IsDone
  <2>4. Good(Flushed(c), taken)
    BY <1>1, FlushedGood
  <2>5. /\ disk'[c].data \in Seq(1 .. MaxBlocks) /\ buffer'[c].data \in Seq(1 .. MaxBlocks)
        /\ disk'[c].data \o buffer'[c].data = Flushed(c).data
    BY <1>1, <1>2, FlushedPartsAfter DEF Files, Buffers
  <2>6. Rising(disk'[c].data, taken)
    <3>1. Rising(disk'[c].data \o buffer'[c].data, taken)
      BY <2>4, <2>5 DEF Good
    <3>2. QED
      BY <1>1, <2>5, <3>1, RisingPrefix
  <2>7. disk'[c].declared # NoHeader
    <3>1. CASE buffer[c].declared # NoHeader
      BY <1>1, <1>5, <3>1, FlushParts
    <3>2. CASE buffer[c].declared = NoHeader
      <4>1. buffer[c].data # <<>> /\ disk'[c].declared = disk[c].declared
        BY <1>1, <1>5, <3>2, FlushParts
      <4>2. /\ Flushed(c).declared = disk[c].declared
            /\ Flushed(c).data = disk[c].data \o buffer[c].data
            /\ disk[c].data \in Seq(1 .. MaxBlocks) /\ buffer[c].data \in Seq(1 .. MaxBlocks)
        BY <1>1, <3>2, FlushedParts DEF Files, Buffers
      <4>3. Flushed(c).data # <<>>
        BY <4>1, <4>2, ConcatEqualIffEmpty
      <4>4. QED
        BY <2>4, <4>1, <4>2, <4>3 DEF Good
    <3>3. QED
      BY <3>1, <3>2
  <2>8. Good(disk[c], taken)'
    BY <1>1, <2>6, <2>7 DEF Good, Rising
  <2>9. QED
    BY <1>3, <2>3, <2>8 DEF SyncChannel
<1>6. QED
  BY <1>4, <1>5

(* The invariant of record_all_channels_wav_sync is inductive.             *)
LEMMA NextSyncInv == SyncInv /\ [Next]_vars => SyncInv'
<1>1. ASSUME SyncInv, Step PROVE SyncInv'
  <2>1. ShapeInv /\ ShapeInv' /\ recorder' = recorder /\ FilesTypeOK
    <3>1. ShapeInv'
      BY <1>1, StepShapeInv DEF SyncInv
    <3>2. recorder' = recorder
      BY <1>1 DEF Step, OpenNext, OpenFails, Take, WriteHeader, Close,
         Call, SyncOpenFails, WriteOld, SyncWriteHeader, Return, Restart,
         SeekBack, WriteBlock, Killed, SomeIsFlushed, own
    <3>3. QED
      BY <1>1, <3>1, <3>2 DEF SyncInv, ShapeInv, TypeOK
  <2>2. ASSUME recorder = "sync", NEW c \in Channels PROVE SyncChannel(c)'
    <3>1. \/ Call \/ OpenNext("writeOld") \/ (SyncOpenFails \/ Restart \/ Killed)
          \/ WriteOld \/ (SyncWriteHeader \/ (SeekBack /\ UNCHANGED own)) \/ Return
          \/ (WriteBlock("writeOld", "return") /\ UNCHANGED own)
          \/ \E k \in Channels : SomeIsFlushed(k) /\ UNCHANGED own
      BY <1>1, <2>2 DEF Step
    <3>2. CASE \E k \in Channels : SomeIsFlushed(k) /\ UNCHANGED own
      BY <1>1, <2>1, <2>2, <3>2, SyncFlushes
    <3>3. CASE Call \/ OpenNext("writeOld")
      BY <1>1, <2>1, <2>2, <3>3, SyncCalls, SyncOpens
    <3>4. CASE SyncOpenFails \/ Restart \/ Killed
      BY <1>1, <2>1, <2>2, <3>4, SyncStops
    <3>5. CASE WriteOld \/ Return
      BY <1>1, <2>1, <2>2, <3>5, SyncWritesOld, SyncReturns
    <3>6. CASE SyncWriteHeader \/ (SeekBack /\ UNCHANGED own)
      BY <1>1, <2>1, <2>2, <3>6, SyncSeeks
    <3>7. CASE WriteBlock("writeOld", "return") /\ UNCHANGED own
      BY <1>1, <2>1, <2>2, <3>7, SyncWritesBlock
    <3>8. QED
      BY <3>1, <3>2, <3>3, <3>4, <3>5, <3>6, <3>7
  <2>3. QED
    BY <2>1, <2>2 DEF SyncInv
<1>2. ASSUME SyncInv, UNCHANGED vars PROVE SyncInv'
  <2>1. ShapeInv'
    BY <1>2, NextShapeInv DEF SyncInv
  <2>2. UNCHANGED <<disk, buffer, pc, ch, taken, recorder, audio_lens, initial>>
    BY <1>2 DEF vars, fileVars, own
  <2>3. \A c \in Channels : SyncChannel(c)' = SyncChannel(c)
    BY <2>2 DEF SyncChannel, SyncStream, Good, Rising, Waits, HasTurn, IsDone, NewHeader,
       SizeOf, Flushed, Put, Empty, Missing, Nothing, Writes
  <2>4. QED
    BY <1>2, <2>1, <2>2, <2>3 DEF SyncInv
<1>3. QED
  BY <1>1, <1>2, NextIsStep

(* record_all_channels_wav_sync begins with no file.                       *)
LEMMA InitSyncInv == Init => SyncInv
<1> SUFFICES ASSUME Init, recorder = "sync", NEW c \in Channels PROVE SyncChannel(c)
  BY InitShapeInv DEF SyncInv, Init
<1>1. disk[c] = Missing /\ initial[c] = Missing /\ buffer[c] = Nothing /\ pc = "idle"
  BY DEF Init, WavInit
<1>2. \A n : Good(Missing, n)
  BY WrittenTypes, EmptySeq DEF Good, Rising
<1>3. QED
  BY <1>1, <1>2 DEF SyncChannel

(* The invariant of record_all_channels_wav_sync.                          *)
THEOREM SyncInvariant == Spec => []SyncInv
<1>1. QED
  BY InitSyncInv, NextSyncInv, PTL DEF Spec

(* Neither recorder ever repeats or reorders a block, whatever calls fail  *)
(* or are killed.                                                          *)
THEOREM BlocksStayInOrder == Spec => []BlocksInOrder
<1>1. ASSUME AsyncInv, SyncInv, NEW c \in Channels, NEW i \in 2 .. Len(disk[c].data)
      PROVE  disk[c].data[i - 1] < disk[c].data[i]
  <2>1. recorder \in {"async", "sync"} /\ disk[c].data \in Seq(1 .. MaxBlocks)
    BY <1>1, FlushedParts DEF AsyncInv, ShapeInv, TypeOK, Files
  <2>2. i - 1 \in 1 .. Len(disk[c].data) /\ i \in 1 .. Len(disk[c].data) /\ i - 1 < i
    BY <1>1, <2>1, LenProperties
  <2>3. CASE recorder = "async"
    <3>1. AfterKill(c)
      BY <1>1, <2>3, AsyncCost DEF AsyncInv
    <3>2. PICK lost \in 0 .. 2 : disk[c].data = [j \in 1 .. taken - lost |-> j]
      BY <3>1 DEF AfterKill
    <3>3. DOMAIN disk[c].data = 1 .. Len(disk[c].data)
      BY <2>1, LenProperties
    <3>4. i - 1 \in 1 .. taken - lost /\ i \in 1 .. taken - lost
      BY <2>2, <3>2, <3>3
    <3>5. QED
      BY <2>2, <3>2, <3>4
  <2>4. CASE recorder = "sync"
    <3>1. Rising(disk[c].data, taken)
      BY <1>1, <2>4 DEF SyncInv, SyncChannel, Good
    <3>2. QED
      BY <2>2, <3>1 DEF Rising
  <2>5. QED
    BY <2>1, <2>3, <2>4
<1>2. AsyncInv /\ SyncInv => BlocksInOrder
  BY <1>1 DEF BlocksInOrder
<1>3. QED
  BY <1>2, AsyncInvariant, SyncInvariant, PTL

(* A call that returns has appended its block to every file, and the       *)
(* header declares what is there, or 44 bytes less if the file was new.    *)
THEOREM ReturnsAppend == Spec => ReturnAppends
<1> DEFINE short(c) == IF initial[c].declared = NoHeader THEN WAV_HEADER_LEN ELSE 0
<1>1. ASSUME SyncInv, [Next]_vars, Returns, NEW c \in Channels
      PROVE  /\ disk'[c].data = Append(initial[c].data, taken)
             /\ disk'[c].declared = (BlockBytes * Len(disk'[c].data) - short(c)) % Wrap
  <2>1. pc = "return" /\ pc' = "idle"
    BY <1>1 DEF Returns
  <2>2. ShapeInv /\ recorder = "sync" /\ FilesTypeOK /\ taken \in 1 .. MaxBlocks
    BY <1>1, <2>1 DEF SyncInv, ShapeInv, TypeOK, Places
  <2>3. Step
    BY <1>1, <2>1, NextIsStep DEF vars
  <2>4. Return
    BY <2>1, <2>3 DEF Step, OpenNext, OpenFails, Take, WriteHeader, Close,
       Call, SyncOpenFails, WriteOld, SyncWriteHeader, Return, Restart,
       SeekBack, WriteBlock, Killed, SomeIsFlushed
  <2>5. disk'[c] = Flushed(c)
    BY <2>2, <2>4, CloseParts DEF Return
  <2>6. /\ Flushed(c).data = Append(initial[c].data, taken)
        /\ Flushed(c).declared = NewHeader(c)
        /\ initial[c].declared = NoHeader => initial[c].data = <<>>
    BY <1>1, <2>1, <2>2 DEF SyncInv, SyncChannel, SyncStream, IsDone, Good
  <2>7. initial[c].data \in Seq(1 .. MaxBlocks)
    BY <2>2 DEF ShapeInv, TypeOK
  <2>8. /\ Len(Append(initial[c].data, taken)) = Len(initial[c].data) + 1
        /\ Len(initial[c].data) \in Nat
    BY <2>2, <2>7, AppendProperties, LenProperties
  <2>9. BlockBytes + SizeOf(initial[c]) - WAV_HEADER_LEN
          = BlockBytes * (Len(initial[c].data) + 1) - short(c)
    <3> DEFINE before == BlockBytes * Len(initial[c].data)
               size == SizeOf(initial[c])
               missing == short(c)
    <3>1. BlockBytes * (Len(initial[c].data) + 1) = before + BlockBytes
          /\ before \in Nat /\ BlockBytes \in Nat
      BY <2>8, WavConstants
    <3>2. \/ size = 0 /\ missing = 44 /\ before = 0
          \/ size = 44 + before /\ missing = 0
      <4>1. CASE initial[c].declared = NoHeader
        <5>1. Len(initial[c].data) = 0
          BY <2>6, <4>1, EmptySeq
        <5>2. before = 0
          BY <5>1, WavConstants
        <5>3. QED
          BY <4>1, <5>2 DEF SizeOf, WAV_HEADER_LEN
      <4>2. CASE initial[c].declared # NoHeader
        BY <4>2 DEF SizeOf, WAV_HEADER_LEN
      <4>3. QED
        BY <4>1, <4>2
    <3>3. BlockBytes + size - WAV_HEADER_LEN = (before + BlockBytes) - missing
      <4> HIDE DEF before, size, missing
      <4>1. QED
        BY ONLY <3>1, <3>2 DEF WAV_HEADER_LEN
    <3>4. QED
      BY <3>1, <3>3
  <2>10. QED
    BY <2>5, <2>6, <2>8, <2>9 DEF NewHeader
<1>2. SyncInv /\ [Next]_vars =>
        [Returns =>
           \A c \in Channels :
             LET missing == IF initial[c].declared = NoHeader THEN WAV_HEADER_LEN ELSE 0 IN
               /\ disk'[c].data = Append(initial[c].data, taken)
               /\ disk'[c].declared
                    = (BlockBytes * Len(disk'[c].data) - missing) % Wrap]_vars
  BY <1>1
<1>3. QED
  BY <1>2, SyncInvariant, PTL DEF Spec, ReturnAppends
==============================================================================
