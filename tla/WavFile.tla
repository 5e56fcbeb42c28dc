------------------------------- MODULE WavFile -------------------------------
(***************************************************************************)
(* The .wav files of src/tfg/audio_processor.cpp, one per channel, behind  *)
(* a std::ofstream: what has been written to the stream waits in a buffer, *)
(* in order, until the library moves it to disk; seekp and closing the     *)
(* stream move all of it, a killed process loses it.                       *)
(*                                                                         *)
(* A file is the data size its header declares, in bytes, and the blocks   *)
(* that follow the header; a block is its number.  What waits in a buffer  *)
(* is a header or none, and the blocks behind it: every header is written  *)
(* after a seekp or at the start of the stream, so none follows a block.   *)
(***************************************************************************)
EXTENDS Integers, Sequences

CONSTANTS NumChannels,  \* NUM_CHANNELS_
          BlockBytes,   \* bytes of one channel of a block
          Wrap,         \* the header's sizes are modulo this (2^32)
          MaxBlocks     \* bound on the blocks recorded

WAV_HEADER_LEN == 44

ASSUME WavConstants == /\ NumChannels \in Nat \ {0}
                       /\ BlockBytes \in Nat /\ BlockBytes > WAV_HEADER_LEN
                       /\ Wrap \in Nat \ {0}
                       /\ MaxBlocks \in Nat

VARIABLES disk,         \* the file of each channel
          buffer,       \* what its stream has not moved to disk yet
          pc,           \* where the recording function is
          ch,           \* the channel it is at, i + 1
          taken         \* the number of the last block it was given

fileVars == <<disk, buffer>>

Channels == 1 .. NumChannels

NoHeader == -1

Missing == [exists |-> FALSE, declared |-> NoHeader, data |-> <<>>]

Empty == [Missing EXCEPT !.exists = TRUE]

SizeOf(file) == IF file.declared = NoHeader THEN 0
                ELSE WAV_HEADER_LEN + BlockBytes * Len(file.data)

Writes(bytes, blocks) == [declared |-> bytes, data |-> blocks]
Nothing == Writes(NoHeader, <<>>)

HeaderOp(bytes) == Writes(bytes % Wrap, <<>>)
DataOp(block) == Writes(NoHeader, <<block>>)

(* A file, or a buffer, and what is written behind it: a header replaces   *)
(* the one before.                                                         *)
Put(file, w) ==
  [file EXCEPT !.declared = IF w.declared = NoHeader THEN @ ELSE w.declared,
               !.data = @ \o w.data]

(* The file of c once its stream has moved everything to disk.             *)
Flushed(c) == Put(disk[c], buffer[c])

WavInit == /\ disk = [c \in Channels |-> Missing]
           /\ buffer = [c \in Channels |-> Nothing]
           /\ ch = 1
           /\ taken = 0

(* Mutant of OpenForOutput: opens without truncating.                      *)
OpenToAppend(c) == /\ disk' = [disk EXCEPT ![c].exists = TRUE]
                   /\ buffer' = [buffer EXCEPT ![c] = Nothing]

(* Opening for output truncates.                                           *)
OpenForOutput(c) == /\ disk' = [disk EXCEPT ![c] = Empty]
                    /\ buffer' = [buffer EXCEPT ![c] = Nothing]

WriteTo(c, w) == /\ buffer' = [buffer EXCEPT ![c] = Put(@, w)]
                 /\ UNCHANGED disk

(* seekp moves the buffer to disk, what is written next overwrites there.  *)
SeekAndWrite(c, w) == /\ disk' = [disk EXCEPT ![c] = Flushed(c)]
                      /\ buffer' = [buffer EXCEPT ![c] = w]

CloseAll == /\ disk' = [c \in Channels |-> Flushed(c)]
            /\ buffer' = [c \in Channels |-> Nothing]

LoseBuffers == /\ buffer' = [c \in Channels |-> Nothing]
               /\ UNCHANGED disk

HeaderIsFlushed(c) ==
  /\ buffer[c].declared # NoHeader
  /\ disk' = [disk EXCEPT ![c].declared = buffer[c].declared]
  /\ buffer' = [buffer EXCEPT ![c].declared = NoHeader]

BlockIsFlushed(c) ==
  /\ buffer[c].declared = NoHeader /\ buffer[c].data # <<>>
  /\ disk' = [disk EXCEPT ![c].data = Append(@, Head(buffer[c].data))]
  /\ buffer' = [buffer EXCEPT ![c].data = Tail(@)]

(* The library may move the oldest part of a buffer to disk at any time.   *)
SomeIsFlushed(c) == /\ HeaderIsFlushed(c) \/ BlockIsFlushed(c)
                    /\ UNCHANGED <<pc, ch, taken>>

(* Mutant of write_wav_header: writes the header without seeking.          *)
HeaderWithoutSeek(c, bytes) ==
  /\ WriteTo(c, HeaderOp(bytes))
  /\ pc' = "data"

(* write_wav_header: tellp, seekp(0), the header, and, unless the stream   *)
(* was at the start, seekp back to the end.                                *)
write_wav_header(c, bytes) ==
  /\ SeekAndWrite(c, HeaderOp(bytes))
  /\ pc' = IF Flushed(c).declared = NoHeader THEN "data" ELSE "seekBack"

SeekBack == /\ pc = "seekBack"
            /\ pc' = "data"
            /\ SeekAndWrite(ch, Nothing)
            /\ UNCHANGED <<ch, taken>>

(* The block itself, and on to the next channel.                           *)
WriteBlock(channelDone, blockDone) ==
  /\ pc = "data"
  /\ WriteTo(ch, DataOp(taken))
  /\ pc' = IF ch < NumChannels THEN channelDone ELSE blockDone
  /\ ch' = IF ch < NumChannels THEN ch + 1 ELSE 1
  /\ UNCHANGED taken
------------------------------------------------------------------------------
DeclaredSizes == {NoHeader} \cup 0 .. Wrap - 1

FilesTypeOK ==
  /\ disk \in [Channels -> [exists : BOOLEAN, declared : DeclaredSizes,
                            data : Seq(1 .. MaxBlocks)]]
  /\ buffer \in [Channels -> [declared : DeclaredSizes, data : Seq(1 .. MaxBlocks)]]
==============================================================================
