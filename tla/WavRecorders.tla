----------------------------- MODULE WavRecorders -----------------------------
(***************************************************************************)
(* The two recorders of src/tfg/audio_processor.cpp.                       *)
(*   "async"  record_all_channels_wav (lines 95-152): one call for a       *)
(*            recording, with each file's header rewritten before every    *)
(*            block.  How blocks arrive is the business of AudioPipeline;  *)
(*            here they come as they are taken.                            *)
(*   "sync"   record_all_channels_wav_sync (lines 170-240), called in a    *)
(*            loop by test_record_sync: each call adds one block to every  *)
(*            file by reading it whole, truncating it, and writing back    *)
(*            what it held, then a new header and the block.               *)
(* The process may be killed at any moment; the second program is then     *)
(* started again with the same file names.                                 *)
(***************************************************************************)
EXTENDS WavFile, SequencesExt

CONSTANTS OpenMayFail,  \* whether a file may fail to open for output
          MayBeKilled   \* whether the process may be killed

ASSUME RecorderConstants == OpenMayFail \in BOOLEAN /\ MayBeKilled \in BOOLEAN

VARIABLES recorder,     \* which recorder the program uses
          audio_lens,   \* async: the bytes of data in each file
          initial       \* sync: initial_data and initial_size_with_header, the
                        \* file of each channel as the call found it

own == <<recorder, audio_lens, initial>>

vars == <<fileVars, pc, ch, taken, own>>

Init == /\ WavInit
        /\ recorder \in {"async", "sync"}
        /\ pc = IF recorder = "async" THEN "open" ELSE "idle"
        /\ audio_lens = [c \in Channels |-> 0]
        /\ initial = disk

(* One file after the other is opened, then the function goes on at next.  *)
OpenNext(next) == /\ pc = "open"
                  /\ OpenForOutput(ch)
                  /\ pc' = IF ch < NumChannels THEN "open" ELSE next
                  /\ ch' = IF ch < NumChannels THEN ch + 1 ELSE 1
                  /\ UNCHANGED <<taken, own>>

Killed == /\ pc \notin {"idle", "closed", "killed"} /\ MayBeKilled
          /\ pc' = "killed"
          /\ LoseBuffers
          /\ UNCHANGED <<ch, taken, own>>
------------------------------------------------------------------------------
OpenFails == /\ pc = "open" /\ OpenMayFail
             /\ pc' = "closed"
             /\ UNCHANGED <<fileVars, ch, taken, own>>

(* wait_pop gives a block.  Bound: MaxBlocks of them.                      *)
Take == /\ pc = "take" /\ taken < MaxBlocks
        /\ pc' = "header"
        /\ taken' = taken + 1
        /\ UNCHANGED <<fileVars, ch, own>>

WriteHeader ==
  /\ pc = "header"
  /\ audio_lens' = [audio_lens EXCEPT ![ch] = (@ + BlockBytes) % Wrap]
  /\ write_wav_header(ch, audio_lens'[ch])
  /\ UNCHANGED <<ch, taken, recorder, initial>>

(* Mutant of Close: returns without closing the streams.                   *)
CloseNothing == /\ pc = "take"
                /\ pc' = "closed"
                /\ LoseBuffers
                /\ UNCHANGED <<ch, taken, own>>

(* The streams are closed when the function returns.                       *)
Close == /\ pc = "take"
         /\ pc' = "closed"
         /\ CloseAll
         /\ UNCHANGED <<ch, taken, own>>

AsyncNext == \/ OpenNext("take") \/ OpenFails
             \/ Take \/ WriteHeader
             \/ SeekBack /\ UNCHANGED own
             \/ WriteBlock("header", "take") /\ UNCHANGED own
             \/ Close
------------------------------------------------------------------------------
(* capture_audio_sync gives a block.  Bound: MaxBlocks of them.            *)
Call == /\ pc = "idle" /\ taken < MaxBlocks
        /\ pc' = "open"
        /\ taken' = taken + 1
        /\ initial' = disk
        /\ UNCHANGED <<fileVars, ch, recorder, audio_lens>>

(* One file does not open: the call returns, with the files before it      *)
(* already truncated.                                                      *)
SyncOpenFails == /\ pc = "open" /\ OpenMayFail
                 /\ pc' = "idle"
                 /\ ch' = 1
                 /\ UNCHANGED <<fileVars, taken, own>>

(* The bytes read from the file, its header included.                      *)
OldContent(file) == Writes(file.declared, file.data)

WriteOld == /\ pc = "writeOld"
            /\ WriteTo(ch, OldContent(initial[ch]))
            /\ pc' = "header"
            /\ UNCHANGED <<ch, taken, own>>

(* Mutant of SyncWriteHeader: adds to the size the old header declares.    *)
WriteHeaderFromHeader ==
  /\ pc = "header"
  /\ write_wav_header(ch, BlockBytes + initial[ch].declared)
  /\ UNCHANGED <<ch, taken, own>>

(* The header's size comes from the size of the file, not from its header. *)
SyncWriteHeader ==
  /\ pc = "header"
  /\ write_wav_header(ch, BlockBytes + SizeOf(initial[ch]) - WAV_HEADER_LEN)
  /\ UNCHANGED <<ch, taken, own>>

Return == /\ pc = "return"
          /\ pc' = "idle"
          /\ CloseAll
          /\ UNCHANGED <<ch, taken, own>>

Restart == /\ pc = "killed"
           /\ pc' = "idle"
           /\ ch' = 1
           /\ UNCHANGED <<fileVars, taken, own>>

SyncNext == \/ Call \/ OpenNext("writeOld") \/ SyncOpenFails
            \/ WriteOld \/ SyncWriteHeader
            \/ SeekBack /\ UNCHANGED own
            \/ WriteBlock("writeOld", "return") /\ UNCHANGED own
            \/ Return \/ Restart
------------------------------------------------------------------------------
Next == \/ recorder = "async" /\ AsyncNext
        \/ recorder = "sync" /\ SyncNext
        \/ Killed
        \/ \E c \in Channels : SomeIsFlushed(c) /\ UNCHANGED own

Spec == Init /\ [][Next]_vars
------------------------------------------------------------------------------
TypeOK == /\ FilesTypeOK
          /\ pc \in {"idle", "open", "take", "writeOld", "header", "seekBack",
                     "data", "return", "closed", "killed"}
          /\ ch \in Channels
          /\ taken \in 0 .. MaxBlocks
          /\ recorder \in {"async", "sync"}
          /\ audio_lens \in [Channels -> 0 .. Wrap - 1]
          /\ initial \in [Channels -> [exists : BOOLEAN, declared : DeclaredSizes,
                                       data : Seq(1 .. MaxBlocks)]]

(* A file on disk: the header declares the blocks that are there, or one   *)
(* more.                                                                   *)
HeaderNearData(c) == LET n == Len(disk[c].data) IN
  \/ disk[c].declared = NoHeader /\ n = 0
  \/ disk[c].declared \in {BlockBytes * n % Wrap, BlockBytes * (n + 1) % Wrap}

(* A kill costs a file of record_all_channels_wav the block being written  *)
(* and the one before, no more, and leaves a header that is at most a      *)
(* block ahead of the data: at any moment the disk is in such a state.     *)
KillCostsTwoBlocks ==
  recorder = "async" =>
    \A c \in Channels :
      /\ \E lost \in 0 .. 2 : disk[c].data = [i \in 1 .. taken - lost |-> i]
      /\ HeaderNearData(c)

(* A recording that ends by itself has every block in every file.          *)
ClosedFilesAreExact ==
  recorder = "async" /\ pc = "closed" =>
    \A c \in Channels :
      /\ disk[c].data = [i \in 1 .. taken |-> i]
      /\ taken > 0 => disk[c].declared = BlockBytes * taken % Wrap

Returns == pc = "return" /\ pc' = "idle"

(* A call of record_all_channels_wav_sync that returns normally adds its   *)
(* block to what every file held, and leaves a header that matches the     *)
(* data whatever failed calls and kills came before: the size of the file  *)
(* counts, not the old header.  But the header of a file that was missing  *)
(* or empty is too short, by WAV_HEADER_LEN.                               *)
ReturnAppends ==
  [][Returns =>
       \A c \in Channels :
         LET short == IF initial[c].declared = NoHeader THEN WAV_HEADER_LEN ELSE 0 IN
           /\ disk'[c].data = Append(initial[c].data, taken)
           /\ disk'[c].declared = (BlockBytes * Len(disk'[c].data) - short) % Wrap]_vars

(* Calls that fail or are killed lose blocks, but never repeat or reorder  *)
(* them, though each call writes the whole history again.                  *)
BlocksInOrder ==
  \A c \in Channels : LET data == disk[c].data IN
    \A i \in 2 .. Len(data) : data[i - 1] < data[i]

(* "We want to append to an already existing file" (line 200): between     *)
(* calls a file still has what it had before the last call.                *)
AppendKeepsOld ==
  pc = "idle" => \A c \in Channels : IsPrefix(initial[c].data, disk[c].data)
==============================================================================
