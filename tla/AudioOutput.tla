------------------------------ MODULE AudioOutput ------------------------------
(***************************************************************************)
(* AudioOutput of src/cpp/driver/audio_output.cpp, the FIFO of the board   *)
(* it fills and the converter that empties it.  Write reads the two        *)
(* pointers of the FIFO one after the other, sleeps at most once, for the  *)
(* time of one block at the frequency the driver believes in, and writes   *)
(* whatever the FIFO then holds.  Any access to the bus may fail, and no   *)
(* call looks at its result.                                               *)
(*                                                                         *)
(* A frequency is a number of samples per unit of time.  The registers of  *)
(* the volume, of the output and of muting are read by nobody: a call that *)
(* sets one leaves the state as it is.                                     *)
(***************************************************************************)
EXTENDS Integers

CONSTANTS FIFOSize,       \* kFIFOSize
          MaxWriteLength, \* kMaxWriteLength
          Frequencies,    \* the column of PCM_sampling_frequencies
          DefaultFrequency \* 44100

ASSUME AudioConstants ==
  /\ FIFOSize \in Nat \ {0}
  /\ MaxWriteLength \in Nat \ {0} /\ 4 * MaxWriteLength <= FIFOSize \* 1024 and 4096
  /\ Frequencies \subseteq Nat \ {0} /\ DefaultFrequency \in Frequencies

VARIABLES attached,      \* bus_ is set
          PCM_sampling_frequency_,
          boardFrequency,\* what the converter runs at
          flushing,      \* the FIFO is held empty
          read_pointer, write_pointer, \* of the board
          filled,        \* the samples in the FIFO
          writer,        \* where Write is
          seen,          \* the read pointer that GetFIFOStatus read
          due,           \* what the converter plays until the sleep is over
          overwritten,   \* samples were written over that had not been played
          frequencySet,  \* history: SetPCMSamplingFrequency has set a frequency
          accessFailed   \* history: some access to the bus has failed

fifo == <<flushing, read_pointer, write_pointer, filled>>
audioVars == <<attached, PCM_sampling_frequency_, boardFrequency, fifo, writer, seen,
               due, overwritten, frequencySet, accessFailed>>

AudioInit ==
  /\ attached = FALSE /\ flushing = FALSE /\ overwritten = FALSE
  /\ frequencySet = FALSE /\ accessFailed = FALSE
  /\ PCM_sampling_frequency_ = DefaultFrequency
  /\ boardFrequency \in Frequencies
  /\ read_pointer = 0 /\ filled \in {0, MaxWriteLength} /\ write_pointer = filled
  /\ writer = "idle" /\ seen = 0 /\ due = 0

Fails(done) == accessFailed' = (accessFailed \/ ~done)

(* FIFOFlush: the register is set and cleared, each with success or not.   *)
FIFOFlush ==
  \E set, cleared \in BOOLEAN :
    /\ Fails(set /\ cleared)
    /\ flushing' = (~cleared /\ (set \/ flushing))
    /\ IF set THEN read_pointer' = 0 /\ write_pointer' = 0 /\ filled' = 0
              ELSE UNCHANGED <<read_pointer, write_pointer, filled>>

SetupAudio == /\ ~attached /\ attached' = TRUE
              /\ FIFOFlush
              /\ UNCHANGED <<PCM_sampling_frequency_, boardFrequency, writer, seen, due,
                             overwritten, frequencySet>>

Free == attached /\ writer = "idle" /\ ~overwritten

Flushes == /\ Free /\ FIFOFlush
           /\ UNCHANGED <<attached, PCM_sampling_frequency_, boardFrequency, writer, seen,
                          due, overwritten, frequencySet>>

(* Mute, UnMute, SetOutputSelector and SetVolumen up to 100.               *)
SetsOutput == /\ Free
              /\ \E done \in BOOLEAN : Fails(done)
              /\ UNCHANGED <<attached, PCM_sampling_frequency_, boardFrequency, fifo,
                             writer, seen, due, overwritten, frequencySet>>

(* The driver believes what it asked for.  A frequency that is not in the  *)
(* table changes nothing.                                                  *)
SetPCMSamplingFrequency(f) ==
  /\ Free
  /\ PCM_sampling_frequency_' = f
  /\ \E done \in BOOLEAN : /\ boardFrequency' = IF done THEN f ELSE boardFrequency
                           /\ Fails(done)
  /\ frequencySet' = TRUE
  /\ UNCHANGED <<attached, fifo, writer, seen, due, overwritten>>

(* A constant that is in the table, if the read succeeds; else whatever    *)
(* the uninitialized constant is found to be.                              *)
GetPCMSamplingFrequency ==
  /\ Free
  /\ \/ PCM_sampling_frequency_' = boardFrequency /\ Fails(TRUE)
     \/ PCM_sampling_frequency_' \in Frequencies /\ Fails(FALSE)
  /\ UNCHANGED <<attached, boardFrequency, fifo, writer, seen, due, overwritten,
                 frequencySet>>
------------------------------------------------------------------------------
(* Mutant of Level: equal pointers are an empty FIFO.                      *)
LevelOrEmpty(write, read) ==
  IF write >= read THEN write - read ELSE FIFOSize - read + write

(* Equal pointers are a full FIFO, an empty one too.                       *)
Level(write, read) == IF write > read THEN write - read ELSE FIFOSize - read + write

(* The first half of GetFIFOStatus; a read that fails leaves any value.    *)
ReadsReadPointer ==
  /\ Free
  /\ \/ seen' = read_pointer /\ Fails(TRUE)
     \/ seen' \in 0 .. FIFOSize - 1 /\ Fails(FALSE)
  /\ writer' = "pointer"
  /\ UNCHANGED <<attached, PCM_sampling_frequency_, boardFrequency, fifo, due,
                 overwritten, frequencySet>>

(* The samples that are played while the driver sleeps for a block.        *)
SleepSamples == (MaxWriteLength * boardFrequency) \div PCM_sampling_frequency_

(* The second half, and the decision.                                      *)
ReadsWritePointer ==
  /\ writer = "pointer"
  /\ \E write \in 0 .. FIFOSize - 1, done \in BOOLEAN :
       /\ done => write = write_pointer
       /\ Fails(done)
       /\ IF Level(write, seen) > (FIFOSize * 3) \div 4
          THEN writer' = "sleep" /\ due' = SleepSamples
          ELSE writer' = "write" /\ UNCHANGED due
  /\ UNCHANGED <<attached, PCM_sampling_frequency_, boardFrequency, fifo, seen,
                 overwritten, frequencySet>>

Wakes == /\ writer = "sleep" /\ due = 0
         /\ writer' = "write"
         /\ UNCHANGED <<attached, PCM_sampling_frequency_, boardFrequency, fifo, seen, due,
                        overwritten, frequencySet, accessFailed>>

(* The block goes to the board; one that fails, or comes during a flush,   *)
(* leaves nothing there.                                                   *)
WritesBlock ==
  /\ writer = "write"
  /\ \E done \in BOOLEAN :
       /\ Fails(done)
       /\ IF done /\ ~flushing
          THEN /\ write_pointer' = (write_pointer + MaxWriteLength) % FIFOSize
               /\ overwritten' = (filled + MaxWriteLength > FIFOSize)
               /\ filled' = IF overwritten' THEN FIFOSize ELSE filled + MaxWriteLength
          ELSE UNCHANGED <<write_pointer, filled, overwritten>>
  /\ writer' = "idle"
  /\ seen' = 0
  /\ UNCHANGED <<attached, PCM_sampling_frequency_, boardFrequency, flushing, read_pointer,
                 due, frequencySet>>

(* The converter: a sample, or silence when there is none.                 *)
Plays == /\ filled > 0 \/ due > 0
         /\ IF filled > 0
            THEN /\ filled' = filled - 1
                 /\ read_pointer' = (read_pointer + 1) % FIFOSize
            ELSE UNCHANGED <<filled, read_pointer>>
         /\ due' = IF due > 0 THEN due - 1 ELSE 0
         /\ UNCHANGED <<attached, PCM_sampling_frequency_, boardFrequency, flushing,
                        write_pointer, writer, seen, overwritten, frequencySet,
                        accessFailed>>

WriteBlock == ReadsReadPointer \/ ReadsWritePointer \/ Wakes \/ WritesBlock

AudioNext == \/ SetupAudio \/ Flushes \/ SetsOutput
             \/ \E f \in Frequencies : SetPCMSamplingFrequency(f)
             \/ GetPCMSamplingFrequency \/ WriteBlock \/ Plays

AudioSpec == AudioInit /\ [][AudioNext]_audioVars
------------------------------------------------------------------------------
(* Once the frequency has been set, and as long as the bus works, Write    *)
(* overwrites nothing that has not been played, though the pointers move   *)
(* between its two reads, are equal for a full FIFO as for an empty one,   *)
(* and the level is not looked at again after the sleep.                   *)
NothingOverwritten == overwritten => accessFailed \/ ~frequencySet
================================================================================
