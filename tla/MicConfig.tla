------------------------------- MODULE MicConfig -------------------------------
(***************************************************************************)
(* How the programs configure the microphones: Setup, the sampling rate    *)
(* and the gain of MicrophoneArray (src/cpp/driver/microphone_array.cpp),  *)
(* and the filter that MicrophoneCore (microphone_core.cpp) puts on the    *)
(* board.  The board keeps what the last program left there.  Any access   *)
(* to the bus may fail; only MicrophoneCore returns whether one did, and   *)
(* no program looks.                                                       *)
(***************************************************************************)
EXTENDS Integers, Sequences

CONSTANTS MicFrequencies, \* MIC_sampling_frequencies: rows of a frequency, the
                          \* constant of the register and the gain
          AskedFrequencies, AskedGains, \* what users ask for; a gain of 0 is none
          FirstFrequency, FirstGain, \* 16000 and 3, set by the constructor
          BootConstant    \* the register before any program ran

ASSUME MicConfigConstants ==
  /\ MicFrequencies \subseteq [frequency : Nat \ {0}, constant : Nat, gain : Nat]
  /\ \A row, other \in MicFrequencies : row.frequency = other.frequency => row = other
  /\ AskedFrequencies \subseteq Nat /\ AskedGains \subseteq Nat
  /\ FirstFrequency \in {row.frequency : row \in MicFrequencies}

VARIABLES user,       \* the program that runs
          asked,      \* its flags, or the arguments of its constructor
          todo,       \* the calls it still has to make
          sampling_frequency_, gain_,
          micConstant, micGain,  \* the registers of the board
          filter,     \* the two halves of the filter's registers
          lost        \* history: an access of this program has failed

micVars == <<user, asked, todo, sampling_frequency_, gain_, micConstant, micGain, filter,
             lost>>
registers == <<micConstant, micGain, filter>>

(* Mutant of ProgramCalls: the filter before the sampling rate.            *)
ProgramCallsFilterFirst(program) ==
  CASE program = "record" -> <<"Setup", "core.Setup", "SetSamplingRate", "SetGain">>
    [] program = "fir"    -> <<"Setup", "SetSamplingRate", "SetGain", "core.Setup",
                               "SelectFIRCoeff">>
    [] program = "custom" -> <<"Setup", "SetSamplingRate", "core.Setup",
                               "SetCustomFIRCoeff">>
    [] program = "pipes"  -> <<"Setup">>

(* "record": matrix_read, the tests, the demos and the Python object, which *)
(* may be built again with other arguments; "fir": mic_demo_fir_direct;     *)
(* "pipes": micarray_pipes_direct; "custom": a user of SetCustomFIRCoeff,   *)
(* which no program of the repository calls.                                *)
ProgramCalls(program) ==
  CASE program = "record" -> <<"Setup", "SetSamplingRate", "SetGain", "core.Setup">>
    [] program = "fir"    -> <<"Setup", "SetSamplingRate", "SetGain", "core.Setup",
                               "SelectFIRCoeff">>
    [] program = "custom" -> <<"Setup", "SetSamplingRate", "core.Setup",
                               "SetCustomFIRCoeff">>
    [] program = "pipes"  -> <<"Setup">>

MicInit == /\ user = "none" /\ asked = [frequency |-> 0, gain |-> 0] /\ todo = <<>>
           /\ sampling_frequency_ = FirstFrequency /\ gain_ = FirstGain
           /\ micConstant = BootConstant /\ micGain = 0
           /\ filter = [half \in {"first", "second"} |-> [table |-> "boot", rate |-> 0]]
           /\ lost = FALSE

(* A program starts, with new objects.                                     *)
StartsProgram ==
  /\ todo = <<>>
  /\ user' \in {"record", "fir", "pipes", "custom"}
  /\ asked' \in [frequency : AskedFrequencies, gain : AskedGains]
  /\ todo' = ProgramCalls(user')
  /\ sampling_frequency_' = FirstFrequency /\ gain_' = FirstGain
  /\ lost' = FALSE
  /\ UNCHANGED registers

Makes(call) == todo # <<>> /\ Head(todo) = call /\ todo' = Tail(todo)
                 /\ UNCHANGED <<user, asked>>

Done(accesses) == lost' = (lost \/ FALSE \in accesses)

(* GetGain; a failed read leaves any value.                                *)
GetGain(read) == IF read THEN gain_' = micGain ELSE gain_' \in {micGain, FirstGain}

(* GetSamplingRate looks for the register's constant in the column of the  *)
(* frequencies, where it is not; what a failed read leaves may be there.   *)
GetSamplingRate(read) ==
  \/ /\ read
     /\ LET rows == {row \in MicFrequencies : row.frequency = micConstant} IN
          IF rows = {} THEN UNCHANGED sampling_frequency_
          ELSE \E row \in rows : sampling_frequency_' = row.frequency
  \/ ~read /\ sampling_frequency_' \in
                {sampling_frequency_} \cup {row.frequency : row \in MicFrequencies}

(* Setup and ReadConfValues.                                               *)
SetupArray == /\ Makes("Setup")
              /\ \E gainRead, rateRead \in BOOLEAN :
                   /\ GetGain(gainRead) /\ GetSamplingRate(rateRead)
                   /\ Done({gainRead, rateRead})
              /\ UNCHANGED registers

SetGain(gain, written) == /\ gain_' = gain
                          /\ micGain' = IF written THEN gain ELSE micGain

(* A frequency that is not in the table changes nothing.                   *)
SetsSamplingRate ==
  /\ Makes("SetSamplingRate")
  /\ LET rows == {row \in MicFrequencies : row.frequency = asked.frequency} IN
       IF rows = {}
       THEN UNCHANGED <<sampling_frequency_, gain_, registers, lost>>
       ELSE \E row \in rows, gainWritten, rateWritten \in BOOLEAN :
              /\ sampling_frequency_' = row.frequency
              /\ SetGain(row.gain, gainWritten)
              /\ micConstant' = IF rateWritten THEN row.constant ELSE micConstant
              /\ Done({gainWritten, rateWritten})
              /\ UNCHANGED filter

(* if (gain > 0) SetGain(gain).                                            *)
SetsGain == /\ Makes("SetGain")
            /\ IF asked.gain = 0 THEN UNCHANGED <<gain_, micGain, lost>>
               ELSE \E written \in BOOLEAN : SetGain(asked.gain, written) /\ Done({written})
            /\ UNCHANGED <<sampling_frequency_, micConstant, filter>>

(* SetFIRCoeff writes as many bytes as there are taps of two bytes: the    *)
(* first half of the filter.                                               *)
SetFIRCoeff(coefficients) ==
  \E written \in BOOLEAN :
    /\ filter' = IF written THEN [filter EXCEPT !["first"] = coefficients] ELSE filter
    /\ Done({written})

(* Both tables have a filter of the right size for every frequency of      *)
(* MIC_sampling_frequencies.                                               *)
SelectFIRCoeff(table) ==
  /\ IF \E row \in MicFrequencies : row.frequency = sampling_frequency_
     THEN SetFIRCoeff([table |-> table, rate |-> sampling_frequency_])
     ELSE UNCHANGED <<filter, lost>>
  /\ UNCHANGED <<sampling_frequency_, gain_, micConstant, micGain>>

SetupCore == Makes("core.Setup") /\ SelectFIRCoeff("default")

SelectsBandpass == Makes("SelectFIRCoeff") /\ SelectFIRCoeff("bandpass")

(* A filter of the wrong size is refused.                                  *)
SetCustomFIRCoeff == /\ Makes("SetCustomFIRCoeff")
                     /\ \/ SetFIRCoeff([table |-> "custom", rate |-> 0])
                        \/ UNCHANGED <<filter, lost>>
                     /\ UNCHANGED <<sampling_frequency_, gain_, micConstant, micGain>>

MicNext == \/ StartsProgram \/ SetupArray \/ SetsSamplingRate \/ SetsGain \/ SetupCore
           \/ SelectsBandpass \/ SetCustomFIRCoeff

MicSpec == MicInit /\ [][MicNext]_micVars
------------------------------------------------------------------------------
(* What the program must leave on the board before it reads.               *)
AsAsked(row) ==
  /\ micConstant = row.constant /\ sampling_frequency_ = row.frequency
  /\ gain_ = micGain
  /\ micGain = IF asked.gain > 0 THEN asked.gain ELSE row.gain
  /\ filter["first"] = [table |-> IF user = "fir" THEN "bandpass" ELSE "default",
                        rate |-> row.frequency]

(* When a program that asked for a frequency of the table has made its     *)
(* calls, and the bus did not fail it, the board runs at that frequency    *)
(* with its gain, or the one asked for, the driver believes so, and the    *)
(* filter that was written is the one for that frequency, whatever the     *)
(* programs before left there.                                             *)
ConfiguredAsAsked ==
  user \in {"record", "fir"} /\ todo = <<>> /\ ~lost =>
    \A row \in MicFrequencies : row.frequency = asked.frequency => AsAsked(row)
================================================================================
