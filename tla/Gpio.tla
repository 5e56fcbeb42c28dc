--------------------------------- MODULE Gpio ---------------------------------
(***************************************************************************)
(* GPIOControl and GPIOBank of src/cpp/driver/gpio_control.cpp, as the     *)
(* Python class gpio calls them: one object for the whole program, one     *)
(* call at a time.  The registers of the board cannot be read back, so     *)
(* the driver keeps shadows of them, changes a field of a shadow and       *)
(* writes the whole shadow.  A write on the bus may fail: the call returns *)
(* false and the shadow keeps what the board did not get.                  *)
(*                                                                         *)
(* A register is the set of its bits that are 1.                           *)
(***************************************************************************)
EXTENDS Integers, Sequences

CONSTANTS PinRegisters, \* the registers with a bit per pin: mode_, value_, function_
          NumBanks, PinsPerBank, PrescalerBits,  \* 4, 4 and 4
          GPIOPrescaler,\* 5
          HalfWord,     \* 2^16
          Settings,     \* the integers Python passes as a setting
          PinLists,     \* the lists passed to SetMode and SetGPIOValues
          Pulses,       \* the period and the duty that SetPWM computes
          ServoPeriod,  \* the period of a servo: 20 ms
          ServoMiddle,  \* 1.5 ms
          MinPulses,    \* the values of min_pulse_ms, as ServoOffset
          Angles,       \* the angles asked for
          MaxCalls      \* bound on the calls

Pins == 0 .. NumBanks * PinsPerBank - 1
Banks == 0 .. NumBanks - 1
Bits == 0 .. NumBanks * PrescalerBits - 1
Registers == PinRegisters \cup {"prescaler_"}

BitsOf(value) == {i \in Bits : (value \div 2^i) % 2 = 1}

ASSUME GpioConstants ==
  /\ "prescaler_" \notin PinRegisters
  /\ NumBanks \in Nat /\ PinsPerBank \in Nat /\ PrescalerBits \in Nat
  /\ PinsPerBank <= PrescalerBits
  /\ GPIOPrescaler \in Nat /\ BitsOf(GPIOPrescaler) \subseteq 0 .. PrescalerBits - 1
  /\ HalfWord \in Nat \ {0} /\ Settings \subseteq Nat
  /\ PinLists \subseteq Seq(Pins)
  /\ Pulses \subseteq [period : Nat, duty : Nat]
  /\ ServoPeriod \in Nat /\ ServoMiddle \in Nat /\ Angles \subseteq Nat
  /\ MinPulses \subseteq 0 .. ServoMiddle
  /\ MaxCalls \in Nat

VARIABLES setUp,        \* bus_ is set
          shadow,       \* mode_, value_, function_ and prescaler_
          board,        \* the same registers of the board
          period, duty, \* the timers of the board
          ok,           \* what the last call returned
          calls,        \* the number of calls, for the bound
          missed,       \* history: the registers whose last write failed
          setting,      \* history: what was asked last of each pin, as the
                        \* set of that value, or no value
          pulse         \* history: the pulse asked of each pin, if nothing has
                        \* disturbed it since, as the set of that pulse

vars == <<setUp, shadow, board, period, duty, ok, calls, missed, setting, pulse>>

Bank(pin) == pin \div PinsPerBank

(* value << first | (register & ~mask), in 16 bits.  A value too wide for  *)
(* its field spills into the next ones.                                    *)
SetField(register, first, width, value) ==
  (register \ (first .. first + width - 1))
    \cup ({first + i : i \in BitsOf(value)} \cap Bits)

(* The pins that a setting changes: the pin itself, and, if it is not 0    *)
(* or 1, those that its other bits fall on.                                *)
Disturbed(pin, value) == {pin + i : i \in BitsOf(value) \ {0}} \cap Pins

Init == /\ setUp = FALSE
        /\ shadow = [r \in Registers |-> {}]
        /\ board \in {[r \in Registers |-> {}], [r \in Registers |-> Bits]}
        /\ period = [b \in Banks |-> 0]
        /\ duty = [p \in Pins |-> 0]
        /\ ok = FALSE
        /\ calls = 0
        /\ missed = Registers
        /\ setting = [r \in PinRegisters |-> [p \in Pins |-> {}]]
        /\ pulse = [p \in Pins |-> {}]

Setup == /\ ~setUp
         /\ setUp' = TRUE
         /\ UNCHANGED <<shadow, board, period, duty, ok, calls, missed, setting,
                        pulse>>

(* Without a bus a call returns false at once.                             *)
RefusedCall == /\ ~setUp /\ calls < MaxCalls
               /\ ok' = FALSE
               /\ calls' = calls + 1
               /\ UNCHANGED <<setUp, shadow, board, period, duty, missed, setting,
                              pulse>>

Called == setUp /\ calls < MaxCalls /\ calls' = calls + 1 /\ UNCHANGED setUp

(* Mutant of WriteRegister: the shadow changes only if the write succeeds. *)
WriteThenShadow(r, value, written) ==
  /\ shadow' = IF written THEN [shadow EXCEPT ![r] = value] ELSE shadow
  /\ board' = IF written THEN [board EXCEPT ![r] = value] ELSE board
  /\ missed' = IF written THEN missed \ {r} ELSE missed \cup {r}

(* The shadow gets its value; the board, if the write succeeds.            *)
WriteRegister(r, value, written) ==
  /\ shadow' = [shadow EXCEPT ![r] = value]
  /\ board' = IF written THEN [board EXCEPT ![r] = value] ELSE board
  /\ missed' = IF written THEN missed \ {r} ELSE missed \cup {r}

(* A register when the field of one pin after the other has been set.      *)
FieldsSet(register, pins, value) ==
  LET after[k \in 0 .. Len(pins)] ==
        IF k = 0 THEN register ELSE SetField(after[k - 1], pins[k], 1, value)
  IN  after[Len(pins)]

(* What is asked of each pin after a setting of this one.                  *)
Ask(asked, pin, value) ==
  [p \in Pins |-> IF p \in Disturbed(pin, value) THEN {}
                  ELSE IF p = pin THEN {value % 2} ELSE asked[p]]

AllAsked(asked, pins, value) ==
  LET after[k \in 0 .. Len(pins)] ==
        IF k = 0 THEN asked ELSE Ask(after[k - 1], pins[k], value)
  IN  after[Len(pins)]

(* SetMode, SetFunction and SetGPIOValue for one pin; SetMode and          *)
(* SetGPIOValues for a list, with one write at the end.                    *)
SetPins(r, pins, value) ==
  /\ Called
  /\ \E written \in BOOLEAN :
       /\ WriteRegister(r, FieldsSet(shadow[r], pins, value), written)
       /\ ok' = written
  /\ setting' = [setting EXCEPT ![r] = AllAsked(@, pins, value)]
  /\ UNCHANGED <<period, duty, pulse>>

(* Mutant of WritePulse: the duty goes to the channel of the whole board.  *)
WritePulseOfPin(pin, newPeriod, newDuty, written) ==
  /\ WriteRegister("prescaler_",
                   SetField(shadow["prescaler_"], PrescalerBits * Bank(pin),
                            PrescalerBits, GPIOPrescaler), "prescaler" \in written)
  /\ period' = IF "period" \in written
               THEN [period EXCEPT ![Bank(pin)] = newPeriod % HalfWord] ELSE period
  /\ duty' = IF "duty" \in written
             THEN [duty EXCEPT ![pin % PinsPerBank] = newDuty] ELSE duty

(* Prescaler, period and duty, each whether or not those before failed.    *)
(* SetPeriod takes 16 bits, SetDuty the channel pin % 4 of the bank.       *)
WritePulse(pin, newPeriod, newDuty, written) ==
  /\ WriteRegister("prescaler_",
                   SetField(shadow["prescaler_"], PrescalerBits * Bank(pin),
                            PrescalerBits, GPIOPrescaler), "prescaler" \in written)
  /\ period' = IF "period" \in written
               THEN [period EXCEPT ![Bank(pin)] = newPeriod % HalfWord] ELSE period
  /\ duty' = IF "duty" \in written THEN [duty EXCEPT ![pin] = newDuty] ELSE duty

(* A call that fails leaves the pin undefined, one that changes the period *)
(* of the bank disturbs the other pins of the bank.                        *)
Pulse(pin, newPeriod, newDuty, asked) ==
  /\ Called
  /\ \E written \in SUBSET {"prescaler", "period", "duty"} :
       /\ WritePulse(pin, newPeriod, newDuty, written)
       /\ ok' = (written = {"prescaler", "period", "duty"})
  /\ pulse' = [p \in Pins |->
                 IF p = pin THEN IF ok' THEN {asked} ELSE {}
                 ELSE IF Bank(p) = Bank(pin) /\ period'[Bank(p)] # period[Bank(p)]
                 THEN {} ELSE pulse[p]]
  /\ UNCHANGED setting

(* A duty that does not fit 16 bits is converted from float: the result is *)
(* undefined, and either wraps or saturates.                               *)
DutyCounters(newDuty) ==
  IF newDuty < HalfWord THEN {newDuty} ELSE {newDuty % HalfWord, HalfWord - 1}

SetPWM(pin, p) ==
  \E newDuty \in DutyCounters(p.duty) :
    Pulse(pin, p.period, newDuty, [period |-> p.period, duty |-> p.duty])

(* The ratio is divided as an integer before it becomes a float.  Bound:   *)
(* min_pulse_ms is at most 1.5, else the difference wraps.                 *)
ServoDuty(angle, offset) ==
  ((ServoMiddle - offset) \div 90) * angle + offset

SetServoAngle(pin, angle, offset) ==
  LET newDuty == ServoDuty(angle, offset) % HalfWord IN
    Pulse(pin, ServoPeriod, newDuty, [period |-> ServoPeriod, duty |-> newDuty])

(* 37.7 * angle + 1800.                                                    *)
Set9GServoAngle(pin, angle) ==
  LET newDuty == ((377 * angle) \div 10 + 1800) % HalfWord IN
    Pulse(pin, ServoPeriod, newDuty, [period |-> ServoPeriod, duty |-> newDuty])

Next ==
  \/ Setup \/ RefusedCall
  \/ \E r \in PinRegisters, value \in Settings :
       \E pins \in {<<pin>> : pin \in Pins} \cup PinLists : SetPins(r, pins, value)
  \/ \E pin \in Pins, p \in Pulses : SetPWM(pin, p)
  \/ \E pin \in Pins, angle \in Angles : Set9GServoAngle(pin, angle)
  \/ \E pin \in Pins, angle \in Angles, offset \in MinPulses :
       SetServoAngle(pin, angle, offset)

Spec == Init /\ [][Next]_vars
------------------------------------------------------------------------------
TypeOK == /\ setUp \in BOOLEAN
          /\ shadow \in [Registers -> SUBSET Bits]
          /\ board \in [Registers -> SUBSET Bits]
          /\ period \in [Banks -> 0 .. HalfWord - 1]
          /\ duty \in [Pins -> 0 .. HalfWord - 1]
          /\ ok \in BOOLEAN
          /\ calls \in 0 .. MaxCalls
          /\ missed \subseteq Registers
          /\ setting \in [PinRegisters -> [Pins -> SUBSET {0, 1}]]

(* Setting by setting, with failures in between: as soon as one write of a *)
(* register succeeds, every pin has what was asked of it last, also by the *)
(* calls that failed.  (A pin counts as not asked for after a setting of   *)
(* its neighbour that is not 0 or 1: see the comment at gpio.cpp:11.)      *)
PinsAsAsked ==
  \A r \in PinRegisters \ missed, p \in Pins :
    \A value \in setting[r][p] : (p \in board[r]) = (value = 1)

(* A pulse that was asked for with success, and not disturbed by another   *)
(* period in its bank, is on the board: setting up one bank never changes  *)
(* another, nor a duty the duty of another pin.  A period or a duty that   *)
(* does not fit 16 bits is another one, though the call returned true.     *)
PulsesAsAsked ==
  \A p \in Pins : \A asked \in pulse[p] :
    asked.period < HalfWord /\ asked.duty < HalfWord =>
      /\ duty[p] = asked.duty
      /\ period[Bank(p)] = asked.period
      /\ "prescaler_" \notin missed =>
           {i \in 0 .. PrescalerBits - 1 : PrescalerBits * Bank(p) + i
                                             \in board["prescaler_"]}
             = BitsOf(GPIOPrescaler)
==============================================================================
