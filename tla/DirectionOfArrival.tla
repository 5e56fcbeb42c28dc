-------------------------- MODULE DirectionOfArrival --------------------------
(***************************************************************************)
(* DirectionOfArrival::Calculate and the demo that shows its result        *)
(* (src/cpp/driver/direction_of_arrival.cpp,                               *)
(* src/demos/direction_of_arrival_demo_direct.cpp) on a Creator, whose     *)
(* microphones stand on a circle, one every 45 degrees.  The source moves  *)
(* in half of these steps; the correlation of the two microphones across   *)
(* the circle from each other has its peak at their delay.                 *)
(***************************************************************************)
EXTENDS Integers

CONSTANTS Length,    \* length_: NumberOfSamples()
          MaxTof,    \* max_tof
          Delays,    \* Delays[f][n]: the delay in samples between the microphones
                     \* of a pair from n - 1 half steps beside its axis
          NumLeds,
          LedOffset  \* led_offset

ASSUME DoaConstants ==
  /\ Length \in Nat /\ MaxTof \in 1 .. Length \div 2 /\ NumLeds \in Nat \ {0}
  /\ \A f \in DOMAIN Delays : Delays[f] \in [1 .. 5 -> 0 .. Length \div 2]
  /\ LedOffset \in [1 .. 8 -> Nat]

(* The circle is wide enough for the rate: on the axis of a pair, and 45   *)
(* degrees from it, the delay is two samples longer, or more, than across  *)
(* it; 22.5 degrees from the axis it is longer than 67.5 degrees from it,  *)
(* and two samples or more.                                                *)
ASSUME DoaGeometry ==
  \A f \in DOMAIN Delays : /\ Delays[f][1] > Delays[f][5] + 1
                           /\ Delays[f][2] > Delays[f][4] /\ Delays[f][2] > 1
                           /\ Delays[f][3] > Delays[f][5] + 1

VARIABLES source,    \* the direction of the source; microphone m stands at 2 * m
          rate,      \* the sampling frequency, a member of DOMAIN Delays
          heard,     \* the direction in the block that was read last
          current_index_,
          mic_direction_,
          leds,      \* the LEDs that are lit
          turn       \* where the demo's loop is

doaVars == <<source, rate, heard, current_index_, mic_direction_, leds, turn>>

Directions == 0 .. 15
Pairs == 0 .. 3

DoaInit == /\ source \in Directions /\ heard = source
           /\ rate \in DOMAIN Delays
           /\ current_index_ = [p \in Pairs |-> 0] /\ mic_direction_ = 0
           /\ leds = {} /\ turn = "read"

Moves == /\ source' \in {(source + 1) % 16, (source + 15) % 16}
         /\ UNCHANGED <<rate, heard, current_index_, mic_direction_, leds, turn>>

(* A read that fails leaves the block that was read last.                  *)
ReadsMics == /\ turn = "read" /\ turn' = "pairs"
             /\ heard' \in {source, heard}
             /\ UNCHANGED <<source, rate, current_index_, mic_direction_, leds>>

(* By how much microphone p + 4 hears a source later than microphone p.    *)
DelayOfPair(p, direction) ==
  LET beside == (direction - 2 * p + 16) % 16
      angle == IF beside > 8 THEN 16 - beside ELSE beside
  IN IF angle <= 4 THEN Delays[rate][angle + 1] ELSE -Delays[rate][9 - angle]

(* Exec and Result: the circular correlation, where it has its peak.       *)
Correlation(p) ==
  [i \in 0 .. Length - 1 |->
     IF i = (DelayOfPair(p, heard) + Length) % Length THEN 1 ELSE 0]

(* Mutant of Window: only delays in one direction.                         *)
WindowStart == [i \in 1 .. MaxTof |-> i - 1]

(* The delays that are looked at: less than MaxTof, then the negative ones. *)
Window == [i \in 1 .. 2 * MaxTof |-> IF i <= MaxTof THEN i - 1
                                     ELSE Length - 2 * MaxTof + i - 1]

(* The first index of the window with the highest correlation.             *)
HighestPeak(c) ==
  LET first == CHOOSE n \in DOMAIN Window :
                 \A k \in DOMAIN Window : /\ c[Window[n]] >= c[Window[k]]
                                          /\ k < n => c[Window[n]] > c[Window[k]]
  IN Window[first]

(* The first loop of Calculate.                                            *)
FindsPeaks == /\ turn = "pairs" /\ turn' = "direction"
              /\ current_index_' = [p \in Pairs |-> HighestPeak(Correlation(p))]
              /\ UNCHANGED <<source, rate, heard, mic_direction_, leds>>

(* A delay of -1 counts as much as none.                                   *)
getAbsDiff(index) == IF index < Length \div 2 THEN index ELSE Length - 1 - index

(* The pair perpendicular to the source: the first of the least delay.     *)
Perpendicular ==
  CHOOSE p \in Pairs :
    \A q \in Pairs :
      LET dp == getAbsDiff(current_index_[p])
          dq == getAbsDiff(current_index_[q])
      IN dp <= dq /\ (q < p => dp < dq)

(* The rest of Calculate.                                                  *)
FindsDirection ==
  /\ turn = "direction" /\ turn' = "show"
  /\ LET pair == (Perpendicular + 2) % 4 IN
       mic_direction_' = IF current_index_[pair] > Length \div 2 THEN pair + 4 ELSE pair
  /\ UNCHANGED <<source, rate, heard, current_index_, leds>>

(* Six LEDs, from three before the offset of the microphone.               *)
ShowsDirection ==
  /\ turn = "show" /\ turn' = "read"
  /\ leds' = {(LedOffset[mic_direction_ + 1] - 3 + j + NumLeds) % NumLeds : j \in 0 .. 5}
  /\ UNCHANGED <<source, rate, heard, current_index_, mic_direction_>>

DoaNext == Moves \/ ReadsMics \/ FindsPeaks \/ FindsDirection \/ ShowsDirection

DoaSpec == DoaInit /\ [][DoaNext]_doaVars
------------------------------------------------------------------------------
(* At the sampling rates whose delays fit the window, the microphone found *)
(* is the one nearest to the source of the block that was read, or one of  *)
(* the two, though a delay of -1 counts as none.                           *)
FacesSource ==
  turn = "show" /\ (\A n \in DOMAIN Delays[rate] : Delays[rate][n] < MaxTof) =>
    (heard - 2 * mic_direction_ + 16) % 16 \in {0, 1, 15}
================================================================================
