-------------------------------- MODULE MCBoard --------------------------------
(* Three drivers of the board, each on its own: a behaviour is one of Gpio, *)
(* of MatrixBus or of AudioOutput, the initial state says which.            *)
(*                                                                          *)
(* Gpio has two banks of two pins and the counters of a board at 150 MHz;   *)
(* 10 Hz does not fit the 16 bits of a period, its duty of 10% does.        *)
EXTENDS Gpio, MatrixBus, AudioOutput

TheLists == {<<0, 2>>, <<1, 0, 3>>}

ThePulses == {[period |-> 2343, duty |-> 1171], [period |-> 234375, duty |-> 23437]}

VARIABLE driver \* "gpio", "bus" or "audio"

MCInit == /\ driver \in {"gpio", "bus", "audio"}
          /\ Init /\ BusInit /\ AudioInit
          /\ driver # "gpio" => \A r \in Registers : board[r] = {}
          /\ driver # "audio" => boardFrequency = DefaultFrequency /\ filled = 0

MCNext == /\ UNCHANGED driver
          /\ \/ driver = "gpio" /\ Next /\ UNCHANGED <<busVars, audioVars>>
             \/ driver = "bus" /\ BusNext /\ UNCHANGED <<vars, audioVars>>
             \/ driver = "audio" /\ AudioNext /\ UNCHANGED <<vars, busVars>>

MCSpec == MCInit /\ [][MCNext]_<<driver, vars, busVars, audioVars>>
================================================================================
