------------------------------- MODULE MatrixBus -------------------------------
(***************************************************************************)
(* MatrixIOBus with its two drivers, BusDirect (the SPI device) and        *)
(* BusKernel (the register map of the kernel module).  Init chooses the    *)
(* driver and may be called again, as the constructor of the Python        *)
(* microphone object does; the threads of a program read and write through *)
(* the driver, which has one pair of buffers under one mutex.              *)
(*                                                                         *)
(* Init does not run during a transfer: the programs call it before they   *)
(* have threads, Python under irq_m (PyMicrophones, InitExcludesReads).    *)
(* A program may go on though Init failed, as uart_demo does.              *)
(***************************************************************************)
EXTENDS Integers, FiniteSets

CONSTANTS BusThreads, \* the threads that use the bus
          MaxInits    \* bound on the calls of Init

ASSUME BusConstants == MaxInits \in Nat /\ "none" \notin BusThreads

VARIABLES bus_driver_, \* NULL, the kind of the driver, or "deleted"
          fds,         \* the devices that are open
          init,        \* where Init is
          inits,       \* the calls of Init, for the bound
          mutex_,      \* the thread that has locked the driver's mutex, if any
          tx_buffer_, rx_buffer_, \* whose request, or the answer to whose
          at,          \* where each thread is
          reads,       \* the request is a read
          answer,      \* the request whose answer the thread was given
          undefined,   \* a deleted or missing driver was used, or deleted twice
          noDevice     \* history: neither device opened in a call of Init

busVars == <<bus_driver_, fds, init, inits, mutex_, tx_buffer_, rx_buffer_, at, reads,
             answer, undefined, noDevice>>
transfer == <<mutex_, tx_buffer_, rx_buffer_, at, reads, answer>>

BusInit == /\ bus_driver_ = "NULL" /\ fds = {} /\ init = "idle" /\ inits = 0
           /\ mutex_ = "none" /\ tx_buffer_ = "none" /\ rx_buffer_ = "none"
           /\ at = [t \in BusThreads |-> "idle"]
           /\ reads = [t \in BusThreads |-> FALSE]
           /\ answer = [t \in BusThreads |-> t]
           /\ undefined = FALSE /\ noDevice = FALSE

Device(driver) == IF driver = "direct" THEN {"spidev0.0"} ELSE {"matrixio_regmap"}
------------------------------------------------------------------------------
(* Init: the old driver goes, and closes its device.                       *)
DeletesOld == /\ init = "idle" /\ inits < MaxInits /\ ~undefined
              /\ \A t \in BusThreads : at[t] = "idle"
              /\ inits' = inits + 1
              /\ undefined' = (bus_driver_ = "deleted")
              /\ fds' = IF bus_driver_ \in {"direct", "kernel"}
                        THEN fds \ Device(bus_driver_) ELSE fds
              /\ bus_driver_' = IF bus_driver_ = "NULL" THEN "NULL" ELSE "deleted"
              /\ init' = "direct"
              /\ UNCHANGED <<transfer, noDevice>>

(* BusDirect::Init may fail to open, or open and then fail to configure    *)
(* the device, which stays open until the object is deleted.               *)
OpensDirect == /\ init = "direct"
               /\ \/ /\ bus_driver_' = "direct" /\ init' = "configure"
                     /\ fds' = fds \cup Device("direct")
                  \/ /\ init' = "kernel"
                     /\ \E opened \in BOOLEAN :
                          fds' = IF opened THEN fds \cup Device("direct") ELSE fds
                     /\ UNCHANGED bus_driver_
               /\ UNCHANGED <<inits, transfer, undefined, noDevice>>

(* Mutant of OpensKernel: the objects change places in the delete.         *)
OpensKernelDeletesIt ==
  /\ init = "kernel"
  /\ bus_driver_' = "deleted" /\ init' = "configure"
  /\ UNCHANGED <<fds, inits, transfer, undefined, noDevice>>

(* Mutant of OpensKernel: bus_direct is not deleted.                       *)
OpensKernelOnly ==
  /\ init = "kernel"
  /\ bus_driver_' = "kernel" /\ init' = "configure"
  /\ fds' = fds \cup Device("kernel")
  /\ UNCHANGED <<inits, transfer, undefined, noDevice>>

(* Deleting bus_direct closes a device that did not configure.             *)
OpensKernel == /\ init = "kernel"
               /\ bus_driver_' = "kernel" /\ init' = "configure"
               /\ fds' = (fds \ Device("direct")) \cup Device("kernel")
               /\ UNCHANGED <<inits, transfer, undefined, noDevice>>

(* Neither opens: bus_driver_ is left as it is.                            *)
OpensNone == /\ init = "kernel"
             /\ fds' = fds \ Device("direct")
             /\ noDevice' = TRUE
             /\ init' = "idle"
             /\ UNCHANGED <<bus_driver_, inits, transfer, undefined>>

(* Write(12, 13), GetMatrixName and GetFPGAFrequency, any of which may     *)
(* fail: Init returns true or false, with the same driver.                 *)
Configures == /\ init = "configure"
              /\ undefined' = (bus_driver_ = "deleted")
              /\ init' = "idle"
              /\ UNCHANGED <<bus_driver_, fds, inits, transfer, noDevice>>

InitBus == DeletesOld \/ OpensDirect \/ OpensKernel \/ OpensNone \/ Configures
------------------------------------------------------------------------------
(* Mutant of Locks: without the mutex.                                     *)
DoesNotLock(t) == UNCHANGED mutex_

(* std::unique_lock of the driver's mutex.                                 *)
Locks(t) == mutex_ = "none" /\ mutex_' = t

(* The request goes into tx_buffer_, or, for a read of BusKernel, into the *)
(* buffer that the answer comes back in.                                   *)
Requests(t) ==
  /\ init = "idle" /\ inits > 0 /\ ~undefined /\ at[t] = "idle"
  /\ IF bus_driver_ \in {"direct", "kernel"}
     THEN /\ Locks(t)
          /\ at' = [at EXCEPT ![t] = "transfer"]
          /\ \E read \in BOOLEAN :
               /\ reads' = [reads EXCEPT ![t] = read]
               /\ IF bus_driver_ = "kernel" /\ read
                  THEN rx_buffer_' = t /\ UNCHANGED tx_buffer_
                  ELSE tx_buffer_' = t /\ UNCHANGED rx_buffer_
          /\ UNCHANGED undefined
     ELSE /\ undefined' = TRUE
          /\ UNCHANGED <<mutex_, at, reads, tx_buffer_, rx_buffer_>>
  /\ UNCHANGED <<bus_driver_, fds, init, inits, answer, noDevice>>

(* What the device carries out is what is in the buffer now.  BusDirect    *)
(* receives while it sends, a write as well.                               *)
Transfers(t) ==
  /\ at[t] = "transfer"
  /\ at' = [at EXCEPT ![t] = "copy"]
  /\ LET request == IF bus_driver_ = "kernel" /\ reads[t] THEN rx_buffer_ ELSE tx_buffer_
     IN /\ rx_buffer_' = IF bus_driver_ = "direct" THEN request ELSE rx_buffer_
        /\ answer' = [answer EXCEPT ![t] = request]
  /\ UNCHANGED <<bus_driver_, fds, init, inits, mutex_, tx_buffer_, reads, undefined,
                 noDevice>>

(* The ioctl fails: the call returns false.                                *)
TransferFails(t) ==
  /\ at[t] = "transfer"
  /\ at' = [at EXCEPT ![t] = "idle"]
  /\ mutex_' = "none"
  /\ UNCHANGED <<bus_driver_, fds, init, inits, tx_buffer_, rx_buffer_, reads, answer,
                 undefined, noDevice>>

(* memcpy of a read, and the lock's end.                                   *)
Copies(t) ==
  /\ at[t] = "copy"
  /\ at' = [at EXCEPT ![t] = "idle"]
  /\ answer' = IF reads[t] THEN [answer EXCEPT ![t] = rx_buffer_] ELSE answer
  /\ mutex_' = "none"
  /\ UNCHANGED <<bus_driver_, fds, init, inits, tx_buffer_, rx_buffer_, reads, undefined,
                 noDevice>>

UsesBus == \E t \in BusThreads : Requests(t) \/ Transfers(t) \/ TransferFails(t) \/ Copies(t)

BusNext == InitBus \/ UsesBus

BusSpec == BusInit /\ [][BusNext]_busVars
------------------------------------------------------------------------------
(* A thread's register is the one that is read or written, and a read      *)
(* gives it its own answer, whatever the other threads transfer through    *)
(* the same buffers.                                                       *)
OwnTransfer == \A t \in BusThreads : answer[t] = t

(* Init opens one device or none, and leaves open the one in use: failed   *)
(* calls and repeated ones do not use the descriptors up.                  *)
OneDeviceOpen ==
  init = "idle" /\ ~undefined =>
    fds = IF bus_driver_ \in {"direct", "kernel"} THEN Device(bus_driver_) ELSE {}

(* As long as every Init found a device, with or without a board behind    *)
(* it, no driver is used after its deletion or deleted twice.              *)
DriverIsAlive == undefined => noDevice
================================================================================
