------------------------------ MODULE BoardProofs ------------------------------
(***************************************************************************)
(* Proofs about MatrixBus, for every set of threads and number of calls of *)
(* Init, about AudioOutput, for every size of the FIFO and of a block and  *)
(* every set of frequencies, and about Gpio, for every number of banks and *)
(* pins and every set of settings, lists of pins, pulses and angles.       *)
(***************************************************************************)
EXTENDS MatrixBus, AudioOutput, Gpio, WellFoundedInduction, TLAPS

BusTypeOK == /\ bus_driver_ \in {"NULL", "direct", "kernel", "deleted"}
             /\ fds \subseteq Device("direct") \cup Device("kernel")
             /\ init \in {"idle", "direct", "kernel", "configure"}
             /\ inits \in Nat
             /\ mutex_ \in BusThreads \cup {"none"}
             /\ tx_buffer_ \in BusThreads \cup {"none"}
             /\ rx_buffer_ \in BusThreads \cup {"none"}
             /\ at \in [BusThreads -> {"idle", "transfer", "copy"}]
             /\ reads \in [BusThreads -> BOOLEAN]
             /\ answer \in [BusThreads -> BusThreads]
             /\ undefined \in BOOLEAN /\ noDevice \in BOOLEAN

HasDriver == bus_driver_ \in {"direct", "kernel"}

(* The buffer that a thread's request, and then its answer, is in.         *)
InRxBuffer(t) == bus_driver_ = "kernel" /\ reads[t]

(* The thread in a transfer is the one that holds the mutex.               *)
MutexHeld == \A t \in BusThreads : at[t] # "idle" <=> mutex_ = t

(* Init runs between transfers, and a transfer finds a driver.             *)
TransfersWithDriver == mutex_ # "none" => init = "idle" /\ HasDriver

(* The buffer of a transfer holds the thread's own request or answer.      *)
OwnBuffer ==
  \A t \in BusThreads :
    /\ at[t] = "transfer" => t = IF InRxBuffer(t) THEN rx_buffer_ ELSE tx_buffer_
    /\ at[t] = "copy" /\ reads[t] => rx_buffer_ = t

(* What is open at each place of Init.                                     *)
OpenInInit ==
  /\ init = "idle" => fds = IF HasDriver THEN Device(bus_driver_) ELSE {}
  /\ init = "direct" => fds = {} /\ ~HasDriver
  /\ init = "kernel" => fds \subseteq Device("direct") /\ ~HasDriver
  /\ init = "configure" => fds = Device(bus_driver_) /\ HasDriver

(* A call of Init that found no device is the only one that leaves the bus *)
(* without a driver.                                                       *)
WithoutDriver ==
  init = "idle" /\ ~HasDriver /\ (inits > 0 \/ bus_driver_ = "deleted") => noDevice

BusInv == /\ BusTypeOK /\ MutexHeld /\ TransfersWithDriver /\ OwnBuffer /\ OwnTransfer
          /\ OpenInInit /\ WithoutDriver /\ DriverIsAlive

(* A new bus has no driver and no request.                                 *)
LEMMA BusInitInv == BusInit => BusInv
<1>. SUFFICES ASSUME BusInit PROVE BusInv
  OBVIOUS
<1>1. BusTypeOK /\ OwnTransfer
  BY DEF BusInit, BusTypeOK, OwnTransfer
<1>2. MutexHeld /\ TransfersWithDriver /\ OwnBuffer
  BY BusConstants DEF BusInit, MutexHeld, TransfersWithDriver, OwnBuffer
<1>3. OpenInInit /\ WithoutDriver /\ DriverIsAlive
  BY DEF BusInit, OpenInInit, WithoutDriver, DriverIsAlive, HasDriver
<1>. QED
  BY <1>1, <1>2, <1>3 DEF BusInv

(* The steps of Init leave the transfers alone, and there is none while    *)
(* they are taken.                                                         *)
LEMMA InitBusTransfers ==
  ASSUME BusInv, InitBus
  PROVE  (MutexHeld /\ TransfersWithDriver /\ OwnBuffer /\ OwnTransfer)'
<1>1. UNCHANGED transfer
  BY DEF InitBus, DeletesOld, OpensDirect, OpensKernel, OpensNone, Configures
<1>2. mutex_ = "none"
  <2>1. CASE DeletesOld
    BY <2>1, BusConstants DEF DeletesOld, BusInv, BusTypeOK, MutexHeld
  <2>2. CASE OpensDirect \/ OpensKernel \/ OpensNone \/ Configures
    BY <2>2 DEF OpensDirect, OpensKernel, OpensNone, Configures, BusInv,
                TransfersWithDriver
  <2>. QED
    BY <2>1, <2>2 DEF InitBus
<1>3. (MutexHeld /\ TransfersWithDriver /\ OwnTransfer)'
  BY <1>1, <1>2 DEF transfer, BusInv, MutexHeld, TransfersWithDriver, OwnTransfer
<1>4. \A t \in BusThreads : at'[t] = "idle"
  BY <1>1, <1>2, BusConstants DEF transfer, BusInv, MutexHeld
<1>5. OwnBuffer'
  BY <1>4 DEF OwnBuffer
<1>. QED
  BY <1>3, <1>5

(* The steps of Init, one by one, open and close what OpenInInit says.     *)
LEMMA InitBusDevices ==
  ASSUME BusInv, InitBus
  PROVE  (BusTypeOK /\ OpenInInit /\ WithoutDriver /\ DriverIsAlive)'
<1>. USE DEF BusInv, BusTypeOK, OpenInInit, WithoutDriver, DriverIsAlive, HasDriver,
             Device, transfer
<1>1. CASE DeletesOld
  BY <1>1, BusConstants DEF DeletesOld
<1>2. CASE OpensDirect
  BY <1>2 DEF OpensDirect
<1>3. CASE OpensKernel
  BY <1>3 DEF OpensKernel
<1>4. CASE OpensNone
  BY <1>4 DEF OpensNone
<1>5. CASE Configures
  BY <1>5 DEF Configures
<1>. QED
  BY <1>1, <1>2, <1>3, <1>4, <1>5 DEF InitBus

(* A request takes the mutex and its buffer, or finds no driver; what it   *)
(* leaves alone are the devices.                                           *)
LEMMA RequestsInv ==
  ASSUME BusInv, NEW t \in BusThreads, Requests(t)
  PROVE  BusInv'
<1>1. UNCHANGED <<bus_driver_, fds, init, inits, answer, noDevice>>
      /\ init = "idle" /\ inits > 0
  BY DEF Requests
<1>2. (OwnTransfer /\ OpenInInit /\ WithoutDriver)'
  BY <1>1 DEF BusInv, OwnTransfer, OpenInInit, WithoutDriver, HasDriver, Device
<1>3. CASE HasDriver
  <2>1. /\ mutex_ = "none" /\ mutex_' = t /\ undefined' = undefined
        /\ at' = [at EXCEPT ![t] = "transfer"]
        /\ reads' \in [BusThreads -> BOOLEAN]
        /\ t = IF InRxBuffer(t)' THEN rx_buffer_' ELSE tx_buffer_'
        /\ rx_buffer_' \in {rx_buffer_, t} /\ tx_buffer_' \in {tx_buffer_, t}
    BY <1>1, <1>3 DEF Requests, Locks, HasDriver, BusInv, BusTypeOK, InRxBuffer
  <2>2. \A u \in BusThreads : at[u] = "idle"
    BY <2>1, BusConstants DEF BusInv, MutexHeld
  <2>3. BusTypeOK'
    BY <1>1, <2>1 DEF BusInv, BusTypeOK
  <2>4. (MutexHeld /\ TransfersWithDriver)'
    BY <1>1, <1>3, <2>1, <2>2 DEF BusInv, BusTypeOK, MutexHeld, TransfersWithDriver,
                                  HasDriver
  <2>5. OwnBuffer'
    BY <2>1, <2>2 DEF BusInv, BusTypeOK, OwnBuffer
  <2>. QED
    BY <1>1, <1>2, <2>1, <2>3, <2>4, <2>5 DEF BusInv, DriverIsAlive
<1>4. CASE ~HasDriver
  <2>1. UNCHANGED <<mutex_, at, reads, tx_buffer_, rx_buffer_>> /\ undefined' = TRUE
    BY <1>4 DEF Requests, HasDriver
  <2>2. noDevice
    BY <1>1, <1>4 DEF BusInv, WithoutDriver
  <2>3. (BusTypeOK /\ MutexHeld /\ TransfersWithDriver)'
    BY <1>1, <2>1 DEF BusInv, BusTypeOK, MutexHeld, TransfersWithDriver, HasDriver
  <2>4. OwnBuffer'
    BY <1>1, <2>1 DEF BusInv, OwnBuffer, InRxBuffer
  <2>. QED
    BY <1>1, <1>2, <2>2, <2>3, <2>4 DEF BusInv, DriverIsAlive
<1>. QED
  BY <1>3, <1>4

(* A transfer is carried out on the thread's own request: it holds the     *)
(* mutex, so that no other thread has put one there since.                 *)
LEMMA TransferStepsInv ==
  ASSUME BusInv, NEW t \in BusThreads, Transfers(t) \/ TransferFails(t) \/ Copies(t)
  PROVE  BusInv'
<1>1. UNCHANGED <<bus_driver_, fds, init, inits, tx_buffer_, reads, undefined, noDevice>>
  BY DEF Transfers, TransferFails, Copies
<1>2. (OpenInInit /\ WithoutDriver /\ DriverIsAlive)'
  BY <1>1 DEF BusInv, OpenInInit, WithoutDriver, DriverIsAlive, HasDriver, Device
<1>3. mutex_ = t /\ HasDriver /\ init = "idle"
      /\ \A u \in BusThreads : u # t => at[u] = "idle"
  BY BusConstants
     DEF Transfers, TransferFails, Copies, BusInv, MutexHeld, TransfersWithDriver
<1>4. CASE Transfers(t)
  <2>1. /\ at[t] = "transfer" /\ at' = [at EXCEPT ![t] = "copy"] /\ UNCHANGED mutex_
        /\ answer' = [answer EXCEPT ![t] = t]
        /\ rx_buffer_' = IF bus_driver_ = "direct" THEN t ELSE rx_buffer_
    BY <1>4 DEF Transfers, BusInv, OwnBuffer, InRxBuffer
  <2>2. (BusTypeOK /\ OwnTransfer)'
    BY <1>1, <2>1 DEF BusInv, BusTypeOK, OwnTransfer
  <2>3. (MutexHeld /\ TransfersWithDriver)'
    BY <1>1, <1>3, <2>1 DEF BusInv, BusTypeOK, MutexHeld, TransfersWithDriver, HasDriver
  <2>4. reads[t] => rx_buffer_' = t
    BY <1>3, <2>1 DEF BusInv, OwnBuffer, InRxBuffer, HasDriver
  <2>5. OwnBuffer'
    BY <1>1, <1>3, <2>1, <2>4 DEF BusInv, BusTypeOK, OwnBuffer
  <2>. QED
    BY <1>2, <2>2, <2>3, <2>5 DEF BusInv
<1>5. CASE TransferFails(t) \/ Copies(t)
  <2>1. /\ at' = [at EXCEPT ![t] = "idle"] /\ mutex_' = "none" /\ UNCHANGED rx_buffer_
        /\ answer' = answer \/ answer' = [answer EXCEPT ![t] = t]
    BY <1>5 DEF TransferFails, Copies, BusInv, OwnBuffer
  <2>2. (BusTypeOK /\ OwnTransfer)'
    BY <1>1, <2>1 DEF BusInv, BusTypeOK, OwnTransfer
  <2>3. \A u \in BusThreads : at'[u] = "idle"
    BY <1>3, <2>1 DEF BusInv, BusTypeOK
  <2>4. (MutexHeld /\ TransfersWithDriver /\ OwnBuffer)'
    BY <2>1, <2>3, BusConstants DEF MutexHeld, TransfersWithDriver, OwnBuffer
  <2>. QED
    BY <1>2, <2>2, <2>4 DEF BusInv
<1>. QED
  BY <1>4, <1>5

(* The invariant of MatrixBus, for every set of threads.                   *)
THEOREM BusInvariant == BusSpec => []BusInv
<1>1. BusInv /\ [BusNext]_busVars => BusInv'
  <2>. SUFFICES ASSUME BusInv, [BusNext]_busVars PROVE BusInv'
    OBVIOUS
  <2>1. CASE UNCHANGED busVars
    BY <2>1 DEF busVars, BusInv, BusTypeOK, MutexHeld, TransfersWithDriver, OwnBuffer,
                OwnTransfer, OpenInInit, WithoutDriver, DriverIsAlive, HasDriver,
                InRxBuffer, Device
  <2>2. CASE InitBus
    BY <2>2, InitBusTransfers, InitBusDevices DEF BusInv
  <2>3. CASE UsesBus
    BY <2>3, RequestsInv, TransferStepsInv DEF UsesBus
  <2>. QED
    BY <2>1, <2>2, <2>3 DEF BusNext
<1>. QED
  BY <1>1, BusInitInv, PTL DEF BusSpec

(* The variables of the bus have their types.                              *)
THEOREM BusTypeCorrect == BusSpec => []BusTypeOK
  BY BusInvariant, PTL DEF BusInv

(* However many threads read and write, each gets the answer to its own    *)
(* request out of the shared buffers.                                      *)
THEOREM OwnAnswers == BusSpec => []OwnTransfer
  BY BusInvariant, PTL DEF BusInv

(* However often Init is called, and fails, the driver in use has its      *)
(* device open and no other device is.                                     *)
THEOREM NoDescriptorLeaks == BusSpec => []OneDeviceOpen
<1>1. BusInv => OneDeviceOpen
  BY DEF BusInv, OpenInInit, OneDeviceOpen, HasDriver
<1>. QED
  BY <1>1, BusInvariant, PTL

(* A missing or deleted driver is used only after a call of Init that      *)
(* found neither device.                                                   *)
THEOREM DriverUsedAlive == BusSpec => []DriverIsAlive
  BY BusInvariant, PTL DEF BusInv

------------------------------------------------------------------------------
AudioTypeOK == /\ attached \in BOOLEAN /\ flushing \in BOOLEAN /\ overwritten \in BOOLEAN
               /\ frequencySet \in BOOLEAN /\ accessFailed \in BOOLEAN
               /\ PCM_sampling_frequency_ \in Frequencies
               /\ boardFrequency \in Frequencies
               /\ read_pointer \in 0 .. FIFOSize - 1 /\ seen \in 0 .. FIFOSize - 1
               /\ write_pointer \in 0 .. FIFOSize - 1
               /\ filled \in 0 .. FIFOSize
               /\ due \in Nat
               /\ writer \in {"idle", "pointer", "sleep", "write"}

(* No access has failed since the frequency was set.                       *)
Works == ~accessFailed /\ frequencySet

WritesAttached == writer # "idle" => attached /\ ~overwritten

FrequencyKnown == Works => PCM_sampling_frequency_ = boardFrequency

(* The samples in the FIFO are those between its pointers.                 *)
PointersAgree == ~overwritten => \/ write_pointer = read_pointer + filled
                                 \/ write_pointer = read_pointer + filled - FIFOSize

(* The level that Write computes from the read pointer it has seen is not  *)
(* below what is in the FIFO by then.                                      *)
LevelNotBelow == writer = "pointer" /\ Works => filled <= Level(write_pointer, seen)

(* When the sleep is over there is room for a block.                       *)
RoomForBlock == /\ writer = "sleep" /\ Works => filled + MaxWriteLength <= FIFOSize + due
                /\ writer = "write" /\ Works => filled + MaxWriteLength <= FIFOSize

AudioInv == /\ AudioTypeOK /\ WritesAttached /\ FrequencyKnown /\ PointersAgree
            /\ LevelNotBelow /\ RoomForBlock /\ NothingOverwritten

(* Modulo FIFOSize, for the pointers.                                      *)
LEMMA PointerAfter ==
  ASSUME NEW p \in 0 .. FIFOSize - 1, NEW n \in 0 .. FIFOSize
  PROVE  (p + n) % FIFOSize = IF p + n < FIFOSize THEN p + n ELSE p + n - FIFOSize
  BY AudioConstants

(* At the frequency the driver believes in a sleep lasts for one block.    *)
LEMMA SleepLastsABlock ==
  ASSUME AudioTypeOK
  PROVE  /\ SleepSamples \in Nat
         /\ PCM_sampling_frequency_ = boardFrequency => SleepSamples = MaxWriteLength
<1>1. /\ PCM_sampling_frequency_ \in Nat /\ PCM_sampling_frequency_ > 0
      /\ boardFrequency \in Nat /\ MaxWriteLength \in Nat
  BY AudioConstants DEF AudioTypeOK
<1>2. SleepSamples \in Nat
  BY <1>1 DEF SleepSamples
<1>3. (MaxWriteLength * boardFrequency) \div boardFrequency = MaxWriteLength
      \/ boardFrequency = 0
  BY <1>1
<1>. QED
  BY <1>1, <1>2, <1>3 DEF SleepSamples

(* The level of the pointers of a FIFO that nothing was written over.      *)
LEMMA LevelIsFilled ==
  ASSUME AudioTypeOK, PointersAgree, ~overwritten
  PROVE  filled <= Level(write_pointer, read_pointer)
  BY AudioConstants DEF AudioTypeOK, PointersAgree, Level

(* A board that has just been started has a consistent FIFO.               *)
LEMMA AudioInitInv == AudioInit => AudioInv
<1>. SUFFICES ASSUME AudioInit PROVE AudioInv
  OBVIOUS
<1>0. filled \in 0 .. FIFOSize - 1 /\ FIFOSize \in Nat \ {0}
  BY AudioConstants DEF AudioInit
<1>1. AudioTypeOK
  <2>1. /\ attached \in BOOLEAN /\ flushing \in BOOLEAN /\ overwritten \in BOOLEAN
        /\ frequencySet \in BOOLEAN /\ accessFailed \in BOOLEAN
    BY DEF AudioInit
  <2>2. PCM_sampling_frequency_ \in Frequencies /\ boardFrequency \in Frequencies
    BY AudioConstants DEF AudioInit
  <2>3. /\ read_pointer \in 0 .. FIFOSize - 1 /\ seen \in 0 .. FIFOSize - 1
        /\ write_pointer \in 0 .. FIFOSize - 1 /\ due \in Nat
    BY <1>0 DEF AudioInit
  <2>. QED
    BY <1>0, <2>1, <2>2, <2>3 DEF AudioInit, AudioTypeOK
<1>3. PointersAgree
  BY <1>0, AudioConstants DEF AudioInit, PointersAgree
<1>2. WritesAttached /\ FrequencyKnown /\ LevelNotBelow /\ RoomForBlock
      /\ NothingOverwritten
  BY DEF AudioInit, WritesAttached, FrequencyKnown, Works, LevelNotBelow, RoomForBlock,
         NothingOverwritten
<1>. QED
  BY <1>1, <1>2, <1>3 DEF AudioInv

(* What Fails records.                                                     *)
LEMMA FailsRecords ==
  ASSUME AudioTypeOK, NEW done \in BOOLEAN, Fails(done)
  PROVE  /\ accessFailed' \in BOOLEAN
         /\ ~accessFailed' => ~accessFailed /\ done
  BY DEF AudioTypeOK, Fails

(* A flush leaves the FIFO as it is, or empty.                             *)
LEMMA FlushEmpties ==
  ASSUME AudioInv, FIFOFlush
  PROVE  /\ flushing' \in BOOLEAN /\ accessFailed' \in BOOLEAN
         /\ accessFailed => accessFailed'
         /\ \/ UNCHANGED <<read_pointer, write_pointer, filled>>
            \/ read_pointer' = 0 /\ write_pointer' = 0 /\ filled' = 0
  BY DEF FIFOFlush, Fails, AudioInv, AudioTypeOK

(* The calls that are made between two blocks.                             *)
LEMMA IdleStepsInv ==
  ASSUME AudioInv,
         \/ SetupAudio \/ Flushes \/ SetsOutput \/ GetPCMSamplingFrequency
         \/ \E f \in Frequencies : SetPCMSamplingFrequency(f)
  PROVE  AudioInv'
<1>1. writer = "idle" /\ UNCHANGED <<writer, seen, due, overwritten>>
  BY DEF SetupAudio, Flushes, SetsOutput, GetPCMSamplingFrequency,
         SetPCMSamplingFrequency, Free, AudioInv, AudioTypeOK, WritesAttached
<1>2. (WritesAttached /\ LevelNotBelow /\ RoomForBlock)'
  BY <1>1 DEF WritesAttached, LevelNotBelow, RoomForBlock
<1>3. CASE SetupAudio \/ Flushes
  <2>1. UNCHANGED <<PCM_sampling_frequency_, boardFrequency, frequencySet>> /\ FIFOFlush
        /\ attached' \in BOOLEAN
    BY <1>3 DEF SetupAudio, Flushes, AudioInv, AudioTypeOK
  <2>2. (AudioTypeOK /\ PointersAgree)'
    BY <1>1, <2>1, FlushEmpties, AudioConstants DEF AudioInv, AudioTypeOK, PointersAgree
  <2>3. (FrequencyKnown /\ NothingOverwritten)'
    BY <1>1, <2>1, FlushEmpties DEF AudioInv, FrequencyKnown, NothingOverwritten, Works
  <2>. QED
    BY <1>2, <2>2, <2>3 DEF AudioInv
<1>4. CASE \/ SetsOutput \/ GetPCMSamplingFrequency
           \/ \E f \in Frequencies : SetPCMSamplingFrequency(f)
  <2>. USE DEF SetsOutput, GetPCMSamplingFrequency, SetPCMSamplingFrequency, Fails
  <2>1. UNCHANGED <<attached, fifo>> /\ accessFailed' \in BOOLEAN
    BY <1>4 DEF AudioInv, AudioTypeOK
  <2>2. (AudioTypeOK /\ PointersAgree)'
    <3>1. /\ PCM_sampling_frequency_' \in Frequencies /\ boardFrequency' \in Frequencies
          /\ frequencySet' \in BOOLEAN
      BY <1>4 DEF AudioInv, AudioTypeOK
    <3>. QED
      BY <1>1, <2>1, <3>1 DEF fifo, AudioInv, AudioTypeOK, PointersAgree
  <2>3. FrequencyKnown'
    <3>1. CASE SetsOutput
      BY <3>1, FailsRecords DEF AudioInv, FrequencyKnown, Works
    <3>2. CASE GetPCMSamplingFrequency
      BY <3>2, FailsRecords DEF AudioInv, FrequencyKnown, Works
    <3>3. ASSUME NEW f \in Frequencies, SetPCMSamplingFrequency(f) PROVE FrequencyKnown'
      <4>1. PICK done \in BOOLEAN :
               boardFrequency' = (IF done THEN f ELSE boardFrequency) /\ Fails(done)
        BY <3>3
      <4>. QED
        BY <3>3, <4>1, FailsRecords DEF AudioInv, FrequencyKnown, Works
    <3>. QED
      BY <1>4, <3>1, <3>2, <3>3
  <2>4. NothingOverwritten'
    BY <1>1, <1>4 DEF Free, NothingOverwritten
  <2>. QED
    BY <1>2, <2>2, <2>3, <2>4 DEF AudioInv
<1>. QED
  BY <1>3, <1>4

(* The first read of GetFIFOStatus.                                        *)
LEMMA ReadsReadPointerInv ==
  ASSUME AudioInv, ReadsReadPointer
  PROVE  AudioInv'
<1>. USE DEF ReadsReadPointer, Fails, fifo
<1>1. (AudioTypeOK /\ WritesAttached /\ RoomForBlock)'
  BY AudioConstants DEF Free, AudioInv, AudioTypeOK, WritesAttached, RoomForBlock
<1>2. (FrequencyKnown /\ PointersAgree /\ NothingOverwritten)'
  BY DEF AudioInv, AudioTypeOK, FrequencyKnown, Works, PointersAgree, NothingOverwritten
<1>3. LevelNotBelow'
  BY LevelIsFilled DEF AudioInv, LevelNotBelow, Works, NothingOverwritten, Level
<1>. QED
  BY <1>1, <1>2, <1>3 DEF AudioInv

(* The second read, and what Write makes of the level: three quarters of   *)
(* the FIFO leave room for a block, and a sleep makes it.                  *)
LEMMA ReadsWritePointerInv ==
  ASSUME AudioInv, ReadsWritePointer
  PROVE  AudioInv'
<1>. USE DEF fifo
<1>1. PICK write \in 0 .. FIFOSize - 1, done \in BOOLEAN :
         /\ done => write = write_pointer
         /\ Fails(done)
         /\ IF Level(write, seen) > (FIFOSize * 3) \div 4
            THEN writer' = "sleep" /\ due' = SleepSamples
            ELSE writer' = "write" /\ UNCHANGED due
  BY DEF ReadsWritePointer
<1>2. /\ writer = "pointer"
      /\ UNCHANGED <<attached, PCM_sampling_frequency_, boardFrequency, fifo, seen,
                     overwritten, frequencySet>>
  BY DEF ReadsWritePointer
<1>3. (AudioTypeOK /\ WritesAttached)'
  BY <1>1, <1>2, SleepLastsABlock DEF AudioInv, AudioTypeOK, WritesAttached, Fails
<1>4. (FrequencyKnown /\ PointersAgree /\ LevelNotBelow /\ NothingOverwritten)'
  BY <1>1, <1>2 DEF AudioInv, AudioTypeOK, FrequencyKnown, Works, PointersAgree,
                    LevelNotBelow, NothingOverwritten, Fails
<1>5. RoomForBlock'
  <2>. SUFFICES ASSUME Works' PROVE RoomForBlock'
    BY DEF RoomForBlock
  <2>1. Works /\ write = write_pointer
    BY <1>1, <1>2 DEF Works, Fails, AudioInv, AudioTypeOK
  <2>2. filled <= Level(write, seen) /\ filled \in 0 .. FIFOSize /\ filled' = filled
    BY <1>2, <2>1 DEF AudioInv, AudioTypeOK, LevelNotBelow
  <2>3. Level(write, seen) \in Int
    BY AudioConstants DEF Level, AudioInv, AudioTypeOK
  <2>4. CASE Level(write, seen) > (FIFOSize * 3) \div 4
    BY <1>1, <2>1, <2>2, <2>4, SleepLastsABlock, AudioConstants
       DEF RoomForBlock, AudioInv, FrequencyKnown
  <2>5. CASE ~(Level(write, seen) > (FIFOSize * 3) \div 4)
    BY <1>1, <2>2, <2>3, <2>5, AudioConstants DEF RoomForBlock
  <2>. QED
    BY <2>4, <2>5
<1>. QED
  BY <1>3, <1>4, <1>5 DEF AudioInv

(* The end of the sleep.                                                   *)
LEMMA WakesInv ==
  ASSUME AudioInv, Wakes
  PROVE  AudioInv'
  BY AudioConstants
     DEF Wakes, fifo, AudioInv, AudioTypeOK, WritesAttached, FrequencyKnown, Works,
         PointersAgree, LevelNotBelow, RoomForBlock, NothingOverwritten

(* The block finds the room that was made for it.                          *)
LEMMA WritesBlockInv ==
  ASSUME AudioInv, WritesBlock
  PROVE  AudioInv'
<1>1. /\ writer = "write" /\ writer' = "idle" /\ seen' = 0
      /\ UNCHANGED <<attached, PCM_sampling_frequency_, boardFrequency, flushing,
                     read_pointer, due, frequencySet>>
  BY DEF WritesBlock
<1>2. PICK done \in BOOLEAN :
       /\ Fails(done)
       /\ IF done /\ ~flushing
          THEN /\ write_pointer' = (write_pointer + MaxWriteLength) % FIFOSize
               /\ overwritten' = (filled + MaxWriteLength > FIFOSize)
               /\ filled' = IF overwritten' THEN FIFOSize ELSE filled + MaxWriteLength
          ELSE UNCHANGED <<write_pointer, filled, overwritten>>
  BY DEF WritesBlock
<1>3. (WritesAttached /\ FrequencyKnown /\ LevelNotBelow /\ RoomForBlock)'
  BY <1>1, <1>2 DEF AudioInv, AudioTypeOK, WritesAttached, FrequencyKnown, Works, Fails,
                    LevelNotBelow, RoomForBlock
<1>4. CASE done /\ ~flushing
  <2>0. /\ MaxWriteLength \in 0 .. FIFOSize /\ FIFOSize \in Nat
        /\ write_pointer \in 0 .. FIFOSize - 1 /\ filled \in 0 .. FIFOSize
    BY AudioConstants DEF AudioInv, AudioTypeOK
  <2>1. write_pointer' = IF write_pointer + MaxWriteLength < FIFOSize
                         THEN write_pointer + MaxWriteLength
                         ELSE write_pointer + MaxWriteLength - FIFOSize
    BY <1>2, <1>4, <2>0, PointerAfter
  <2>4. /\ overwritten' = (filled + MaxWriteLength > FIFOSize)
        /\ filled' = IF overwritten' THEN FIFOSize ELSE filled + MaxWriteLength
    BY <1>2, <1>4
  <2>5. /\ overwritten' \in BOOLEAN
        /\ overwritten' <=> filled + MaxWriteLength > FIFOSize
        /\ filled' = IF filled + MaxWriteLength > FIFOSize
                     THEN FIFOSize ELSE filled + MaxWriteLength
    <3>1. CASE filled + MaxWriteLength > FIFOSize
      <4>1. overwritten' = TRUE
        BY <2>4, <3>1
      <4>. QED
        BY <2>4, <3>1, <4>1
    <3>2. CASE ~(filled + MaxWriteLength > FIFOSize)
      <4>1. (filled + MaxWriteLength > FIFOSize) = FALSE
        BY <3>2
      <4>2. overwritten' = FALSE
        BY <2>4, <4>1, Zenon
      <4>. QED
        BY <2>4, <3>2, <4>2
    <3>. QED
      BY <3>1, <3>2
  <2>2. AudioTypeOK'
    <3>1. write_pointer' \in 0 .. FIFOSize - 1 /\ filled' \in 0 .. FIFOSize
      BY <2>0, <2>1, <2>5
    <3>. QED
      BY <1>1, <1>2, <2>5, <3>1, FailsRecords, AudioConstants DEF AudioInv, AudioTypeOK
  <2>3. NothingOverwritten'
    <3>1. accessFailed' = (accessFailed \/ ~done)
      BY <1>2 DEF Fails
    <3>2. ASSUME Works PROVE overwritten' = FALSE
      <4>1. filled + MaxWriteLength <= FIFOSize
        BY <1>1, <3>2 DEF AudioInv, RoomForBlock
      <4>. QED
        BY <2>0, <2>5, <4>1
    <3>. QED
      BY <1>1, <1>4, <3>1, <3>2 DEF NothingOverwritten, Works
  <2>6. PointersAgree'
    <3>. SUFFICES ASSUME ~overwritten' PROVE PointersAgree'
      BY DEF PointersAgree
    <3>1. filled' = filled + MaxWriteLength /\ read_pointer' = read_pointer
      BY <1>1, <2>0, <2>5
    <3>2. /\ read_pointer \in 0 .. FIFOSize - 1
          /\ \/ write_pointer = read_pointer + filled
             \/ write_pointer = read_pointer + filled - FIFOSize
      BY <1>1 DEF AudioInv, AudioTypeOK, WritesAttached, PointersAgree
    <3>. QED
      BY <2>0, <2>1, <2>5, <3>1, <3>2 DEF PointersAgree
  <2>. QED
    BY <1>3, <2>2, <2>3, <2>6 DEF AudioInv
<1>5. CASE ~(done /\ ~flushing)
  BY <1>1, <1>2, <1>3, <1>5, AudioConstants
     DEF AudioInv, AudioTypeOK, PointersAgree, NothingOverwritten, Fails
<1>. QED
  BY <1>4, <1>5

(* The converter only makes room.                                          *)
LEMMA PlaysInv ==
  ASSUME AudioInv, Plays
  PROVE  AudioInv'
<1>0. /\ read_pointer \in 0 .. FIFOSize - 1 /\ filled \in 0 .. FIFOSize /\ due \in Nat
      /\ FIFOSize \in Nat \ {0} /\ 1 \in 0 .. FIFOSize
  BY AudioConstants DEF AudioInv, AudioTypeOK
<1>a. (read_pointer + 1) % FIFOSize
        = IF read_pointer + 1 < FIFOSize THEN read_pointer + 1
                                         ELSE read_pointer + 1 - FIFOSize
  BY <1>0, PointerAfter
<1>1. /\ filled' = IF filled > 0 THEN filled - 1 ELSE filled
      /\ read_pointer' = IF filled > 0
                         THEN IF read_pointer = FIFOSize - 1 THEN 0 ELSE read_pointer + 1
                         ELSE read_pointer
      /\ due' = IF due > 0 THEN due - 1 ELSE 0
      /\ UNCHANGED <<attached, PCM_sampling_frequency_, boardFrequency, flushing,
                     write_pointer, writer, seen, overwritten, frequencySet, accessFailed>>
  BY <1>0, <1>a DEF Plays
<1>2. AudioTypeOK'
  BY <1>1, AudioConstants DEF AudioInv, AudioTypeOK
<1>3. (WritesAttached /\ FrequencyKnown /\ NothingOverwritten)'
  BY <1>1 DEF AudioInv, WritesAttached, FrequencyKnown, NothingOverwritten, Works
<1>4. PointersAgree'
  BY <1>1, AudioConstants DEF AudioInv, AudioTypeOK, PointersAgree
<1>5. (LevelNotBelow /\ RoomForBlock)'
  BY <1>1, AudioConstants
     DEF AudioInv, AudioTypeOK, LevelNotBelow, Level, RoomForBlock, Works
<1>. QED
  BY <1>2, <1>3, <1>4, <1>5 DEF AudioInv

(* The invariant of AudioOutput, for every size of the FIFO.               *)
THEOREM AudioInvariant == AudioSpec => []AudioInv
<1>1. AudioInv /\ [AudioNext]_audioVars => AudioInv'
  <2>. SUFFICES ASSUME AudioInv, [AudioNext]_audioVars PROVE AudioInv'
    OBVIOUS
  <2>1. CASE UNCHANGED audioVars
    BY <2>1 DEF audioVars, fifo, AudioInv, AudioTypeOK, WritesAttached, FrequencyKnown,
                Works, PointersAgree, LevelNotBelow, Level, RoomForBlock,
                NothingOverwritten
  <2>2. CASE AudioNext
    BY <2>2, IdleStepsInv, ReadsReadPointerInv, ReadsWritePointerInv, WakesInv,
       WritesBlockInv, PlaysInv DEF AudioNext, WriteBlock
  <2>. QED
    BY <2>1, <2>2
<1>. QED
  BY <1>1, AudioInitInv, PTL DEF AudioSpec

(* The variables of the output have their types.                           *)
THEOREM AudioTypeCorrect == AudioSpec => []AudioTypeOK
  BY AudioInvariant, PTL DEF AudioInv

(* With a working bus and a frequency that was set, Write overwrites       *)
(* nothing, for every FIFO that is four blocks long or longer.             *)
THEOREM WriteFindsRoom == AudioSpec => []NothingOverwritten
  BY AudioInvariant, PTL DEF AudioInv

------------------------------------------------------------------------------
(* Induction over the naturals, for a set: the library's theorem has an    *)
(* operator for a parameter.                                               *)
LEMMA InductionOnSet ==
  ASSUME NEW S \in SUBSET Nat, 0 \in S, \A n \in S : n + 1 \in S
  PROVE  S = Nat
<1> SUFFICES ASSUME Nat \ S # {} PROVE FALSE
  OBVIOUS
<1>1. PICK m \in Nat \ S : \A k \in Nat \ S : <<k, m>> \notin OpToRel(<, Nat)
  BY WFMin, NatLessThanWellFounded, Zenon
<1>2. \A k \in Nat \ S : ~ (k < m)
  BY <1>1, Zenon DEF OpToRel
<1>3. m \in Nat /\ m # 0
  BY <1>1, Zenon
<1>4. m - 1 \in Nat /\ m - 1 < m /\ (m - 1) + 1 = m
  BY ONLY <1>3
<1>5. m - 1 \in S
  BY <1>2, <1>4
<1>6. QED
  BY <1>1, <1>4, <1>5

(* The values that n turns of a loop give, from v0 on.                     *)
IsLoop(g, v0, n, step) == g[0] = v0 /\ \A k \in 1 .. n : g[k] = step[k][g[k - 1]]

(* A loop has values.                                                      *)
LEMMA LoopExists ==
  ASSUME NEW V, NEW v0 \in V, NEW n \in Nat, NEW step \in [1 .. n -> [V -> V]]
  PROVE  \E g \in [0 .. n -> V] : IsLoop(g, v0, n, step)
<1> DEFINE Good(m, g) == g[0] = v0 /\ \A k \in 1 .. m : g[k] = step[k][g[k - 1]]
           Done == {m \in Nat : m > n \/ \E g \in [0 .. m -> V] : Good(m, g)}
<1>1. 0 \in Done
  <2>1. [i \in 0 .. 0 |-> v0] \in [0 .. 0 -> V] /\ Good(0, [i \in 0 .. 0 |-> v0])
    OBVIOUS
  <2>2. QED
    BY <2>1
<1>2. ASSUME NEW m \in Done PROVE m + 1 \in Done
  <2>1. m \in Nat /\ m + 1 \in Nat
    OBVIOUS
  <2>2. CASE m + 1 > n
    BY <2>1, <2>2
  <2>3. CASE ~(m + 1 > n)
    <3>1. PICK g \in [0 .. m -> V] : Good(m, g)
      BY <2>1, <2>3
    <3>2. m + 1 \in 1 .. n /\ step[m + 1] \in [V -> V] /\ g[m] \in V
      BY <2>1, <2>3, <3>1
    <3> DEFINE h == [i \in 0 .. m + 1 |-> IF i = m + 1 THEN step[m + 1][g[m]] ELSE g[i]]
    <3>3. h \in [0 .. m + 1 -> V]
      BY <2>1, <3>1, <3>2
    <3>4. h[0] = v0
      BY <2>1, <3>1
    <3>5. ASSUME NEW k \in 1 .. m + 1 PROVE h[k] = step[k][h[k - 1]]
      <4>1. CASE k = m + 1
        BY <2>1, <4>1
      <4>2. CASE k # m + 1
        BY <2>1, <3>1, <4>2
      <4>3. QED
        BY <4>1, <4>2
    <3>6. QED
      BY <2>1, <3>3, <3>4, <3>5
  <2>4. QED
    BY <2>2, <2>3
<1>3. Done \in SUBSET Nat
  OBVIOUS
<1> HIDE DEF Done
<1>4. Done = Nat
  BY <1>1, <1>2, <1>3, InductionOnSet
<1>5. n \in Done
  BY <1>4
<1>6. QED
  BY <1>5 DEF Done, IsLoop

(* What each turn of a loop keeps holds at its end.                        *)
LEMMA LoopKeeps ==
  ASSUME NEW V, NEW n \in Nat, NEW f, f[0] \in V,
         \A k \in 1 .. n : f[k - 1] \in V => f[k] \in V
  PROVE  f[n] \in V
<1> DEFINE Done == {m \in Nat : m > n \/ f[m] \in V}
<1>1. 0 \in Done
  OBVIOUS
<1>2. ASSUME NEW m \in Done PROVE m + 1 \in Done
  <2>1. m \in Nat /\ (m > n \/ f[m] \in V)
    OBVIOUS
  <2>2. m + 1 > n \/ (m + 1 \in 1 .. n /\ (m + 1) - 1 = m /\ ~(m > n))
    BY <2>1
  <2>3. QED
    BY <2>1, <2>2
<1>3. Done \in SUBSET Nat
  OBVIOUS
<1> HIDE DEF Done
<1>4. Done = Nat
  BY <1>1, <1>2, <1>3, InductionOnSet
<1>5. n \in Done
  BY <1>4
<1>6. QED
  BY <1>5 DEF Done

------------------------------------------------------------------------------
(* Setting one field after the other.                                      *)
LEMMA FieldsSetLoop ==
  ASSUME NEW register \in SUBSET Bits, NEW pins \in Seq(Pins), NEW value
  PROVE  \E f : /\ f[0] = register /\ FieldsSet(register, pins, value) = f[Len(pins)]
               /\ \A k \in 1 .. Len(pins) : f[k] = SetField(f[k - 1], pins[k], 1, value)
<1> DEFINE n == Len(pins)
           body(h) == [k \in 0 .. n |-> IF k = 0 THEN register
                                        ELSE SetField(h[k - 1], pins[k], 1, value)]
           after == CHOOSE h : h = body(h)
           step == [k \in 1 .. n |->
                      [s \in SUBSET Bits |-> SetField(s, pins[k], 1, value)]]
<1>1. n \in Nat
  OBVIOUS
<1>2. step \in [1 .. n -> [SUBSET Bits -> SUBSET Bits]]
  BY DEF SetField
<1>3. PICK g \in [0 .. n -> SUBSET Bits] : IsLoop(g, register, n, step)
  <2> DEFINE V == SUBSET Bits
  <2>1. register \in V /\ step \in [1 .. n -> [V -> V]] /\ n \in Nat
    BY <1>1, <1>2
  <2>2. \E g \in [0 .. n -> V] : IsLoop(g, register, n, step)
    <3> HIDE DEF n, step, V
    <3>1. QED
      BY <2>1, LoopExists
  <2>3. QED
    BY <2>2
<1>4. g = body(g)
  <2>1. ASSUME NEW k \in 0 .. n PROVE g[k] = body(g)[k]
    <3>1. CASE k = 0
      BY <1>3, <3>1 DEF IsLoop
    <3>2. CASE k # 0
      <4>1. k \in 1 .. n /\ k - 1 \in 0 .. n
        BY <1>1, <3>2
      <4>2. g[k] = step[k][g[k - 1]] /\ g[k - 1] \in SUBSET Bits
        BY <1>3, <4>1 DEF IsLoop
      <4>3. QED
        BY <3>2, <4>1, <4>2
    <3>3. QED
      BY <3>1, <3>2
  <2>2. QED
    BY <1>3, <2>1
<1>5. after = body(after)
  <2> HIDE DEF body
  <2>1. QED
    BY <1>4, Zenon
<1>6. FieldsSet(register, pins, value) = after[n]
  BY Zenon DEF FieldsSet
<1> HIDE DEF after
<1>7. after[0] = register
  BY <1>1, <1>5
<1>8. QED
  <2>1. \A k \in 1 .. n : after[k] = SetField(after[k - 1], pins[k], 1, value)
    BY <1>1, <1>5
  <2>2. QED
    BY <1>6, <1>7, <2>1, Zenon

(* What is asked of the pins in one register.                              *)
Asks == [Pins -> SUBSET {0, 1}]

(* What is asked keeps its type.                                           *)
LEMMA AskType ==
  ASSUME NEW asked \in Asks, NEW pin, NEW value \in Nat
  PROVE  Ask(asked, pin, value) \in Asks
<1>1. value % 2 \in {0, 1}
  OBVIOUS
<1>2. QED
  BY <1>1 DEF Ask, Asks

(* Asking for one setting after the other.                                 *)
LEMMA AllAskedLoop ==
  ASSUME NEW asked \in Asks, NEW pins \in Seq(Pins), NEW value \in Nat
  PROVE  \E f : /\ f[0] = asked /\ AllAsked(asked, pins, value) = f[Len(pins)]
               /\ \A k \in 1 .. Len(pins) : f[k] = Ask(f[k - 1], pins[k], value)
<1> DEFINE n == Len(pins)
           body(h) == [k \in 0 .. n |-> IF k = 0 THEN asked
                                        ELSE Ask(h[k - 1], pins[k], value)]
           after == CHOOSE h : h = body(h)
           step == [k \in 1 .. n |->
                      [a \in Asks |-> Ask(a, pins[k], value)]]
<1>1. n \in Nat
  OBVIOUS
<1>2. step \in [1 .. n -> [Asks -> Asks]]
  BY AskType
<1>3. PICK g \in [0 .. n -> Asks] : IsLoop(g, asked, n, step)
  <2> HIDE DEF n, step
  <2>1. QED
    BY <1>1, <1>2, LoopExists
<1>4. g = body(g)
  <2>1. ASSUME NEW k \in 0 .. n PROVE g[k] = body(g)[k]
    <3>1. CASE k = 0
      BY <1>3, <3>1 DEF IsLoop
    <3>2. CASE k # 0
      <4>1. k \in 1 .. n /\ k - 1 \in 0 .. n
        BY <1>1, <3>2
      <4>2. g[k] = step[k][g[k - 1]] /\ g[k - 1] \in Asks
        BY <1>3, <4>1 DEF IsLoop
      <4>3. QED
        BY <3>2, <4>1, <4>2
    <3>3. QED
      BY <3>1, <3>2
  <2>2. QED
    BY <1>3, <2>1
<1>5. after = body(after)
  <2> HIDE DEF body
  <2>1. QED
    BY <1>4, Zenon
<1>6. AllAsked(asked, pins, value) = after[n]
  BY Zenon DEF AllAsked
<1>7. after[0] = asked
  <2> HIDE DEF after
  <2>1. QED
    BY <1>1, <1>5
<1>8. QED
  <2> HIDE DEF after
  <2>1. \A k \in 1 .. n : after[k] = Ask(after[k - 1], pins[k], value)
    BY <1>1, <1>5
  <2>2. QED
    BY <1>6, <1>7, <2>1, Zenon

------------------------------------------------------------------------------
(* A register has what is asked of its pins.                               *)
Agree(register, asked) ==
  \A p \in Pins : \A value \in asked[p] : p \in register <=> value = 1

(* Every pin has a bit in every register.                                  *)
LEMMA PinsAreBits == Pins \subseteq Bits
<1>1. NumBanks \in Nat /\ PinsPerBank \in Nat /\ PrescalerBits \in Nat
      /\ PinsPerBank <= PrescalerBits
  BY GpioConstants
<1>2. NumBanks * PinsPerBank <= NumBanks * PrescalerBits
      /\ NumBanks * PinsPerBank \in Nat /\ NumBanks * PrescalerBits \in Nat
  BY <1>1
<1>3. QED
  BY <1>2 DEF Pins, Bits

(* One pin: the bits that a wide setting spills are no longer asked for.   *)
LEMMA OnePinAgrees ==
  ASSUME NEW register \in SUBSET Bits, NEW asked \in Asks, Agree(register, asked),
         NEW pin \in Pins, NEW value \in Nat
  PROVE  /\ SetField(register, pin, 1, value) \in SUBSET Bits
         /\ Agree(SetField(register, pin, 1, value), Ask(asked, pin, value))
<1> DEFINE new == SetField(register, pin, 1, value)
<1>1. new \in SUBSET Bits
  BY DEF SetField
<1>2. pin \in Nat /\ pin .. pin + 1 - 1 = {pin}
  BY GpioConstants DEF Pins
<1>3. \A q \in Bits : q \in new <=> \/ q \in register /\ q # pin
                                   \/ \E i \in BitsOf(value) : q = pin + i
  BY <1>2 DEF SetField
<1>4. ASSUME NEW p \in Pins, NEW v \in Ask(asked, pin, value)[p]
      PROVE  p \in new <=> v = 1
  <2>1. p \in Bits /\ p \in Nat /\ BitsOf(value) \subseteq Nat
    BY PinsAreBits, GpioConstants DEF Pins, BitsOf, Bits
  <2>2. Ask(asked, pin, value)[p] = IF p \in Disturbed(pin, value) THEN {}
                                    ELSE IF p = pin THEN {value % 2} ELSE asked[p]
    BY DEF Ask
  <2>3. p \notin Disturbed(pin, value)
    BY <2>2
  <2>4. CASE p = pin
    <3>1. v = value % 2
      BY <2>2, <2>3, <2>4
    <3>2. 0 \in Bits
      <4>1. NumBanks * PrescalerBits \in Nat
        BY GpioConstants
      <4>2. QED
        BY <2>1, <4>1 DEF Bits
    <3>3. 0 \in BitsOf(value) <=> value % 2 = 1
      BY <3>2 DEF BitsOf
    <3>4. (\E i \in BitsOf(value) : p = pin + i) <=> 0 \in BitsOf(value)
      BY <1>2, <2>1, <2>4
    <3>5. QED
      BY <1>3, <2>1, <2>4, <3>1, <3>3, <3>4
  <2>5. CASE p # pin
    <3>1. v \in asked[p]
      BY <2>2, <2>3, <2>5
    <3>2. ~ \E i \in BitsOf(value) : p = pin + i
      BY <1>2, <2>1, <2>3, <2>5 DEF Disturbed
    <3>3. QED
      BY <1>3, <2>1, <2>5, <3>1, <3>2 DEF Agree
  <2>6. QED
    BY <2>4, <2>5
<1>5. QED
  BY <1>1, <1>4 DEF Agree

(* A list of pins, one after the other.                                    *)
LEMMA ListAgrees ==
  ASSUME NEW register \in SUBSET Bits, NEW asked \in Asks, Agree(register, asked),
         NEW pins \in Seq(Pins), NEW value \in Nat
  PROVE  /\ FieldsSet(register, pins, value) \in SUBSET Bits
         /\ AllAsked(asked, pins, value) \in Asks
         /\ Agree(FieldsSet(register, pins, value), AllAsked(asked, pins, value))
<1> DEFINE n == Len(pins)
           Pairs == {w \in (SUBSET Bits) \X Asks : Agree(w[1], w[2])}
<1>1. PICK f : /\ f[0] = register /\ FieldsSet(register, pins, value) = f[n]
               /\ \A k \in 1 .. n : f[k] = SetField(f[k - 1], pins[k], 1, value)
  BY FieldsSetLoop
<1>2. PICK g : /\ g[0] = asked /\ AllAsked(asked, pins, value) = g[n]
               /\ \A k \in 1 .. n : g[k] = Ask(g[k - 1], pins[k], value)
  BY AllAskedLoop
<1> DEFINE h == [k \in 0 .. n |-> <<f[k], g[k]>>]
<1>3. n \in Nat
  OBVIOUS
<1>4. h[0] \in Pairs
  BY <1>1, <1>2, <1>3
<1>5. ASSUME NEW k \in 1 .. n, h[k - 1] \in Pairs PROVE h[k] \in Pairs
  <2>1. k - 1 \in 0 .. n /\ k \in 0 .. n /\ pins[k] \in Pins
    BY <1>3
  <2>2. f[k - 1] \in SUBSET Bits /\ g[k - 1] \in Asks /\ Agree(f[k - 1], g[k - 1])
    BY <1>5, <2>1
  <2>3. f[k] = SetField(f[k - 1], pins[k], 1, value) /\ g[k] = Ask(g[k - 1], pins[k], value)
    BY <1>1, <1>2
  <2>4. f[k] \in SUBSET Bits /\ g[k] \in Asks /\ Agree(f[k], g[k])
    BY <2>1, <2>2, <2>3, OnePinAgrees, AskType
  <2>5. QED
    BY <2>1, <2>4
<1>6. h[n] \in Pairs
  <2> HIDE DEF h, Pairs, n
  <2>1. QED
    BY <1>3, <1>4, <1>5, LoopKeeps
<1>7. QED
  BY <1>1, <1>2, <1>3, <1>6

------------------------------------------------------------------------------
(* Fields of w bits do not overlap.                                        *)
LEMMA FieldsApart ==
  ASSUME NEW w \in Nat, NEW b \in Nat, NEW c \in Nat, b # c,
         NEW i \in 0 .. w - 1, NEW j \in 0 .. w - 1
  PROVE  w * b + i # w * c + j
<1>1. ASSUME NEW x \in Nat, NEW y \in Nat, x < y
      PROVE  w * x + w <= w * y /\ w * x \in Nat /\ w * y \in Nat
  <2>1. PICK d \in Nat : y = (x + 1) + d
    <3>1. y - (x + 1) \in Nat /\ y = (x + 1) + (y - (x + 1))
      BY <1>1
    <3>2. QED
      BY <3>1
  <2>2. w * y = (w * x + w) + w * d /\ w * d \in Nat /\ w * x \in Nat
    BY <2>1
  <2>3. QED
    BY <2>2
<1>2. CASE b < c
  BY <1>1, <1>2
<1>3. CASE c < b
  BY <1>1, <1>3
<1>4. QED
  BY <1>2, <1>3

(* The bank of a pin.                                                      *)
LEMMA BankOfPin ==
  ASSUME NEW pin \in Pins
  PROVE  Bank(pin) \in Banks
<1>1. /\ NumBanks \in Nat /\ PinsPerBank \in Nat
      /\ pin \in Nat /\ pin < NumBanks * PinsPerBank
  BY GpioConstants DEF Pins
<1>2. PinsPerBank > 0
  BY <1>1
<1> DEFINE q == pin \div PinsPerBank
           r == pin % PinsPerBank
<1>3. q \in Int /\ r \in 0 .. PinsPerBank - 1 /\ pin = PinsPerBank * q + r
  BY <1>1, <1>2
<1>4. q >= 0
  <2> HIDE DEF q, r
  <2>1. CASE q < 0
    <3>1. PinsPerBank * q <= -PinsPerBank
      BY <1>1, <1>2, <1>3, <2>1
    <3>2. QED
      BY <1>1, <1>3, <3>1
  <2>2. QED
    BY <1>3, <2>1
<1>5. q < NumBanks
  <2> HIDE DEF q, r
  <2>1. CASE q >= NumBanks
    <3>1. PinsPerBank * q >= PinsPerBank * NumBanks
      BY <1>1, <1>2, <1>3, <2>1
    <3>2. QED
      BY <1>1, <1>3, <3>1
  <2>2. QED
    BY <1>1, <1>3, <2>1
<1>6. QED
  BY <1>1, <1>3, <1>4, <1>5 DEF Bank, Banks

(* The field of a bank in the prescaler register.                          *)
HasPrescaler(register, b) ==
  {i \in 0 .. PrescalerBits - 1 : PrescalerBits * b + i \in register}
    = BitsOf(GPIOPrescaler)

(* Setting the prescaler of one bank leaves that of the others.            *)
LEMMA PrescalerSet ==
  ASSUME NEW register \in SUBSET Bits, NEW b \in Banks
  PROVE  LET new == SetField(register, PrescalerBits * b, PrescalerBits, GPIOPrescaler) IN
           /\ new \in SUBSET Bits /\ HasPrescaler(new, b)
           /\ \A c \in Banks \ {b} : HasPrescaler(register, c) => HasPrescaler(new, c)
<1> DEFINE w == PrescalerBits
           new == SetField(register, w * b, w, GPIOPrescaler)
           Field == BitsOf(GPIOPrescaler)
<1>1. w \in Nat /\ NumBanks \in Nat /\ b \in Nat /\ b < NumBanks
  BY GpioConstants DEF Banks
<1>2. Field \subseteq 0 .. w - 1
  BY GpioConstants
<1>3. new \in SUBSET Bits
  BY DEF SetField
<1>4. ASSUME NEW c \in Banks, NEW i \in 0 .. w - 1
      PROVE  w * c + i \in Bits /\ w * c \in Nat
  <2>1. c \in Nat /\ NumBanks - 1 - c \in Nat /\ NumBanks = (c + 1) + (NumBanks - 1 - c)
    BY <1>1 DEF Banks
  <2>2. w * NumBanks = (w * c + w) + w * (NumBanks - 1 - c)
        /\ w * (NumBanks - 1 - c) \in Nat /\ w * c \in Nat /\ w * NumBanks = NumBanks * w
    BY <1>1, <2>1
  <2>3. QED
    BY <1>1, <2>2 DEF Bits
<1>5. ASSUME NEW i \in 0 .. w - 1
      PROVE  w * b + i \in new <=> i \in Field
  <2>1. w * b + i \in Bits /\ w * b \in Nat
    BY <1>4
  <2>2. w * b + i \in w * b .. w * b + w - 1
    BY <1>1, <2>1
  <2>3. (\E j \in Field : w * b + i = w * b + j) <=> i \in Field
    BY <1>1, <1>2, <2>1
  <2>4. QED
    BY <2>1, <2>2, <2>3 DEF SetField
<1>6. ASSUME NEW c \in Banks \ {b}, NEW i \in 0 .. w - 1
      PROVE  w * c + i \in new <=> w * c + i \in register
  <2>1. c \in Nat /\ w * c + i \in Bits /\ w * c \in Nat
    BY <1>4 DEF Banks
  <2>2. \A j \in 0 .. w - 1 : w * c + i # w * b + j
    BY <1>1, <2>1, FieldsApart
  <2>3. w * c + i \notin w * b .. w * b + w - 1
    <3>1. SUFFICES ASSUME w * c + i \in w * b .. w * b + w - 1 PROVE FALSE
      OBVIOUS
    <3>2. w * b \in Nat
      BY <1>1
    <3> DEFINE j == (w * c + i) - w * b
    <3>3. j \in 0 .. w - 1 /\ w * c + i = w * b + j
      BY <1>1, <2>1, <3>1, <3>2
    <3>4. QED
      BY <2>2, <3>3
  <2>4. ~ \E j \in Field : w * c + i = w * b + j
    BY <1>2, <2>2
  <2>5. QED
    BY <2>1, <2>3, <2>4 DEF SetField
<1>7. HasPrescaler(new, b)
  BY <1>2, <1>5 DEF HasPrescaler
<1>8. \A c \in Banks \ {b} : HasPrescaler(register, c) => HasPrescaler(new, c)
  BY <1>6 DEF HasPrescaler
<1>9. QED
  BY <1>3, <1>7, <1>8

------------------------------------------------------------------------------
(* The shadow has what was asked of every pin, whatever the bus did; a     *)
(* register whose last write succeeded is what its shadow is.              *)
ShadowAsAsked == \A r \in PinRegisters : Agree(shadow[r], setting[r])

BoardIsShadow == \A r \in Registers \ missed : board[r] = shadow[r]

(* A pulse that was asked for with success is what the timers and the      *)
(* prescaler of its bank were given.                                       *)
PulsesGiven ==
  \A p \in Pins : \A asked \in pulse[p] :
    asked.period < HalfWord /\ asked.duty < HalfWord =>
      /\ duty[p] = asked.duty
      /\ period[Bank(p)] = asked.period
      /\ HasPrescaler(shadow["prescaler_"], Bank(p))

GpioInv == /\ TypeOK /\ pulse \in [Pins -> SUBSET [period : Nat, duty : Nat]]
           /\ ShadowAsAsked /\ BoardIsShadow /\ PulsesGiven

(* At first nothing was asked for.                                         *)
LEMMA InitGpioInv == Init => GpioInv
<1> SUFFICES ASSUME Init PROVE GpioInv
  OBVIOUS
<1>1. MaxCalls \in Nat /\ HalfWord \in Nat \ {0}
  BY GpioConstants
<1>2. board \in [Registers -> SUBSET Bits] /\ shadow \in [Registers -> SUBSET Bits]
  BY DEF Init
<1>3. /\ period \in [Banks -> 0 .. HalfWord - 1] /\ duty \in [Pins -> 0 .. HalfWord - 1]
      /\ calls \in 0 .. MaxCalls /\ missed \subseteq Registers
      /\ setting \in [PinRegisters -> [Pins -> SUBSET {0, 1}]]
  BY <1>1 DEF Init
<1>4. ShadowAsAsked
  BY DEF Init, ShadowAsAsked, Agree
<1>5. BoardIsShadow /\ PulsesGiven
  BY DEF Init, BoardIsShadow, PulsesGiven
<1>6. setUp \in BOOLEAN /\ ok \in BOOLEAN
      /\ pulse \in [Pins -> SUBSET [period : Nat, duty : Nat]]
  BY DEF Init
<1>7. QED
  BY <1>2, <1>3, <1>4, <1>5, <1>6 DEF TypeOK, GpioInv

(* A register and its shadow after a write.                                *)
LEMMA RegisterWritten ==
  ASSUME GpioInv, NEW r \in Registers, NEW value \in SUBSET Bits, NEW written \in BOOLEAN,
         WriteRegister(r, value, written)
  PROVE  /\ shadow' \in [Registers -> SUBSET Bits] /\ shadow'[r] = value
         /\ \A q \in Registers \ {r} : shadow'[q] = shadow[q]
         /\ board' \in [Registers -> SUBSET Bits] /\ missed' \subseteq Registers
         /\ BoardIsShadow'
<1>1. /\ shadow \in [Registers -> SUBSET Bits] /\ board \in [Registers -> SUBSET Bits]
      /\ missed \subseteq Registers /\ BoardIsShadow
  BY DEF GpioInv, TypeOK
<1>2. /\ shadow' = [shadow EXCEPT ![r] = value]
      /\ board' = IF written THEN [board EXCEPT ![r] = value] ELSE board
      /\ missed' = IF written THEN missed \ {r} ELSE missed \cup {r}
  BY DEF WriteRegister
<1>3. shadow' \in [Registers -> SUBSET Bits] /\ board' \in [Registers -> SUBSET Bits]
  BY <1>1, <1>2
<1>4. \A q \in Registers : q \notin missed' => board'[q] = shadow'[q]
  BY <1>1, <1>2 DEF BoardIsShadow
<1>5. QED
  BY <1>1, <1>2, <1>3, <1>4 DEF BoardIsShadow

(* One call counted.                                                       *)
LEMMA CallCounted ==
  ASSUME GpioInv, Called
  PROVE  calls' \in 0 .. MaxCalls /\ setUp' \in BOOLEAN
BY GpioConstants DEF GpioInv, TypeOK, Called

(* A list of pins set to a value.                                          *)
LEMMA SetPinsInv ==
  ASSUME GpioInv, NEW r \in PinRegisters, NEW pins \in Seq(Pins), NEW value \in Nat,
         SetPins(r, pins, value)
  PROVE  GpioInv'
<1> DEFINE fields == FieldsSet(shadow[r], pins, value)
           asks == AllAsked(setting[r], pins, value)
<1>1. PICK written \in BOOLEAN : WriteRegister(r, fields, written) /\ ok' = written
  BY DEF SetPins
<1>2. /\ Called /\ UNCHANGED <<period, duty, pulse>>
      /\ setting' = [setting EXCEPT ![r] = asks]
  BY DEF SetPins
<1>3. /\ r \in Registers /\ shadow[r] \in SUBSET Bits /\ setting[r] \in Asks
      /\ setting \in [PinRegisters -> Asks] /\ Agree(shadow[r], setting[r])
  BY DEF GpioInv, TypeOK, Asks, ShadowAsAsked, Registers
<1>4. fields \in SUBSET Bits /\ asks \in Asks /\ Agree(fields, asks)
  BY <1>3, ListAgrees
<1> HIDE DEF fields, asks
<1>5. /\ shadow' \in [Registers -> SUBSET Bits] /\ shadow'[r] = fields
      /\ \A q \in Registers \ {r} : shadow'[q] = shadow[q]
      /\ board' \in [Registers -> SUBSET Bits] /\ missed' \subseteq Registers
      /\ BoardIsShadow'
  BY <1>1, <1>3, <1>4, RegisterWritten
<1>6. setting' \in [PinRegisters -> Asks]
  BY <1>2, <1>3, <1>4
<1>7. TypeOK' /\ pulse' \in [Pins -> SUBSET [period : Nat, duty : Nat]]
  BY <1>1, <1>2, <1>5, <1>6, CallCounted DEF GpioInv, TypeOK, Asks
<1>8. ShadowAsAsked'
  <2>1. ASSUME NEW q \in PinRegisters PROVE Agree(shadow'[q], setting'[q])
    <3>1. CASE q = r
      BY <1>2, <1>3, <1>4, <1>5, <3>1
    <3>2. CASE q # r
      BY <1>2, <1>3, <1>5, <3>2 DEF GpioInv, ShadowAsAsked, Registers
    <3>3. QED
      BY <3>1, <3>2
  <2>2. QED
    BY <2>1 DEF ShadowAsAsked
<1>9. PulsesGiven'
  <2>1. shadow'["prescaler_"] = shadow["prescaler_"]
    BY <1>5, GpioConstants DEF Registers
  <2>2. QED
    BY <1>2, <2>1 DEF GpioInv, PulsesGiven, HasPrescaler
<1>10. QED
  BY <1>5, <1>7, <1>8, <1>9 DEF GpioInv

(* A pulse: a prescaler, a period and a duty, each written or not.         *)
LEMMA PulseInv ==
  ASSUME GpioInv, NEW pin \in Pins, NEW newPeriod \in Nat, NEW newDuty \in 0 .. HalfWord - 1,
         NEW asked \in [period : Nat, duty : Nat], asked.period = newPeriod,
         asked.duty < HalfWord => asked.duty = newDuty,
         Pulse(pin, newPeriod, newDuty, asked)
  PROVE  GpioInv'
<1> DEFINE b == Bank(pin)
           new == SetField(shadow["prescaler_"], PrescalerBits * b, PrescalerBits,
                           GPIOPrescaler)
<1>1. PICK written \in SUBSET {"prescaler", "period", "duty"} :
        /\ WritePulse(pin, newPeriod, newDuty, written)
        /\ ok' = (written = {"prescaler", "period", "duty"})
  BY DEF Pulse
<1>2. /\ WriteRegister("prescaler_", new, "prescaler" \in written)
      /\ period' = IF "period" \in written
                   THEN [period EXCEPT ![b] = newPeriod % HalfWord] ELSE period
      /\ duty' = IF "duty" \in written THEN [duty EXCEPT ![pin] = newDuty] ELSE duty
  BY <1>1 DEF WritePulse
<1>3. /\ Called /\ UNCHANGED setting
      /\ pulse' = [p \in Pins |->
                     IF p = pin THEN IF ok' THEN {asked} ELSE {}
                     ELSE IF Bank(p) = b /\ period'[Bank(p)] # period[Bank(p)]
                     THEN {} ELSE pulse[p]]
  BY DEF Pulse
<1>4. b \in Banks /\ "prescaler_" \in Registers /\ shadow["prescaler_"] \in SUBSET Bits
  BY BankOfPin DEF GpioInv, TypeOK, Registers
<1>5. /\ new \in SUBSET Bits /\ HasPrescaler(new, b)
      /\ \A c \in Banks \ {b} : HasPrescaler(shadow["prescaler_"], c) => HasPrescaler(new, c)
  BY <1>4, PrescalerSet
<1> HIDE DEF b, new
<1>6. /\ shadow' \in [Registers -> SUBSET Bits] /\ shadow'["prescaler_"] = new
      /\ \A q \in Registers \ {"prescaler_"} : shadow'[q] = shadow[q]
      /\ board' \in [Registers -> SUBSET Bits] /\ missed' \subseteq Registers
      /\ BoardIsShadow'
  <2> DEFINE done == "prescaler" \in written
  <2>1. done \in BOOLEAN /\ WriteRegister("prescaler_", new, done)
    BY <1>2
  <2> HIDE DEF done
  <2>2. QED
    BY <1>4, <1>5, <2>1, RegisterWritten
<1>7. /\ period \in [Banks -> 0 .. HalfWord - 1] /\ duty \in [Pins -> 0 .. HalfWord - 1]
      /\ pulse \in [Pins -> SUBSET [period : Nat, duty : Nat]]
  BY DEF GpioInv, TypeOK
<1>8. newPeriod % HalfWord \in 0 .. HalfWord - 1
      /\ (newPeriod < HalfWord => newPeriod % HalfWord = newPeriod)
  BY GpioConstants
<1>9. period' \in [Banks -> 0 .. HalfWord - 1] /\ duty' \in [Pins -> 0 .. HalfWord - 1]
  BY <1>2, <1>4, <1>7, <1>8
<1>10. pulse' \in [Pins -> SUBSET [period : Nat, duty : Nat]]
  BY <1>3, <1>7
<1>11. ok' \in BOOLEAN
  BY <1>1
<1>12. TypeOK'
  BY <1>3, <1>6, <1>9, <1>11, CallCounted DEF GpioInv, TypeOK
<1>13. ShadowAsAsked'
  BY <1>3, <1>6, GpioConstants DEF GpioInv, ShadowAsAsked, Registers
<1>14. ASSUME NEW p \in Pins, NEW a \in pulse'[p], a.period < HalfWord, a.duty < HalfWord
       PROVE  /\ duty'[p] = a.duty
              /\ period'[Bank(p)] = a.period
              /\ HasPrescaler(shadow'["prescaler_"], Bank(p))
  <2>1. CASE p = pin
    <3>1. ok' /\ a = asked
      BY <1>3, <1>14, <2>1
    <3>2. "period" \in written /\ "duty" \in written
      BY <1>1, <3>1
    <3>3. duty'[p] = newDuty /\ period'[b] = newPeriod % HalfWord
      BY <1>2, <1>4, <1>7, <2>1, <3>2
    <3>4. Bank(p) = b
      BY <2>1 DEF b
    <3>5. QED
      BY <1>5, <1>6, <1>8, <1>14, <3>1, <3>3, <3>4
  <2>2. CASE p # pin
    <3>1. a \in pulse[p] /\ ~(Bank(p) = b /\ period'[Bank(p)] # period[Bank(p)])
      BY <1>3, <1>14, <2>2
    <3>2. /\ duty[p] = a.duty /\ period[Bank(p)] = a.period
          /\ HasPrescaler(shadow["prescaler_"], Bank(p))
      BY <1>14, <3>1 DEF GpioInv, PulsesGiven
    <3>3. Bank(p) \in Banks
      BY BankOfPin
    <3>4. duty'[p] = duty[p]
      BY <1>2, <1>7, <2>2
    <3>5. period'[Bank(p)] = period[Bank(p)]
      BY <1>2, <1>4, <1>7, <3>1, <3>3
    <3>6. HasPrescaler(new, Bank(p))
      BY <1>5, <3>2, <3>3
    <3>7. QED
      BY <1>6, <3>2, <3>4, <3>5, <3>6
  <2>3. QED
    BY <2>1, <2>2
<1>15. PulsesGiven'
  BY <1>14 DEF PulsesGiven
<1>16. QED
  BY <1>6, <1>10, <1>12, <1>13, <1>15 DEF GpioInv

(* The three calls that set a pulse, by the counters they compute.         *)
LEMMA PulseCallsInv ==
  ASSUME GpioInv, NEW pin \in Pins,
         \/ \E p \in Pulses : SetPWM(pin, p)
         \/ \E angle \in Angles : Set9GServoAngle(pin, angle)
         \/ \E angle \in Angles, offset \in MinPulses : SetServoAngle(pin, angle, offset)
  PROVE  GpioInv'
<1>1. /\ HalfWord \in Nat \ {0} /\ ServoPeriod \in Nat /\ ServoMiddle \in Nat
      /\ Angles \subseteq Nat /\ MinPulses \subseteq 0 .. ServoMiddle
      /\ Pulses \subseteq [period : Nat, duty : Nat]
  BY GpioConstants
<1>2. ASSUME NEW d \in Int PROVE d % HalfWord \in 0 .. HalfWord - 1
  BY <1>1
<1>3. ASSUME NEW p \in Pulses, SetPWM(pin, p) PROVE GpioInv'
  <2>1. p.period \in Nat /\ p.duty \in Nat
    BY <1>1
  <2>2. PICK d \in DutyCounters(p.duty) :
          Pulse(pin, p.period, d, [period |-> p.period, duty |-> p.duty])
    BY <1>3 DEF SetPWM
  <2>3. d \in 0 .. HalfWord - 1 /\ (p.duty < HalfWord => p.duty = d)
    <3>1. CASE p.duty < HalfWord
      BY <1>1, <2>1, <2>2, <3>1 DEF DutyCounters
    <3>2. CASE ~(p.duty < HalfWord)
      <4>1. d = p.duty % HalfWord \/ d = HalfWord - 1
        BY <2>2, <3>2 DEF DutyCounters
      <4>2. p.duty % HalfWord \in 0 .. HalfWord - 1
        BY <1>2, <2>1
      <4>3. HalfWord - 1 \in 0 .. HalfWord - 1
        BY <1>1
      <4>4. QED
        BY <3>2, <4>1, <4>2, <4>3
    <3>3. QED
      BY <3>1, <3>2
  <2>4. QED
    BY <2>1, <2>2, <2>3, PulseInv
<1>4. ASSUME NEW d \in Int,
             Pulse(pin, ServoPeriod, d % HalfWord,
                   [period |-> ServoPeriod, duty |-> d % HalfWord])
      PROVE  GpioInv'
  <2> DEFINE newDuty == d % HalfWord
  <2>1. newDuty \in 0 .. HalfWord - 1 /\ newDuty \in Nat
    BY <1>1, <1>2
  <2> HIDE DEF newDuty
  <2>2. QED
    BY <1>1, <1>4, <2>1, PulseInv DEF newDuty
<1>5. ASSUME NEW angle \in Angles, Set9GServoAngle(pin, angle) PROVE GpioInv'
  <2>1. (377 * angle) \div 10 + 1800 \in Int
    BY <1>1
  <2>2. QED
    BY <1>4, <1>5, <2>1 DEF Set9GServoAngle
<1>6. ASSUME NEW angle \in Angles, NEW offset \in MinPulses, SetServoAngle(pin, angle, offset)
      PROVE  GpioInv'
  <2>1. (ServoMiddle - offset) \div 90 \in Int /\ angle \in Int /\ offset \in Int
    BY <1>1
  <2>2. ServoDuty(angle, offset) \in Int
    BY <2>1 DEF ServoDuty
  <2>3. QED
    BY <1>4, <1>6, <2>2 DEF SetServoAngle
<1>7. QED
  BY <1>3, <1>5, <1>6

(* GpioInv is inductive.                                                   *)
LEMMA NextGpioInv == GpioInv /\ [Next]_vars => GpioInv'
<1> SUFFICES ASSUME GpioInv, [Next]_vars PROVE GpioInv'
  OBVIOUS
<1>1. CASE UNCHANGED vars
  BY <1>1 DEF vars, GpioInv, TypeOK, ShadowAsAsked, Agree, BoardIsShadow, PulsesGiven,
              HasPrescaler
<1>2. CASE Setup \/ RefusedCall
  <2>1. UNCHANGED <<shadow, board, period, duty, missed, setting, pulse>>
    BY <1>2 DEF Setup, RefusedCall
  <2>2. setUp' \in BOOLEAN /\ ok' \in BOOLEAN
    BY <1>2 DEF Setup, RefusedCall, GpioInv, TypeOK
  <2>3. calls' \in 0 .. MaxCalls
    BY <1>2, GpioConstants DEF Setup, RefusedCall, GpioInv, TypeOK
  <2>4. TypeOK'
    BY <2>1, <2>2, <2>3 DEF GpioInv, TypeOK
  <2>5. QED
    BY <2>1, <2>4 DEF GpioInv, ShadowAsAsked, Agree, BoardIsShadow, PulsesGiven,
                      HasPrescaler
<1>3. ASSUME NEW r \in PinRegisters, NEW value \in Settings,
             NEW pins \in {<<pin>> : pin \in Pins} \cup PinLists, SetPins(r, pins, value)
      PROVE  GpioInv'
  <2>1. \A pin \in Pins : <<pin>> \in Seq(Pins)
    OBVIOUS
  <2>2. value \in Nat /\ PinLists \subseteq Seq(Pins)
    BY GpioConstants
  <2>3. pins \in Seq(Pins)
    BY <2>1, <2>2
  <2>4. QED
    BY <1>3, <2>2, <2>3, SetPinsInv
<1>4. ASSUME NEW pin \in Pins, NEW p \in Pulses, SetPWM(pin, p) PROVE GpioInv'
  BY <1>4, PulseCallsInv
<1>5. ASSUME NEW pin \in Pins, NEW angle \in Angles, Set9GServoAngle(pin, angle)
      PROVE  GpioInv'
  BY <1>5, PulseCallsInv
<1>6. ASSUME NEW pin \in Pins, NEW angle \in Angles, NEW offset \in MinPulses,
             SetServoAngle(pin, angle, offset)
      PROVE  GpioInv'
  BY <1>6, PulseCallsInv
<1>7. QED
  BY <1>1, <1>2, <1>3, <1>4, <1>5, <1>6 DEF Next

(* The invariant of the GPIO driver, for any banks, pins, settings, lists  *)
(* and pulses.                                                             *)
THEOREM GpioInvariant == Spec => []GpioInv
<1>1. QED
  BY InitGpioInv, NextGpioInv, PTL DEF Spec

(* The variables of the GPIO driver have their types.                      *)
THEOREM GpioTypeCorrect == Spec => []TypeOK
<1>1. GpioInv => TypeOK
  BY DEF GpioInv
<1>2. QED
  BY <1>1, GpioInvariant, PTL

(* Setting by setting and list by list, with writes that fail in between:  *)
(* once a write of a register succeeds, each pin has what was asked of it  *)
(* last (gpio_control.cpp:54-240).                                         *)
THEOREM PinsHaveWhatWasAsked == Spec => []PinsAsAsked
<1>1. ASSUME GpioInv, NEW r \in PinRegisters \ missed, NEW p \in Pins,
             NEW value \in setting[r][p]
      PROVE  (p \in board[r]) = (value = 1)
  <2>1. board[r] = shadow[r] /\ Agree(shadow[r], setting[r])
    BY <1>1 DEF GpioInv, BoardIsShadow, ShadowAsAsked, Registers
  <2>2. p \in board[r] <=> value = 1
    BY <1>1, <2>1 DEF Agree
  <2>3. QED
    BY <2>2
<1>2. GpioInv => PinsAsAsked
  BY <1>1 DEF PinsAsAsked
<1>3. QED
  BY <1>2, GpioInvariant, PTL

(* Setting up one bank never changes another, nor a duty the duty of       *)
(* another pin: the pulses asked for are on the board.                     *)
THEOREM PulsesStay == Spec => []PulsesAsAsked
<1>1. ASSUME GpioInv, "prescaler_" \notin missed, NEW b
      PROVE  {i \in 0 .. PrescalerBits - 1 : PrescalerBits * b + i \in board["prescaler_"]}
               = BitsOf(GPIOPrescaler)
             <=> HasPrescaler(shadow["prescaler_"], b)
  BY <1>1 DEF GpioInv, BoardIsShadow, HasPrescaler, Registers
<1>2. GpioInv => PulsesAsAsked
  BY <1>1 DEF GpioInv, PulsesGiven, PulsesAsAsked
<1>3. QED
  BY <1>2, GpioInvariant, PTL
================================================================================
