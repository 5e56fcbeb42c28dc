# Formal model of matrix-creator-hal

This directory holds TLA+ modules for the programs and the library in this
repository: the audio pipeline in `src/tfg` (threads, queue, WAV files, MQTT),
the Python binding in `src/tfg/python/matrix-lite-py`, and the parts of the
C++ library in `src/cpp/driver` on which they stand. TLC checks the modules on
small instances; TLAPS proves the theorems in the `*Proofs` modules for every
value of the constants.

Contents: [the system](#1-the-system), [hazards](#2-what-is-hard-here),
[modules and code](#3-modules-and-how-they-correspond-to-the-code),
[runs](#4-what-the-runs-check), [bounds](#5-bounds),
[fairness](#6-fairness), [proofs](#7-proofs),
[divergences](#8-divergences-found-while-modelling),
[not modelled](#9-what-is-not-modelled), [plan](#10-plan).

## 1. The system

A MATRIX Creator or Voice is a board with an FPGA, eight microphones, LEDs,
GPIO and sensors. The FPGA signals a GPIO interrupt when a block of microphone
samples is ready. `src/cpp/driver` reads and writes the FPGA's registers over
SPI (`BusDirect`) or a kernel device (`BusKernel`).

| Component | State | Operations | Talks to | Correct when |
|---|---|---|---|---|
| `SafeQueue` (`tfg/queue.hpp`) | `queue_`, `mutex_`, `cond_`, `run_async` | `push`, `pop`, `wait_pop`, `empty`, `start_async`, `stop_async` | every pipeline thread | no block lost, repeated or overtaken; no wakeup lost; a stop wakes everyone |
| Capture thread (`capture_audio`) | position; `raw_data_` of the array | test `running`, `Read`, `push` | microphones, queue | blocks in the order of the microphones |
| Processing threads (`record_all_channels_wav`, `send_audio_mqtt_async`, `process_beamforming`) | streams, client, lengths | test `running`/`empty`, `wait_pop`, write or publish | queue, files, broker | everything popped is written; leaves its loop after the stop |
| `main` of `test_record_async`, `test_mqtt_async`, `matrix_read` | two threads | start, spawn, sleep, stop, join | both threads | returns |
| WAV files (`write_wav_header`, both recorders) | stream and its buffer, `audio_lens` | open, header, seek, data, close | disk | header and data agree but for the block in flight |
| MQTT disconnection | pending messages, retries | wait, count, disconnect | broker | messages are given up only to a silent broker; ends |
| Synchronous MQTT client (`test_mqtt_sync`) | connection | connect, publish channel by channel, disconnect | broker | every topic in order, no channel ahead of those before it |
| `MicrophoneArray` | `lock_` on the static `irq_m`, `raw_data_`, `fifos_`, sampling rate, gain | constructor, `Setup`, `Read`, `CalculateDelays`, `SetSamplingRate`, `SetGain` | bus, interrupt thread | reads whole frames; delays as steered; rate and gain as asked |
| `MicrophoneCore` | FIR coefficients | `Setup`, `SelectFIRCoeff`, `SetCustomFIRCoeff` | bus, array | the filter on the board is the one for the rate |
| `DirectionOfArrival` | indices of the peaks, direction | `Calculate` | array, LEDs | faces the source |
| `CircularQueue` | `fifo_`, `fifo_size_`, `pointer_` | `Resize`, `PushPop` | beamformer | a delay line of N samples |
| Python `microphone` | `async_running`, `queue`, `len_queue`, `bck_thread` | constructor, destructor, `start_async`, `stop_async`, `read_sync`, `read_async` | GIL, array, bus | never terminates the interpreter; calls return; counters honest |
| Prototypes of it (`AudioConsumer`) | the same | the same, with random blocks | Python or a `main` | as above |
| `MatrixIOBus`, `BusDirect`, `BusKernel` | `bus_driver_`, device, buffers, mutex | `Init`, `Read`, `Write` | everything | one device open; no transfer on a deleted driver; each thread its own answer |
| `GPIOControl`, `GPIOBank` | shadow registers, bank timers | `SetMode`, `SetGPIOValue`, `SetPWM`, ... | bus | shadow agrees with the board |
| `AudioOutput` | frequency; the FIFO on the board | flush, set-up, `Write` | bus, converter | nothing overwritten that was not played |
| `src/val` recorder, old recorder | global flag, polled queue | capture, record | microphones, disk | as the pipeline |
| Demos that record | an array of one second, LED thread | read, write, publish | microphones, disk, broker | the stream, nothing past the array |
| MQTT receivers (`utils/mqtt_recv.py`) | bounded buffer, condition, all samples | receive, play, save | broker | plays in order, saves what arrived, stops |
| `UartControl`, `ZwaveGPIO` | registers | write, read | bus | - |
| `Everloop`, sensors, other demos | none | one bus transfer each | bus | - |

How they interact. `main` of a `tfg` program constructs a `MicrophoneArray`,
which holds `irq_m` from then on except inside `irq_cv.wait`. The capture
thread calls `Read`, which waits for the interrupt callback (another thread,
of wiringPi) to notify `irq_cv`, copies a frame from the bus, runs each sample
through the `CircularQueue` of its microphone, and pushes the block. The
processing thread pops blocks with `wait_pop` and writes or publishes them.
`main` stops the queue and joins both. In Python one `microphone` object plays
the part of `main` and of the processing thread, and its background thread the
part of the capture thread.

## 2. What is hard here

`PROJECT.json` lists each hazard with its line. In short:

* notifications sent after the unlock, a condition variable (`irq_cv`) waited
  on without a predicate, a flag (`run_async`) that one program changes without
  lock or notification;
* a loop test made of two reads (`running`, then `queue.empty()`) while another
  thread still has a block in its hands;
* results that are ignored: of `Read`, of `connect`, of nearly every bus access;
* a stream buffer between `write` and the disk, and headers rewritten before
  the data they announce; files truncated before they are written back;
* a join that waits for a thread that waits for an interrupt;
* a retry that is counted only in some turns;
* a `std::thread` assigned while it may be joinable, a drain before the join, a
  counter updated outside the lock, all under a GIL that some calls give up;
* one pair of transfer buffers for all threads, and a driver deleted by each `Init`;
* a status that is read in two halves and used after a sleep;
* a rate, a gain and a filter that depend on each other and on the order of calls;
* blocks that do not divide a second, arrays of a second's length, a bounded
  buffer that drops its oldest samples, delays that are negative indices;
* ring-buffer arithmetic at sizes 1 and 2, and a ring resized in mid-stream;
* registers that cannot be read back and are shared by many pins, written by
  calls that can fail half-way, with values wider than their field.

## 3. Modules and how they correspond to the code

The `map` in `PROJECT.json` gives the source lines of every definition.

**Channel** (abstract) - what `SafeQueue` promises: a first-in first-out
channel that delivers each block once, and says "stopped" only when it is
closed and has nothing left.

**SafeQueue** - `tfg/queue.hpp`. A section under `mutex_` is one step, because
every access to `queue_` is inside one. `notify_one`/`notify_all` come after
the unlock and are steps of their own (`NotifyOne`, `NotifyAll`): `call[t]` says
that thread `t` still has to notify. A thread in `cond_.wait` is `"asleep"`;
notification or `SpuriousWakeup` makes it `"awake"`, and `Resume` is its next
time under the lock. `pushed` and `popped` are histories.

**AudioPipeline** - EXTENDS SafeQueue with the three threads of the programs.
`pc` is where each thread is; `frame` is the number of the last frame the
microphones have ready, `raw` the frame in `raw_data_`, `sink[s]` the blocks in
each file or topic. One module covers three programs by constants:
`Files`, `Topics`, `OnOpenFailure` and `Drain`. A block is the number of its
frame: what a block holds, the search for the angle with most energy, and the
LED are left out. The constants `BusMayFail` and `SpuriousIrq` turn on
failures of the bus and of `irq_cv.wait`.

**Recording** (abstract) - what the recording and publishing programs promise, with
no threads and no queue: blocks are captured, and handled one after the other in
that order; a handled block goes to every file, and to the topics that do not miss
it; a recording that is over handles nothing more, and one that drains lacks one
block at most. AudioPipeline implements it with `Handled`, the blocks that its
processing thread is done with; ValRecorder with `InFile`, what a file will hold
behind its header once the block in hand is written.

**WavFile, WavRecorders** - the `.wav` files. WavFile holds the files, their
streams and `write_wav_header`. A stream's buffer is what was written since the
last seek, a header or none and the blocks behind it; it reaches the disk in that
order, at any time (`SomeIsFlushed`), at the latest at a `seekp` or the close, and
never if the process is killed. WavRecorders has both
recorders, chosen by `recorder`: `record_all_channels_wav` (`AsyncNext`) and
`record_all_channels_wav_sync` (`SyncNext`), which each time reads a file whole,
truncates it, and writes it back with the new header and block. How blocks
arrive is AudioPipeline's business: `Take` just gives the next.

**ValRecorder** - the recorder of `src/val`: `main`, `capture_audio`, and
`record_all_channels_raw` or `_wav`, which differ in the header only. `running`
is the global flag that all three threads write. `Read` is `FrameArrives`, the
end of a wait. The format `"old"` is the recorder that `src/tfg` had before
(`old_cpp_code.cpp`), the same threads without the failure paths.

**DemoRecorder** - five demos that fill an array on the stack with a second of
samples and then write it, and `micarray_pipes_direct`. `demo` says which; they
differ in the size of the array, in what they do with the block that completes a
second (`Fits`), and in whether a thread shows the progress on the LEDs. Samples are
numbered, so that files can be compared with the stream of the microphones.

**MqttDisconnect** - `disconnect_async_mqtt_client` (`code = "library"`) and
the loop at the end of `matrix_read` (`code = "matrix_read"`). The client's own
thread acknowledges messages at any time, or never (`Acknowledge`).

**MqttSync** - `test_mqtt_sync` with `connect_sync_mqtt_client`,
`send_audio_mqtt_sync` and `disconnect_sync_mqtt_client`. A publish may throw
whether or not the broker has got the message; the rest of the block is then
not sent.

**MqttReceiver** - the two scripts that play what is published. Three
threads: paho's (`Network`), the player and `main`. What is done under
`buffer_lock` is one step; `all_samples.extend` comes after the lock and is a step
of its own, as are the write to `running` and the notification that follows.

**Playback** (abstract) - what such a script promises, with no buffer and no threads:
a chunk begins where the one before ended or, if that is more than a buffer ago, a
buffer behind the newest sample; at the end everything that arrived is saved. The
instance in MCMqtt maps it to the receiver: `ended` is the last sample played.

**PyMicrophones** - the Python class and, below it, the lock discipline of
`MicrophoneArray::Read`. Python threads are `Callers`; each microphone is also
the name of its background thread. The GIL is not a variable: `GilFree` says
that no caller is at a place that keeps it. `start_async`, `stop_async` and the
destructor release it, so two callers may be inside them; the constructor,
`read_sync` and `read_async` keep it. `broken` records what would be
`std::terminate` or undefined behaviour (assigning to a joinable thread, joining
twice, waiting with a lock that is not held); after it nothing happens.

**AudioConsumer** - the two prototypes of that class. `"example"` is a program
whose `main` makes its calls in a fixed order; `"bindings"` has a Python thread
that makes any. A call is a step except where it waits or where
the background thread may come in between.

**CircularQueue, SampleDelay, DelayLine** - `circular_queue.h` as operators on
a record; SampleDelay is one queue under any sequence of `Resize` and `PushPop`
(the slots that `new T[]` leaves uninitialised hold any sample); DelayLine is
the abstract specification: PushPop returns the sample pushed N calls ago.

**Beamformer** - `CalculateDelays`, `SetSamplingRate` and the loop of `Read`
over one CircularQueue per microphone. Time is an integer; a sample is the time
at which the source emitted it, so order and age of samples are visible.

**MicConfig** - `Setup`, `SetSamplingRate`, `SetGain` and the reading back of both,
with MicrophoneCore's filters. A user runs one program after the other, each with
new objects and its own calls (`ProgramCalls`), over a board that keeps what the
last left there and a bus that may fail.

**DirectionOfArrival** - `Calculate` and the loop of its demo. The source goes
round the array between any two steps. `Correlation` stands for the Fourier
transforms: a peak at the delay between the two microphones of a pair.

**Gpio** - `GPIOControl` and `GPIOBank` as the Python class `gpio` calls them. A
register is the set of its bits that are 1. `shadow` is what the driver holds,
`board` what reached the FPGA: a call changes the shadow whether or not its
write succeeds (`WriteRegister`), and a pulse is three independent writes
(`WritePulse`). `setting` and `pulse` are histories of what was asked of each
pin. A list of pins is one field after the other, as a recursive function
(`FieldsSet`), and one write. The registers for mode, value and function have the
same code and one parameter, `PinRegisters`. Clock and frequency enter as the counters computed
from them.

**MatrixBus** - `MatrixIOBus::Init` with both drivers, in the order in which they
are opened, and `Read` and `Write` through the driver's buffers. Buffers hold the
name of the thread whose request or answer is in them. `undefined` records the use
of a driver that was deleted or never made.

**AudioOutput** - the driver, the FIFO on the board and the converter that
empties it, sample by sample, between any two steps of `Write`. While `Write`
sleeps the converter plays the samples of that time (`due`).

**MCAudioPipeline, MCPython, MCArray, MCMqtt, MCBoard, MCRecorders** - instances
for TLC. Those that bring together components which share no state in the
code give the initial state a variable (`object`, `part`, `program`, `driver`)
that says which of them runs; the others keep their initial state. The
components' own properties are the properties of the run; a temporal one is
stated for the component that runs.

**SafeQueueProofs, AudioPipelineProofs, ArrayProofs, BoardProofs, MqttProofs,
PyProofs, RecorderProofs, WavProofs** - see [7](#7-proofs).

Definitions headed "Mutant of ..." beside a definition are what it would be with
a plausible bug. They are in no specification; `PROJECT.json` ("mutants") pairs
each property with one that must break it.

## 4. What the runs check

| Run | Question | Properties |
|---|---|---|
| `safe_queue` | three threads, each free to call anything | `EveryBlockHasAWaker`: while a thread sleeps there is a notification or a woken thread for every block. `NoSleeperAfterStop`: no thread sleeps on a stopped queue unless a `notify_all` is coming. `NoBlockStranded`: no thread sleeps for ever beside a block. `ImplementsChannel`: refinement |
| `record` | `test_record_async` | `RecordingComplete`: with drain, at most the last block is missing. `CapturedInOrder`: no frame twice although the wait has no predicate. `ProcessLeavesLoop`: though the microphones fall silent |
| `publish` | `test_mqtt_async`; every publish may throw, `connect` having failed unnoticed | `ProcessLeavesLoop`, though the microphones fall silent and the bus fails |
| `beamform` | `matrix_read`, failing bus, spurious wakeups, file that does not open | `ImplementsRecording`: refinement of Recording, at any moment and not only at the end. `MainReturns`, though `running` is stopped without lock or notification |
| `drain` (violation) | is the queue empty when both threads are done? | `DrainedAtEnd` |
| `python` | one Python thread, two microphone objects, any calls; the prototypes | `NeverBroken`, `LenNeverOverstates`, `InitExcludesReads`; `StopsLeaveOne`: a stop that drains leaves one block at most; `EveryCallReturns`, when microphones are used one at a time, and `main` of the example ends as its last comment says |
| `wav_recorders` | disk at any moment, after a kill and after a restart; both recorders | `KillCostsTwoBlocks`: on disk, header and data differ by a block at most, and a kill costs two. `ClosedFilesAreExact`. `BlocksInOrder`, `ReturnAppends`: the synchronous recorder, call after call |
| `wav_sync_open_fails` (violation) | does a file keep what it had? | `AppendKeepsOld` |
| `array` | the ring under any calls; steering and rate changes between reads; programs that configure the board; a source that moves | `ImplementsDelayLine`: refinement of DelayLine. `SamplesInOrder`, `NoiseEnds`. `ConfiguredAsAsked`: rate, gain and filter on the board are those asked for, whatever was there. `FacesSource`: the microphone found is the nearest or next to it |
| `mqtt` | both disconnections, any broker; the synchronous client; the receiver | `GivesUpOnlyOnSilence`. `ChannelsInStep`: a block that came on a topic came on those before it. `PlayedInOrder`: played samples against those that arrived. `ImplementsPlayback`: refinement of Playback, which includes what is saved. `MqttProgramsEnd`: the disconnection returns, unless some messages only are acknowledged (`matrix_read`: always), and the receiver ends |
| `board` | any three GPIO calls; two threads on the bus and repeated `Init`; the audio FIFO; any access failing | `PinsAsAsked`: once a write of a register succeeds, each pin has what was asked of it last, also by calls that failed. `PulsesAsAsked`: a pulse set with success stays until its bank gets another period, if period and duty fit 16 bits. `OwnTransfer`, `OneDeviceOpen`, `DriverIsAlive`. `NothingOverwritten`, while the bus works |
| `recorders` | the validation recorder, the old one and the demos, with files that do not open | `FilesThenQueue`: files and queue together are what was captured. `ImplementsRecording`: the two recorders refine Recording. `InsideTheArray`, `RecordsTheStream`: second after second. `RecordersReturn` |

`FilesFollowQueue`, `LastSamplesHeld` and `SavesWhatArrived` are proved; the refinements
of these runs would not hold without them, so that the runs do not list them. Nor is
`StoppedMeansJoined` listed, also proved: where it fails, `NeverBroken` does at the next
`start_async`.
Type invariants are stated in the modules or beside the proofs, and proved
([7](#7-proofs)); they are worth adding to a configuration while a module is being
changed. MicConfig has one for what its proof needs only; for DirectionOfArrival it is part of `DoaInv` in ArrayProofs. Deadlock is checked in
`safe_queue`, `record`, `publish` and `beamform`. It is not checked elsewhere: a
recording, a disconnection or a bounded stream of samples ends, and in
`python` the constructor of a second microphone really does block for
ever if the first one never reads. (In the pipeline the state in which `main` has
returned is given a stuttering step, `Returned`, so that any other stop is a
deadlock.)

## 5. Bounds

* `safe_queue`: three threads are the least with which a notification can reach
  a thread other than the one meant, with a pusher besides; two blocks are the
  least that can exceed the number of woken threads; `MaxPush` 2 ends the
  pushes, while stops and starts go on without bound. The safety properties are
  proved for any number.
* `record`, `publish`, `beamform`: 4, 2 and 3 frames; after frame `MaxFrame` frames are not
  told apart and interrupts continue only after the stop. The stop can come
  before, between or after any of them. They have two
  files; two topics; one file and one topic. The proofs have no bound.
* `python`: one caller (with two, both may pass the test at the top of
  `start_async`: see [8](#8-divergences-found-while-modelling)); two objects;
  at most two queued blocks while running (`MaxQueue`), and `len_queue` not
  below -1 (`MaxPhantom`, it can go down without end). A block pushed after the
  stop is never held back. Prototypes: 3 blocks and 5 calls, enough to start,
  stop and start again with a block left over.
* `wav_recorders`: 2 channels, 5 blocks of 100 bytes, sizes modulo 256, so that
  the length wraps. One channel that is ahead and one behind is all that the
  loops over channels can produce.
* `array`: the ring has delays 0 to 4 and 9 samples, so that the ring of every size
  goes round almost twice. The beamformer has four microphones of the Creator and 40 units of
  time, ten samples at 16 kHz or twenty at double rate, against a delay of five
  and ten. The configuration has three rows of the table, one of them the
  constructor's, and asks for two of them and for a frequency that is in none;
  any number of programs run. The direction has all eight microphones, 16
  directions of the source, the code's block of 512 and window of 6, the delays
  of the Creator at four rates, of which the highest does not fit the window.
* `mqtt`: 4 messages and 3 retries: more messages than retries. 3 topics and 3
  blocks, so that there is a channel before and one after the one that fails,
  and a block after it. A buffer of 3, chunks of 2 and messages of 1 or 2
  samples up to 6: the buffer overflows with and without a chunk's worth in it.
* `board`: GPIO has three calls on two banks of two pins: one to set a pin, one to
  fail or disturb it, one to write its register again. The counters are those of a
  150 MHz clock; 10 Hz needs a period of more than 16 bits. A setting of 2
  stands for the integers that are not 0 or 1; `min_pulse_ms` is 0.8. The bus has
  two threads, the least that can mix their transfers, and three `Init`s, so
  that one can follow a failed one. With 8 samples and blocks of 2 the
  FIFO holds four blocks and the threshold is one block from its end, as with the
  code's 4096 samples and blocks of 1024; two frequencies, one double the other.
* `recorders`: 3 files and 4 blocks, more than can be in the queue and in
  hand when the recording stops after the first. Demos: blocks of 2 in a second
  of 5 samples, so that a second is cut in the middle of a block; 2 seconds; 2
  LEDs; 3 blocks into pipes.

## 6. Fairness

* `FairQueueSpec`: weak fairness on what a thread inside a call does next
  (notify, or run after being woken): the operating system schedules it and the
  mutex is held for a few instructions only. No fairness on making calls.
* `ThreadFairness` of AudioPipeline: the three threads are scheduled and
  `sleep_for` ends. It holds nothing about interrupts; `record` and `publish`
  need none.
  `FairIrqSpec` adds that microphones keep interrupting: without it
  `main` waits for ever in the join of a capture thread that waits for ever.
* `Fairness` of PyMicrophones: callers inside a call and background threads are
  scheduled, and the microphones interrupt. Python need not call anything.
  `ConsumerFairness` is the same for the prototypes; `main` of the example makes
  its next call.
* `Fairness` of ValRecorder: its three threads are scheduled, the clock runs, and the
  microphones interrupt. `DemoFairness`: the same for the demos and their LED thread.
* `Fairness` of MqttDisconnect: the thread is scheduled. Nothing is assumed of
  the broker.
* `ReceiverFairness`: `main`, the player and a callback that has begun go on
  (`sd.play` returns). The broker may send nothing.

No strong fairness is used anywhere.

## 7. Proofs

All leaves are checked by TLAPS with Z3, Zenon and, for the temporal steps, LS4.
A theorem is about the whole specification of its component, whatever the values
of the constants; the assumptions named below are all that is assumed of
them, and TLC evaluates each of them in a run. Every inductive invariant was
checked by TLC, on the instances of section 4, before it was proved. Bounds
such as `MaxPush`, `MaxInits` and `MaxBlocks` are in the next-state relations, but as
constants: the theorems hold for every value of them.

**SafeQueueProofs**, for any finite set of threads and any set of blocks
(`QueueConstants`). `QueueInv` is type correctness, `Conservation`
(`pushed = popped \o queue`), `EveryBlockHasAWaker` and `NoSleeperAfterStop`.
The last two are inductive once types are known; the argument for
the first counts: a push adds one block and one notification, a notification
becomes a woken thread if any thread sleeps, a woken thread goes back to sleep
only if the queue is empty, and then the bound is trivial. Step lemmas are
about one `Step` of one thread, so that AudioPipelineProofs can use them.
`QueueImplementsChannel` maps every step to a step of the channel or a stutter;
`Conservation` is what makes the popped block the next one sent.

**AudioPipelineProofs**, for any files, topics, failure behaviour and number of
frames (`PipelineConstants`). `QueueStepOfNext` reduces the queue's part to
the lemmas above, except for the one step that is not a call of the queue,
`running = false` in `process_beamforming`. `AtMostOneBlockLost` proves
`RecordingComplete`; it needs `OneMoreBlock` - once the processing thread has
left a draining loop, the queue is stopped, and empty or one block long with the
capture thread unable to push another - which in turn needs `KnowsStopped` (at
the second half of the loop test the queue is stopped) and `StartedBefore`
(nothing starts it again). `FilesFollowQueue` needs `HoldsBlock`.
`CapturedOnceInOrder` adds `FramesAdvance` - `raw_data_` is never ahead of the
microphones, the blocks pushed so far are not ahead of it, and, when
neither bus nor wait misbehave, a wait ends with a newer frame - and carries the
order of `pushed` through the queue to the sinks (`SinksWereHandled`).

`PipelineWakesItsSleeper` and `PipelineQueueIsChannel` carry the theorems of
SafeQueueProofs over to the whole program, step lemma by step lemma. They do not
follow from `QueueSpec`: the pipeline's queue does not behave as it says, for
`process_beamforming` assigns `running = false` with no lock and tells nobody. That
this strands no thread needs `OnlyProcessWaits`: the only thread that ever sleeps is
the one that makes the assignment, and it does so before its loop. A program with a
second consumer would not have this invariant.

`PipelineImplementsRecording` puts it together: under `OrderInv` a push is
`CaptureBlock`, the step that writes and publishes is `HandleBlock` of the next block
(it is the last popped, and `Conservation` says that this is the next pushed), the end
of the thread is `CloseRecording`, everything else a stutter. `OneMoreBlock` gives
`LosesOne`. A pop is a stutter because `Handled` counts the block in hand as not
handled.

**ArrayProofs**, on SampleDelay for any delay and any samples (`DelayConstants`).
`LastSamplesHeld` is inductive with the types; `QueueImplementsDelayLine`
follows from it: at the (N+1)th push the slot read is the one `LastSamplesHeld`
describes for age N. The modular index is first rewritten without `%`
(`SlotBefore`, `SlotAfter`). On Beamformer for any microphones, points, travel
times and sampling periods (`BeamConstants`): `BeamInv` says of every queue that what
it holds rises, from the value it gave last to the one it gets next (`Rising`), and that
as many slots were written as samples were read since the array was steered
(`Initialised`). The latter is a lower bound, for the microphones that
`CalculateDelays` passes over keep a queue that is older. `PushPopShifts` is the one lemma
that looks into the slots. On MicConfig for any table in which a frequency has one row
(`MicConfigConstants`): `SoFar` is what the calls made so far have left on the board
and in the driver, by how many are still to come (`Left`).
`SourceIsFaced`, on DirectionOfArrival, is proved for any block, window, LEDs and
table of delays (`DoaConstants`, `DoaGeometry`). The peak found is the delay of the pair
(`PeakFound`: the window has every index once, `InWindow`); the pair chosen as
perpendicular exists (`PerpendicularExists`, by the least element of a set of naturals)
and is then compared with the others, direction by direction.
`DoaGeometry` is what the code needs of the board: on the axis of a pair, and 45
degrees from it, the delay is longer than across it by two samples; at 22.5 degrees
it is longer than at 67.5, and two samples at least. The two samples are because -1 counts
as none: with a delay of one sample at 22.5 degrees the pair nearest to the source may
be taken for the perpendicular one. The tables of the run satisfy it, at every rate.

**BoardProofs**, on MatrixBus for any set of threads and any number of calls of
`Init` (`BusConstants`) and on AudioOutput for any frequencies and sizes with four blocks
or more in the FIFO (`AudioConstants`; the code has 4096 samples and blocks of 1024), and on
Gpio for any numbers of banks and pins, settings, lists of pins and pulses
(`GpioConstants`: the prescaler fits its field, and a bank has no more pins than bits of
prescaler, so that there is a bit for each pin).
`BusInv` says who holds the mutex (`MutexHeld`: exactly the thread in a
transfer), that `Init` and transfers exclude each other (the programs call
`Init` before they start threads), whose bytes are in the buffers (`OwnBuffer`) and
which device is open at each place of `Init` (`OpenInInit`). For the audio FIFO
the argument is arithmetic: `PointersAgree` (what is in the FIFO is the distance
between the pointers, modulo its size), `LevelNotBelow` (the level computed from a
read pointer seen earlier is never too low), hence `RoomForBlock` after the sleep.
For Gpio, `GpioInv` puts the shadow between the two things compared: it holds what was
asked, whatever the writes did (`ShadowAsAsked`), and the board is the shadow where
the last write succeeded (`BoardIsShadow`). A pulse needs that the prescaler fields of
two banks do not overlap (`FieldsApart`). That a list does what its settings do one
after the other is an induction over its length: the induction theorem of the library
takes an operator, so `InductionOnSet` states induction for a set of naturals,
from the well-foundedness of `<`, and `LoopExists` and `LoopKeeps` say what a
recursive function over a range computes.

**MqttProofs**, for any number of retries, messages, topics and blocks, and any sizes of
buffer, chunk and message (`MqttConstants`, `SyncConstants`, `ReceiverConstants`).
`GivesUpAfterSilence` needs that a turn counts as a retry only while nothing was
acknowledged (`AnswerRemembered`, `RetriesLeft`). `TopicsInStep` needs
`BlockOnItsWay`: the block being sent is on the topics before the present one and
on no other. For the receiver, `SamplesAccounted` says that what was played, then what
waits, is in order and is, with what was dropped, all that arrived; the proofs about
`append`, `extend` and the bounded `deque` are lemmas on sequences.
`ReceiverImplementsPlayback` needs `BufferIsWindow`: the deque is exactly the samples
after the last one played, or the newest `BUFFER_SIZE` of them. So the deque, its
maximal length and the moment at which samples are dropped are no part of what the
script promises. `PlayerEnded` makes the end a step: nothing is played or
received once the file is written.

**PyProofs**, for any microphones and bounds (`PyConstants`, `ConsumerBounds`).
`InitNeverDuringRead` holds for any number of Python threads; its invariant
`LockInv` relates three locks that the code never names together: the GIL
(`OneHoldsGil`), `irq_m` (`ReaderHasLock`, `CtorHasLock`) and the lifetime of a
microphone (`LifetimeAlone`, `NoOrphan`). The other theorems have the hypothesis
`OneCaller`, one Python thread, because for two they are false: both can
pass the test of `start_async` ([8](#8-divergences-found-while-modelling)).
`CallerInv` adds that what a call has tested is still so when it acts
on it (`TestedStillTrue`, `FlagIsThread`) and that an array gives `irq_m` up only while
it waits (`ArrayHasLock`). `CounterLags` is the inductive form of
`LenNeverOverstates`: it counts the half-done push and the half-done pop.
`StopDrains` is about the composition, so the prototypes have an invariant too.

**RecorderProofs**, for any number of files, blocks and formats (`ValConstants`), and for
the demos any sampling rate, size of a block, number of seconds and LEDs
(`DemoConstants`). `FilesThenQueue` is inductive with the places at which a thread has a
block in hand (`InHand`) and the order in which files are opened (`OpenedSoFar`).
`ValImplementsRecording` adds that a file not yet opened is empty (`NotOpened`). The
block is handled when it is popped: what is written to one file after the other,
while blocks arrive and the flag falls, is one step of the recording.
For the demos, `Gathering` says that the array holds what is kept of the first k
blocks of this second. With `Kept` and `Blocks` quotients of constants,
the arithmetic is in four lemmas (`BlocksFill`, `KeptFill`, `HeldFill`,
`PlaceInSecond`): enough blocks fill the second, no kept sample is past it.

**WavProofs**, for any number of channels and blocks, any wrap of the header's
sizes and any block longer than a header (`WavConstants`, `RecorderConstants`).
`AsyncInv`: a stream of `record_all_channels_wav` holds back one block at most
and the header that announces it or the next (`AsyncChannel`); the two blocks that a
kill costs are that one and the one in hand. `SyncInv`: what each stream will
leave, for channels whose turn is to come, has come or is over (`SyncStream`),
and blocks that rise in every file (`Good`). `ReturnsAppend` is an action property.
Both recorders rest on lemmas about the stream (`PutParts`, `SeekParts`,
`FlushParts`: flushing part of a buffer does not change what the file will be).

Only model-checked: all liveness (the prover has neither fairness nor ENABLED), that
is `NoBlockStranded`, `ProcessLeavesLoop`, `MainReturns`, `EveryCallReturns`,
`MqttProgramsEnd` and `RecordersReturn`. Every safety property of a passing run,
invariant, action property or refinement, is stated by a theorem. That the correlation
has its peak at the delay is not proved: it is what the model has instead of the
Fourier transforms.

## 8. Divergences found while modelling

With a run that shows them (`findings` in `PROJECT.json`): the block left after
a drain (`drain`), and the files emptied when a later one does not open
(`wav_sync_open_fails`).

Seen in the code, and built into the models as the code has them:

* `read_async` on an empty queue while the background thread runs decrements
  `len_queue` (`microphones.cpp:206-210`): `LenNeverOverstates` says only that the
  counter is never too high.
* `record_all_channels_wav_sync` on a missing or empty file declares 44 bytes
  too few (`audio_processor.cpp:236`): `ReturnAppends` states the difference.
* Microphones at equal distances share one entry of `distance_map`
  (`microphone_array.cpp:131`): all but the last keep the queue they had.
* The delay grows with distance (line 138): far microphones, which hear the
  source late, are delayed more, not less.
* `disconnect_async_mqtt_client` counts a retry only while nothing has been
  acknowledged (`audio_processor.cpp:344`): a broker that acknowledges something
  and then falls silent holds it for ever. `ReturnsUnlessPartlyAcknowledged` says
  when it does return.
* Every `MicrophoneArray` holds the one static `irq_m` from its construction
  (`microphone_array.cpp:41`), so that constructing a second Python microphone
  waits, with the GIL, for the first one to read. `matrix_lite/__init__.py:12-13`
  suggests to construct one beside the one that line 22 has made.
* A comment (`drivers/gpio.cpp:11`) says that `parse_pin_setting` returns 0 or 1;
  an integer is returned as it is, and its other bits land on the neighbouring
  pins. `PinsAsAsked` counts those pins as not asked for.
* A frequency that needs a period of more than 16 bits (below 36 Hz at 150 MHz)
  sets another one, and so does a percentage over 100 whose duty needs more; `SetPWM`
  returns true. `PulsesAsAsked` excludes both.
* The recorder of `src/val` writes what it popped and leaves the rest of the
  queue: `FilesThenQueue` says that nothing else is lost. Its WAV header states
  the length that `--duration` announces and is not corrected, and its test for
  an extension compares `wav` with `.wav`, so it always appends one
  (`val/audio_processor.cpp:121-125`).
* `read_async` of the prototype lowers `len_queue` without a block too, while the
  consumer runs (`pybind11-test/matrix_python.cpp:195-200`).
* A publish that throws leaves the remaining channels of its block unsent
  (`audio_processor.cpp:280-311`): the topics are then of different length.
  `ChannelsInStep` says what remains true. The result of `connect_async`'s
  `wait_for` (line 324) is not looked at.
* `GetSamplingRate` compares the register's constant with the column of the
  frequencies (`microphone_array.cpp:187-201`), where it is not: after `Setup`
  the array believes in 16000 whatever the board runs at. `micarray_pipes_direct`,
  which only calls `Setup`, relies on it; `ConfiguredAsAsked` is about programs
  that set a rate. They ignore the `false` of a rate that is not in the table.
* `SetFIRCoeff` writes as many bytes as the filter has taps of two bytes, half of
  it (`microphone_core.cpp:24-28`): `ConfiguredAsAsked` speaks of the first half.
* The constructor of a beamforming array asks the bus for its LEDs before `Setup`
  has given it one (`microphone_array.cpp:122`, `matrix_driver.h:31`).
* The window of six samples in `DirectionOfArrival` fits the delays of the
  Creator up to 16 kHz; `FacesSource` is about those rates. A delay of -1 counts
  as none, so that a smaller circle or a lower rate, with a delay of one sample at
  22.5 degrees, may make the wrong pair perpendicular; and `polar_angle_` takes the index of a negative delay as it is (511
  for -1). The demo's offsets are those of the Creator's 35 LEDs, on a Voice too.
* Equal pointers of the audio FIFO are taken for a full one
  (`audio_output.cpp:105-108`), so that a write into an empty FIFO sleeps first.
  The sleep is cut to whole milliseconds; the model takes it, with the transfer of
  2 KB after it, as the time of a block. `GetPCMSamplingFrequency` runs
  past its table if the register's constant is in no row (lines 74-79). The demo
  does not look for the end of its file and goes on writing the last block.
* A failed `Init` of the bus leaves `bus_driver_` pointing to the deleted driver
  (`matrixio_bus.cpp:52`, `:72`): `DriverIsAlive` names it as the only way to use
  one. `uart_demo` goes on after a failed `Init`.
* The receiver's buffer drops the oldest samples when the player is late
  (`mqtt_recv.py:22`, `:49`): `PlayedInOrder` says that nothing else is missed.
* With two Python threads both can be past the test of `start_async`; the second
  assignment terminates the program. `NeverBroken` is checked for one.
* A spurious wakeup of `irq_cv` or a failed transfer gives the frame before once more
  (`microphone_array.cpp:74-77`): `CapturedInOrder` exempts both.
* `irq_m` is locked by the thread that constructs an array and unlocked, in
  `irq_cv.wait`, by the one that reads (`microphone_array.cpp:41`, `:74`), which
  `std::mutex` does not allow. In the models the owner of the lock is the microphone.
* The destructor of a Python microphone takes the GIL again before its array gives
  `irq_m` up (`microphones.cpp:129`). With two Python threads, a constructor that waits
  for `irq_m` with the GIL and such a destructor wait for each other. With one
  (`python`) there is no one to hold the GIL meanwhile.
* The constructor of a Python microphone does not look at the result of `bus.Init`
  (`microphones.cpp:109`) and goes on to `Setup`.

## 9. What is not modelled

Signal processing (the values of coefficients, the Fourier transforms of the cross
correlation, the energy search), what a message, a block or a register of data
contains, LEDs and sensors (stateless copies), names of files, printing.
`SetupTimer`, the infrared registers and the reads of `GPIOControl` are one
transfer each, of which the driver keeps nothing. `UartControl` waits as
`MicrophoneArray::Read` does and has one user with one thread; `ZwaveGPIO` has no
user, so that there is no sequence of calls to model. The binding files that only
declare functions, and the demos around one call, have no behaviour of their own.
`PROJECT.json` gives each part and reason.

Of what is modelled, these cases are left out, and no property is about them: writes to
a file that fail (a full disk); a `Read` of a demo that fails and leaves the frame
before in the array; the quality of service of a publish, and a negative number of
retries, from which `disconnect_async_mqtt_client` counts down without reaching 0; a `wait()` on the MQTT client's own disconnection, which is taken to end; an
`Init` of the bus that fails inside the constructor of a Python microphone (what it
leaves behind is in MatrixBus); `AudioOutput::Write` before `Setup`, and a
frequency constant of 0, which matches the table's last row; GPIO pins above 15, which
the calls for servos and PWM refuse and the others do not check; memory that `new T[]`
recycles in the queues of Beamformer, whose new slots count as noise (SampleDelay has
it). `Drain = FALSE` is covered by the proofs but by no run: every program in the repository passes `true`.

## 10. Plan

Written, in this order: Channel and SafeQueue with proofs; AudioPipeline with
proofs; WavFile, WavRecorders; PyMicrophones; CircularQueue, SampleDelay,
DelayLine with proofs; Beamformer; MqttDisconnect; Gpio; ValRecorder; MatrixBus,
AudioOutput; MqttReceiver, MqttSync; MicConfig, DirectionOfArrival; DemoRecorder;
AudioConsumer; the proofs about all of these; Recording and Playback, with the
programs that implement them.

What is left to model is little: UartControl, ZwaveGPIO, and the timers and infrared
registers of `GPIOControl`.

What is left to prove is refinement: the demos, and `record_all_channels_wav` with its
streams (WavRecorders), against Recording, so that a kill is a recording that ends
early.
