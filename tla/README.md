# M5Tab5 Digifant Analyzer: TLA+ models and proofs

The Analyzer (`M5Tab5_Digifant_Analyzer/`) is firmware for an M5Tab5 (ESP32-P4,
two cores, FreeRTOS). Over a USB serial adapter it speaks KWP1281 with the
Digifant engine control unit, asks for its measurement groups, and hands the
decoded values to a display, a serial log and a recording on SD card. This
directory models the part of it where tasks, callbacks, time and a lossy line
meet, the USB host library it brings along, and two sketches that came before
it; it checks the models with TLC and proves most of their safety properties with TLAPS.

Paths below are relative to `M5Tab5_Digifant_Analyzer/`, `.ino` is
`M5Tab5_Digifant_Analyzer.ino`, `EspUsbHost*` are in `src/esp_usb_host_fork/`, and `PROJECT.json` gives for every definition the
lines of code it stands for.

## 1. The system

### Tasks and what they share

| Task or callback | Code | Writes | Reads |
|---|---|---|---|
| USB client task (callbacks) | `.ino` 315-346, the USB host fork | device state, generation, lock, rx ring, critical events | - |
| Loop task (protocol runner) | `.ino` 411-528, 608-627 | rx ring's tail and reset, lock, frame queue, session flags | everything the callbacks write |
| Processing task | `.ino` 149-178 | decoder, measurement model, mailboxes, logger queue | frame queue, session flags |
| Display, serial, logger, IMU tasks | `.ino` 180-294 | their own state | a mailbox or a queue each |

### Components, their state, and what makes them correct

- **RX ingress ring** (`src/rx_ingress_ring.h`). 512 slots, `head_`, `tail_`, a
  state Open or Poisoned, an ingress epoch, counters. The serial callback calls
  `publishBatch`; the runner calls `tryPop` and, when the ring overflowed,
  `resetAfterQuiescence`. Correct if what is delivered under one epoch has no
  hole and nothing is delivered that was not written. Hard: the reset runs
  against a batch that may begin at any time, and `head_` is a plain variable.
- **Critical transport event ring** (`src/critical_transport_event_ring.h`).
  Completions and disconnects, 33 slots, a sticky overflow. Two tasks push.
- **Protocol core** (`src/kwp1281_core.h`) with the loop of `run_handshake`. A
  state machine over time: bus idle, the five-baud address by break on and off,
  sync, two key bytes, an answer in a window, its echo. Hard: the loop may get
  to `advance` late by any amount.
- **Byte engine and parser** (`src/kwp_byte_engine.h`,
  `src/kwp_application_parser.h`). Per byte: echo, completion and the other
  side's complement, in any order. Correct if a complete frame is a valid one.
- **Measurement plan** (`src/measurement_plan.h`). Identification, group zero,
  groups one to four, again and again.
- **Measurement session** (`src/kwp_measurement_session.h`) with the loop of
  `run_measurement`. Owns an engine and a plan, sends host blocks, publishes
  frames. Hard: the last byte of a host block, finished by two events in either
  order with the unit's next byte already there; losses.
- **Protocol runner, callbacks, reconnect policy** (`.ino`,
  `src/kwp_reconnect_policy.h`). Decides when to attempt a session, gives each
  operation a token and waits for the completion that carries it; an unknown
  outcome locks the transport until the next connection.
- **USB host fork** (`src/esp_usb_host_fork/`, 19 000 lines). A host task that
  owns the library, a client task that runs every callback, and applications that
  wait for both. The project's own patch are the tokenised serial and control
  operations and the retirement of a transfer that outlives its device. Around
  it: opening and losing devices, recovery of endpoints, LED reports of a
  keyboard, shutdown; mass storage, NCM network, card reader, the pools of OUT
  transfers, and input reports taken apart into events. Correct if no transfer is
  used or freed by two, every answer goes to the one who asked, and nothing waits
  for ever. Hard: devices go while others wait, timeouts race late answers,
  `end()` runs against everything.
- **Snapshot mailbox and fan-out** (`src/measurement_snapshot_mailbox.h`). Three
  slots, each Free, Writing, Published or Reading; the processing task overwrites
  and each consumer reads the latest. No locks.
- **Validated frame queue, processing service, decoder, measurement model**
  (`src/validated_frame_queue.h`, `processing_service.h`,
  `diagnostic_decoder.h`, `measurement_model.h`). Frames with a sequence number
  taken before the send. `poll` drains the queue, tells a gap by the numbers,
  resets the decoder's header cache then and when a session ends, and publishes
  a snapshot. Correct if a body is decoded with its own header and lost frames
  and ended sessions take the validity away. Hard: the status comes from four
  loads after the drain, while the runner sends frames and ends sessions.
- **Logger** (`src/logger_channels.h`, `logger_time_merge.h`, `sprotz_*.h`).
  Three queues bring snapshots, IMU samples and commands late; the merge holds
  them back, orders them by time stamp and drops what lies outside a recording;
  the core writes records, events and markers to a target whose every call may
  fail. Correct if a file holds what was accepted between its start and its
  stop, events are bracketed, and merge and core agree on whether there is a
  recording. Hard: the failures, and a command queue guarded by a try-lock.
- **IMU** (`src/imu_*.h`). A sampler on a grid of absolute deadlines, a ring to the
  logger, a mailbox to the console.
- **Audio** (`src/audio_*.h`), not wired into the sketch yet. A pool of blocks whose
  ownership passes between microphone and writer through two index queues, and a
  sampler that accounts for lost frames.
- **Display and console** (`src/display_ui*`, `serial_consumer.h`,
  `runtime_debug.h`). The console takes commands; the display polls mailboxes and
  the tab request and redraws by four flags, each set and cleared in several
  places. Correct if the screen catches up with what was asked for and sent.
- **Prototype** (`../M5Tab5_Digifant_Proto/`). One loop that speaks KWP1281 over a
  line that echoes, keyed by the group last asked for.
- **Audio probe** (`../M5Tab5_Audio_Probe/`). A menu, a capture in blocks and a WAV
  file written in chunks, all advanced from one `loop()`.
- **Log format, debug recorder, device filter, the touch probe and the USB check**:
  formatting and I/O.

## 2. The modules

| Module | Models | State corresponds to |
|---|---|---|
| `RxIngressRing` | the ring, both sides, every shared access a step | members of `RxIngressRing`; `callbackPc`/`loopPc` are positions in `publishBatch` and in `tryPop`/`resetAfterQuiescence` |
| `IngressQueue` | what the ring promises, abstractly: a bounded queue that says where it lost bytes | `Waiting`, `NextOffered`, `QueueEpoch`, `EpochPhase` in `RxIngressRing` are the refinement mapping |
| `KwpByteEngine` | one engine under any order of its methods | the record `engine` holds the members 270-277 |
| `MeasurementPlan` | the plan, as functions on a record | members 108-112 |
| `MeasurementSession` | session, loop, adapter, K line, control unit; uses the two above | `session` holds the members, with the engine and the plan inside it; `rx` is the ring with its hand-over of bytes in order, `toWire` the byte given to the adapter |
| `TransportSession` | runner, callbacks, event ring, USB slot, retirement, policy | `device`, `slot`, `retired`, `ring`, `runner`, `policy`, `nextOp` |
| `KwpHandshake` | protocol core and its loop over time | `core` holds the members; `pc` is a position in the loop of `run_handshake` |
| `SnapshotMailbox` | publisher and reader of one mailbox, every shared access a step | `slots_`, `publishedIndex_`, `published_`, `consumed_`; `publisherPc`/`readerPc` positions in `publish`/`receive` |
| `ProcessingPipeline` | frame queue, processing service, header cache and measurement model, with the runner's session flags | `queue`, `nextSequence`, `drops` are the queue's members; `expected`, `last`, `headers`, `snapshot` those of the service, the decoder and the model; `ppc` is a position in `poll`, `status` what the status provider has read |
| `LoggerTimeMerge` | the merge, as operators | `merge` holds the members of `LoggerTimeMerge` |
| `SprotzLoggerCore` | event state, logger core and file, as operators | `core` holds the members; `file` the records written so far |
| `SprotzRecording` | sources, queues and the logger task around these two | `snapshots`, `imuSamples`, `commands` are the queues, `operationLock` and `entering` the try-lock and who is in it; `pc` is a position in `poll` |
| `ImuSampling` | sampler, ring, diagnostics mailbox, console report | `imuSampler`, `imuRing`, `diagnostics`, `imuReported` |
| `AudioPipeline` | pool, index queues, sampler and writer | `blocks` are owners and leases, `audioFree` the free queue with head and tail, `mic` and `writer` what each task holds and where it is |
| `TabletConsumers` | console, tab requests, display model and what is drawn | `display` holds the flags of `DisplayUi`, `screen` what was drawn; `requestedTab`, `appliedTab`, `renderedTab` the trace of `RuntimeDebug` |
| `UsbHostLifecycle` | `begin`, `end`, host and client task, device slots, keyboards and hubs | `hostTask`, `clientTask` positions in the two loops; `slot`, `inflight`, `ledsInflight` per device |
| `UsbMassStorage` | bulk-only commands, status, recovery, units, mounts, a device | `cmd`, `plan` where a command stands; `device` what it holds back |
| `UsbNetwork` | NCM: negotiation, assembly, sending, release | `iface`, `asm`, `ring`, `out`, `outDone`, `txLock`; `sender`, `app`, `client` are the tasks |
| `UsbOutPool` | pools of OUT transfers, tokens, retired table, one-shot writes | slots and their states, `heap` what became of each transfer |
| `UsbCcid` | card reader: commands, sequence numbers, notifications, cached ATR | `ccid` the members, `callers` the tasks, `reader` the device |
| `UsbInput` | reports to events, listeners | `endpoint` the last report, the registry and the dispatch under way; `balance` and `told` what an application has added up |
| `ProtoTester` | the prototype's tester, its line and a control unit | members of `EcuInitTester` |
| `AudioProbe` | the probe's menu, capture and storage | `model`, `audio`, `storage`, the PCM buffer |
| `MCConsumers` | inputs for its run | - |
| `MCMeasurementSession`, `MCTablet`, `MCUsbFunctions` | several components side by side | `part` |
| `RxIngressRing_proofs`, `SnapshotMailbox_proofs`, `TransportSession_proofs`, `SprotzRecording_proofs` | theorems on these modules | - |
| `MeasurementSession_proofs` | theorems on the session, and on `IngressQueue` from which it gets its bytes | - |
| `Kwp1281_proofs` | theorems on `KwpByteEngine` and `KwpHandshake` | - |
| `Tablet_proofs` | theorems on `ProcessingPipeline`, `AudioPipeline`, `ImuSampling`, `AudioProbe` and `ProtoTester` | - |
| `UsbHost_proofs` | theorems on `UsbHostLifecycle`, `UsbOutPool`, `UsbMassStorage`, `UsbNetwork`, `UsbCcid` and `UsbInput` | - |

`MCMeasurementSession`, `MCTablet` and `MCUsbFunctions` put components side by side
that share no variable. `part` is chosen in the first state and only the component it names
takes steps, so the reachable states are the sum of those of the components,
not their product, and one run stands for several.

The modules cut the system where its own interfaces are. `RxIngressRing`
implements `IngressQueue`, from which the runner gets the bytes of an epoch in
order and without a hole; `MeasurementSession` and `KwpHandshake` take that as a queue `rx`.
`TransportSession` establishes that the completion a wait returns is that of its
own operation; the other two take a completion as an answer to the operation
under way. `KwpByteEngine` is checked alone under every order of its methods and
again inside the session, where the order is the one of a dialogue.
`ProcessingPipeline` takes any sequence of frames in any number of sessions as
what a session may send, and `SnapshotMailbox` any sequence of snapshots.
`SprotzRecording` and `TabletConsumers` take what the pipeline may publish, the
latter through registers, which is what `SnapshotMailbox` shows a mailbox to be.
`UsbOutPool` and `UsbHostLifecycle` are the two halves of what `TransportSession`
assumes of the library: a token in one place, and callbacks one at a time.

Two variables of `ProcessingPipeline` are history, kept for the properties:
`lost`, the numbers of dropped frames, and `told`, the last header the unit sent
for a group, which each body carries along as `header`.

What is external and modelled by how the code uses it: the control unit, the
K line, the adapter, the clock, the USB devices, and ESP-IDF's USB stack below
the library. That stack gives the transfers of a device back before it tells that
the device is gone; the library relies on it and says so (`clientTaskLoop`).

## 3. The runs

Deadlock is checked in `transport`, where the runner always polls. The other runs
turn it off because the modelled input ends: bytes, publications, commands,
devices and the clock are bounded.

| Run | Bounds | Distinct states | Shows |
|---|---|---|---|
| `session` | counter modulo 4, one payload, one disturbance; mailbox: 3 slots, 4 publications | 50 500 | an undisturbed dialogue never faults, stalls or collides and comes back to every group; disturbed or not, what is published was sent, and what the unit receives was built; in the mailbox nothing is dropped, torn or returned twice, and the latest arrives |
| `transport` | 3 event slots, 1 + 1 control steps, 2 connections, 6 operations | 150 000 | one report per operation, tokens in one place, completions credited to their own operation, nothing sent after an unknown outcome, sessions end, attempts are repeated |
| `transport_control_early` | the same | - | violated: a control operation is reported done before it is carried out |
| `handshake` | 16 ticks, a window of 1 to 3 ticks, one stray byte | 770 000 | line and wave in step, no cell early, answer not before its window, active only when answered, attempts end |
| `key_ack_late` | the same, no stray byte | - | violated: the answer is given after its window |
| `recording` | 4 commands, 1 snapshot, 1 sample, 5 ticks, hold-back of 2, delay of 1 | 735 000 | events bracketed, merge and core agree whatever fails, a stopped file holds what was accepted before its stop if nothing accepted is older than its start, a stop ends the recording |
| `stop_overtaken` | 2 commands, 2 snapshots, no sample, 7 ticks | - | violated: a stop is handed out before a younger snapshot that waits behind a discarded one |
| `display` | one letter, two words, one snapshot, one logger state, all kinds of touch | 73 000 | the screen catches up |
| `tablet` | per part, see below | 3 700 000 | rx ring, byte engine, pipeline, audio, IMU, prototype, probe |
| `usb_lifecycle` | a keyboard, a hub, one slot, two plugs, two LED presses | 222 000 | nothing the driver holds is freed, the library outlives its client, a keyboard is listened to again |
| `usb_functions` | per part, see below | 2 420 000 | mass storage, network, OUT pool, card reader, input |
| `network_context` | as the network part | - | violated: a sender returns while the driver holds the transfer that names its stack |

Why the bounds are enough:

- *Session*: the counter wraps within the run. The payload byte 3 is the block
  end. Safety was also run with two disturbances and with payload 252.
- *Transport*: 2 usable event slots overflow; two connections let a completion of
  the first arrive in the second. Safety was also run with 3 connections and
  8 operations (8.4 million states).
- *Handshake*: the wave needs 10 ticks, the rest leaves the loop 3 ticks of delay
  anywhere. Stray bytes are the sync byte and the complement of the second key
  byte, the two that mean something.
- *Mailbox* (session): the scan, a publication between any two steps of a receive,
  and the reuse of a slot twice need 4 publications.
- *Recording*: start, event, stop and one command more, so that a second start
  meets what a failed recording left; queues of one slot overflow; hold-back and
  delay make every order of delivery possible. Safety was also run with 7 ticks,
  2 snapshots and 2 commands (3.2 million states).
- *Display*: one value of each kind, each written once, at any moment of any pass.
  Only whether a flag set is lost matters, not how often it is set.
- *Rx ring* (tablet): 3 slots wrap several times within 9 bytes, a batch of 4
  overflows 2 usable slots in its middle, and there is room for two resets. The
  proofs hold for every capacity and batch.
- *Byte engine* (tablet): 3 is the terminator and the least length, 252 its
  complement, 251 and 4 a pair where one is a length. The frame buffer has its
  real size.
- *Pipeline* (tablet): 2 slots, 3 frames and 2 sessions let a header of the first
  meet a body of the second, with frames lost in between. Safety was also run
  with 4 frames (7.8 million states) and with 2 connections (10.0 million).
- *Audio* (tablet): 2 blocks in flight commit in either order, a ready queue of one
  overflows, two sessions follow each other.
- *IMU* (tablet): 12 ticks are four periods; the task may miss any of them.
- *Prototype* (tablet): one numbered group and one disturbance; the clock wraps at
  100, the block counter at 8. *Probe*: a buffer of two blocks, three starts.
- *Mass storage*: 5 tags over two units: a command that timed out and the status
  it left, the recovery, and the next command. *Network*: devices whose largest
  block lies below, at and above the limits, two blocks, two opens. *OUT pool*:
  depth 2, a retired table of one entry, two begins. *Card reader*: two callers,
  two opens, sequence numbers modulo 2, so that they come around and start again
  while an answer is late; one time extension. *Input*: three reports, two
  listeners of which one may be registered, ids modulo 3.
- *Lifecycle*: one device slot is reused by the second plug.

### Fairness

- Both tasks of every module go on with what they have begun (weak fairness):
  they are FreeRTOS tasks with their own time, no lock is shared. In `recording`
  this holds for the logger and for a producer inside the try-lock; the logger
  itself never waits for it.
- The display loops (weak fairness of taking the tab request), and a pass in which
  the refresh period of the display is over comes again and again (strong fairness:
  passes in which it is not come in between).
- The USB client task dispatches every event that has come, an LED report in flight
  completes, and a pass of its loop in which no call fails comes again.
- Time goes on: the clock of the handshake, the retry interval, the stall time.
  A wait that is gone round for ever runs out (strong fairness of its time limit,
  since the wait loop tests it again and again).
- Nothing is asked of the device, of the USB stack or of whoever publishes.
- The control unit is fair only in the session, and the two properties that need
  it (`UndisturbedKeepsRunning`, `GroupsComeAgain`) say nothing of a disturbed
  dialogue.

`Stall` in the session and `noticed` in the transport are assumptions about time:
the stall time of 4 s is longer than a pause in a dialogue that is still going
on, and taking a device away and enumerating the next takes longer than the
runner needs to look at the state again. `PollIsShort` in the pipeline is one
more: a poll begun before a handshake, which takes seconds, has ended with it. It
only keeps the run small: no property depends on it.

## 4. What the code does differently from what is written

Four runs end in a violation of what a document or a comment says.

1. `transport_control_early`: `verification.md` 136-137 says a control
   operation is reported after the synchronous transfer. It is reported when the
   transfer has been queued (`EspUsbHost.cpp` 4491-4497).
2. `key_ack_late`: ARCHITECTURE_V2 404-406 defines half-open windows.
   `advance` issues the answer and then sets Fault (`kwp1281_core.h` 89-94),
   and `run_handshake` still sends what was issued.
3. `network_context`: the comment at `EspUsbHost.cpp` 13063-13066 says the sender
   takes its transfer back before it returns, so that its context on the stack is
   not used afterwards. When the device goes, line 7659 wakes the sender, which
   returns while the driver still holds the transfer.
4. `stop_overtaken`: `IMPLEMENTATION_PLAN_V2.md` 484-485 and ARCHITECTURE_V2 345-346
   want a stopped file to hold every snapshot accepted before its stop. `pop()`
   (`logger_time_merge.h` 57-61) discards a pending snapshot that is older than the
   start and chooses again at once, without the refill `poll()` does before each
   call (`sprotz_logger_target.h` 121-136). The next snapshot is then still in its
   queue, the stop is the earliest of what is pending, and the snapshot comes after
   the file is closed. `StopWaitsForAccepted`, which the run `recording` checks and a
   theorem states, is what remains: nothing is lost when no accepted snapshot is
   older than the start.

The other properties below are stated in the modules and are false of the code as
well; TLC shows it within seconds when one is made an invariant (or, for
`NeverOlder`, `TimeoutMeansSilence` and `ImplementsIngressQueue`, a property) of
the module's own specification with the bounds of the runs (two cards for the reader, `HeadStoreOrdered = FALSE` for the ring).

- `ImplementsIngressQueue` in `RxIngressRing` with `HeadStoreOrdered = FALSE`:
  `verification.md` 201-202 gives the ring release/acquire publication, but
  `head_` is a plain variable (`rx_ingress_ring.h` 49), so the consumer on the
  other core may see it before the slot.
- `NeverOlder` in `SnapshotMailbox`: ARCHITECTURE_V2 449 says a consumer skips
  states. A slot is marked Published before the index names it, so a reader with
  an old index may be given the newest and then the older snapshot.
- `EndedSessionShown` in `ProcessingPipeline`: ARCHITECTURE_V2 280-281 says that a
  disconnect and a change of session make the values visibly stale. `poll` drains
  the queue (`processing_service.h` 44-53) and then reads the status (55). If the
  last frame is stored and the session ends (`.ino` 526) between the two, the next
  poll applies the frame, which sets connected and perhaps valid
  (`measurement_model.h` 16-17), and as the status is the one already seen,
  nothing takes it back before the next session.
- `FreeBlocksAreQueued` in `AudioPipeline`: the queue of free blocks is pushed to
  by microphone and writer (`audio_block_pool.h` 20-27, 208-219), each loading
  `head_` and storing later. Two pushes at once lose a block for good.
- `TimeoutMeansSilence` in `ProtoTester`: `EcuInitTester.h` 18 calls the test robust
  against a wrap of `millis()`. `update` reads the clock before it takes the bytes
  and compares it with the time of the last byte afterwards (`EcuInitTester.cpp`
  603): if the clock ran on, the unsigned difference wraps and a session that has
  just received a byte is given up.
- `CaptureFitsBuffer` in `AudioProbe`: the probe's `README.md` 105-106 says at most
  120 blocks are copied. After a full capture a start whose microphone fails
  leaves the counters as they are; stopping and resuming then records one block
  past the end of the buffer.
- `AtrIsOfTheCard` in `UsbCcid`: `EspUsbHost.h` 2022-2023 says the ATR is cached until
  the card is removed. A removal handled after the answer came and before the
  caller stores it (`EspUsbHostCcid.cpp` 981-987) leaves the ATR of a card that is
  gone in the cache.
- `FreedOnlyWhenReturned` in `UsbMassStorage`: the comment at `EspUsbHost.cpp` 5946
  says a submitted control transfer cannot be freed before its callback.
  `mscMaxLun` frees it, and the semaphore its callback gives, when its time is up
  (4950-4956).

Smaller things met on the way, each visible in the actions of the module named:
the drop counter handed to `noteQueueDrops` is never reset, so one dropped
snapshot marks every later poll (`SprotzLoggerCore`); a second start command while
recording moves the merge's start time but not the core's (`LoggerTimeMerge`);
`logger_channels.h` 61-65 speaks of collisions between producers, but the consumer
takes the same lock (`SprotzRecording`); the flag `setKeyboardLeds` sets after
its report was already done keeps the keyboard deaf, and a failed report is not
repeated (`UsbHostLifecycle`, `KeyboardListensAgain` leaves the first case out);
one snapshot of the listeners serves all events of a MIDI transfer, so a listener
removed by the first is still called for the others (`UsbInput`).

## 5. The proofs

| Theorem | Module | For |
|---|---|---|
| `TypeCorrect`, `EpochsHaveNoHoles`, `RoomIsKept`, `BytesAreCounted` | `RxIngressRing_proofs` | every capacity of at least two slots, every batch and number of bytes |
| `RingImplementsQueue` | `RxIngressRing_proofs` | the same, and a build that keeps the two stores of `publishOne` in order |
| `TakenInOrder` | `MeasurementSession_proofs` | every room of the queue |
| `WhatPassesIsIntact`, `NoFaultOfItsOwn`, `BothTalkInTurn` | `MeasurementSession_proofs` | every unit whose blocks fit the frame buffer, every counter modulus and number of disturbances |
| `TypeCorrect`, `CompleteFramesAreValid` | `Kwp1281_proofs` | every set of input bytes and any sequence of calls |
| `AddressIsSent`, `AnswerIsOrdered` | `Kwp1281_proofs` | every profile of times and every bound of clock and stray bytes, however late the loop runs |
| `TokensHaveOnePlace`, `OwnCompletionCredited`, `WireIsInOrder` | `TransportSession_proofs` | every capacity of the event ring, number of control steps, connections and operations |
| `TypeCorrect`, `NeverDropped`, `SnapshotsInOnePiece`, `NothingStale`, `NothingTwice` | `SnapshotMailbox_proofs` | every number of publications and of slots from three on |
| `TypeCorrect`, `LossIsShown`, `BodiesUseTheirHeader`, `KnownHeadersDecode` | `Tablet_proofs` | every capacity, set of groups and number of frames, sessions and connections |
| `RecordingTypeCorrect`, `MergeKeepsFollowing`, `EventsStayBracketed` | `SprotzRecording_proofs` | every size of the queues, hold-back and delay, every sequence of commands, samples and failures |
| `StopsWait` | `SprotzRecording_proofs` | the same, and time stamps that do not wrap |
| `FramesAreAccounted` | `Tablet_proofs` | every set of blocks, room of the ready queue and number of commits |
| `SamplesKeepPeriod` | `Tablet_proofs` | every period and clock bound, however late the task runs |
| `BodiesAreOwn` | `Tablet_proofs` | every number of groups and disturbances, every timeout and modulus of counter and clock |
| `FileIsCapture` | `Tablet_proofs` | every size of the buffer and number of starts |
| `InFlightIsKept`, `LibraryStays` | `UsbHost_proofs` | every set of devices, slots, plugs and LED presses |
| `TransfersFreedOnce`, `TokensKept` | `UsbHost_proofs` | every depth of the pool, size of the retired table and set of writers |
| `CreditsAreTrue` | `UsbHost_proofs` | every number of units, paths and commands |
| `BlocksAreReceived`, `ReleaseWaitsForSender` | `UsbHost_proofs` | every device, chunk and block limit, every number of blocks and opens |
| `AnswersAndEvents` | `UsbHost_proofs` | every modulus of the sequence number, every set of callers and number of opens |
| `KeysAreFollowed`, `ReleasesFollowPresses` | `UsbHost_proofs` | every set of keys, modifiers, usages and buttons, number of key slots, listeners and reports |

Of the 40 properties the passing runs check, 32 are stated by a theorem, which
`PROJECT.json` names under "theorems"; the other 8 are all liveness and listed at
the end of this section. `BytesStayInOrder` and `SnapshotsStayIntact` put
the theorems of ring and mailbox together into the invariants the runs check. The
assumptions are those the modules name (`ASSUME`): sizes are numbers, a ring has
two slots, a mailbox three, there is at least one block or slot in a pool, a
source delivers within the hold-back, a hub is no keyboard, keys, usages and
buttons have different names and no key is one of the two codes that stand for
none and for too many, and a block of the
unit with its four bytes around the payload fits the 65 bytes of `frame_`
(`EcuAssumption`). One theorem has a hypothesis of its own: `StopsWait` takes
`StampModulus > MaxTime`, that is a recording that ends within the 71 minutes
after power-on until `micros()` wraps (`M5Tab5_Digifant_Analyzer.ino` 104, 326). The property
fails without it: the stamps of a snapshot have 32 bits, those of a command 64
(`display_ui.cpp` 527), although ARCHITECTURE_V2 610-611 asks for one time base.

### The K line

*Ring.* That an epoch has no hole is not inductive: after a refused byte the batch
goes on, and only the poison that was set before the loss keeps later batches out.
The invariant says, for each position of the producer and of the reset, which
epoch the producer holds, that the epoch of a poisoned ring ended at the last byte
published, and that the reset moves `tail_` only while no batch is under way. From
the quiescence checks on both sides follows that no batch writes while `tail_`
moves.

*Ring as a queue.* A step of `RxIngressRing` is a step of `IngressQueue` or none:
moving `head_` accepts a byte, the copy in `tryPop` takes one, poisoning and a
batch that began poisoned lose bytes, moving `tail_` in the reset restarts. The
mapping needs three facts more (`QueueInv`): a slot is filled before `head_` moves
past it, which is where the order of the two stores comes in; what the ring holds
belongs to the current epoch, so an epoch that fills the ring has begun; and the
ring stays empty until the reset is over. `RingArithmetic` says what moving an
index does to the stretch between them. `TakenInOrder` follows the bytes taken and
those waiting as one sequence.

*Byte engine.* `CompleteFramesParse` speaks of Idle with a frame. The invariant
`GoodEngine` says of every state what the frame received so far looks like: its
length byte is in range, the frame is not longer than it announces, and in Idle it
is either empty or complete with its terminator. A pending byte is processed
within `finishIfReady`, so the lemma `EngineStaysGood` follows the calls the way
the code nests them.

*Session.* Two invariants, one that holds whatever happens on the line and one for
a dialogue nobody disturbs. `SessionInv` says in `Shape` and `PlanShape` which
states engine, host block and plan can be in together: `run_measurement` takes a
completion before the bytes that follow, so the engine never meets an echo before
its completion. `WireRel` says that the byte under way answers the unit's
last byte or continues the host's block. Neither is enough for `BlocksIntact`: a
lost byte leaves the session waiting while the unit goes on, and what must be
ruled out is that the two then meet again in another place. `Balance` rules it out
by counting: the bytes still coming are never more than those the session needs
before it sends again, and when they are as many, the unit has heard all there
was. A lost byte makes the count fall short for good, so the session stalls and no
mixed block can complete. An altered byte makes one side fault or go silent. In an
undisturbed dialogue (`Calm`) the count is exact, no byte comes before it can be
taken, what waits in `rx` is the echo and then the unit's own byte (`Pure`), the
plan waits for what the unit may answer (`PlanFits`), and the number of blocks
sent but not yet published follows from the unit's phase. From this follows both
that no fault is raised and that the two sides talk in turn: `CalmArrival` and the
lemmas around it take the bytes of `rx` one by one through echo, acknowledgement
and the unit's next byte.

*Handshake.* `WaveInv` ties the level of the line, the number of the cell and the
actions issued to each state of the core, `AnswerInv` does so for key bytes and
answer, and `ActionInv` says of an action under way what it may find: the core may
have moved on to Fault since it was issued, which is what `key_ack_late` shows,
and into no other state; there is never more than one (`QueueInv`). `HistoryInv`
ties the recorded times of key byte and answer to the window the core holds.

### Transport and USB

*Transport.* `TokenInv` says that the operation in the slot and the retired ones
have numbers already given out, no two the same, and that an operation has one
terminal event at most, none while it is in the slot or retired. `OrderInv` adds
that no event on its way, in the ring or in a producer's hands, reports complete
what was not (`ReportsTruthful`); how the steps in which the callbacks publish a
new connection relate to what the runner has noticed (`ConnectionKnown`, the one
place that uses `noticed`); and that a connection with an unknown outcome is
blocked and no attempt under way is one on it (`UnknownIsBlocked`).

*Lifecycle.* `SlotInv` says that only an open device has a transfer, that what was
submitted, recovers or is to be submitted again has one, and that nothing is
submitted any more when transfers are released. `LibraryStays` needs the order in
which `begin` brings host and client task up (`BroughtUpInOrder`): `end` may come
between any two of its steps. *OUT pool.* `PoolInv` places each writer, gives each
slot its transfer, follows a transfer between being marked and being submitted,
and says what a one-shot write's context may be; `TokenInv` adds that a token on
its way is that of its slot and that a retired entry belongs to a transfer that is
still out. *Mass storage.* A status that passed is in the device's queue only for
a command it has served, whatever timed out or was reset in between. *Network.*
`NetInv` keeps the parts of a block together with the header they were announced
by (`AssemblyFollows`, `BlocksFit`); `SenderInv` says that the lock is held just
by the task that sends, and that a sender waits only while the interface is open
or its release waits for the senders. *Card reader.* One caller at a time is
between lock and answer (`LockInv`), and `bSeq` counts the commands since the
reader was opened, modulo its range (`SequenceInv`); an answer that is accepted
then has the caller's number and is its own, unless a multiple of the modulus or
an open lies between. Proving it corrected the property: with the former bounds
TLC had not reached the state in which `ccidOpen` resets the sequence number
(`EspUsbHostCcid.cpp` 388) while an old answer is under way, nor the one in which
an answer reveals a removal before the notification does.

*Input.* In the middle of a report neither property holds of what was told so far;
it holds of that together with the events still to be told (`Rest`). `InputInv`
says that the two make up what the last report holds down (`KeysAddUp`, for usages
and buttons `OthersCovered`), and that the lock is off by the parity of the presses
of caps lock in `Rest` (`LockAddsUp`). A sum over a sequence would be a recursion;
`Net` counts the places that tell of a press and those that tell of a release
instead, and the lemmas about it say what joining two lists and taking off the
first event make of these counts. Each kind of report is then shown to have events
whose net is the difference of the two reports, which needs that `InOrder` lists
each key once. For usages there is an inequality only: one that takes the place of
another is told without a release of the first.

### Data and recordings

*Mailbox.* That no snapshot is dropped rests on counting: at the moment `publish`
scans, at most one slot is being read and at most one is published. This is false
in the middle of `publish`, and while the scan runs the reader may take the
published slot and free it. The invariant says where each published slot can be in
each phase of `publish`, that a slot being read is the reader's, and that some
free slot lies ahead of the scan: a reader only frees slots, and never takes one
the scan has yet to find. That nothing is returned twice needs in addition that
slots which are published or being read hold different snapshots, none of them
delivered before, and that the number in a slot is at most one ahead of the count.

*Pipeline.* A frame is pending from its number on, so `Pending` is the queue with
the frame the runner has yet to store. Numbers in `Pending` grow and none of them
was dropped (`NumberInv`); what poll expects is one more than what it received
last, so it sees every loss as a gap. `Clear(n)` says that nothing was dropped
from number n to the last frame received: it holds of each header in the cache and
of the values of a valid snapshot, since a gap takes both away. That a body meets
its own header needs an account of the header it was sent with (`Accounted`): it
was dropped, or received, and then it is in the cache unless the cache was emptied
or a later header came, or it is pending before the body. With it, and no header
of the session later than it in the cache or pending in front (`CacheNotLater`,
`PendingNotLater`), a cached header that fits is the one. None of this depends on
when the status is read.

The converse does. `KnownHeadersDecode` says that a header that was not lost *is*
in the cache, and the cache is emptied by a gap and by a status. Its invariant
(`KInv`) says that every number given out was dropped, received or is pending
(`EveryNumber`), so a gap means a loss; that the runner stores the epoch before the
flag, and a new session knows no header before both (`FlagInv`); and that a poll
which has read the flag after a header of the running session came has read that
the session is active (`LoadedInv`), which is where the order of the loads
comes in. Then a header with nothing lost after it is pending in front
of its body or in the cache as long as the session goes on (`KnownInv`). No proof
about the pipeline uses `PollIsShort`: the theorems hold without that assumption
about time, and so did the run (2.3 million states of the pipeline).

*Recording.* `MergeFollowsCore` is inductive with the types: an item is handed to
the merge and to the core in one step of `poll`, and the lemmas `HandleKeeps`,
`AcceptKeeps` and `EmitKeeps` say what each makes of it. A core that records after
the step recorded before it or has just been given a start, which also turns the
merge on; a stop leaves no core recording, whether its records were written or
not. That the merge always finds an earliest item (`EarliestWaits`) rests on the
priorities, which differ between the sources. Who enters the command queue needs
one fact more, `LockOfLogger`: the logger holds the lock just while it receives.
`EventsBracketed` needs of the core that while it records it has not yet written
its stop (`Bracketed`); a failed write ends the recording before the next record.

That a stop waits (`StopsWait`) follows each accepted snapshot: while the core
records it is in the file, pending in the merge or in the queue (`NoneLost`). The
queue is in the order of its stamps and what is pending is not younger than it
(`InOrder`), so no stop is handed out before a pending snapshot that is not younger.
If none is pending, the refill found the queue empty, and what is in it now came
during this poll (`UpToDate`): with a delay shorter than the hold-back it is younger
than any stop the poll may hand out. A discard breaks this, since no refill follows
it; the property therefore speaks of recordings without one, and `StartIsPast` says
that a second start, which moves the start of the merge only, does not bring one
about. `stop_overtaken` shows what happens otherwise.

*Audio.* The blocks committed form a chain: those waiting in the ready queue are
Ready and distinct, each begins where the one before it ended plus the gap it
declares, and so does the block the sampler would begin next (`Chain`); a block
whose commit has not yet reached the queue counts as its last. *IMU.* The deadline
lies on the grid of periods and ahead of the last sample. *Probe.* The PCM buffer
holds the levels of the capture that were counted, a shown result is one of these,
and the file is a prefix of the buffer; while it is being written no capture runs
(`ProbeInv`). *Prototype.* `Tied` says what the tester, the line and the unit know
of each other: which of them is to talk, what the last request was, and that every
header it keeps is one the unit sent for that group.

### What stays with TLC

The eight liveness properties: `GroupsComeAgain`, `GoneSessionEnds`, `TriedAgain`,
`AttemptEnds`, `LatestArrives`, `StopEnds`, `ScreenFollows` and
`KeyboardListensAgain`. Liveness under fairness is out of the prover's reach. Every
safety property of the passing runs is stated by a theorem.

## 6. Not modelled

- Of the USB library: descriptor parsing and HID layouts (`EspUsbHostHidLayout.h`),
  key maps, audio streams, control requests of serial adapters, feature reports and
  hub port control, which are arithmetic on bytes or wrappers of one control
  transfer; ECM, whose frames are packets; T=1, PPS and parameters of cards, which
  go through the modelled commands; contents of sectors; the attachment to lwIP.
- In the pipeline: values and time stamps of fields, `ecuDataValid`, which is
  set and cleared with the validity, the copy for the logger, counters of other
  components in the snapshot; the decoder's Invalid outcome, which the parser
  the session has already asked rules out; `onDisconnect` and `onSessionLost`,
  which a test calls and the sketch does not. The numbered groups are those of
  the plan, one to four.
- In the recording: the bytes of records, the flush period, and the publication of
  the status, of which drops and the event state are not part of what makes it
  publish at once and may be up to 5 s old.
- In the other components: `resetRuntimeMetricsAfterQuiescence` and the core's
  `connected()`/`disconnected()`, which nothing in the repository calls;
  high-water marks, overwrite counters and traces, which only record; the drain of
  the rx ring before an attempt and the session epoch; the wrap of the 32-bit
  microsecond clock in the handshake.
- The drivers of IMU, SD card and microphone, drawing, formatting, decoding formulas
  and file layout; the debug recorder beyond the trace of tabs; the device filter;
  the prototype's dashboard, console and links; the touch probe and the USB check;
  tools, captures and documents.

## 7. Plan

1. *(done)* Ring, byte engine, session, transport, handshake, mailbox, frame queue,
   processing, decoder cache and measurement model, with the first theorems.
2. *(done)* Logger, IMU, audio, consumers, the prototype, the audio probe, and of
   the USB library its tasks, mass storage, network, OUT pools, card reader and
   input.
3. *(done)* Proofs of all safety the passing runs check: the session, the
   handshake, the transport, the pipeline, the recording, audio, IMU, the prototype,
   the probe and of the USB library its tasks, OUT pools, mass storage, network,
   card reader and input.
4. Abstract specifications: the ring as a lossy queue with epochs *(done)*; the
   mailbox as a register that a reader may see twice or late.
5. The clock: 32-bit microseconds against 64-bit deadlines, and arrival against
   deadline for false timeouts; recovery after the event ring's sticky overflow.
