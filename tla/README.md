# SandOS in TLA+

TLA+ specifications of SandOS, the two-core robot firmware in `src/`: what its
concurrent parts promise, TLC runs that check the promises on small instances,
and TLAPS proofs of all of them but the liveness properties. `PROJECT.json` maps every
definition to the lines it models and lists runs, mutants, findings, hazards
and theorems. `brain` and `wire`, with more than a million states each, take a
few minutes; the other runs less.

    tlc -config MCRealtimeTask.cfg MCRealtimeTask     # one run
    tlapm RealtimeTask_proofs.tla                     # the proofs

## 1. The system

| Component | Source | State it keeps | Operations |
|---|---|---|---|
| Motor bridge | `firmware/src/motors.rs` | `MOTOR_ENABLED`, `MOTOR_COMMAND` (atomics) | store, load, disable, is-enabled |
| Core 1 real-time task | `firmware/src/core1/mod.rs` | PID, sequence numbers, the duty of the tick | one loop, every 2 ms |
| PID | `firmware/src/core1/pid.rs` | integral, previous error | update, reset |
| ULP paramedic | `firmware/src/ulp/mod.rs` | flags in RTC memory | sample (not in the repository) |
| OS router | `firmware/src/router.rs` | its timeout | route an intent, dead-man's switch, fallback inference |
| Message bus | `firmware/src/message_bus.rs` | `INTENT_CHANNEL` (8), `ROUTING_MODE` | publish, receive, set/get mode |
| Core 0 wiring | `firmware/src/core0/mod.rs` | `CMD_CHANNEL` (8), `OTA_SWAP_SIGNAL` | spawn three tasks |
| Wasm VM task | `firmware/src/core0/wasm_vm.rs` | the VM | boot, run a command, hot swap |
| Host ABI | `firmware/src/core0/abi.rs` | LED, audio buffer, OTA status | the host functions of the guest |
| ESP-NOW receiver | `firmware/src/core0/espnow.rs` | `RADIO_LAST_RX_MS`, the OTA receiver | handle a frame, beacon, drain telemetry |
| OTA receiver | `firmware/src/core0/ota.rs` | state, staging buffer, sizes, swap count | begin, chunk, finalize, take, reset |
| Sensor bridge | `firmware/src/sensors.rs` | `IMU_DATA` (64 bit) | store, load |
| Telemetry queue | `firmware/src/telemetry.rs` | 32 packets | push, drain |
| Local inference | `firmware/src/inference.rs` | the last result | run, store, load |
| Display | `firmware/src/display/mod.rs` | brightness | draw (pure I/O) |
| Shared types | `abi/src/lib.rs` | none | encodings, crc32, constants |
| Guest | `wasm-apps/src/lib.rs` | animation, odometry | `run_command` |
| Test doubles | `host-tests/src` | a copy of the above | tests only |

### How they interact

    PC ~~ESP-NOW~~> espnow_rx_task --CMD_CHANNEL--> wasm_run_task --guest--> AbiHost
                        |   \--OTA--> OtaReceiver --OTA_SWAP_SIGNAL--> wasm_run_task
                        ^                                                |
                  TELEMETRY_TX                                    INTENT_CHANNEL
                        |                                                v
    Core 1 realtime_task <--MOTOR_COMMAND / MOTOR_ENABLED-- router_task (dead-man's switch)
         ^-- voltage flag -- ULP

* Core 0 is one cooperative Embassy executor with three tasks. A task runs until
  it awaits something that is not ready; guest code runs inside the wasm task
  and is never preempted.
* Core 1 has an executor of its own with one task and a 2 ms ticker.
* The cores share atomics only. All channels are bounded and written with
  `try_send`: a full one drops the newest item (an intent is refused with
  `ERR_BUSY`).

### What is hard about it

Atomic pairs used in two steps across cores (check then store, disable then
zero); a timeout raced by the message it waits for, on an executor that may be
busy; queues that drop; a lossy radio without acknowledgements or session
numbers; a signal that is polled and whose subject changes before the poll; a
guest that never returns. `PROJECT.json` "hazards" lists each at its line.

### What makes each component correct

* Motor path: after a low-voltage lock-out no wheel turns again; a command that lost
  the race is cleared; a turn ends with the command that asked for it.
* Brain: a robot nobody steers stops within a bounded time; motors follow the
  last accepted intent; no command or intent is slept over; a board in Distributed mode
  that stands still stays still.
* OTA: only a whole image the PC finalised is ever staged, and a complete transfer
  is staged whatever the order of its chunks.
* Hot swap: commands are neither lost nor reordered by it, it is not starved, and
  it comes at most one command late.
* Telemetry: a queued packet leaves within a bounded time, the presence beacon keeps
  going out, and a free radio loses nothing (it does).
* Sensor bridge and PID: a reading is torn only by a store in flight, and never so that
  the motors see it; the controller comes out of a long lean.
* Fallback: a silent robot stands, whatever the inference says; what moves it on its
  own is the latest pass, and only one that was sure enough (the docs withdraw that
  pass when the link is back; the code does not).
* Wire: a packet is decoded as it was encoded; a broadcast commands nobody; the PC
  can count what it lost of the packets of one producer; the guest never finds the queue
  full.
* Host ABI: no argument of the guest takes a slice out of its memory or an illegal
  speed to the motors; the host the tests use answers like the firmware's.

## 2. The modules

| Module | Role |
|---|---|
| `Motors` | The two atomics of `motors.rs`; one action per access, so the other core can act between the load and the store of `store_motor_command` and between the two stores of `set_motor_enabled(false)`. A packed `u32` is the record of its `u16` halves; `Pack` and `Unpack` do the two's-complement conversions. |
| `RealtimeTask` | `realtime_task` (one action per shared access; `pc` is the place in the loop) with Core 0's writer and the ULP flag. `pwm` is the duty `(left, right)` of the tick, which the code computes and leaves to a stub driver. |
| `SafeMotor` | The abstract drive: it may be driven until it is cut, the cut zeroes it, it never turns again. `RealtimeTask!SafeMotorSpec` is the refinement, with `cut` mapped to "disabled and duty zero". |
| `Brain` | Core 0: executor passes (`StartPass`, `Poll`), `espnow` (`HandleFrame`, `Transmit`; `radio` is where it awaits: a frame wakes it only in "receive"), `wasm` (`TakeCommand`, `SetMotorSpeed`, `GuestReturns`), `router` (`RouterReceives`, `DeadMansSwitch`, `RouterStores`), lock-outs, mode changes, and time. Extends `Motors`. |
| `OtaAbi` | What both update receivers share: states, checksum, staging buffer. |
| `OtaReceiver` | Every method of `OtaReceiver` as an action on its five fields. |
| `OtaTransfer` | A PC that sends the protocol in order and may abandon a transfer, the network as the set of messages sent (each may arrive any number of times, at any time, or never) with damaged copies, and the receiver. |
| `StagedImage` | The abstract update channel; `OtaTransfer!StagedImageSpec` is the refinement, `staged` being what `ready_binary()` returns. |
| `MockOta` | The OTA methods of the mock host, as functions of its session, and the status a guest reads of it. |
| `OtaLockstep` | `OtaTransfer` with the methods of `MockOta` called beside the receiver; `parted` remembers that the firmware failed where the mock only refuses. |
| `HotSwap` | `handle_frame`'s OTA branch, `OTA_SWAP_SIGNAL` and `wasm_run_task`'s loop; `wasm` is the place in the loop. Extends `OtaReceiver`. |
| `Telemetry` | Core 1's pushes (`Push`), the loop of `espnow_rx_task` (`Drain`, `DrainEnds`, `Frame`, `SendBeacon`, `BeaconSent`; `radio` is where it awaits), the guest that may hold Core 0 at any of its awaits, and time in telemetry periods. A packet is its age. |
| `Pid` | `update` and `reset` of the controller, as functions of its two registers. |
| `SensorBridge` | `IMU_DATA` between Core 1's `store_imu`, half by half, and the guest's `load_imu`; the tick's PID correction; the guest's balance duty. Extends `Pid`. |
| `Inference` | The stub engine, the packed `INFERENCE_RESULT` and the three bytes the guest reads. |
| `Fallback` | Radio silence, the snapshot channel, the router's fallback pass, and the guest that acts on its result. Extends `Inference` and `Cdr`. |
| `Cdr` | The little-endian encodings and the telemetry packets of the ABI crate. |
| `Wire` | A telemetry packet from its producer (Core 1, or the guest with flow control) through the queue and the air to the PC and to a peer board. A frame does not say who made its packet, so the PC has one series of numbers per kind. Extends `Cdr`. |
| `HostAbi`, `AbiHost`, `MockHost` | What every host of the guest shares; the firmware's host with its linker closures; the host of the tests with its harness, which extends `MockOta`. A host function maps the host's record to that after the call. |
| `Lockstep` | The same guest calls on both hosts, with the router behind the firmware's and, in the suite "ota", a test that updates the mock. |
| `MC*` | Constants for TLC. |
| `*_proofs` | Theorems (section 5). |

`RealtimeTask`, `Brain`, `HotSwap`, `Telemetry`, `Fallback`, `SensorBridge` and `Wire`
each compose two or more tasks around one piece of shared state. Core 0's executor is
`Brain`'s subject; the modules about its other data paths take from it that a task is
polled when it has something to do.

Operators whose comment starts "A plausible bug" are the mutated forms the
mutants of `PROJECT.json` put in the place of the definition that follows them.

Abstractions worth knowing:

* `Acquire` loads and `Release` stores are interleaved as if sequentially
  consistent. Each variable here is written and read on its own, and the only pair
  whose order matters (flag, then command) is written in release order by one
  core and read in acquire order by it.
* The PID output of a tick is any member of `PidOutput` in `RealtimeTask`, a subset of
  the range the controller clamps to; `Pid` computes it, in fixed point with the tick
  as unit of time. The rounding of `f32` is left out.
* `IMU_DATA` is an `AtomicU64` on a 32-bit core, which `portable-atomic` emulates under
  `unsafe-assume-single-core` (`firmware/Cargo.toml:45`) by masking the interrupts of
  its own core. Against the other core a store is two accesses, in either order.
* In `Brain` only guest code takes time. Everything else on Core 0 is short
  against a tick, and its radio and time driver are external. A transmission takes as
  long as it likes, or for ever: `TransmissionEnds` is the radio's step. Each frame sent or
  received takes one of the `MaxFrames` places a tick has on the air.
* `Telemetry` has transmissions that take no time: what it bounds is the wait for a turn of
  the loop, the beacon and the guest.
* `SET_MOTOR_SPEED` carries a payload that never reaches the guest: `run_command`
  receives the command id only. What a guest asks for is therefore the constant
  `Handler` and not a function of the frame. `Brain` has speeds within their range;
  the refusals of `host_set_motor_speed` are `AbiHost`'s.
* In `OtaTransfer` and `HotSwap` the checksum is any function that tells the byte
  strings of the instance apart (`TransferAssumption`, for the former). For real images CRC-32 can
  collide; `ReadyIsWhole` holds up to such a collision.
* `HotSwap` sends an image in one chunk: `OtaTransfer` covers chunking.
* In `OtaLockstep` a message too short to hold its fields has no call on the mock's
  side: the mock's methods take arguments, not bytes.
* `Fallback`'s handlers take no time: a tick passes when no task has work.
  Lock-outs and the routing mode stay with `Brain`.
* In `Wire` the guest's telemetry steps are those of `wasm-apps` against the host's
  methods as the linker of `host-tests` wires them: the firmware's linker registers
  none of the three functions they import. The PC is external.
* A guest call of `MaxCall` ticks at most excludes the rebuilding of the VM at a hot swap
  (`wasm_vm.rs:127-150`), which runs in the same task and is not in `DmsBound`.
* `Lockstep` explores one group of host functions per behaviour. Its integers are
  narrow (`Modulus`, `HalfModulus`), a cell of guest memory is a byte of text or
  audio or one `i32`, and in the suite "raw" any `i32` reaches the speeds of the
  firmware alone (a test build would panic in `abs()`).

## 3. The runs

| Run | Expect | Question |
|---|---|---|
| `realtime` | pass | Does every interleaving of the motor atomics keep a locked-out robot still, and end a turn with its command? |
| `brain` | pass | How long can a silent robot move; what do motors follow; what does Core 0 sleep over; does silence end in standstill, and does the command queue drain? |
| `hung_guest` | violation | Does the dead-man's switch survive a guest that hangs (`router.rs:14-18`)? |
| `emergency_stop` | violation | Does a handled `EMERGENCY_STOP` always reach the motors? |
| `ota_transfer` | pass | Can a bad network stage anything but a whole image, and does the tests' receiver do the same? |
| `hot_swap` | pass | What may a swap do to commands, when does it come, and for which image? |
| `telemetry` | pass | How old can a packet get in the queue, and does the beacon keep going out? |
| `sensors` | pass | When is a reading torn, what do the motors see of it, and does the PID recover from windup? |
| `fallback` | pass | When does the fallback run, and what does it make a silent robot do? |
| `stale_result` | violation | Is the inference result inactive while the link is alive (`abi.rs:366-368`)? |
| `wire` | pass | Does a packet arrive as it was sent, only where it should, and can its loss be counted? |
| `lockstep` | pass | Which arguments reach memory and motors, and where does the mock differ from the firmware? |

### What they show

* The lock-out is safe for the wheels although `set_motor_enabled` is not atomic: a
  store that lost the race leaves a command in the word, but `is_motor_enabled`
  guards every blend, so the duty stays zero (`CutAfterLockout`, `LockoutCuts`), and
  while the voltage is critical the next tick clears the word (`ResidueIsCleared`).
  If the voltage recovers in between, the word keeps the stale command, and the
  dead-man's switch cannot clear it because its own store is refused.
* A stop ends every turn: once the command word stays zero both wheels get the balance
  correction alone (`StopEndsSteering`). While a command is there the two add up, and
  nothing but `i16` clamps the sum (`BlendIsSum`): the duty reaches 510 where the docs say
  255. No property states the documented bound, which the code does not keep.
* The dead-man's switch is bounded by `DmsBound = Dms - 1 + 2 * CmdDepth * MaxCall`,
  not by `Dms` as `router.rs:15` ("immediately") suggests: the timeout may expire in the middle of one full queue of guest
  calls and be polled after a second one. The bound is tight (one less is
  violated). The rebuild of the VM at a hot swap comes on top of it. With a guest that hangs there is no bound (`hung_guest`); no watchdog
  is configured.
* Core 0 does sleep over received frames: `espnow_rx_task` looks at them only where it
  receives, not where it awaits the end of a transmission (`espnow.rs:123`, `:141`), and no
  timeout bounds that wait. It never sleeps over a command or an intent (`NoLostWakeup`).
* `EMERGENCY_STOP` has no priority: it is one more intent at the end of a queue
  that refuses it when full, and its status is ignored.
* After a swap the OTA receiver remains `Ready` (nobody takes the binary), which is
  what makes repeated FINALIZEs swap again, always for the image verified last
  (`SignalNamesVerified`); `swap_count` never moves, and
  `host_get_ota_status` reports none of it. The swap itself rebuilds the baked-in
  binary, a placeholder by the comment at `wasm_vm.rs:133`: no update is installed.
  The announced image may be gone at the poll (an `OTA_BEGIN` in between clears the
  buffer), which therefore has no effect yet; no run shows it.
* The mock's OTA receiver stages every binary the firmware stages. It also stages some
  the firmware does not: a bad `OTA_BEGIN` or an oversized chunk fails the firmware's
  session and leaves the mock's as it was (`MockOtaAgrees`).
* `LatencyBound` of the telemetry queue is tight for the instance (9 periods; 8 is
  violated); with the firmware's constants its first term alone, 4 turns of a 1000 ms
  beacon interval, is 4 s, not the 320 ms of `telemetry.rs:12`. What is sent is the
  oldest of a full queue. An early form of `BeaconsGoOut` without its premise was
  violated: with a frame in every period *and* a guest that uses every await, a frame
  is ready at every turn and the beacon is starved.
* A reading can be torn, against `sensors.rs:11-14`, but only by a load that overlaps a
  store (`TornOnlyByOverlap`); the motors never see it, because the balance duty uses
  the pitch alone (`DutyIsCurrent`). A duty from pitch and roll would not be safe.
* After a lean of any length the integrator no longer opposes the correction once the
  errors to the other side add up to the windup limit (`RecoversFromWindup`). The clamp of the accumulator
  is what does it; the clamp of the output does not.
* The fallback cannot move a robot (`SilentRobotStands`): its result is published while
  the radio is silent, but the guest reads it only when a frame asks, which is the
  end of the silence, and the switch stops the motors `Dms` later. A robot that is to
  act on its own while the radio is silent needs another source of commands. What the
  query does get is the result of a silence that is over, which the docs call inactive by
  then (`stale_result`); it is never withdrawn, so `FallbackActivates` speaks of the first
  activation only.
* A telemetry frame carries the id of the command that makes a guest send telemetry. What
  keeps a peer from obeying it is a length in its header that is one too large
  (`espnow.rs:239`): correcting the length makes boards command one another
  (`PeersIgnoreTelemetry` and its mutant). The PC decodes the frame all the same
  (`RoundTrip`).
* The PC can count its losses of a kind as long as one producer alone sends it
  (`GapsAreLosses`). The guest numbers its packets from 0 beside Core 1's and sends them
  under the same two ids, and no frame says whose it is: from its first packet on the
  numbers the PC gets jump to and fro, and it can form neither series.
* Flow control works because the four slots above the high-water mark hold what Core 1
  pushes while a guest builds a packet (`WireAssumption`); a guest that took longer
  than two telemetry periods between check and push could be refused.
* The check of a `(ptr, len)` pair in `u32` keeps the `i32` sum of the slices from
  wrapping (`NoOutOfBounds`). `i32::MIN` does pass the range check of a speed in a
  release build, and is then truncated to 0: no illegal speed results
  (`IntentsInRange`).
* The mock differs from the firmware in the answers `MockMirrorsFirmware` lists, has no
  queue before its motors and no bound on its snapshots. It reports its update session to
  the guest, where the firmware's host knows of none: from the mock's first session on
  `MockMirrorsFirmware` compares no guest memory in the suite "ota". Its dead-man's switch
  is late, never early (`MockStopIsReal`). `MotorsAgree` speaks of the times when nothing
  has parted the motors since they last met: no refused intent, no lock-out, no expired
  timeout, no change of mode over a backlog.

### Bounds

* `realtime` (4,176 states): no bound beyond the sets: three commands (an extreme, a turn that
  makes the halves differ in sign, small values) and the PID extremes and zero.
  They reach every sign of every half and both ends of the sum.
* `brain` (1,094,010 states): queues of 2 instead of 8, a timeout of 2 ticks, guest calls of at most one
  tick, at most 2 frames on the air per tick, one of them in the radio driver's buffer, one change of mode. A queue of 2 overflows,
  holds an order to be confused, and makes the two-queues-deep delay of the switch
  visible; `armed` and `silence` stop at `Horizon`, one past the bound, so a longer
  silence would show. Commands with and without drive intents share one id: the
  handler decides. `hung_guest` gives the hanging command an id of its own.
* `ota_transfer` (152,299 states): bytes 0 to 2, images of 2 and 3 bytes in chunks of 2 (a full and a
  partial last chunk, a shared prefix, a zero where another image has none), two
  transfers, one damaged message, `MaxBytes` 4, enough for a complete transfer
  and a repeated chunk. A second transfer is what makes stale messages exist. The run's
  specification is `LockstepSpec`, which is `Spec` with the mock beside it
  (`LockstepIsTransfer`).
* `hot_swap` (4,900 states): a command queue of 2, two images of different size, command numbers
  that wrap (so commands never run out) and `late` capped at 2, above the 1 the
  property allows.
* `telemetry` (38,442 states): a queue of 4 and a quota of 2 instead of 32 and 8 (more than one turn
  empties the queue), a beacon interval of 2 periods, in which Core 1 fills it, a guest
  that holds the core for at most 1 period at a time, and at most 1 frame per period.
  `TelemetryAssumption` keeps the holds of one turn within the beacon interval.
* `sensors` (123,650 states): four readings, the stub's three and one that leans the other way, so
  that the integrator is wound up to both sides; unequal gains with a windup limit of
  3, reached in several ticks; at most 3 readings during one load, one more than a
  torn pair needs.
* `fallback` (5,229 states): a switch of 2 ticks and a silence of 4, so that the switch fires in and
  out of silence; queues of 2, which overflow; five snapshots (too quiet to act on, a tie, a
  negative one longer than the tensor, a loud one, an empty one).
* `wire` (2,371,464 states): bytes of two bits, so that every field has several of them and the
  reading and the speeds both signs at the ends of their range; a queue of two slots, one above the mark, against one push of Core 1
  (32, 4 and 4 in the firmware); sequence numbers that wrap at 3.
* `lockstep` (57,186 states): all 16 values of an `i32` for every pointer, length and
  argument, and 5 memory cells; an intent channel of 2 and a snapshot channel of 1, both
  of which fill; 3 bytes of audio, one more than a read takes; updates of at most 2 bytes
  in chunks of 1 or 2, one swap.
* `stale_result` uses the constants of `fallback`, `emergency_stop` and `hung_guest` smaller ones
  than `brain`'s.

### Fairness

* `RealtimeTask`: weak fairness of Core 1's loop (an executor of its own, a periodic
  ticker) and of the second access of a store in flight (straight-line code). None
  for new commands or for the ULP.
* `Brain`: weak fairness of the executor (it never sleeps while something is
  woken), of time, and of the second store of a lock-out. None for frames, the end of a
  transmission, lock-outs, or mode changes: a radio that never reports a frame sent keeps
  frames waiting, and the queued commands drain all the same. A hanging command keeps time going and the executor
  out of work, so fairness gives it no way out.
* `HotSwap`: weak fairness of `wasm_run_task`'s steps (guests return there). None for
  the radio: `SwapHappens` assumes that commands keep arriving in its antecedent.
* `Telemetry`: weak fairness of Core 1's pushes, of the radio task (a woken task is
  polled), of the guest's return and of time. None for frames.
* `Fallback`: weak fairness of Core 0's tasks and of time. None for frames or audio:
  `FallbackActivates` starts from a snapshot that waits.
* `OtaTransfer`, `OtaLockstep`, `SensorBridge`, `Wire` and `Lockstep` state safety only:
  nothing obliges a PC to repeat a message, a guest to ask or a radio to deliver.

## 4. Findings

`PROJECT.json` "findings" quotes each line the three violation runs contradict.

Seen while reading or modelling, and left without a run:

* Motors: `motors.rs:71` says disabling clears the pending command at once; a store that
  lost the race leaves it (section 3). The duty reaches 510: the guest can exceed the PWM
  clamps (`core1/mod.rs:27-28`), and the odometry its range (`abi/src/lib.rs:524-527`).
* Updates: the swap signal is polled and wakes nobody, so a swap waits for the next command
  (`espnow.rs:26-28` against `wasm_vm.rs:114,155`). Every repeat of FINALIZE fires it again,
  not only one that succeeded (`espnow.rs:191`), because nobody takes the binary. The fields
  behind `host_get_ota_status` are never written: the guest reads `Idle`, 0, where
  `phase8_tests.rs:500-593` assert the mock's session (`mock_host.rs:588` says it mirrors the
  firmware).
* Telemetry: 8 packets leave per turn of a loop that an idle radio turns once a second,
  against 200 pushed (`espnow.rs:72-74` calls that ample). A full queue drops the newest packet, not the oldest
  (`telemetry.rs:10`), and holds 160 ms, not 320 (`abi/src/lib.rs:645`). `sequence` does not rise monotonically
  (`abi/src/lib.rs:434,518`) once two producers send under one id. The firmware's
  linker registers neither the two emit functions nor the queue length the guest imports, and
  the shipped `guest.wasm` is empty.
* Fallback: the link counts as alive for 3 s after boot (`espnow.rs:49` says silent), and a
  neighbour's beacon keeps it alive; the snapshot channel keeps the oldest (`abi.rs:393-395`), and no code
  fills it.
* Sensors: the pair of an IMU reading can be torn (`sensors.rs:11-14`, `abi.rs:227-228`); the stub
  never leans back, against its comment; the controller differentiates the error, not the
  measurement as `pid.rs` says.
* Tests: the mock answers a log text that is not UTF-8 with an error where the firmware
  answers OK, and takes an intent the firmware's full channel refuses; it keeps a session
  a bad message fails in the firmware (`phase8_tests.rs:90-102` asserts that), and its
  untouched display differs from the firmware's.

## 5. The proofs

Every invariant of a passing run is proved, for all values of the constants within the
named assumptions of the modules the proof extends. There are eight modules of proofs;
two serve several components: `EspNow_proofs` proves `HotSwap` and `Telemetry`,
`Cdr_proofs` proves `Wire` and `Fallback`, which share the encodings.

| Assumption | Says |
|---|---|
| `SpeedAssumption` | commands within `MaxSpeed`, PID output within `PidMax`, and their sum within `i16` (255 + 255 in the code) |
| `BrainAssumption` | speeds are `i16` pairs; depths, timeout and call time are positive |
| `OtaAssumption`, `TransferAssumption` | images are non-empty and fit the buffer; chunks are non-empty; the checksum tells byte strings apart |
| `HotSwapAssumption` | images are byte strings; the queue holds at least one command |
| `GainAssumption`, `SensorAssumption` | gains are not negative and the integral's is not zero; readings are pairs of integers and include the stub's |
| `TensorAssumption`, `ByteAssumption` | the tensor is not empty; a byte has at least two values |
| `FallbackAssumption` | `Dms < Threshold` (50 ms and 3 s in the code); an `i32` of four model bytes holds a percentage |
| `WireAssumption` | readings, speeds, times and sequence numbers are integers of their field's width; what Core 1 pushes while a guest builds a packet fits above the high-water mark |
| `TelemetryAssumption` | depths and periods are positive; the holds of one turn of the radio task add up to no more than a beacon interval |
| `AbiAssumption` | an `i16` is narrower than an `i32` or as wide, and holds twice the top speed; the sizes the ABI names are positive `i32`s |
| `LockstepAssumption` | the guest's memory has an `i32` for each of its addresses; depths and the timeout are positive; readings are `i32` pairs; both hosts are given no `i32::MIN` for a speed (the suite "raw" gives it to the firmware alone) |

Sets of commands, images, readings and snapshots are otherwise arbitrary.
`SwitchIsPrompt` has one more assumption, stated in the theorem: no guest hangs
(`Hanging = {}`). `hung_guest` shows that it cannot be dropped.

| Module | Theorem | Statement |
|---|---|---|
| `RealtimeTask_proofs` | `UnpackPack` | `Unpack` inverts `Pack` for `i16` pairs |
| | `TypeCorrect`, `LockoutSafety`, `BlendIsSum` | `[]TypeOK`, `[]CutAfterLockout`, no clamp touches a sum |
| | `QuietStays`, `ImplementsSafeMotor` | `QuietIsForever`, `SafeMotorSpec` |
| `Brain_proofs` | `NoWakeupIsLost`, `MotorsFollow` | `[]NoLostWakeup`, `[]MotorsFollowLastAccepted` |
| | `ParkedStaysParked`, `SwitchIsPrompt` | `DistributedStaysParked`; `[]DmsLatency` if no guest hangs |
| `OtaTransfer_proofs` | `TypeCorrect`, `StagedIsWhole`, `NothingLeaks` | `[]TypeOK`, `[]ReadyIsWhole`, `[]NoLeftovers` |
| | `CompleteIsStaged` | `[]CompleteTransferIsStaged` |
| | `ImplementsStagedImage` | `StagedImageSpec` |
| | `LockstepIsTransfer`, `MockFollowsFirmware` | `LockstepSpec => Spec`; `LockstepSpec => []MockOtaAgrees` |
| `EspNow_proofs` | `OneLateCommand`, `GuestSeesOrder`, `SwapIsVerified` | `[]AtMostOneLate`, `[]CommandsInOrder`, `[]SignalNamesVerified` |
| | `TelemetryIsFresh` | `[]LatencyIsBounded` |
| `SensorBridge_proofs` | `TornOnlyThen`, `DutyFollowsReading` | `[]TornOnlyByOverlap`, `DutyIsCurrent` |
| | `WindupIsUndone`, `TypeCorrect` | `[]RecoversFromWindup`, `[]TypeOK` |
| `Inference_proofs` | `UnpackPack` | `unpack` inverts `pack` for every result an inference can have |
| `Cdr_proofs` | `SilenceIsStandstill`, `LatestPassDrives` | `[]SilentRobotStands`, `[]AutonomyFollowsLatestPass` |
| | `PacketsSurvive`, `TelemetryIsNoCommand` | `[]RoundTrip`, `[]PeersIgnoreTelemetry` |
| | `FlowControlWorks`, `LossesAreCounted` | `[]GuestIsNeverRefused`, `GapsAreLosses` |
| `Lockstep_proofs` | `MemorySafe`, `GuestSpeedsAreLegal` | `[]NoOutOfBounds`, `[]IntentsInRange` |
| | `MockIsFaithful` | `[]MockMirrorsFirmware` |
| | `MotorsAreFaithful`, `MockSwitchIsReal` | `[]MotorsAgree`, `[]MockStopIsReal` |

The inductive invariants, and why the properties need them:

* `RealtimeTask`: `IInv`. `CutAfterLockout` is not inductive: from a state about to sleep it
  says nothing about how the duty got there. `IInv` adds what Core 1 knows at each
  place of its loop: the flag cannot be down at "load", because only Core 1 lowers it and it
  checked since; it is down at "cut". And it adds that `MOTOR_COMMAND` is always the packing
  of a command or of `Stop`, which with `UnpackPack` bounds what `Load` blends; by
  `SpeedAssumption` the blend is a plain sum. The refinement maps `Sense` to a stutter, `Load` to `Drive`, and `Cut`, or the
  `Disable` of a drive that already stands still, to `Cut`.
* `Brain`: `WakeInv` says that a task with work is awake: running, in the pass, or woken. The
  radio task is awake unless it waits for the end of a transmission, or for a frame with none
  received.
  `FollowInv` follows the last accepted intent: it is the last in the channel, or is being
  stored, or is the motor command, unless the switch fired. `DmsLatency` counts what a
  single state does not show: `ClockInv` bounds the timer plus the guest calls still ahead
  of the router in this pass (`Rest`) by the latest end of a pass (`Limit`, one full queue later
  when the router takes part in it), and `LatencyInv` adds that the timer counts the silence
  of a moving robot. `DistributedStaysParked` is a step property and needs none.
* `OtaTransfer`: `OtaInv` = receiver and network typed, `ReadyIsWhole`, `NoLeftovers`. The
  checksum of `FINALIZE` comes from an image (`NetTyped`), which with the injective
  checksum makes the buffer that image. The refinement (`NextRefines`) maps a finalised
  delivery to the staging of an image already offered and every other step to an offer, a
  clearing or a stutter. `MockInv` says that the mock's five fields equal the firmware's unless
  the two have parted, and that the firmware is then failed or idle. `CompleteTransferIsStaged`
  speaks of the moment a session is complete only. `ProgressInv` says what a session that
  has received parts of one image and nothing else is: still filling a buffer in which
  every chunk that arrived stands as the image has it, or failed by a FINALIZE that came
  before some chunk, or accepted. The chunks of `Protocol` cover the image (`ChunksCover`), so
  the buffer a complete session checks is the image, whatever the order of arrival.
* `HotSwap`: `LateInv` (a late command has been followed by no further wait), `OrderInv` (the
  queue is the numbers between the two counters, without the modulus), `SwapInv` (the signal and a
  ready receiver hold the size verified last).
* `SensorBridge`: `BridgeInv` adds what a half of the word holds during a store
  (`WordFollowsStore`) and what a load in progress can have met (`LoadSeesCurrent`);
  `ControlInv` adds that the accumulator has taken over the errors of one sign except for what
  the limit cut off (`PushIntegrated`).
* `Telemetry`: `LatencyInv`. An age alone says nothing of the wait still ahead, so each queued
  packet carries what `WaitFor` allows it at its place: the rest of the guest's hold, the holds
  of the packets drained before it in this turn, the rest of the beacon deadline, and one
  full turn (`FreshWait`) for every quota of packets in front of it. Every step of
  time takes one period from that wait and gives it to the age.
* `Fallback`: `SilenceInv`. A queued command came with a frame of this very tick, and a robot that
  moves was heard of no earlier than its timeout was armed; the timeout is shorter than the silence.
  `AutonomyInv` says that the atomic is the packing of the latest pass and that motors and
  queued intents are `Stop` or what a sure enough pass commands, which `ResultRoundTrip` carries
  through the packing, the twelve bytes and the guest's parser.
* `Wire`: `WireInv` = `WireTyped`, `AirInv` (the bytes on the air are those of the packet beside
  them), `FlowInv` (a guest between check and push sees at most what Core 1 pushed above the mark)
  and `PeersIgnoreTelemetry`. A packet is decoded as it was encoded by round trips for each width,
  each a step of long division by `ByteBase`. `TelemetryIsRejected` follows a packet
  through the serializer to the length of its frame. `LossInv` maps every place of the queue to the
  number of the last watched packet up to there: each watched packet continues the one before
  it, modulo `SeqBound`, after the drops it counts (`Chained`), and the PC's counter continues the chain
  at its head, until the guest joins in (`mixed`).
* `Lockstep`: `Typed` keeps the firmware's record in the shape the host functions leave it in and
  its queues within legal speeds; `MirrorInv` says that the parts the two hosts share are
  equal, the update status up to the mock's first session; `MotorsInv` says where the two motors stand against each other: equal
  once the intents in the channel are applied, unless a full channel parted them, and while the
  robot moves the mock's clock is never ahead of the router's.

Left to TLC are the liveness properties (`StopEndsSteering`, `LockoutCuts`, `ResidueIsCleared`,
`SilenceStopsMotors`, `CommandsReachGuest`, `SwapHappens`, `BeaconsGoOut`,
`FallbackActivates`): they rest on fairness, and the provers reason about neither `ENABLED`
nor the well-founded descent the arguments need. The properties of the violation runs
are false, `SilenceStopsMotors` where a guest hangs.

## 6. Plan

What would come next, in order:

* `Telemetry` as a lossy FIFO and the message bus with the router as a latest-value
  register: two abstract specifications, with `Telemetry` and `Brain` refining them.
* `crc32` against polynomial division, over strings of a few narrow bytes.
* The dispatch of `run_command` with the guest's eye animation, and the rest of the
  mock (telemetry, logs).
* The rebuild of the VM as a step of `Brain` that takes time, and with it a bound of the
  switch through a hot swap.
* The swap that installs the staged image, once the code does: then `ready_binary()` at the
  poll, and the fallback of a binary that does not build, become properties.

## 7. Not modelled

Boot (`main.rs`) is wiring; its effect is the initial state of the other modules. The
display's SPI traffic and drawing are stubs in the code; what `AbiHost` sets through the
driver is modelled. The wasmi interpreter, the Embassy executor and channels, and
`esp-wifi` are external and appear only as the firmware uses them. The ULP program
is not in the repository. `crc32` is any checksum; the guest's eye animation and audio
echo touch no state another part reads. Of the test doubles, the mock's telemetry and the logs
that only tests read are left out. Real images have bytes the model's do not, and real
integers more values: the proofs do not depend on either, the runs of `Lockstep` and `Wire` do.
