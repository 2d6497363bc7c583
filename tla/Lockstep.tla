------------------------------ MODULE Lockstep ------------------------------
(***************************************************************************)
(* The firmware's host and the mock host of the tests, given the same      *)
(* calls by the same guest.  mock_host.rs promises that MockHost lets the  *)
(* tests "exercise the same logic paths that will run on the chip"; the    *)
(* properties say how far that holds.                                      *)
(*                                                                         *)
(* A behaviour exercises one group of host functions, its suite, so that   *)
(* the groups' states are not multiplied.  In "raw" any i32 reaches the    *)
(* speeds, and the firmware runs alone: a test build checks for overflow   *)
(* and would panic in abs().  In "ota" the test updates the mock; the      *)
(* firmware's updates reach its OtaReceiver and never its AbiHost.         *)
(*                                                                         *)
(* On the firmware's side the router moves intents to the motors; the test *)
(* reads the mock's motors, and calls check_dead_mans_switch, when it      *)
(* likes.  Handlers take no time: a tick passes when the router is done.   *)
(***************************************************************************)
EXTENDS HostAbi, OtaAbi

CONSTANTS
  INTENT_QUEUE_DEPTH, AUDIO_INFERENCE_QUEUE_DEPTH,
  DEAD_MANS_SWITCH_MS, \* in ticks
  NoExpression,       \* Option::None of MockDisplay
  AudioRoom,          \* bound: bytes in audio_buf
  GuestMemory,        \* what the guest's memory holds at first
  AudioBytes,         \* what the microphone hears
  ImuReadings,        \* (pitch, roll) pairs
  MotorArgs,          \* (left, right) pairs in the suite "motors"
  MaxMockSnapshots,   \* bound: snapshots that wait in the mock
  MaxOtaBytes,        \* bound: bytes received above which no chunk is handed over
  MaxOtaSwaps         \* bound: hot-swaps of the mock

Firmware == INSTANCE AbiHost
Mock == INSTANCE MockHost

\* Guest memory is smaller than 2 GiB: End would wrap otherwise.  Of i32::MIN
\* the mock's abs() panics, so the tests never pass it.
ASSUME LockstepAssumption ==
  /\ GuestMemory \in Seq(Int) /\ Len(GuestMemory) < Modulus \div 2
  /\ {INTENT_QUEUE_DEPTH, AUDIO_INFERENCE_QUEUE_DEPTH, DEAD_MANS_SWITCH_MS, AudioRoom}
       \subseteq Nat \ {0}
  /\ NoExpression \notin EyeExpression
  /\ AudioBytes \subseteq 0 .. 255
  /\ ImuReadings \subseteq I32 \X I32
  /\ MotorArgs \subseteq (I32 \ {-(Modulus \div 2)}) \X (I32 \ {-(Modulus \div 2)})
  /\ {MaxMockSnapshots, MaxOtaBytes, MaxOtaSwaps} \subseteq Nat

VARIABLES
  suite,     \* the host functions this behaviour calls
  fw, mock,  \* the two hosts
  motor,     \* MOTOR_COMMAND
  armed,     \* ticks since the router armed its timeout
  parted     \* history: something the mock has no counterpart for happened
             \* and the two sides have not met since

vars == <<suite, fw, mock, motor, armed, parted>>

Suite == {"io", "audio", "inference", "sensors", "motors", "ota", "raw"}
Stop == <<0, 0>>

Init ==
  /\ suite \in Suite
  /\ \E memory \in {GuestMemory, NoMemory} :
       fw = Firmware!New(memory) /\ mock = Mock!New(memory)
  /\ motor = Stop /\ armed = 0 /\ parted = FALSE

\* One call of the guest, answered by both hosts
Call(s, f, m) ==
  /\ suite = s
  /\ fw' = f /\ mock' = m
  /\ UNCHANGED <<suite, motor, armed, parted>>

-----------------------------------------------------------------------------
(* Guest calls *)

ToggleLed == Call("io", Firmware!host_toggle_led(fw), Mock!host_toggle_led(mock))

DrawEye(e) == Call("io", Firmware!host_draw_eye(fw, e), Mock!host_draw_eye(mock, e))

SetBrightness(v) ==
  Call("io", Firmware!host_set_brightness(fw, v), Mock!host_set_brightness(mock, v))

DebugLog(p, n) ==
  Call("io", Firmware!host_debug_log(fw, p, n), Mock!host_debug_log(mock, p, n))

WriteText(p, n) ==
  Call("io", Firmware!host_write_text(fw, p, n), Mock!host_write_text(mock, p, n))

StartAudio ==
  Call("audio", Firmware!host_start_audio_capture(fw), Mock!host_start_audio_capture(mock))

StopAudio ==
  Call("audio", Firmware!host_stop_audio_capture(fw), Mock!host_stop_audio_capture(mock))

GetAudioAvail ==
  Call("audio", Firmware!host_get_audio_avail(fw), Mock!host_get_audio_avail(mock))

ReadAudio(p, n) ==
  Call("audio", Firmware!host_read_audio(fw, p, n), Mock!host_read_audio(mock, p, n))

GetLocalInference(p) ==
  Call("inference", Firmware!host_get_local_inference(fw, p),
                    Mock!host_get_local_inference(mock, p))

GetPitchRoll(p, q) ==
  Call("sensors", Firmware!host_get_pitch_roll(fw, p, q),
                  Mock!host_get_pitch_roll(mock, p, q))

GetOtaStatus(p) ==
  Call("ota", Firmware!host_get_ota_status(fw, p), Mock!host_get_ota_status(mock, p))

\* Both hosts follow the same command again once both have taken one: it is
\* the last in the channel.  A full channel refuses what the mock takes.
SetMotorSpeed(left, right) ==
  LET f == Firmware!host_set_motor_speed(fw, left, right)
      m == Mock!host_set_motor_speed(mock, left, right)
  IN /\ suite = "motors"
     /\ fw' = f /\ mock' = m
     /\ parted' = CASE f.ret # m.ret -> TRUE
                    [] f.ret = m.ret /\ f.ret = OK /\ mock.mode = "SingleBoard" -> FALSE
                    [] OTHER -> parted
     /\ UNCHANGED <<suite, motor, armed>>

\* Any i32, the firmware alone, one intent at a time
SetMotorSpeedRaw(left, right) ==
  /\ suite = "raw" /\ fw.intents = <<>>
  /\ fw' = Firmware!host_set_motor_speed(fw, left, right)
  /\ UNCHANGED <<suite, mock, motor, armed, parted>>

-----------------------------------------------------------------------------
(* The world around the hosts *)

\* The microphone, or feed_audio.  Nothing in the firmware fills audio_buf yet.
Hear(b) ==
  /\ suite \in {"audio", "inference"} /\ Len(mock.audio_buf) < AudioRoom
  /\ fw' = [fw EXCEPT !.audio_buf = Append(@, b)]
  /\ mock' = [mock EXCEPT !.audio_buf = Append(@, b)]
  /\ UNCHANGED <<suite, motor, armed, parted>>

\* The test hands the mock the samples the firmware would take.
PushSnapshot ==
  /\ suite = "inference"
  /\ mock.audio_buf # <<>> /\ Len(mock.snapshots) < MaxMockSnapshots
  /\ fw' = Firmware!push_audio_for_inference(fw)
  /\ mock' = Mock!push_audio_for_inference(mock,
               [i \in DOMAIN mock.audio_buf |-> AsI8(mock.audio_buf[i])])
  /\ parted' = (parted \/ Len(fw.snapshots) >= AUDIO_INFERENCE_QUEUE_DEPTH)
  /\ UNCHANGED <<suite, motor, armed>>

RunFallback ==
  /\ suite = "inference" /\ mock.snapshots # <<>>
  /\ fw' = Firmware!run_fallback_inference(fw)
  /\ mock' = Mock!run_fallback_inference(mock)
  /\ UNCHANGED <<suite, motor, armed, parted>>

SampleImu(r) ==
  /\ suite = "sensors"
  /\ fw' = [fw EXCEPT !.imu = r] /\ mock' = [mock EXCEPT !.imu = r]
  /\ UNCHANGED <<suite, motor, armed, parted>>

\* One call of the test to an OTA method of the mock, which ends with session s
OtaCall(s) ==
  /\ suite = "ota"
  /\ mock' = [mock EXCEPT !.ota = s]
  /\ parted' = (parted \/ s # mock.ota)
  /\ UNCHANGED <<suite, fw, motor, armed>>

OtaBegin(total) == OtaCall(Mock!ota_begin(mock.ota, total))

OtaReceiveChunk(offset, data) ==
  /\ mock.ota.ota_bytes_received < MaxOtaBytes
  /\ OtaCall(Mock!ota_receive_chunk(mock.ota, offset, data))

OtaFinalize(crc) == OtaCall(Mock!ota_finalize(mock.ota, crc))

HotSwapWasm ==
  /\ mock.ota.hot_swap_count < MaxOtaSwaps
  /\ OtaCall(Mock!hot_swap_wasm(mock.ota))

\* set_motor_enabled(false); the test clears motors_enabled.
LockOut ==
  /\ suite = "motors" /\ fw.enabled
  /\ fw' = [fw EXCEPT !.enabled = FALSE] /\ mock' = [mock EXCEPT !.enabled = FALSE]
  /\ motor' = Stop
  /\ parted' = TRUE
  /\ UNCHANGED <<suite, armed>>

\* set_routing_mode; the test sets routing_mode.  Queued intents go where the
\* new mode says.
SetRoutingMode ==
  /\ suite = "motors"
  /\ \E m \in {"SingleBoard", "Distributed"} \ {fw.mode} :
       fw' = [fw EXCEPT !.mode = m] /\ mock' = [mock EXCEPT !.mode = m]
  /\ parted' = (parted \/ fw.intents # <<>>)
  /\ UNCHANGED <<suite, motor, armed>>

\* A plausible bug: the channel is cleared with the intent that was taken.
Backlog_Cleared == <<>>

\* receive() leaves the later intents in the channel.
Backlog == Tail(fw.intents)

\* Router: route_intent, with store_motor_command's look at the flag
RouteIntent ==
  /\ fw.intents # <<>>
  /\ motor' = IF fw.mode = "SingleBoard" /\ fw.enabled THEN Head(fw.intents) ELSE motor
  /\ fw' = [fw EXCEPT !.intents = Backlog]
  /\ armed' = 0
  /\ UNCHANGED <<suite, mock, parted>>

\* Router: the dead-man's switch
Timeout ==
  /\ suite = "motors" /\ fw.intents = <<>> /\ armed >= DEAD_MANS_SWITCH_MS
  /\ motor' = Stop
  /\ armed' = 0
  /\ parted' = (parted \/ mock.motor # Stop)
  /\ UNCHANGED <<suite, fw, mock>>

\* The test looks: the mock stops what the firmware has stopped before.
CheckDeadMansSwitch ==
  /\ suite = "motors"
  /\ mock' = Mock!check_dead_mans_switch(mock)
  /\ parted' = (parted /\ ~Mock!Stale(mock))
  /\ UNCHANGED <<suite, fw, motor, armed>>

Tick ==
  /\ suite = "motors" /\ fw.intents = <<>> /\ armed < DEAD_MANS_SWITCH_MS
  /\ armed' = armed + 1
  /\ mock' = [mock EXCEPT !.sinceIntent =
                IF @ <= DEAD_MANS_SWITCH_MS THEN @ + 1 ELSE @]
  /\ UNCHANGED <<suite, fw, motor, parted>>

-----------------------------------------------------------------------------

GuestCalls ==
  \/ ToggleLed
  \/ \E e \in I32 : DrawEye(e) \/ SetBrightness(e)
  \/ \E p, n \in I32 : DebugLog(p, n) \/ WriteText(p, n)
  \/ StartAudio \/ StopAudio \/ GetAudioAvail
  \/ \E p, n \in I32 : ReadAudio(p, n)
  \/ \E p \in I32 : GetLocalInference(p)
  \/ \E p, q \in I32 : GetPitchRoll(p, q)
  \/ \E p \in I32 : GetOtaStatus(p)
  \/ \E a \in MotorArgs : SetMotorSpeed(a[1], a[2])
  \/ \E l, r \in I32 : SetMotorSpeedRaw(l, r)

World ==
  \/ \E b \in AudioBytes : Hear(b)
  \/ PushSnapshot \/ RunFallback
  \/ \E r \in ImuReadings : SampleImu(r)
  \/ LockOut \/ SetRoutingMode

\* The checksum is that of the staged bytes, or another one.
OtaMethods ==
  \/ \E total \in 0 .. OTA_MAX_BINARY_SIZE + 1 : OtaBegin(total)
  \/ \E offset \in 0 .. OTA_MAX_BINARY_SIZE, b \in Byte : OtaReceiveChunk(offset, <<b>>)
  \/ \E bytes \in {mock.ota.ota_buffer, <<>>} : OtaFinalize(Crc(bytes))
  \/ HotSwapWasm

Router == RouteIntent \/ Timeout

Next == GuestCalls \/ World \/ OtaMethods \/ Router \/ CheckDeadMansSwitch \/ Tick

Spec == Init /\ [][Next]_vars

-----------------------------------------------------------------------------
(* Properties *)

\* Whatever (ptr, len) pair the guest passes, no slice leaves its memory: the
\* check is made in u32, the slice's end is an i32 sum, and the first must make
\* the second safe.
NoOutOfBounds == ~fw.panicked /\ ~mock.panicked

\* Whatever i32 speeds the guest passes, the range check (whose abs() wraps)
\* and the truncation to i16 together leave only legal speeds in the channel
\* and on the motors.
LegalSpeeds == (-MAX_MOTOR_SPEED .. MAX_MOTOR_SPEED) \X (-MAX_MOTOR_SPEED .. MAX_MOTOR_SPEED)
IntentsInRange ==
  motor \in LegalSpeeds /\ \A i \in DOMAIN fw.intents : fw.intents[i] \in LegalSpeeds

\* The mock answers every call as the firmware does and leaves the guest the
\* same memory, audio, screen and result.  The exceptions: a log text that is
\* not UTF-8, a full intent channel, a screen nothing was drawn on yet, the
\* result once the firmware's full channel has dropped a snapshot, and the status
\* of an update once the mock has begun one: mock_host.rs:588 says it mirrors the
\* firmware's, whose AbiHost never hears of an update.
SameAnswer ==
  \/ fw.ret = mock.ret
  \/ suite = "io" /\ <<fw.ret, mock.ret>> = <<OK, ERR_INVALID_ARG>>
  \/ suite = "motors" /\ <<fw.ret, mock.ret>> = <<ERR_BUSY, OK>>
MockMirrorsFirmware ==
  suite # "raw" =>
    /\ SameAnswer
    /\ fw.led_on = mock.led_on /\ fw.text = mock.text
    /\ mock.expression \in {fw.expression, NoExpression}
    /\ fw.brightness = mock.brightness \/ mock.brightness = 0
    /\ fw.audio_active = mock.audio_active /\ fw.audio_buf = mock.audio_buf
    /\ suite = "motors" \/ ~parted =>
         fw.memory = mock.memory /\ Unpack(fw.result) = mock.result

\* Once the channel is drained, the motors run at the speeds the tests see in
\* the mock, which has no channel.
MotorsAgree ==
  suite = "motors" /\ fw.intents = <<>> /\ ~parted => motor = mock.motor

\* When the mock reports the dead-man's switch, the firmware's has fired: a test
\* never sees a robot stopped that would still be moving.
MockStopIsReal == mock.dead_mans_active => motor = Stop
=============================================================================
