------------------------------ MODULE AbiHost -------------------------------
(***************************************************************************)
(* The firmware's host: AbiHost (core0/abi.rs), the display stub it owns   *)
(* (display/mod.rs), and the closures the linker of the Wasm task          *)
(* registers for the guest (core0/wasm_vm.rs), called host_...             *)
(***************************************************************************)
EXTENDS HostAbi

CONSTANTS
  INTENT_QUEUE_DEPTH, AUDIO_INFERENCE_QUEUE_DEPTH

\* AbiHost::new, with the shared cells it reads: the IMU bridge, the motor
\* flag, the intent channel, the snapshot channel and the packed result
New(memory) ==
  [memory |-> memory, ret |-> OK, panicked |-> FALSE,
   led_on |-> FALSE, audio_active |-> FALSE, audio_buf |-> <<>>,
   expression |-> 0, brightness |-> (MAX_BRIGHTNESS + 1) \div 2, text |-> <<>>,
   ota_status |-> <<0, 0, 0, 0>>,
   imu |-> <<0, 0>>, enabled |-> TRUE, mode |-> "SingleBoard", intents |-> <<>>,
   snapshots |-> <<>>, result |-> Pack(NoResult)]

-----------------------------------------------------------------------------
(* impl AbiHost *)

toggle_led(h) == Return([h EXCEPT !.led_on = ~@], OK)

\* Text that is not UTF-8 is ignored.
debug_log(h, bytes) == Return(h, OK)

draw_eye(h, e) ==
  IF e \in EyeExpression THEN Return([h EXCEPT !.expression = e], OK)
  ELSE Return(h, ERR_INVALID_ARG)

write_text(h, bytes) ==
  CASE Len(bytes) > MAX_TEXT_BYTES -> Return(h, ERR_BOUNDS)
    [] Len(bytes) <= MAX_TEXT_BYTES /\ ~IsUtf8(bytes) -> Return(h, ERR_INVALID_ARG)
    [] OTHER -> Return([h EXCEPT !.text = bytes], OK)

set_brightness(h, v) ==
  IF v \in 0 .. MAX_BRIGHTNESS THEN Return([h EXCEPT !.brightness = v], OK)
  ELSE Return(h, ERR_INVALID_ARG)

\* A plausible bug: the bytes of the last recording are kept.
start_audio_capture_Keeps(h) == Return([h EXCEPT !.audio_active = TRUE], OK)

start_audio_capture(h) ==
  Return([h EXCEPT !.audio_active = TRUE, !.audio_buf = <<>>], OK)
stop_audio_capture(h) == Return([h EXCEPT !.audio_active = FALSE], OK)
get_audio_avail(h) == Return(h, Len(h.audio_buf))

\* read_audio into a buffer of `room` bytes; Taken are the bytes it copies.
Taken(h, room) ==
  SubSeq(h.audio_buf, 1, IF room < Len(h.audio_buf) THEN room ELSE Len(h.audio_buf))
read_audio(h, room) ==
  LET n == Len(Taken(h, room))
  IN IF room > MAX_AUDIO_READ THEN Return(h, ERR_BOUNDS)
     ELSE Return([h EXCEPT !.audio_buf = SubSeq(@, n + 1, Len(@))], n)

\* The lock-out and a full channel are both answered with ERR_BUSY.
set_motor_speed(h, left, right) ==
  CASE ~SpeedInRange(left, right) -> Return(h, ERR_INVALID_ARG)
    [] SpeedInRange(left, right) /\ h.enabled /\ Len(h.intents) < INTENT_QUEUE_DEPTH ->
         Return([h EXCEPT !.intents = Append(@, MovementIntent(left, right))], OK)
    [] OTHER -> Return(h, ERR_BUSY)

\* push_audio_for_inference: dropped when the channel is full
push_audio_for_inference(h) ==
  IF h.audio_buf = <<>> \/ Len(h.snapshots) >= AUDIO_INFERENCE_QUEUE_DEPTH THEN h
  ELSE [h EXCEPT !.snapshots =
          Append(@, Window([i \in DOMAIN h.audio_buf |-> AsI8(h.audio_buf[i])]))]

\* Router: run_fallback_inference
run_fallback_inference(h) ==
  IF h.snapshots = <<>> THEN h
  ELSE [h EXCEPT !.result = Pack(Run(Head(h.snapshots))), !.snapshots = Tail(@)]

\* The cells of get_local_inference: load_inference_result and to_bytes
InferenceCells(r) == <<IF r.active THEN 1 ELSE 0, r.top_class, r.confidence_pct>>

-----------------------------------------------------------------------------
(* build_linker: what the guest calls *)

host_toggle_led(h) == toggle_led(h)
host_draw_eye(h, e) == draw_eye(h, e)
host_set_brightness(h, v) == set_brightness(h, v)
host_start_audio_capture(h) == start_audio_capture(h)
host_stop_audio_capture(h) == stop_audio_capture(h)
host_get_audio_avail(h) == get_audio_avail(h)

host_debug_log(h, ptr, len) ==
  CASE ~Accessible(h, ptr, len) -> Return(h, ERR_BOUNDS)
    [] Accessible(h, ptr, len) /\ ~Sliceable(h, ptr, len) -> Panic(h)
    [] OTHER -> debug_log(h, Slice(h, ptr, len))

host_write_text(h, ptr, len) ==
  CASE ~Accessible(h, ptr, len) \/ AsU32(len) > MAX_TEXT_BYTES -> Return(h, ERR_BOUNDS)
    [] Accessible(h, ptr, len) /\ AsU32(len) <= MAX_TEXT_BYTES
         /\ ~Sliceable(h, ptr, len) -> Panic(h)
    [] OTHER -> write_text(h, Slice(h, ptr, len))

host_read_audio(h, ptr, max_len) ==
  IF ~Accessible(h, ptr, max_len) \/ AsU32(max_len) > MAX_AUDIO_READ
  THEN Return(h, ERR_BOUNDS)
  ELSE Poke(read_audio(h, AsU32(max_len)), ptr, Taken(h, AsU32(max_len)))

\* The roll is written last.
host_get_pitch_roll(h, pitch_ptr, roll_ptr) ==
  IF ~Accessible(h, pitch_ptr, 1) \/ ~Accessible(h, roll_ptr, 1)
  THEN Return(h, ERR_BOUNDS)
  ELSE Return(Poke(Poke(h, pitch_ptr, <<h.imu[1]>>), roll_ptr, <<h.imu[2]>>), OK)

host_set_motor_speed(h, left, right) ==
  IF SpeedInRange(left, right) THEN set_motor_speed(h, left, right)
  ELSE Return(h, ERR_INVALID_ARG)

host_get_local_inference(h, out_ptr) ==
  IF ~Accessible(h, out_ptr, INFERENCE_RESULT_SIZE) THEN Return(h, ERR_BOUNDS)
  ELSE Return(Poke(h, out_ptr, InferenceCells(Unpack(h.result))), OK)

\* The fields the status is made of are written by new() alone: the updates go
\* to the OtaReceiver of espnow_rx_task.
host_get_ota_status(h, out_ptr) ==
  IF ~Accessible(h, out_ptr, OTA_STATUS_SIZE) THEN Return(h, ERR_BOUNDS)
  ELSE Return(Poke(h, out_ptr, h.ota_status), OK)
=============================================================================
