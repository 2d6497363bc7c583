------------------------------ MODULE MockHost ------------------------------
(***************************************************************************)
(* The host the repository's own tests run against: MockHost               *)
(* (host-tests/src/mock_host.rs) and the closures WasmHarness              *)
(* (host-tests/src/vm_harness.rs) registers over it, called host_...       *)
(*                                                                         *)
(* Its OTA fields are the session of MockOta.  Left out: the logs that     *)
(* only tests read.                                                        *)
(***************************************************************************)
EXTENDS HostAbi, MockOta

CONSTANTS
  DEAD_MANS_SWITCH_MS,  \* in ticks
  NoExpression          \* Option::None of MockDisplay

\* MockHost::default
New(memory) ==
  [memory |-> memory, ret |-> OK, panicked |-> FALSE,
   led_on |-> FALSE, audio_active |-> FALSE, audio_buf |-> <<>>,
   expression |-> NoExpression, brightness |-> 0, text |-> <<>>,
   ota |-> NoSession,
   imu |-> <<0, 0>>, enabled |-> TRUE, mode |-> "SingleBoard",
   motor |-> <<0, 0>>, sinceIntent |-> 0, dead_mans_active |-> FALSE,
   snapshots |-> <<>>, result |-> NoResult]

-----------------------------------------------------------------------------
(* impl MockHost *)

toggle_led(h) == Return([h EXCEPT !.led_on = ~@], OK)

\* Text that is not UTF-8 is refused.
debug_log(h, bytes) == Return(h, IF IsUtf8(bytes) THEN OK ELSE ERR_INVALID_ARG)

draw_eye(h, e) ==
  IF e \in EyeExpression THEN Return([h EXCEPT !.expression = e], OK)
  ELSE Return(h, ERR_INVALID_ARG)

write_text(h, bytes) ==
  CASE Len(bytes) > MAX_TEXT_BYTES -> Return(h, ERR_BOUNDS)
    [] Len(bytes) <= MAX_TEXT_BYTES /\ ~IsUtf8(bytes) -> Return(h, ERR_INVALID_ARG)
    [] OTHER -> Return([h EXCEPT !.text = bytes], OK)

set_brightness(h, v) ==
  IF v \in 0 .. MAX_BRIGHTNESS THEN Return([h EXCEPT !.brightness = v], OK)
  ELSE Return(h, ERR_INVALID_ARG)

start_audio_capture(h) ==
  Return([h EXCEPT !.audio_active = TRUE, !.audio_buf = <<>>], OK)
stop_audio_capture(h) == Return([h EXCEPT !.audio_active = FALSE], OK)
get_audio_avail(h) == Return(h, Len(h.audio_buf))

Taken(h, room) ==
  SubSeq(h.audio_buf, 1, IF room < Len(h.audio_buf) THEN room ELSE Len(h.audio_buf))
read_audio(h, room) ==
  LET n == Len(Taken(h, room))
  IN IF room > MAX_AUDIO_READ THEN Return(h, ERR_BOUNDS)
     ELSE Return([h EXCEPT !.audio_buf = SubSeq(@, n + 1, Len(@))], n)

\* Validates, then routes at once: there is no queue to be full.
set_motor_speed(h, left, right) ==
  CASE ~SpeedInRange(left, right) -> Return(h, ERR_INVALID_ARG)
    [] SpeedInRange(left, right) /\ ~h.enabled -> Return(h, ERR_BUSY)
    [] OTHER ->
         Return([h EXCEPT !.sinceIntent = 0, !.dead_mans_active = FALSE,
                          !.motor = IF h.mode = "SingleBoard" THEN <<left, right>> ELSE @],
                OK)

\* A plausible bug: the comparison the firmware's timer makes.
Stale_AtLimit(h) == h.sinceIntent >= DEAD_MANS_SWITCH_MS

\* current_ms - last_intent_ms > DEAD_MANS_SWITCH_MS
Stale(h) == h.sinceIntent > DEAD_MANS_SWITCH_MS

check_dead_mans_switch(h) ==
  IF Stale(h) THEN [h EXCEPT !.dead_mans_active = TRUE, !.motor = <<0, 0>>] ELSE h

\* Takes any samples, however many snapshots wait.
push_audio_for_inference(h, samples) == [h EXCEPT !.snapshots = Append(@, samples)]

run_stub_inference(tensor) ==
  LET w == Window(tensor)
      pct == (MeanAbs(w) * 100) \div 127
  IN IF tensor = <<>> THEN NoResult
     ELSE [active |-> TRUE, top_class |-> TopByte(w) % 8,
           confidence_pct |-> IF pct < 100 THEN pct ELSE 100]

run_fallback_inference(h) ==
  IF h.snapshots = <<>> THEN h
  ELSE [h EXCEPT !.result = run_stub_inference(Head(h.snapshots)), !.snapshots = Tail(@)]

InferenceCells(r) == <<IF r.active THEN 1 ELSE 0, r.top_class, r.confidence_pct>>

-----------------------------------------------------------------------------
(* WasmHarness: what the guest calls *)

host_toggle_led(h) == toggle_led(h)
host_draw_eye(h, e) == draw_eye(h, e)
host_set_brightness(h, v) == set_brightness(h, v)
host_start_audio_capture(h) == start_audio_capture(h)
host_stop_audio_capture(h) == stop_audio_capture(h)
host_get_audio_avail(h) == get_audio_avail(h)

host_debug_log(h, ptr, len) ==
  CASE ~Accessible(h, ptr, len) -> Return(h, ERR_BOUNDS)
    [] Accessible(h, ptr, len) /\ ~Sliceable(h, ptr, len) -> Panic(h)
    [] OTHER -> debug_log(h, Slice(h, ptr, len))

host_write_text(h, ptr, len) ==
  CASE ~Accessible(h, ptr, len) \/ AsU32(len) > MAX_TEXT_BYTES -> Return(h, ERR_BOUNDS)
    [] Accessible(h, ptr, len) /\ AsU32(len) <= MAX_TEXT_BYTES
         /\ ~Sliceable(h, ptr, len) -> Panic(h)
    [] OTHER -> write_text(h, Slice(h, ptr, len))

host_read_audio(h, ptr, max_len) ==
  IF ~Accessible(h, ptr, max_len) \/ AsU32(max_len) > MAX_AUDIO_READ
  THEN Return(h, ERR_BOUNDS)
  ELSE Poke(read_audio(h, AsU32(max_len)), ptr, Taken(h, AsU32(max_len)))

host_get_pitch_roll(h, pitch_ptr, roll_ptr) ==
  IF ~Accessible(h, pitch_ptr, 1) \/ ~Accessible(h, roll_ptr, 1)
  THEN Return(h, ERR_BOUNDS)
  ELSE Return(Poke(Poke(h, pitch_ptr, <<h.imu[1]>>), roll_ptr, <<h.imu[2]>>), OK)

host_set_motor_speed(h, left, right) ==
  IF SpeedInRange(left, right) THEN set_motor_speed(h, left, right)
  ELSE Return(h, ERR_INVALID_ARG)

host_get_local_inference(h, out_ptr) ==
  IF ~Accessible(h, out_ptr, INFERENCE_RESULT_SIZE) THEN Return(h, ERR_BOUNDS)
  ELSE Return(Poke(h, out_ptr, InferenceCells(h.result)), OK)

host_get_ota_status(h, out_ptr) ==
  IF ~Accessible(h, out_ptr, OTA_STATUS_SIZE) THEN Return(h, ERR_BOUNDS)
  ELSE Return(Poke(h, out_ptr, OtaStatus(h.ota)), OK)
=============================================================================
