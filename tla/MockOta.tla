------------------------------ MODULE MockOta -------------------------------
(***************************************************************************)
(* The OTA methods of MockHost (host-tests/src/mock_host.rs).  A session   *)
(* is a record of the host's OTA fields; a method maps the session to the  *)
(* session after the call.  The status a method returns goes to the test   *)
(* that called it and is left out.                                         *)
(***************************************************************************)
EXTENDS OtaAbi

\* MockHost::default
NoSession ==
  [ota_state |-> "Idle", ota_buffer |-> <<>>, ota_expected_size |-> 0,
   ota_bytes_received |-> 0, hot_swap_count |-> 0]

\* ota_begin; an invalid size changes nothing.
ota_begin(s, total) ==
  IF total \notin 1 .. OTA_MAX_BINARY_SIZE \/ s.ota_state = "Swapping" THEN s
  ELSE [s EXCEPT !.ota_state = "Receiving", !.ota_expected_size = total,
                 !.ota_bytes_received = 0, !.ota_buffer = Zeroes(total)]

\* ota_receive_chunk; a chunk beyond the declared size changes nothing.
ota_receive_chunk(s, offset, data) ==
  IF s.ota_state # "Receiving" \/ data = <<>>
       \/ offset + Len(data) > s.ota_expected_size THEN s
  ELSE [s EXCEPT !.ota_buffer = Overlay(@, offset, data),
                 !.ota_bytes_received = @ + Len(data)]

\* ota_finalize
ota_finalize(s, crc) ==
  IF s.ota_state # "Receiving" THEN s
  ELSE [s EXCEPT !.ota_state = IF Crc(s.ota_buffer) = crc THEN "Ready" ELSE "Failed"]

\* A plausible bug: the counters of the finished session are not reset.
hot_swap_wasm_KeepsCounters(s) ==
  IF s.ota_state # "Ready" THEN s
  ELSE [s EXCEPT !.ota_state = "Idle", !.ota_buffer = <<>>, !.hot_swap_count = @ + 1]

\* hot_swap_wasm: Swapping is entered and left within the call.
hot_swap_wasm(s) ==
  IF s.ota_state # "Ready" THEN s
  ELSE [s EXCEPT !.ota_state = "Idle", !.ota_buffer = <<>>, !.hot_swap_count = @ + 1,
                 !.ota_expected_size = 0, !.ota_bytes_received = 0]

StateCode(state) ==
  CASE state = "Idle" -> 0
    [] state = "Receiving" -> 1
    [] state = "Ready" -> 2
    [] state = "Swapping" -> 3
    [] state = "Failed" -> 4

\* The cells of get_ota_status
OtaStatus(s) ==
  <<StateCode(s.ota_state), s.ota_bytes_received, s.ota_expected_size, s.hot_swap_count>>
=============================================================================
