---------------------------- MODULE OtaLockstep -----------------------------
(***************************************************************************)
(* OtaTransfer with the mock host's receiver, MockOta, beside it.  The     *)
(* mock is called with what the messages that reach the receiver say; a    *)
(* message too short to hold its fields has no call to stand for it.       *)
(***************************************************************************)
EXTENDS OtaTransfer, MockOta

VARIABLES
  mock,    \* the session of MockHost
  parted   \* history: the firmware failed, or was reset, where the mock has no
           \* such step, and no session was begun since

lockVars == <<mock, parted>>

MockInit == mock = NoSession /\ parted = FALSE

-----------------------------------------------------------------------------

\* The call that stands for a message
Called(m) ==
  CASE m.payload = <<>> -> mock
    [] m.payload # <<>> /\ m.cmd = "OTA_BEGIN" -> ota_begin(mock, m.payload[1])
    [] m.payload # <<>> /\ m.cmd = "OTA_CHUNK" ->
         ota_receive_chunk(mock, m.payload[1], m.payload[2])
    [] OTHER -> ota_finalize(mock, m.payload[1])

\* The firmware fails the session on an invalid OTA_BEGIN, a chunk that is too
\* long and a short OTA_FINALIZE; the mock goes on.
OnlyFirmwareFails(m) ==
  \/ m.cmd = "OTA_BEGIN" /\ ~ValidSize(m.payload)
  \/ /\ state = "Receiving" /\ m.cmd = "OTA_CHUNK" /\ m.payload # <<>>
     /\ m.payload[1] + Len(m.payload[2]) > total_size
  \/ state = "Receiving" /\ m.cmd = "OTA_FINALIZE" /\ m.payload = <<>>

DeliverToBoth(m) ==
  /\ m.cmd = "OTA_CHUNK" => mock.ota_bytes_received < MaxBytes
  /\ Deliver(m)
  /\ mock' = Called(m)
  /\ parted' = CASE OnlyFirmwareFails(m) -> TRUE
                 [] ~OnlyFirmwareFails(m) /\ m.cmd = "OTA_BEGIN" -> FALSE
                 [] OTHER -> parted

TakeBoth == Take /\ mock' = hot_swap_wasm(mock) /\ UNCHANGED parted

\* The mock has no reset: only the next ota_begin leaves Failed.
ResetFirmware == Reset /\ parted' = TRUE /\ UNCHANGED mock

LockstepNext ==
  \/ \E img \in Images : StartTransfer(img) /\ UNCHANGED lockVars
  \/ Send /\ UNCHANGED lockVars
  \/ Damage /\ UNCHANGED lockVars
  \/ \E m \in sent : DeliverToBoth(m)
  \/ TakeBoth \/ ResetFirmware

LockstepInit == Init /\ MockInit

LockstepSpec == LockstepInit /\ [][LockstepNext]_<<vars, lockVars>>

-----------------------------------------------------------------------------
(* Properties *)

\* The mock's session is the firmware's, bytes, counters and all, from every
\* OTA_BEGIN until the firmware fails it for a reason the mock does not have;
\* and from there on the firmware stages nothing.  So a binary the firmware
\* stages is one the mock stages, though not the other way round.
MockOtaAgrees ==
  IF parted THEN state \in {"Failed", "Idle"}
  ELSE mock = [ota_state |-> state, ota_buffer |-> buffer,
               ota_expected_size |-> total_size, ota_bytes_received |-> bytes_received,
               hot_swap_count |-> swap_count]
=============================================================================
