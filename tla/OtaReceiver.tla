---------------------------- MODULE OtaReceiver -----------------------------
(***************************************************************************)
(* firmware/src/core0/ota.rs: the receiver of over-the-air updates, owned  *)
(* by espnow_rx_task.  One action is one call of a method; methods are     *)
(* synchronous, so nothing runs between their steps.                       *)
(*                                                                         *)
(* A message is [cmd, payload].  The payload is the tuple of the fields    *)
(* the handler parses, or <<>> when it is too short to hold them.  The     *)
(* staging buffer is a sequence of bytes.                                  *)
(***************************************************************************)
EXTENDS OtaAbi

VARIABLES
  state,            \* OtaState
  buffer,           \* the staging buffer
  total_size,       \* size declared by OTA_BEGIN
  bytes_received,   \* running count of payload bytes written
  swap_count        \* successful take_verified_binary calls

otaVars == <<state, buffer, total_size, bytes_received, swap_count>>

OtaInit ==
  /\ state = "Idle"
  /\ buffer = <<>>
  /\ total_size = 0 /\ bytes_received = 0 /\ swap_count = 0

Fail == state' = "Failed" /\ UNCHANGED <<buffer, total_size, bytes_received, swap_count>>
Ignore == UNCHANGED otaVars

ValidSize(p) == p # <<>> /\ p[1] \in 1 .. OTA_MAX_BINARY_SIZE

\* A plausible bug: Vec::resize without clear keeps the old contents.
StartSession_KeepsBytes(total) ==
  /\ buffer' = [i \in 1 .. total |-> IF i \in DOMAIN buffer THEN buffer[i] ELSE 0]
  /\ total_size' = total /\ bytes_received' = 0
  /\ state' = "Receiving" /\ UNCHANGED swap_count

StartSession(total) ==
  /\ buffer' = Zeroes(total)
  /\ total_size' = total /\ bytes_received' = 0
  /\ state' = "Receiving" /\ UNCHANGED swap_count

\* handle_begin: an invalid size fails the session, whatever its state; a
\* valid one starts over unless a swap is going on.
HandleBegin(p) ==
  IF ~ValidSize(p) THEN Fail
  ELSE IF state = "Swapping" THEN Ignore ELSE StartSession(p[1])

WriteChunk(offset, data) ==
  /\ buffer' = Overlay(buffer, offset, data)
  /\ bytes_received' = bytes_received + Len(data)
  /\ UNCHANGED <<state, total_size, swap_count>>

\* A plausible bug: the bounds check is off by one.
HandleChunk_OffByOne(p) ==
  \/ (state # "Receiving" \/ p = <<>>) /\ Ignore
  \/ /\ state = "Receiving" /\ p # <<>>
     /\ IF p[1] + Len(p[2]) > total_size + 1 THEN Fail ELSE WriteChunk(p[1], p[2])

\* A plausible bug: a late chunk is still written to a verified buffer.
HandleChunk_WhenReady(p) ==
  \/ (state \notin {"Receiving", "Ready"} \/ p = <<>>) /\ Ignore
  \/ /\ state \in {"Receiving", "Ready"} /\ p # <<>>
     /\ IF p[1] + Len(p[2]) > total_size THEN Fail ELSE WriteChunk(p[1], p[2])

\* handle_chunk: only a chunk beyond the declared size fails the session.
HandleChunk(p) ==
  \/ (state # "Receiving" \/ p = <<>>) /\ Ignore
  \/ /\ state = "Receiving" /\ p # <<>>
     /\ IF p[1] + Len(p[2]) > total_size THEN Fail ELSE WriteChunk(p[1], p[2])

Accept ==
  /\ state' = "Ready"
  /\ UNCHANGED <<buffer, total_size, bytes_received, swap_count>>

\* A plausible bug: the count of bytes stands in for the checksum.
HandleFinalize_ByCount(p) ==
  \/ state # "Receiving" /\ Ignore
  \/ /\ state = "Receiving"
     /\ IF p # <<>> /\ bytes_received >= total_size THEN Accept ELSE Fail

\* A plausible bug: a session must also have received exactly its size.
HandleFinalize_ExactCount(p) ==
  \/ state # "Receiving" /\ Ignore
  \/ /\ state = "Receiving"
     /\ IF p # <<>> /\ Crc(buffer) = p[1] /\ bytes_received = total_size
        THEN Accept ELSE Fail

\* handle_finalize: the CRC-32 of the whole buffer decides.
HandleFinalize(p) ==
  \/ state # "Receiving" /\ Ignore
  \/ /\ state = "Receiving"
     /\ IF p # <<>> /\ Crc(buffer) = p[1] THEN Accept ELSE Fail

\* handle_command for the three OTA commands
HandleCommand(m) ==
  \/ m.cmd = "OTA_BEGIN" /\ HandleBegin(m.payload)
  \/ m.cmd = "OTA_CHUNK" /\ HandleChunk(m.payload)
  \/ m.cmd = "OTA_FINALIZE" /\ HandleFinalize(m.payload)

\* take_verified_binary: Swapping is entered and left within the call.
TakeVerifiedBinary ==
  /\ state = "Ready"
  /\ state' = "Idle"
  /\ buffer' = <<>>
  /\ total_size' = 0 /\ bytes_received' = 0
  /\ swap_count' = swap_count + 1

ResetFailed ==
  /\ state = "Failed"
  /\ state' = "Idle"
  /\ buffer' = <<>>
  /\ total_size' = 0 /\ bytes_received' = 0
  /\ UNCHANGED swap_count

\* A message the receiver can be handed.
Begin(n)       == [cmd |-> "OTA_BEGIN", payload |-> <<n>>]
Chunk(off, d)  == [cmd |-> "OTA_CHUNK", payload |-> <<off, d>>]
Finalize(c)    == [cmd |-> "OTA_FINALIZE", payload |-> <<c>>]
Truncated(cmd) == [cmd |-> cmd, payload |-> <<>>]
=============================================================================
