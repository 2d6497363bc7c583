---------------------------- MODULE OtaTransfer -----------------------------
(***************************************************************************)
(* An over-the-air update end to end: the PC sends the messages of the     *)
(* protocol in the order ota.rs describes and may abandon a transfer for   *)
(* another one; ESP-NOW loses, duplicates, delays, reorders and damages    *)
(* them; OtaReceiver handles what arrives.  There is no acknowledgement    *)
(* and no session number, so a message of an abandoned transfer may reach  *)
(* the next one.                                                           *)
(***************************************************************************)
EXTENDS OtaReceiver, SequencesExt

CONSTANTS
  Images,         \* binaries the PC may send
  NoImage,
  ChunkSize,      \* OTA_CHUNK_MAX_PAYLOAD
  MaxTransfers,   \* bound: transfers the PC starts
  MaxFaults,      \* bound: damaged messages
  MaxBytes,       \* bound: bytes_received above which no chunk is delivered
  MaxSwaps        \* bound: binaries taken

\* The CRC tells the byte strings of the model apart.  (crc32 does so for all
\* strings of one length up to 4 bytes; beyond that a collision is possible.)
ASSUME TransferAssumption ==
  /\ Images \subseteq SeqOf(Byte, OTA_MAX_BINARY_SIZE) \ {<<>>}
  /\ NoImage \notin Images
  /\ ChunkSize \in Nat \ {0}
  /\ {MaxTransfers, MaxFaults, MaxBytes, MaxSwaps} \subseteq Nat
  /\ \A x, y \in SeqOf(Byte, OTA_MAX_BINARY_SIZE) : Crc(x) = Crc(y) => x = y

VARIABLES
  outbox,      \* messages of the current transfer the PC has still to send
  sent,        \* the network: any of these can arrive, any number of times
  transfers, faults,
  session      \* history: what arrived since the last OTA_BEGIN, up to the
               \* message that ended the Receiving state

pcVars == <<outbox, sent, transfers, faults>>
vars == <<otaVars, pcVars, session>>

Chunks(img) ==
  [k \in 1 .. (Len(img) + ChunkSize - 1) \div ChunkSize |->
     LET off == (k - 1) * ChunkSize
     IN Chunk(off, SubSeq(img, off + 1, IF off + ChunkSize < Len(img)
                                        THEN off + ChunkSize ELSE Len(img)))]

Protocol(img) ==
  <<Begin(Len(img))>> \o Chunks(img) \o <<Finalize(Crc(img))>>

\* What a message may turn into on its way: cut short, a wrong size, a wrong
\* byte.  (A damaged checksum that happens to fit a damaged image is left out.)
Damaged(m) ==
  {Truncated(m.cmd)} \cup
  CASE m.cmd = "OTA_BEGIN" -> {Begin(n) : n \in {0, OTA_MAX_BINARY_SIZE, OTA_MAX_BINARY_SIZE + 1}}
    [] m.cmd = "OTA_CHUNK" /\ m.payload # <<>> ->
         {Chunk(m.payload[1], [m.payload[2] EXCEPT ![1] = b]) : b \in Byte}
    [] OTHER -> {}

Init ==
  /\ OtaInit
  /\ outbox = <<>> /\ sent = {} /\ transfers = 0 /\ faults = 0
  /\ session = {}

StartTransfer(img) ==
  /\ transfers < MaxTransfers
  /\ transfers' = transfers + 1
  /\ outbox' = Protocol(img)
  /\ UNCHANGED <<otaVars, sent, faults, session>>

Send ==
  /\ outbox # <<>>
  /\ sent' = sent \cup {Head(outbox)}
  /\ outbox' = Tail(outbox)
  /\ UNCHANGED <<otaVars, transfers, faults, session>>

Damage ==
  /\ faults < MaxFaults
  /\ faults' = faults + 1
  /\ \E m \in sent : \E d \in Damaged(m) : sent' = sent \cup {d}
  /\ UNCHANGED <<otaVars, outbox, transfers, session>>

Deliver(m) ==
  /\ m.cmd = "OTA_CHUNK" => bytes_received < MaxBytes
  /\ HandleCommand(m)
  /\ session' = CASE m.cmd = "OTA_BEGIN" -> {m}
                  [] m.cmd # "OTA_BEGIN" /\ state = "Receiving" -> session \cup {m}
                  [] OTHER -> session
  /\ UNCHANGED pcVars

\* The installer.  The firmware calls neither method today.
Take ==
  /\ swap_count < MaxSwaps
  /\ TakeVerifiedBinary
  /\ session' = {}
  /\ UNCHANGED pcVars

Reset ==
  /\ ResetFailed
  /\ session' = {}
  /\ UNCHANGED pcVars

Next ==
  \/ \E img \in Images : StartTransfer(img)
  \/ Send \/ Damage
  \/ \E m \in sent : Deliver(m)
  \/ Take \/ Reset

Spec == Init /\ [][Next]_vars

-----------------------------------------------------------------------------
(* Properties *)

Active == state \in {"Receiving", "Ready"}

\* The values the receiver ranges over; an active session owns a buffer of
\* exactly the declared size.
TypeOK ==
  /\ state \in OtaState
  /\ buffer \in Seq(Byte)
  /\ total_size \in 0 .. OTA_MAX_BINARY_SIZE
  /\ bytes_received \in 0 .. MaxBytes + ChunkSize
  /\ swap_count \in 0 .. MaxSwaps
  /\ Active => Len(buffer) = total_size /\ total_size > 0

\* The staged binary is an image the PC has finalised, never a mixture of
\* transfers, whatever the network did.
Offered == {img \in Images : Finalize(Crc(img)) \in sent}
ReadyIsWhole == state = "Ready" => buffer \in Offered

\* Nothing leaks from one session into the next: every byte of an active
\* buffer is the 0 it was filled with or was written by this session's chunks.
Wrote(m, i) ==
  /\ m.cmd = "OTA_CHUNK" /\ m.payload # <<>>
  /\ i - m.payload[1] \in DOMAIN m.payload[2]
  /\ m.payload[2][i - m.payload[1]] = buffer[i]
NoLeftovers ==
  Active => \A i \in DOMAIN buffer :
              buffer[i] = 0 \/ \E m \in session : Wrote(m, i)

\* A session that got every message of an image and none of another one stages
\* it, in whatever order and however often its chunks arrived.
CompleteTransferIsStaged ==
  \A img \in Images :
    session \ {Truncated("OTA_CHUNK")} = ToSet(Protocol(img)) => state = "Ready"

-----------------------------------------------------------------------------
(* Refinement *)

\* ready_binary() hands out the staged image.
Abstract == INSTANCE StagedImage WITH
  None <- NoImage, offered <- Offered,
  staged <- (IF state = "Ready" THEN buffer ELSE NoImage)

\* The receiver implements the promise of StagedImage.
StagedImageSpec == Abstract!Spec
=============================================================================
