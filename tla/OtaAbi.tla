------------------------------- MODULE OtaAbi -------------------------------
(***************************************************************************)
(* What both receivers of over-the-air updates share, that of the firmware *)
(* (OtaReceiver) and that of the mock host (MockOta): the states and the   *)
(* checksum of abi/src/lib.rs, and the staging buffer.                     *)
(***************************************************************************)
EXTENDS Integers, Sequences

CONSTANTS
  Byte,                  \* values of a byte; 0 is one of them
  OTA_MAX_BINARY_SIZE,
  Crc(_)                 \* abi::crc32

ASSUME OtaAssumption ==
  /\ 0 \in Byte
  /\ OTA_MAX_BINARY_SIZE \in Nat \ {0}

OtaState == {"Idle", "Receiving", "Ready", "Swapping", "Failed"}

Zeroes(n) == [i \in 1 .. n |-> 0]

\* buffer[offset..offset + data.len()].copy_from_slice(data); a slice beyond
\* the buffer would show as a longer one.
Overlay(buf, offset, data) ==
  [i \in DOMAIN buf \cup (offset + 1 .. offset + Len(data)) |->
     IF i \in offset + 1 .. offset + Len(data) THEN data[i - offset] ELSE buf[i]]
=============================================================================
