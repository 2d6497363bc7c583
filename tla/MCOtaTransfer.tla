--------------------------- MODULE MCOtaTransfer ----------------------------
(***************************************************************************)
(* A small instance of OtaTransfer: a long image of two chunks, a shorter  *)
(* one that shares its first byte, and one of the same size that is zero   *)
(* where the first is not.                                                 *)
(***************************************************************************)
EXTENDS OtaLockstep

MCByte == 0 .. 2
MCImages == {<<1, 2, 1>>, <<1, 1>>, <<2, 0, 1>>}

\* Any injective function serves as the checksum.
MCCrc(bytes) == FoldSeq(LAMBDA b, acc : 4 * acc + b, 1, bytes)
=============================================================================
