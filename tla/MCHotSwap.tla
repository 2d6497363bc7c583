----------------------------- MODULE MCHotSwap ------------------------------
(***************************************************************************)
(* A small instance of HotSwap: two images of different sizes.             *)
(***************************************************************************)
EXTENDS HotSwap

MCByte == {0, 1}
MCImages == {<<1>>, <<0, 1>>}

\* Any injective function serves as the checksum.
MCCrc(bytes) ==
  IF bytes = <<>> THEN 0
  ELSE Len(bytes) * 10 + bytes[Len(bytes)] + 2 * bytes[1]
=============================================================================
