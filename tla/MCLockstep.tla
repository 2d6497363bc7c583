----------------------------- MODULE MCLockstep -----------------------------
(***************************************************************************)
(* A small instance of Lockstep: i32 has the 16 values -8 .. 7, i16 eight  *)
(* of them, and the guest's five cells of memory hold one byte that is no  *)
(* text.  The audio bytes 1 and 97 are a quiet and a loud sample of the    *)
(* same class.  An update has two bytes of one value, and only a checksum  *)
(* that was taken of something else fails.                                 *)
(***************************************************************************)
EXTENDS Lockstep

MCGuestMemory == <<1, 1, 255, 1, 1>>
MCImuReadings == {<<0, 0>>, <<1, -1>>}
MCCrc(bytes) == Len(bytes)
MCMotorArgs == {<<0, 0>>, <<2, -2>>, <<1, 2>>, <<3, 0>>}
=============================================================================
