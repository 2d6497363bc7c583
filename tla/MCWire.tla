------------------------------- MODULE MCWire -------------------------------
(***************************************************************************)
(* A small instance of Wire: bytes of two bits; one reading and one pair   *)
(* of speeds with both signs at the ends of an i32 and an i16 (no i32::MIN *)
(* in the reading, whose magnitude has the same bytes); a timestamp of     *)
(* several bytes; and a queue of two slots, one of them above the mark,    *)
(* against one push of Core 1 (32, 4 and 4 in the firmware).               *)
(***************************************************************************)
EXTENDS Wire

MCReadings == {<<-127, 127>>}
MCSpeeds == {<<-8, 7>>}
MCTimes == {5000}
=============================================================================
