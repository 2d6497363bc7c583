--------------------------- MODULE MCRealtimeTask ---------------------------
(***************************************************************************)
(* Small instances of RealtimeTask.  The commands and PID outputs are      *)
(* extremes of their ranges, a turn in place and an ordinary value: they   *)
(* exercise both signs of each packed half and every clamping direction.   *)
(***************************************************************************)
EXTENDS RealtimeTask

MCCommand   == {<<255, 255>>, <<-255, 255>>, <<7, -3>>}
MCPidOutput == {-255, 0, 255}
=============================================================================
