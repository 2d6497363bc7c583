---------------------------- MODULE MCTelemetry -----------------------------
(***************************************************************************)
(* A small instance of Telemetry.  The constants are integers, which the   *)
(* cfg gives in the proportions of the firmware: a beacon interval fills   *)
(* the queue, and the queue holds more than one quota.                     *)
(***************************************************************************)
EXTENDS Telemetry
=============================================================================
