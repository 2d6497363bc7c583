------------------------------ MODULE MCBrain -------------------------------
(***************************************************************************)
(* Small instances of Brain.  The guest is the one of wasm-apps: a handler *)
(* makes at most one host_set_motor_speed call, the emergency stop makes   *)
(* one with (0, 0), the LED command makes none.                            *)
(***************************************************************************)
EXTENDS Brain

Forward == <<200, 200>>
Turn == <<-100, 100>>

MCSpeeds == {Stop, Forward, Turn}
\* One command id stands for all that may or may not drive.
MCCmd == {"SET_MOTOR_SPEED"}
MCHandler == [cmd \in MCCmd |-> {<<Forward>>, <<Turn>>, <<>>}]

HungCmd == {"SET_MOTOR_SPEED", "TOGGLE_LED"}
HungHandler ==
  [cmd \in HungCmd |-> IF cmd = "SET_MOTOR_SPEED" THEN {<<Forward>>} ELSE {<<>>}]

StopCmd == {"SET_MOTOR_SPEED", "EMERGENCY_STOP"}
StopHandler ==
  [cmd \in StopCmd |->
     IF cmd = "SET_MOTOR_SPEED" THEN {<<Forward>>} ELSE {<<Stop>>}]
=============================================================================
