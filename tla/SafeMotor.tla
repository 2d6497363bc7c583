----------------------------- MODULE SafeMotor ------------------------------
(***************************************************************************)
(* What the motor drive promises, without cores, flags or commands: it may *)
(* be driven with any duty until it is cut, the cut zeroes the duty in the *)
(* same step, and a drive that was cut never turns again.  RealtimeTask    *)
(* implements it (RealtimeTask!SafeMotorSpec).                             *)
(***************************************************************************)
EXTENDS Integers

CONSTANT Duty          \* the (left, right) duties the drive can be given

VARIABLES cut, pwm

Still == <<0, 0>>

Init == cut = FALSE /\ pwm = Still

Drive ==
  /\ ~cut
  /\ pwm' \in Duty
  /\ UNCHANGED cut

Cut ==
  /\ cut' = TRUE
  /\ pwm' = Still

Next == Drive \/ Cut

Spec == Init /\ [][Next]_<<cut, pwm>>
=============================================================================
