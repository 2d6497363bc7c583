-------------------------------- MODULE Pid ---------------------------------
(***************************************************************************)
(* firmware/src/core1/pid.rs in fixed point: one unit of time is the tick  *)
(* of Core 1 (dt_s), so the integral is a sum of errors and the derivative *)
(* a difference of two.  The rounding of f32 is left out.  A controller is *)
(* its two registers [integral, prev_error].                               *)
(***************************************************************************)
EXTENDS Integers

CONSTANTS
  PID_KP, PID_KI, PID_KD,   \* gains
  PID_OUT_MAX               \* PID_OUT_MAX = -PID_OUT_MIN

\* windup_limit needs a gain to divide by; with a zero gain update() skips
\* the clamp, which the firmware's constants never do.
ASSUME GainAssumption ==
  /\ PID_KP \in Nat /\ PID_KD \in Nat /\ PID_OUT_MAX \in Nat
  /\ PID_KI \in Nat \ {0}

ClampTo(v, lo, hi) == IF v < lo THEN lo ELSE IF v > hi THEN hi ELSE v

WindupLimit == PID_OUT_MAX \div PID_KI

\* PidController::new, and what reset() goes back to
NewPid == [integral |-> 0, prev_error |-> 0]

\* A plausible bug: the accumulator is not clamped, only the output is.
Integrate_NoClamp(pid, error) == pid.integral + error

Integrate(pid, error) ==
  ClampTo(pid.integral + error, -WindupLimit, WindupLimit)

\* update(): the registers it leaves and the value it returns.  The comment
\* promises the derivative of the measurement; it is that of the error.
Updated(pid, error) ==
  [integral |-> Integrate(pid, error), prev_error |-> error]

Correction(pid, error) ==
  ClampTo(PID_KP * error + PID_KI * Integrate(pid, error)
            + PID_KD * (error - pid.prev_error),
          -PID_OUT_MAX, PID_OUT_MAX)
=============================================================================
