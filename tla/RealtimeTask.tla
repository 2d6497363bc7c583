---------------------------- MODULE RealtimeTask ----------------------------
(***************************************************************************)
(* The safety path of the motors: Core 1's realtime_task                   *)
(* (firmware/src/core1/mod.rs) against Core 0's router, which calls        *)
(* store_motor_command at any moment, and the ULP paramedic, which raises  *)
(* the critical-voltage flag at any moment.                                *)
(*                                                                         *)
(* One iteration of realtime_task is the steps sense, disable, zero,       *)
(* check, load/cut, sleep: one per access of a shared atomic.  The PID     *)
(* output of a tick is any member of PidOutput (PidController clamps it to *)
(* that range); the IMU and the telemetry are other modules.               *)
(***************************************************************************)
EXTENDS Motors

CONSTANTS
  MaxSpeed,     \* abi::MAX_MOTOR_SPEED, the bound of one commanded speed
  PidMax,       \* PID_OUT_MAX = -PID_OUT_MIN
  Command,      \* the (left, right) pairs Core 0 stores
  PidOutput     \* `balance_output as i32` for some tick

\* host_set_motor_speed rejects a speed beyond MAX_MOTOR_SPEED; the clamped
\* PID output and a command never reach the ends of i16 together (255 + 255).
ASSUME SpeedAssumption ==
  /\ MaxSpeed \in Nat /\ PidMax \in Nat /\ MaxSpeed + PidMax <= i16_MAX
  /\ Command \subseteq (-MaxSpeed .. MaxSpeed) \X (-MaxSpeed .. MaxSpeed)
  /\ PidOutput \subseteq -PidMax .. PidMax

VARIABLES
  voltageCritical,   \* the flag in RTC memory behind ulp::is_voltage_critical
  pc,                \* where Core 1 is in its loop
  balance,           \* balance_output of this tick
  pwm                \* the (left, right) duty the tick applied last

core1Vars == <<pc, balance, pwm>>
vars == <<motorVars, voltageCritical, core1Vars>>

Step == {"sense", "disable", "zero", "check", "load", "cut", "sleep"}

\* clamp_i16
Clamp(v) ==
  IF v < i16_MIN THEN i16_MIN ELSE IF v > i16_MAX THEN i16_MAX ELSE v

\* The PID correction on top of the steering command.  Each is clamped to its
\* own limit, their sum to i16 alone: it may be twice the limit the docs give
\* (core1/mod.rs:27-28, abi/src/lib.rs:524-527).
Blend(b, c) == <<Clamp(b + c[1]), Clamp(b + c[2])>>

Init ==
  /\ MotorsInit
  /\ voltageCritical = FALSE
  /\ pc = "sense"
  /\ balance = 0
  /\ pwm = Stop

Goto(from, to) == pc = from /\ pc' = to

-----------------------------------------------------------------------------
(* Core 1 *)

\* ulp::is_voltage_critical()
Sense ==
  /\ Goto("sense", IF voltageCritical THEN "disable" ELSE "check")
  /\ UNCHANGED <<motorVars, voltageCritical, balance, pwm>>

\* motors::set_motor_enabled(false), first store
Disable ==
  /\ Goto("disable", "zero")
  /\ DisableMotors
  /\ UNCHANGED <<voltageCritical, balance, pwm>>

\* second store; pid.reset() only changes what PidOutput already allows
Zero ==
  /\ Goto("zero", "check")
  /\ ZeroCommand
  /\ UNCHANGED <<voltageCritical, balance, pwm>>

\* A plausible bug: the tick blends whatever the flag says.
Check_NoGuard ==
  /\ Goto("check", "load")
  /\ balance' \in PidOutput
  /\ UNCHANGED <<motorVars, voltageCritical, pwm>>

\* A plausible bug: a disabled tick skips the PWM instead of zeroing it.
Check_KeepsPwm ==
  /\ \/ /\ MOTOR_ENABLED # 0
        /\ Goto("check", "load")
        /\ balance' \in PidOutput
     \/ /\ MOTOR_ENABLED = 0
        /\ Goto("check", "sleep")
        /\ UNCHANGED balance
  /\ UNCHANGED <<motorVars, voltageCritical, pwm>>

\* motors::is_motor_enabled(), and pid.update() when it is
Check ==
  /\ \/ /\ MOTOR_ENABLED # 0
        /\ Goto("check", "load")
        /\ balance' \in PidOutput
     \/ /\ MOTOR_ENABLED = 0
        /\ Goto("check", "cut")
        /\ UNCHANGED balance
  /\ UNCHANGED <<motorVars, voltageCritical, pwm>>

\* A plausible bug: a tick with nothing to balance leaves the PWM as it is.
Load_Deadband ==
  /\ Goto("load", "sleep")
  /\ pwm' = IF balance = 0 THEN pwm ELSE Blend(balance, Unpack(MOTOR_COMMAND))
  /\ UNCHANGED <<motorVars, voltageCritical, balance>>

\* motors::load_motor_command() and the blended duty
Load ==
  /\ Goto("load", "sleep")
  /\ pwm' = Blend(balance, Unpack(MOTOR_COMMAND))
  /\ UNCHANGED <<motorVars, voltageCritical, balance>>

Cut ==
  /\ Goto("cut", "sleep")
  /\ pwm' = Stop
  /\ UNCHANGED <<motorVars, voltageCritical, balance>>

\* ticker.next().await
Tick ==
  /\ Goto("sleep", "sense")
  /\ UNCHANGED <<motorVars, voltageCritical, balance, pwm>>

Core1 == Sense \/ Disable \/ Zero \/ Check \/ Load \/ Cut \/ Tick

-----------------------------------------------------------------------------
(* Core 0 and the ULP *)

\* router_task stores an intent, or (0, 0) when the dead-man's switch fires
Core0 ==
  /\ \/ \E c \in Command \cup {Stop} : CheckEnabled(c)
     \/ StoreCommand
  /\ UNCHANGED <<voltageCritical, core1Vars>>

\* The ULP program writes its flag; the battery may recover.
UlpSample ==
  /\ voltageCritical' \in BOOLEAN
  /\ UNCHANGED <<motorVars, core1Vars>>

Next == Core1 \/ Core0 \/ UlpSample

\* Core 1 owns its executor and its ticker: every step of its loop is taken.
\* An in-flight store of Core 0 is a straight line of two accesses.  Nothing
\* obliges Core 0 to issue another command or the ULP to change its flag.
Fairness ==
  /\ WF_vars(Core1)
  /\ WF_vars(StoreCommand /\ UNCHANGED <<voltageCritical, core1Vars>>)

Spec == Init /\ [][Next]_vars
FairSpec == Spec /\ Fairness

-----------------------------------------------------------------------------
(* Properties *)

Disabled == MOTOR_ENABLED = 0
Commanded == Command \cup {Stop}

\* The values every variable of the two cores ranges over.
TypeOK ==
  /\ MOTOR_ENABLED \in {0, 1}
  /\ MOTOR_COMMAND \in Word
  /\ storing \in Commanded \cup {NotStoring}
  /\ voltageCritical \in BOOLEAN
  /\ pc \in Step
  /\ balance \in PidOutput \cup {0}
  /\ pwm \in I16 \X I16

\* Once Core 1 has disabled the motors, every tick that ends leaves the PWM at
\* zero: neither the command it had loaded, nor one Core 0 stores late, nor a
\* PID correction turns a wheel again (core1/mod.rs steps 2, 3 and the else).
CutAfterLockout == Disabled /\ pc \in {"sleep", "sense"} => pwm = Stop

\* With the motors disabled, no command pending in Core 0 and a zero command,
\* nothing Core 0 does afterwards brings a command back (motors.rs:32-34).
Quiet == Disabled /\ storing = NotStoring /\ MOTOR_COMMAND = Pack(Stop)
QuietIsForever == [][Quiet => Quiet']_vars

\* A stop reaches the wheels: once the command word stays zero (a zero intent,
\* or the dead-man's switch) the two duties end up equal for good.  What is left
\* is the balance correction; no turn outlives the command that asked for it,
\* although Core 1 may have loaded that command before the stop was stored.
StopEndsSteering ==
  <>[](MOTOR_COMMAND = Pack(Stop)) => <>[](pwm[1] = pwm[2])

\* A lock-out cuts the PWM, and it stays cut: also when the voltage recovers.
LockoutCuts == Disabled ~> [](pwm = Stop)

\* While the voltage stays critical the command word itself ends up zero for
\* good, although a store of Core 0 that passed its check before the lock-out
\* may land after Core 1 zeroed the word: the next tick zeroes it again.
ResidueIsCleared ==
  <>[]voltageCritical => <>[](MOTOR_COMMAND = Pack(Stop))

-----------------------------------------------------------------------------
(* Refinement *)

\* The drive is cut once the flag is down and the duty is zero.
Abstract == INSTANCE SafeMotor WITH
  Duty <- I16 \X I16, cut <- (Disabled /\ pwm = Stop)

\* realtime_task implements the promise of SafeMotor.
SafeMotorSpec == Abstract!Spec
=============================================================================
