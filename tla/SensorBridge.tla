---------------------------- MODULE SensorBridge ----------------------------
(***************************************************************************)
(* From the IMU to the two cores that use it.  Core 1 reads the sensor     *)
(* every tick, publishes the reading in IMU_DATA (sensors.rs) and balances *)
(* with it (pid.rs); the guest on Core 0 asks for it with                  *)
(* host_get_pitch_roll and turns the pitch into a duty.                    *)
(*                                                                         *)
(* IMU_DATA is an AtomicU64 that portable-atomic emulates on a 32-bit core *)
(* under unsafe-assume-single-core: the emulation masks the interrupts of  *)
(* its own core only.  Against the other core a store or a load of the     *)
(* word is two accesses of one half each, in either order.                 *)
(***************************************************************************)
EXTENDS Pid, FiniteSets

CONSTANTS
  Readings,         \* what the IMU may deliver: [pitch, roll] in millidegrees
  MilliPerDegree,   \* 1000
  MaxDuty,          \* the guest clamps its duty to -MaxDuty .. MaxDuty
  Period, Amp,      \* of the stub sensor
  MaxCurrent        \* bound: readings one load may see

Half == {"pitch", "roll"}

\* simulate_imu: a triangle wave between 0 and Amp (never negative, although
\* its comment says +-30 degrees) and the same a quarter of a period ahead.
Triangle(phase) ==
  LET half == Period \div 2
  IN ((IF phase < half THEN phase ELSE Period - phase) * Amp) \div half
SimulateImu(tick) ==
  [pitch |-> Triangle(tick % Period),
   roll  |-> Triangle((tick + Period \div 4) % Period)]

\* The stub is one of the sensors the module covers.
ASSUME SensorAssumption ==
  /\ Readings \subseteq [Half -> Int] /\ Readings # {}
  /\ MilliPerDegree \in Nat \ {0} /\ MaxDuty \in Nat
  /\ Period \in Nat \ {0, 1} /\ Amp \in Nat /\ MaxCurrent \in Nat
  /\ \A t \in 0 .. Period - 1 : SimulateImu(t) \in Readings

VARIABLES
  IMU_DATA,      \* the word, as its halves
  reading,       \* Core 1: the reading of this tick
  toStore,       \* Core 1: the halves store_imu has still to write
  pc,            \* Core 1: "read", "store" or "balance"
  enabled,       \* MOTOR_ENABLED as Core 1 finds it
  pid,           \* Core 1's controller
  output,        \* balance_output of the last tick
  toLoad,        \* Core 0: the halves load_imu has still to read
  loaded,        \* Core 0: the halves it has
  loading,       \* Core 0 is inside load_imu
  duty,          \* what balance_handler asks of the motors
  previous,      \* history: the reading of the tick before
  current,       \* history: readings published or being published since the
                 \* load began
  overlapped,    \* history: a store was going on during the load
  push,          \* history: sum of the errors since the last one of the other
                 \* sign, up to 2 * WindupLimit
  slope          \* history: sign of the last error minus the one before

core1Vars == <<reading, toStore, pc, enabled, pid, output, push, slope>>
core0Vars == <<toLoad, loaded, loading, duty>>
vars == <<IMU_DATA, core1Vars, core0Vars, previous, current, overlapped>>

Flat == [h \in Half |-> 0]

Init ==
  /\ IMU_DATA = Flat /\ reading = Flat /\ toStore = {} /\ pc = "read"
  /\ enabled = TRUE /\ pid = NewPid /\ output = 0
  /\ toLoad = {} /\ loaded = Flat /\ loading = FALSE /\ duty = 0
  /\ previous = Flat /\ current = {} /\ overlapped = FALSE /\ push = 0 /\ slope = 0

-----------------------------------------------------------------------------
(* Core 1 *)

\* A plausible bug: the halves that did not change are not stored, compared
\* with the previous reading by its pitch alone.
BeginStore_IfPitchChanged(r) ==
  toStore' = IF r["pitch"] = reading["pitch"] THEN {} ELSE Half

BeginStore(r) == toStore' = Half

\* The IMU read and the call of store_imu
ReadImu ==
  /\ pc = "read" /\ pc' = "store"
  /\ loading => Cardinality(current) < MaxCurrent
  /\ \E r \in Readings :
       /\ reading' = r
       /\ BeginStore(r)
       /\ current' = IF loading THEN current \cup {r} ELSE {}
  /\ previous' = reading
  /\ overlapped' = loading
  /\ UNCHANGED <<IMU_DATA, core0Vars, enabled, pid, output, push, slope>>

StoreHalf(h) ==
  /\ pc = "store" /\ h \in toStore
  /\ IMU_DATA' = [IMU_DATA EXCEPT ![h] = reading[h]]
  /\ toStore' = toStore \ {h}
  /\ UNCHANGED <<reading, pc, enabled, pid, output, push, slope, core0Vars,
                 previous, current, overlapped>>

Stored ==
  /\ pc = "store" /\ toStore = {} /\ pc' = "balance"
  /\ UNCHANGED <<IMU_DATA, reading, toStore, enabled, pid, output, push, slope,
                 core0Vars, previous, current, overlapped>>

\* The history of the errors the controller saw
Pushed(error) ==
  /\ push' = IF push * error < 0 THEN ClampTo(error, -2 * WindupLimit, 2 * WindupLimit)
             ELSE ClampTo(push + error, -2 * WindupLimit, 2 * WindupLimit)
  /\ slope' = ClampTo(error - pid.prev_error, -1, 1)

\* The voltage check and the controller: a critical voltage disables the
\* motors and resets the registers, enabled motors get one update of the
\* controller with setpoint 0, disabled ones a zero duty.
LockOut ==
  /\ enabled' = FALSE
  /\ pid' = NewPid /\ output' = 0
  /\ push' = 0 /\ slope' = 0

PidUpdate ==
  LET error == 0 - reading["pitch"]
  IN /\ enabled
     /\ pid' = Updated(pid, error)
     /\ output' = Correction(pid, error)
     /\ Pushed(error)
     /\ UNCHANGED enabled

Cut ==
  /\ ~enabled /\ output' = 0
  /\ UNCHANGED <<enabled, pid, push, slope>>

Balance ==
  /\ pc = "balance" /\ pc' = "read"
  /\ LockOut \/ PidUpdate \/ Cut
  /\ UNCHANGED <<IMU_DATA, reading, toStore, core0Vars, previous, current, overlapped>>

-----------------------------------------------------------------------------
(* Core 0 *)

\* The guest's call of host_get_pitch_roll reaches load_imu.
BeginLoad ==
  /\ ~loading
  /\ loading' = TRUE /\ toLoad' = Half
  /\ current' = IF toStore = {} THEN {reading} ELSE {previous, reading}
  /\ overlapped' = (toStore # {})
  /\ UNCHANGED <<IMU_DATA, core1Vars, loaded, duty, previous>>

LoadHalf(h) ==
  /\ loading /\ h \in toLoad
  /\ loaded' = [loaded EXCEPT ![h] = IMU_DATA[h]]
  /\ toLoad' = toLoad \ {h}
  /\ UNCHANGED <<IMU_DATA, core1Vars, loading, duty, previous, current, overlapped>>

\* Integer division of Rust truncates towards zero.
Truncate(x, n) == IF x < 0 THEN -((-x) \div n) ELSE x \div n

\* A plausible bug: decode takes the halves the wrong way round.
BalanceDuty_Swapped(r) ==
  ClampTo(Truncate(r["roll"], MilliPerDegree), -MaxDuty, MaxDuty)

BalanceDuty(r) ==
  ClampTo(Truncate(r["pitch"], MilliPerDegree), -MaxDuty, MaxDuty)

\* decode, and balance_handler's duty for both motors
EndLoad ==
  /\ loading /\ toLoad = {}
  /\ loading' = FALSE
  /\ duty' = BalanceDuty(loaded)
  /\ loaded' = Flat /\ current' = {} /\ overlapped' = FALSE
  /\ UNCHANGED <<IMU_DATA, core1Vars, toLoad, previous>>

Core1 == ReadImu \/ (\E h \in Half : StoreHalf(h)) \/ Stored \/ Balance
Core0 == BeginLoad \/ (\E h \in Half : LoadHalf(h)) \/ EndLoad

Next == Core1 \/ Core0

Spec == Init /\ [][Next]_vars

-----------------------------------------------------------------------------
(* Properties *)

\* The values the variables range over; the accumulator never leaves its
\* anti-windup range, nor the output that of the PWM.
TypeOK ==
  /\ reading \in Readings \cup {Flat}
  /\ toStore \subseteq Half /\ toLoad \subseteq Half
  /\ pc \in {"read", "store", "balance"}
  /\ enabled \in BOOLEAN /\ loading \in BOOLEAN /\ overlapped \in BOOLEAN
  /\ pid \in [integral : -WindupLimit .. WindupLimit, prev_error : Int]
  /\ output \in -PID_OUT_MAX .. PID_OUT_MAX
  /\ duty \in -MaxDuty .. MaxDuty

\* The duty the guest asks for is that of one reading which was published, or
\* being published, during its call.  A torn word cannot reach the motors:
\* pitch and roll may come from two readings, the pitch alone cannot.
DutyIsCurrent ==
  [][EndLoad => \E r \in current :
       /\ loaded["pitch"] = r["pitch"]
       /\ duty' = ClampTo(Truncate(r["pitch"], MilliPerDegree), -MaxDuty, MaxDuty)]_vars

\* sensors.rs:11-14 promises the most recently completed write.  That holds of
\* the pair exactly as long as no store overlaps the load.
TornOnlyByOverlap ==
  loading /\ ~overlapped =>
    \A h \in Half \ toLoad : loaded[h] = reading[h]

\* However long the robot leaned to one side, once the errors to the other
\* side add up to the windup limit the accumulated ones no longer oppose them:
\* while the error does not shrink the output is at least proportional to it.
RecoversFromWindup ==
  /\ push >= WindupLimit /\ push > 0 /\ slope >= 0 =>
       output >= ClampTo(PID_KP * pid.prev_error, -PID_OUT_MAX, PID_OUT_MAX)
  /\ push <= -WindupLimit /\ push < 0 /\ slope <= 0 =>
       output <= ClampTo(PID_KP * pid.prev_error, -PID_OUT_MAX, PID_OUT_MAX)
=============================================================================
