------------------------------- MODULE Motors -------------------------------
(***************************************************************************)
(* firmware/src/motors.rs: the two atomics Core 0 and Core 1 share.        *)
(*                                                                         *)
(* One action is one atomic access.  store_motor_command is a load of      *)
(* MOTOR_ENABLED followed by a store of MOTOR_COMMAND, set_motor_enabled   *)
(* is a store of MOTOR_ENABLED followed by a store of MOTOR_COMMAND: the   *)
(* other core may act between the two.  A packed u32 command is the record *)
(* of its two u16 halves.                                                  *)
(***************************************************************************)
EXTENDS Integers

VARIABLES
  MOTOR_ENABLED,   \* AtomicU8: 1 enabled, 0 disabled
  MOTOR_COMMAND,   \* AtomicU32, as its halves [hi, lo]
  storing          \* Core 0 inside store_motor_command: the command whose
                   \* enable check has passed, or NotStoring

motorVars == <<MOTOR_ENABLED, MOTOR_COMMAND, storing>>

i16_MIN == -32768
i16_MAX == 32767
u16_MAX == 65535

U16 == 0 .. u16_MAX
I16 == i16_MIN .. i16_MAX

\* A plausible bug: `x as u32` keeps the sign bits of a half.
AsU16_SignExtended(x) == x

\* `x as u16` and `h as i16`.
AsU16(x) == x % 65536
AsI16(h) == IF h <= i16_MAX THEN h ELSE h - 65536

Word == [hi : U16, lo : U16]
Pack(c)   == [hi |-> AsU16(c[1]), lo |-> AsU16(c[2])]

Unpack(w) == <<AsI16(w.hi), AsI16(w.lo)>>

Stop == <<0, 0>>
NotStoring == <<>>

MotorsInit ==
  /\ MOTOR_ENABLED = 1
  /\ MOTOR_COMMAND = Pack(Stop)
  /\ storing = NotStoring

(***************************************************************************)
(* store_motor_command(left, right), on Core 0.  Only router_task calls it *)
(* and Core 0 runs one task at a time, so one call is in flight at most.   *)
(***************************************************************************)
\* A plausible bug: the command is stored without looking at the flag.
CheckEnabled_Ignored(c) ==
  /\ storing = NotStoring
  /\ storing' = c
  /\ UNCHANGED <<MOTOR_ENABLED, MOTOR_COMMAND>>

\* Load MOTOR_ENABLED: 0 returns false and the command is dropped.
CheckEnabled(c) ==
  /\ storing = NotStoring
  /\ storing' = IF MOTOR_ENABLED = 0 THEN NotStoring ELSE c
  /\ UNCHANGED <<MOTOR_ENABLED, MOTOR_COMMAND>>

\* Store the packed command.
StoreCommand ==
  /\ storing # NotStoring
  /\ MOTOR_COMMAND' = Pack(storing)
  /\ storing' = NotStoring
  /\ UNCHANGED MOTOR_ENABLED

(***************************************************************************)
(* set_motor_enabled(false), on Core 1.                                    *)
(***************************************************************************)
DisableMotors ==
  /\ MOTOR_ENABLED' = 0
  /\ UNCHANGED <<MOTOR_COMMAND, storing>>

\* A plausible bug: the command survives the lock-out.
ZeroCommand_Skipped == UNCHANGED motorVars

ZeroCommand ==
  /\ MOTOR_COMMAND' = Pack(Stop)
  /\ UNCHANGED <<MOTOR_ENABLED, storing>>
=============================================================================
