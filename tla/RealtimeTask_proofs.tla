------------------------ MODULE RealtimeTask_proofs -------------------------
(***************************************************************************)
(* Theorems about RealtimeTask, for every set of commands and PID outputs  *)
(* within SpeedAssumption.                                                 *)
(***************************************************************************)
EXTENDS RealtimeTask, TLAPS

(* The packed motor command: store_motor_command followed by                *)
(* load_motor_command is the identity on pairs of i16.                      *)

LEMMA WordLimits == i16_MIN = -32768 /\ i16_MAX = 32767 /\ u16_MAX = 65535
BY DEF i16_MIN, i16_MAX, u16_MAX

LEMMA InI16 ==
  ASSUME NEW x \in Int
  PROVE  x \in I16 <=> -32768 <= x /\ x <= 32767
<1>1. i16_MIN \in Int /\ i16_MAX \in Int
  BY WordLimits
<1>2. x \in I16 <=> i16_MIN <= x /\ x <= i16_MAX
  BY <1>1 DEF I16
<1>3. QED
  BY <1>2, WordLimits

LEMMA InU16 ==
  ASSUME NEW x \in Int
  PROVE  x \in U16 <=> 0 <= x /\ x <= 65535
<1>1. u16_MAX \in Int
  BY WordLimits
<1>2. x \in U16 <=> 0 <= x /\ x <= u16_MAX
  BY <1>1 DEF U16
<1>3. QED
  BY <1>2, WordLimits

LEMMA AsI16High ==
  ASSUME NEW h \in Int, ~(h <= i16_MAX)
  PROVE  AsI16(h) = h - 65536
BY DEF AsI16

\* `x as u16 as i16` is x for every i16.
LEMMA HalfRoundTrip ==
  ASSUME NEW x \in I16
  PROVE  AsU16(x) \in U16 /\ AsI16(AsU16(x)) = x
<1>1. x \in Int /\ -32768 <= x /\ x <= 32767
  <2>1. x \in Int
    BY DEF I16
  <2>2. QED
    BY <2>1, InI16
<1>2. CASE x >= 0
  <2>1. AsU16(x) = x
    BY <1>1, <1>2 DEF AsU16
  <2>2. x \in U16
    BY <1>1, <1>2, InU16
  <2>3. x <= i16_MAX
    BY <1>1, WordLimits
  <2>4. QED
    BY <2>1, <2>2, <2>3 DEF AsI16
<1>3. CASE x < 0
  <2>1. AsU16(x) = x + 65536
    BY <1>1, <1>3 DEF AsU16
  <2>2. x + 65536 \in U16
    BY <1>1, <1>3, InU16
  <2>3. ~(x + 65536 <= i16_MAX)
    BY <1>1, WordLimits
  <2>4. AsI16(x + 65536) = (x + 65536) - 65536
    BY <1>1, <2>3, AsI16High
  <2>5. QED
    BY <1>1, <2>1, <2>2, <2>4
<1>4. QED
  BY <1>1, <1>2, <1>3

\* Packing a pair of i16 and unpacking the word gives the pair back
\* (store_motor_command against load_motor_command).
LEMMA UnpackPack ==
  ASSUME NEW l \in I16, NEW r \in I16
  PROVE  Pack(<<l, r>>) \in Word /\ Unpack(Pack(<<l, r>>)) = <<l, r>>
<1>1. /\ AsU16(l) \in U16 /\ AsI16(AsU16(l)) = l
      /\ AsU16(r) \in U16 /\ AsI16(AsU16(r)) = r
  BY HalfRoundTrip
<1>2. QED
  BY <1>1 DEF Pack, Unpack, Word

-----------------------------------------------------------------------------
(* Commands and sums                                                        *)

LEMMA PairFacts ==
  ASSUME NEW S, NEW c \in S \X S
  PROVE  c = <<c[1], c[2]>> /\ c[1] \in S /\ c[2] \in S /\ c # <<>>
OBVIOUS

\* (0, 0) is a command, a pair of i16, and packs to a word.
LEMMA StopFacts ==
  Stop \in Commanded /\ Stop \in I16 \X I16 /\ Pack(Stop) \in Word
<1>1. 0 \in I16
  BY InI16
<1>2. Stop \in Commanded
  BY DEF Commanded
<1>3. Stop \in I16 \X I16
  BY <1>1 DEF Stop
<1>4. Pack(Stop) \in Word
  BY <1>1, UnpackPack DEF Stop
<1>5. QED
  BY <1>2, <1>3, <1>4

\* Every command Core 0 can store is a pair of i16 of bounded size.
LEMMA CommandedBounds ==
  ASSUME NEW c \in Commanded
  PROVE  /\ c = <<c[1], c[2]>>
         /\ c[1] \in -MaxSpeed .. MaxSpeed /\ c[2] \in -MaxSpeed .. MaxSpeed
         /\ c[1] \in I16 /\ c[2] \in I16
         /\ c # NotStoring
<1> DEFINE Range == -MaxSpeed .. MaxSpeed
<1>1. c \in Range \X Range
  BY SpeedAssumption DEF Commanded, Stop
<1>2. c = <<c[1], c[2]>> /\ c[1] \in Range /\ c[2] \in Range /\ c # NotStoring
  BY <1>1, PairFacts DEF NotStoring
<1>3. ASSUME NEW x \in Range PROVE x \in I16
  <2>1. x \in Int /\ -32767 <= x /\ x <= 32767
    BY SpeedAssumption, WordLimits
  <2>2. QED
    BY <2>1, InI16
<1>4. QED
  BY <1>2, <1>3

\* A PID output plus a command never leaves i16: clamp_i16 never clamps, and
\* nothing else bounds the duty (core1/mod.rs:114-119).
THEOREM BlendIsSum ==
  ASSUME NEW b \in PidOutput \cup {0}, NEW c \in Commanded
  PROVE  /\ Blend(b, c) = <<b + c[1], b + c[2]>>
         /\ Blend(b, c) \in I16 \X I16
<1>1. /\ b \in -PidMax .. PidMax
      /\ c[1] \in -MaxSpeed .. MaxSpeed /\ c[2] \in -MaxSpeed .. MaxSpeed
  BY CommandedBounds, SpeedAssumption
<1>2. ASSUME NEW s \in -MaxSpeed .. MaxSpeed
      PROVE  b + s \in I16 /\ Clamp(b + s) = b + s
  <2>1. b + s \in Int /\ -32767 <= b + s /\ b + s <= 32767
    BY <1>1, SpeedAssumption, WordLimits
  <2>2. ~(b + s < i16_MIN) /\ ~(b + s > i16_MAX)
    BY <2>1, WordLimits
  <2>3. QED
    BY <2>1, <2>2, InI16 DEF Clamp
<1>3. QED
  BY <1>1, <1>2 DEF Blend

\* The command word is the packing of one command of Core 0.
WordOK == \E c \in Commanded : MOTOR_COMMAND = Pack(c)

\* What the two cores rely on: only Core 1 disables, and never between its
\* check of the flag and its load of the command.
IInv ==
  /\ TypeOK
  /\ WordOK
  /\ Disabled => pc # "load"
  /\ pc = "zero" => Disabled
  /\ CutAfterLockout

LEMMA InitIInv == Init => IInv
<1> SUFFICES ASSUME Init PROVE IInv
  OBVIOUS
<1>1. TypeOK /\ WordOK
  BY StopFacts DEF Init, MotorsInit, TypeOK, WordOK, Step
<1>2. QED
  BY <1>1 DEF Init, MotorsInit, IInv, CutAfterLockout, Disabled

\* One step of Core 1 keeps the invariant.
LEMMA Core1Step == IInv /\ Core1 => IInv'
<1> SUFFICES ASSUME IInv, Core1 PROVE IInv'
  OBVIOUS
<1> USE DEF IInv, Goto, motorVars
<1>1. CASE Sense
  BY <1>1 DEF Sense, TypeOK, WordOK, Step, Disabled, CutAfterLockout
<1>2. CASE Disable
  BY <1>2 DEF Disable, DisableMotors, TypeOK, WordOK, Step, Disabled,
     CutAfterLockout
<1>3. CASE Zero
  <2>2. WordOK' /\ TypeOK'
    BY <1>3, StopFacts DEF Zero, ZeroCommand, TypeOK, WordOK, Step
  <2>3. QED
    BY <1>3, <2>2 DEF Zero, ZeroCommand, Disabled, CutAfterLockout
<1>4. CASE Check
  <2>1. TypeOK' /\ WordOK'
    BY <1>4 DEF Check, TypeOK, WordOK, Step
  <2>2. (Disabled => pc # "load")' /\ (pc = "zero" => Disabled)'
    BY <1>4 DEF Check, Disabled
  <2>3. CutAfterLockout'
    BY <1>4 DEF Check, CutAfterLockout
  <2>4. QED
    BY <2>1, <2>2, <2>3
<1>5. CASE Load
  <2>1. PICK c \in Commanded : MOTOR_COMMAND = Pack(c)
    BY DEF WordOK
  <2>2. Unpack(MOTOR_COMMAND) = c
    BY <2>1, CommandedBounds, UnpackPack
  <2>3. balance \in PidOutput \cup {0}
    BY DEF TypeOK
  <2>4. pwm' = <<balance + c[1], balance + c[2]>> /\ pwm' \in I16 \X I16
    BY <1>5, <2>2, <2>3, BlendIsSum DEF Load
  <2>5. TypeOK' /\ WordOK'
    BY <1>5, <2>4 DEF Load, TypeOK, WordOK, Step
  <2>6. QED
    BY <1>5, <2>5 DEF Load, Disabled, CutAfterLockout
<1>6. CASE Cut
  BY <1>6, StopFacts DEF Cut, TypeOK, WordOK, Step, Disabled, CutAfterLockout
<1>7. CASE Tick
  BY <1>7 DEF Tick, TypeOK, WordOK, Step, Disabled, CutAfterLockout
<1>8. QED
  BY <1>1, <1>2, <1>3, <1>4, <1>5, <1>6, <1>7 DEF Core1

\* One access of Core 0 keeps the invariant: it never writes the flag, and it
\* stores the packing of a command.
LEMMA Core0Step == IInv /\ Core0 => IInv'
<1> SUFFICES ASSUME IInv, Core0 PROVE IInv'
  OBVIOUS
<1> USE DEF IInv, core1Vars
<1>1. ASSUME NEW c \in Command \cup {Stop}, CheckEnabled(c)
      PROVE  IInv'
  BY <1>1 DEF Core0, CheckEnabled, TypeOK, WordOK, Commanded, Disabled,
     CutAfterLockout
<1>2. CASE StoreCommand
  <2>1. storing \in Commanded
    BY <1>2 DEF StoreCommand, TypeOK
  <2>2. Pack(storing) \in Word
    BY <2>1, CommandedBounds, UnpackPack
  <2>3. TypeOK' /\ WordOK'
    BY <1>2, <2>1, <2>2 DEF Core0, StoreCommand, TypeOK, WordOK
  <2>4. QED
    BY <1>2, <2>3 DEF Core0, StoreCommand, Disabled, CutAfterLockout
<1>3. QED
  BY <1>1, <1>2 DEF Core0

LEMMA NextIInv == IInv /\ [Next]_vars => IInv'
<1> SUFFICES ASSUME IInv, [Next]_vars PROVE IInv'
  OBVIOUS
<1>1. CASE UlpSample
  BY <1>1 DEF UlpSample, IInv, TypeOK, WordOK, motorVars, core1Vars, Disabled,
     CutAfterLockout
<1>2. CASE UNCHANGED vars
  BY <1>2 DEF vars, IInv, TypeOK, WordOK, motorVars, core1Vars, Disabled,
     CutAfterLockout
<1>3. QED
  BY <1>1, <1>2, Core1Step, Core0Step DEF Next

THEOREM Invariance == Spec => []IInv
BY InitIInv, NextIInv, PTL DEF Spec

\* Every variable of the two cores stays in its range.
THEOREM TypeCorrect == Spec => []TypeOK
<1>1. IInv => TypeOK
  BY DEF IInv
<1>2. QED
  BY <1>1, Invariance, PTL

\* Once Core 1 has disabled the motors every tick ends with the PWM at zero,
\* whatever Core 0 stores and whenever it does.
THEOREM LockoutSafety == Spec => []CutAfterLockout
<1>1. IInv => CutAfterLockout
  BY DEF IInv
<1>2. QED
  BY <1>1, Invariance, PTL

\* A disabled, drained bridge with a zero command stays so for ever.
THEOREM QuietStays == Spec => QuietIsForever
<1>1. IInv /\ [Next]_vars => [Quiet => Quiet']_vars
  <2> SUFFICES ASSUME IInv, Next, Quiet PROVE Quiet'
    OBVIOUS
  <2> USE DEF Quiet, Disabled, motorVars, core1Vars
  <2>1. CASE Core1
    BY <2>1 DEF Core1, Sense, Disable, DisableMotors, Zero, ZeroCommand, Check,
       Load, Cut, Tick
  <2>2. CASE Core0
    BY <2>2 DEF Core0, CheckEnabled, StoreCommand
  <2>3. CASE UlpSample
    BY <2>3 DEF UlpSample
  <2>4. QED
    BY <2>1, <2>2, <2>3 DEF Next
<1>2. QED
  BY <1>1, Invariance, PTL DEF Spec, QuietIsForever

\* realtime_task with its racing neighbours implements SafeMotor: every step
\* is a drive of an uncut motor, a cut that zeroes the duty, or a stutter.
THEOREM ImplementsSafeMotor == Spec => SafeMotorSpec
<1> USE DEF Abstract!Still, Stop
<1>1. Init => Abstract!Init
  BY DEF Init, MotorsInit, Abstract!Init, Disabled
<1>2. IInv /\ IInv' /\ [Next]_vars => [Abstract!Next]_<<Disabled /\ pwm = Stop, pwm>>
  <2> SUFFICES ASSUME IInv, IInv', [Next]_vars
               PROVE  [Abstract!Next]_<<Disabled /\ pwm = Stop, pwm>>
    OBVIOUS
  <2> USE DEF Disabled, motorVars, core1Vars, Goto,
          Abstract!Next, Abstract!Drive, Abstract!Cut
  <2>1. CASE Disable
    BY <2>1 DEF Disable, DisableMotors
  <2>2. CASE Load
    <3>1. MOTOR_ENABLED # 0 /\ MOTOR_ENABLED' # 0
      BY <2>2 DEF Load, IInv
    <3>2. pwm' \in I16 \X I16
      BY DEF IInv, TypeOK
    <3>3. QED
      BY <3>1, <3>2
  <2>3. CASE Cut
    <3>1. CASE MOTOR_ENABLED = 0
      BY <2>3, <3>1 DEF Cut
    <3>2. CASE MOTOR_ENABLED # 0
      BY <2>3, <3>2, StopFacts DEF Cut
    <3>3. QED
      BY <3>1, <3>2
  <2>4. CASE Sense \/ Zero \/ Check \/ Tick \/ UlpSample
    BY <2>4 DEF Sense, Zero, ZeroCommand, Check, Tick, UlpSample
  <2>5. CASE Core0
    BY <2>5 DEF Core0, CheckEnabled, StoreCommand
  <2>6. CASE UNCHANGED vars
    BY <2>6 DEF vars
  <2>7. QED
    BY <2>1, <2>2, <2>3, <2>4, <2>5, <2>6 DEF Next, Core1
<1>3. QED
  BY <1>1, <1>2, Invariance, PTL DEF Spec, SafeMotorSpec, Abstract!Spec
=============================================================================
