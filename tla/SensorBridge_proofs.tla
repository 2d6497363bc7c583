------------------------- MODULE SensorBridge_proofs -------------------------
(***************************************************************************)
(* Theorems about SensorBridge, for every set of readings and all gains    *)
(* within GainAssumption.                                                  *)
(***************************************************************************)
EXTENDS SensorBridge, TLAPS

-----------------------------------------------------------------------------
(* Arithmetic *)

LEMMA ClampFacts ==
  ASSUME NEW v \in Int, NEW lo \in Int, NEW hi \in Int, lo <= hi
  PROVE  /\ ClampTo(v, lo, hi) \in Int
         /\ lo <= ClampTo(v, lo, hi) /\ ClampTo(v, lo, hi) <= hi
         /\ v <= hi => v <= ClampTo(v, lo, hi)
         /\ lo <= v => ClampTo(v, lo, hi) <= v
BY DEF ClampTo

LEMMA ClampMonotone ==
  ASSUME NEW u \in Int, NEW v \in Int, u <= v, NEW lo \in Int, NEW hi \in Int, lo <= hi
  PROVE  ClampTo(u, lo, hi) <= ClampTo(v, lo, hi)
BY DEF ClampTo

LEMMA GainTimes ==
  ASSUME NEW k \in Nat, NEW x \in Int
  PROVE  /\ k * x \in Int
         /\ x >= 0 => k * x >= 0
         /\ x <= 0 => k * x <= 0
BY SMT

LEMMA OppositeSigns ==
  ASSUME NEW x \in Int, NEW y \in Int
  PROVE  x * y < 0 <=> \/ x > 0 /\ y < 0
                       \/ x < 0 /\ y > 0
BY SMT

LEMMA LimitReached ==
  ASSUME NEW w \in Nat, NEW j \in Int, NEW p \in Int
  PROVE  /\ p >= w /\ (j >= w \/ j >= p - w) => j >= 0
         /\ p <= -w /\ (j <= -w \/ j <= p + w) => j <= 0
OBVIOUS

LEMMA WindupLimitNat == WindupLimit \in Nat
BY GainAssumption DEF WindupLimit

-----------------------------------------------------------------------------
(* The word and its two users *)

Pair == [Half -> Int]

Typed ==
  /\ reading \in Pair /\ previous \in Pair /\ IMU_DATA \in Pair /\ loaded \in Pair
  /\ toStore \subseteq Half /\ toLoad \subseteq Half
  /\ pc \in {"read", "store", "balance"}
  /\ loading \in BOOLEAN /\ overlapped \in BOOLEAN

\* What a half of the word holds: this tick's reading once it is stored, the
\* one before it until then.
WordFollowsStore ==
  /\ pc # "store" => toStore = {}
  /\ \A h \in Half : IMU_DATA[h] = IF h \in toStore THEN previous[h] ELSE reading[h]

\* What a load can meet, and what it has met
LoadSeesCurrent ==
  loading =>
    /\ ~overlapped => toStore = {}
    /\ reading \in current
    /\ toStore # {} => previous \in current
    /\ \A h \in Half \ toLoad : \E r \in current : loaded[h] = r[h]

BridgeInv == Typed /\ WordFollowsStore /\ LoadSeesCurrent /\ TornOnlyByOverlap

LEMMA ReadingFacts == Readings \subseteq Pair /\ Flat \in Pair
BY SensorAssumption DEF Pair, Flat

LEMMA InitBridge == Init => BridgeInv
BY ReadingFacts DEF Init, BridgeInv, Typed, WordFollowsStore, LoadSeesCurrent,
   TornOnlyByOverlap, Flat

LEMMA NextBridge == BridgeInv /\ [Next]_vars => BridgeInv'
<1> SUFFICES ASSUME BridgeInv, [Next]_vars PROVE BridgeInv'
  OBVIOUS
<1> USE DEF BridgeInv, Typed
<1>1. CASE ReadImu
  <2>1. PICK r \in Readings :
          /\ reading' = r
          /\ BeginStore(r)
          /\ current' = IF loading THEN current \cup {r} ELSE {}
    BY <1>1 DEF ReadImu
  <2>2. /\ toStore' = Half /\ previous' = reading /\ pc' = "store" /\ toStore = {}
        /\ overlapped' = loading
        /\ UNCHANGED <<IMU_DATA, toLoad, loaded, loading>>
    BY <1>1, <2>1 DEF ReadImu, BeginStore, core0Vars, WordFollowsStore
  <2>3. Typed'
    BY <2>1, <2>2, ReadingFacts
  <2>4. WordFollowsStore'
    BY <2>2 DEF WordFollowsStore
  <2>5. LoadSeesCurrent' /\ TornOnlyByOverlap'
    BY <2>1, <2>2 DEF LoadSeesCurrent, TornOnlyByOverlap
  <2>6. QED
    BY <2>3, <2>4, <2>5
<1>2. ASSUME NEW h \in Half, StoreHalf(h) PROVE BridgeInv'
  <2>1. /\ pc = "store" /\ h \in toStore
        /\ IMU_DATA' = [IMU_DATA EXCEPT ![h] = reading[h]]
        /\ toStore' = toStore \ {h}
        /\ UNCHANGED <<reading, previous, pc, toLoad, loaded, loading, current, overlapped>>
    BY <1>2 DEF StoreHalf, core0Vars
  <2>2. Typed'
    BY <2>1 DEF Pair
  <2>3. WordFollowsStore'
    BY <2>1 DEF WordFollowsStore, Pair
  <2>4. LoadSeesCurrent' /\ TornOnlyByOverlap'
    BY <2>1 DEF LoadSeesCurrent, TornOnlyByOverlap
  <2>5. QED
    BY <2>2, <2>3, <2>4
<1>3. CASE Stored \/ Balance
  <2>1. /\ toStore = {} /\ pc' \in {"read", "balance"}
        /\ UNCHANGED <<IMU_DATA, reading, toStore, previous, toLoad, loaded, loading,
                       current, overlapped>>
    BY <1>3 DEF Stored, Balance, core0Vars, WordFollowsStore
  <2>2. QED
    BY <2>1 DEF WordFollowsStore, LoadSeesCurrent, TornOnlyByOverlap
<1>4. CASE BeginLoad
  <2>1. /\ loading' = TRUE /\ toLoad' = Half
        /\ current' = IF toStore = {} THEN {reading} ELSE {previous, reading}
        /\ overlapped' = (toStore # {})
        /\ UNCHANGED <<IMU_DATA, reading, toStore, pc, previous, loaded>>
    BY <1>4 DEF BeginLoad, core1Vars
  <2>2. QED
    BY <2>1 DEF WordFollowsStore, LoadSeesCurrent, TornOnlyByOverlap
<1>5. ASSUME NEW h \in Half, LoadHalf(h) PROVE BridgeInv'
  <2>1. /\ loading /\ h \in toLoad
        /\ loaded' = [loaded EXCEPT ![h] = IMU_DATA[h]]
        /\ toLoad' = toLoad \ {h}
        /\ UNCHANGED <<IMU_DATA, reading, toStore, pc, previous, loading, current, overlapped>>
    BY <1>5 DEF LoadHalf, core1Vars
  <2>2. Typed' /\ WordFollowsStore'
    BY <2>1 DEF WordFollowsStore, Pair
  <2>3. \E r \in current : IMU_DATA[h] = r[h]
    BY <2>1 DEF WordFollowsStore, LoadSeesCurrent
  <2>4. LoadSeesCurrent'
    BY <2>1, <2>3 DEF LoadSeesCurrent, Pair
  <2>5. TornOnlyByOverlap'
    BY <2>1 DEF WordFollowsStore, LoadSeesCurrent, TornOnlyByOverlap, Pair
  <2>6. QED
    BY <2>2, <2>4, <2>5
<1>6. CASE EndLoad
  <2>1. /\ loading' = FALSE /\ loaded' = Flat /\ overlapped' = FALSE
        /\ UNCHANGED <<IMU_DATA, reading, toStore, pc, previous, toLoad>>
    BY <1>6 DEF EndLoad, core1Vars
  <2>2. QED
    BY <2>1, ReadingFacts DEF WordFollowsStore, LoadSeesCurrent, TornOnlyByOverlap
<1>7. CASE UNCHANGED vars
  BY <1>7 DEF vars, core1Vars, core0Vars, WordFollowsStore, LoadSeesCurrent,
     TornOnlyByOverlap
<1>8. QED
  BY <1>1, <1>2, <1>3, <1>4, <1>5, <1>6, <1>7 DEF Next, Core1, Core0

THEOREM BridgeInvariance == Spec => []BridgeInv
BY InitBridge, NextBridge, PTL DEF Spec

\* A pair can be torn by a store that overlaps its load, and by nothing else.
THEOREM TornOnlyThen == Spec => []TornOnlyByOverlap
<1>1. BridgeInv => TornOnlyByOverlap
  BY DEF BridgeInv
<1>2. QED
  BY <1>1, BridgeInvariance, PTL

\* The guest's duty is that of the pitch of one reading published, or being
\* published, during its call, whatever the order of the half accesses.
THEOREM DutyFollowsReading == Spec => DutyIsCurrent
<1> DEFINE A == EndLoad => \E r \in current :
                  /\ loaded["pitch"] = r["pitch"]
                  /\ duty' = ClampTo(Truncate(r["pitch"], MilliPerDegree), -MaxDuty, MaxDuty)
<1>1. BridgeInv => A
  <2> SUFFICES ASSUME BridgeInv, EndLoad
               PROVE  \E r \in current :
                  /\ loaded["pitch"] = r["pitch"]
                  /\ duty' = ClampTo(Truncate(r["pitch"], MilliPerDegree), -MaxDuty, MaxDuty)
    OBVIOUS
  <2>1. loading /\ toLoad = {} /\ duty' = BalanceDuty(loaded)
    BY DEF EndLoad
  <2>2. \A h \in Half \ toLoad : \E r \in current : loaded[h] = r[h]
    BY <2>1 DEF BridgeInv, LoadSeesCurrent
  <2>3. PICK r \in current : loaded["pitch"] = r["pitch"]
    BY <2>1, <2>2 DEF Half
  <2>4. QED
    BY <2>1, <2>3 DEF BalanceDuty
<1>2. BridgeInv /\ [Next]_vars => [A]_vars
  BY <1>1
<1>3. QED
  BY <1>2, BridgeInvariance, PTL DEF Spec, DutyIsCurrent

-----------------------------------------------------------------------------
(* The controller *)

\* Sums of the errors of one sign since the last of the other one against
\* the accumulator: what the limit does not cut off has been taken over.
PushIntegrated ==
  /\ push > 0 => pid.integral >= WindupLimit \/ pid.integral >= push - WindupLimit
  /\ push < 0 => pid.integral <= -WindupLimit \/ pid.integral <= push + WindupLimit

ControlTyped ==
  /\ enabled \in BOOLEAN
  /\ pid \in [integral : Int, prev_error : Int]
  /\ -WindupLimit <= pid.integral /\ pid.integral <= WindupLimit
  /\ push \in Int /\ slope \in Int
  /\ output \in Int /\ -PID_OUT_MAX <= output /\ output <= PID_OUT_MAX
  /\ duty \in Int /\ -MaxDuty <= duty /\ duty <= MaxDuty

ControlInv ==
  /\ ControlTyped
  /\ ~enabled => push = 0
  /\ PushIntegrated
  /\ RecoversFromWindup

\* The accumulator of a controller within its range follows the push.
LEMMA IntegrateFollows ==
  ASSUME ControlInv, NEW error \in Int, Pushed(error), pid' = Updated(pid, error)
  PROVE  /\ pid' \in [integral : Int, prev_error : Int]
         /\ -WindupLimit <= pid'.integral /\ pid'.integral <= WindupLimit
         /\ push' \in Int /\ slope' \in Int
         /\ PushIntegrated'
<1> DEFINE W == WindupLimit
           I == pid.integral
           J == ClampTo(I + error, -W, W)
<1>1. W \in Nat /\ I \in Int /\ -W <= I /\ I <= W /\ push \in Int
  BY WindupLimitNat DEF ControlInv, ControlTyped
<1>2. pid' = [integral |-> J, prev_error |-> error]
  BY DEF Updated, Integrate
<1>3. J \in Int /\ -W <= J /\ J <= W
  <2> HIDE DEF W, I
  <2>1. QED
    BY <1>1 DEF ClampTo
<1>4. push * error < 0 <=> \/ push > 0 /\ error < 0
                           \/ push < 0 /\ error > 0
  BY <1>1, OppositeSigns
<1>5. push' = ClampTo(IF push * error < 0 THEN error ELSE push + error, -2 * W, 2 * W)
  BY DEF Pushed
<1>6. push' \in Int
  <2> HIDE DEF W
  <2>1. QED
    BY <1>1, <1>5 DEF ClampTo
<1>7. slope' \in Int
  <2>1. error - pid.prev_error \in Int
    BY DEF ControlInv, ControlTyped
  <2>2. QED
    BY <2>1 DEF Pushed, ClampTo
<1>8. (push > 0 => I >= W \/ I >= push - W) /\ (push < 0 => I <= -W \/ I <= push + W)
  BY DEF ControlInv, PushIntegrated
<1>9. (push' > 0 => J >= W \/ J >= push' - W) /\ (push' < 0 => J <= -W \/ J <= push' + W)
  <2> HIDE DEF W, I
  <2>1. CASE push * error < 0
    <3>1. push' = ClampTo(error, -2 * W, 2 * W)
      BY <1>5, <2>1
    <3>2. QED
      BY <1>1, <1>4, <2>1, <3>1 DEF ClampTo
  <2>2. CASE ~(push * error < 0)
    <3>1. push' = ClampTo(push + error, -2 * W, 2 * W)
      BY <1>5, <2>2
    <3>2. QED
      BY <1>1, <1>4, <1>8, <2>2, <3>1 DEF ClampTo
  <2>3. QED
    BY <2>1, <2>2
<1>10. QED
  BY <1>2, <1>3, <1>6, <1>7, <1>9 DEF PushIntegrated

\* With an accumulator and a derivative that do not oppose the error, the
\* correction is at least, or at most, proportional to it.
LEMMA CorrectionAtLeast ==
  ASSUME NEW p \in [integral : Int, prev_error : Int], NEW error \in Int,
         Integrate(p, error) \in Int
  PROVE  /\ Correction(p, error) \in Int
         /\ -PID_OUT_MAX <= Correction(p, error) /\ Correction(p, error) <= PID_OUT_MAX
         /\ Integrate(p, error) >= 0 /\ error >= p.prev_error =>
              Correction(p, error) >= ClampTo(PID_KP * error, -PID_OUT_MAX, PID_OUT_MAX)
         /\ Integrate(p, error) <= 0 /\ error <= p.prev_error =>
              Correction(p, error) <= ClampTo(PID_KP * error, -PID_OUT_MAX, PID_OUT_MAX)
<1> DEFINE J == Integrate(p, error)
           d == error - p.prev_error
           P == PID_KP * error
           Q == PID_KI * J
           D == PID_KD * d
<1>1. J \in Int /\ d \in Int
  OBVIOUS
<1>2. /\ P \in Int /\ Q \in Int /\ D \in Int
      /\ (J >= 0 => Q >= 0) /\ (J <= 0 => Q <= 0)
      /\ (d >= 0 => D >= 0) /\ (d <= 0 => D <= 0)
  <2>1. PID_KP \in Nat /\ PID_KI \in Nat /\ PID_KD \in Nat
    BY GainAssumption
  <2> HIDE DEF J, d
  <2>2. QED
    BY <1>1, <2>1, GainTimes
<1>3. Correction(p, error) = ClampTo(P + Q + D, -PID_OUT_MAX, PID_OUT_MAX)
  BY DEF Correction
<1>4. -PID_OUT_MAX \in Int /\ PID_OUT_MAX \in Int /\ -PID_OUT_MAX <= PID_OUT_MAX
  BY GainAssumption
<1>5. /\ error >= p.prev_error => d >= 0
      /\ error <= p.prev_error => d <= 0
  OBVIOUS
<1> HIDE DEF P, Q, D, J, d
<1>6. P + Q + D \in Int
  BY <1>2
<1>7. ASSUME J >= 0, d >= 0
      PROVE  Correction(p, error) >= ClampTo(P, -PID_OUT_MAX, PID_OUT_MAX)
  <2>1. P <= P + Q + D
    BY <1>2, <1>7
  <2>2. ClampTo(P, -PID_OUT_MAX, PID_OUT_MAX) <= ClampTo(P + Q + D, -PID_OUT_MAX, PID_OUT_MAX)
    BY <1>2, <1>4, <1>6, <2>1, ClampMonotone
  <2>3. QED
    BY <1>2, <1>3, <1>4, <1>6, <2>2, ClampFacts
<1>8. ASSUME J <= 0, d <= 0
      PROVE  Correction(p, error) <= ClampTo(P, -PID_OUT_MAX, PID_OUT_MAX)
  <2>1. P + Q + D <= P
    BY <1>2, <1>8
  <2>2. QED
    BY <1>2, <1>3, <1>4, <1>6, <2>1, ClampMonotone
<1>9. /\ Correction(p, error) \in Int
      /\ -PID_OUT_MAX <= Correction(p, error) /\ Correction(p, error) <= PID_OUT_MAX
  BY <1>3, <1>4, <1>6, ClampFacts
<1>10. QED
  BY <1>5, <1>7, <1>8, <1>9 DEF J, P

LEMMA InitControl == Init => ControlInv
<1> SUFFICES ASSUME Init PROVE ControlInv
  OBVIOUS
<1>1. ControlTyped
  BY WindupLimitNat, GainAssumption, SensorAssumption DEF Init, ControlTyped, NewPid
<1>2. QED
  BY <1>1, WindupLimitNat DEF Init, ControlInv, PushIntegrated, RecoversFromWindup

LEMMA DutyInRange ==
  ASSUME NEW r \in Pair
  PROVE  /\ BalanceDuty(r) \in Int
         /\ -MaxDuty <= BalanceDuty(r) /\ BalanceDuty(r) <= MaxDuty
<1>1. r["pitch"] \in Int
  BY DEF Pair, Half
<1>2. MilliPerDegree \in Nat \ {0} /\ MaxDuty \in Nat
  BY SensorAssumption
<1>3. Truncate(r["pitch"], MilliPerDegree) \in Int
  BY <1>1, <1>2 DEF Truncate
<1>4. QED
  BY <1>2, <1>3 DEF BalanceDuty, ClampTo

LEMMA NextControl == Typed /\ ControlInv /\ [Next]_vars => ControlInv'
<1> SUFFICES ASSUME Typed, ControlInv, [Next]_vars PROVE ControlInv'
  OBVIOUS
<1> USE DEF ControlInv
<1>1. CASE Balance
  <2>1. duty' = duty
    BY <1>1 DEF Balance, core0Vars
  <2>2. CASE LockOut
    <3>1. /\ enabled' = FALSE /\ output' = 0 /\ push' = 0 /\ slope' = 0
          /\ pid' = [integral |-> 0, prev_error |-> 0]
      BY <2>2 DEF LockOut, NewPid
    <3>2. pid' \in [integral : Int, prev_error : Int] /\ pid'.integral = 0
      BY <3>1
    <3>3. -WindupLimit <= 0 /\ 0 <= WindupLimit /\ -PID_OUT_MAX <= 0 /\ 0 <= PID_OUT_MAX
      BY WindupLimitNat, GainAssumption
    <3>4. ControlTyped'
      BY <2>1, <3>1, <3>2, <3>3 DEF ControlTyped
    <3>5. QED
      BY <3>1, <3>4, WindupLimitNat DEF PushIntegrated, RecoversFromWindup
  <2>3. CASE PidUpdate
    <3> DEFINE error == 0 - reading["pitch"]
               J == Integrate(pid, error)
    <3>1. error \in Int
      BY DEF Typed, Pair, Half
    <3>2. /\ enabled /\ enabled' = enabled
          /\ pid' = Updated(pid, error) /\ output' = Correction(pid, error) /\ Pushed(error)
      BY <2>3 DEF PidUpdate
    <3> HIDE DEF error
    <3>3. /\ pid' \in [integral : Int, prev_error : Int]
          /\ -WindupLimit <= pid'.integral /\ pid'.integral <= WindupLimit
          /\ push' \in Int /\ slope' \in Int
          /\ PushIntegrated'
      BY <3>1, <3>2, IntegrateFollows
    <3>4. pid'.integral = J /\ pid'.prev_error = error
      BY <3>2 DEF Updated
    <3>5. J \in Int /\ pid \in [integral : Int, prev_error : Int]
      BY <3>3, <3>4 DEF ControlTyped
    <3>6. /\ output' \in Int /\ -PID_OUT_MAX <= output' /\ output' <= PID_OUT_MAX
          /\ J >= 0 /\ error >= pid.prev_error =>
               output' >= ClampTo(PID_KP * error, -PID_OUT_MAX, PID_OUT_MAX)
          /\ J <= 0 /\ error <= pid.prev_error =>
               output' <= ClampTo(PID_KP * error, -PID_OUT_MAX, PID_OUT_MAX)
      BY <3>1, <3>2, <3>5, CorrectionAtLeast
    <3> HIDE DEF J
    <3>7. ControlTyped'
      BY <2>1, <3>2, <3>3, <3>6 DEF ControlTyped
    <3>8. /\ slope' >= 0 => error >= pid.prev_error
          /\ slope' <= 0 => error <= pid.prev_error
      BY <3>1, <3>2, <3>5 DEF Pushed, ClampTo
    <3>9. /\ push' >= WindupLimit /\ push' > 0 => J >= 0
          /\ push' <= -WindupLimit /\ push' < 0 => J <= 0
      BY <3>3, <3>4, <3>5, WindupLimitNat, LimitReached DEF PushIntegrated
    <3>10. RecoversFromWindup'
      BY <3>4, <3>6, <3>8, <3>9 DEF RecoversFromWindup
    <3>11. QED
      BY <3>2, <3>3, <3>7, <3>10
  <2>4. CASE Cut
    <3>1. /\ ~enabled /\ output' = 0 /\ UNCHANGED <<enabled, pid, push, slope>>
      BY <2>4 DEF Cut
    <3>2. ControlTyped'
      BY <2>1, <3>1, GainAssumption DEF ControlTyped
    <3>3. QED
      BY <3>1, <3>2 DEF PushIntegrated, RecoversFromWindup
  <2>5. QED
    BY <1>1, <2>2, <2>3, <2>4 DEF Balance
<1>2. CASE EndLoad
  <2>1. UNCHANGED core1Vars /\ duty' = BalanceDuty(loaded)
    BY <1>2 DEF EndLoad
  <2>2. duty' \in Int /\ -MaxDuty <= duty' /\ duty' <= MaxDuty
    BY <2>1, DutyInRange DEF Typed
  <2>3. QED
    BY <2>1, <2>2 DEF core1Vars, ControlTyped, PushIntegrated, RecoversFromWindup
<1>3. ASSUME \/ ReadImu \/ Stored \/ BeginLoad
             \/ \E h \in Half : StoreHalf(h) \/ LoadHalf(h)
             \/ UNCHANGED vars
      PROVE  ControlInv'
  <2>1. UNCHANGED <<enabled, pid, output, push, slope, duty>>
    BY <1>3 DEF ReadImu, Stored, BeginLoad, StoreHalf, LoadHalf, vars, core1Vars, core0Vars
  <2>2. QED
    BY <2>1 DEF ControlTyped, PushIntegrated, RecoversFromWindup
<1>4. QED
  BY <1>1, <1>2, <1>3 DEF Next, Core1, Core0

THEOREM ControlInvariance == Spec => [](BridgeInv /\ ControlInv)
<1>1. BridgeInv => Typed
  BY DEF BridgeInv
<1>2. QED
  BY <1>1, InitBridge, NextBridge, InitControl, NextControl, PTL DEF Spec

\* The accumulator stays within its limit, the output and the duty within the
\* range of the PWM, and every reading is one of the sensor's.
THEOREM TypeCorrect == Spec => []TypeOK
<1>1. BridgeInv /\ ControlInv /\ reading \in Readings \cup {Flat} => TypeOK
  BY WindupLimitNat, GainAssumption, SensorAssumption
     DEF BridgeInv, Typed, ControlInv, ControlTyped, TypeOK
<1>2. Init => reading \in Readings \cup {Flat}
  BY DEF Init
<1>3. reading \in Readings \cup {Flat} /\ [Next]_vars => (reading \in Readings \cup {Flat})'
  BY DEF Next, Core1, Core0, ReadImu, StoreHalf, Stored, Balance, BeginLoad, LoadHalf,
     EndLoad, core1Vars, vars
<1>4. QED
  BY <1>1, <1>2, <1>3, ControlInvariance, PTL DEF Spec

\* For all gains: errors to one side of at least the windup limit undo whatever
\* the other side has accumulated, so the output is no weaker than its
\* proportional part.
THEOREM WindupIsUndone == Spec => []RecoversFromWindup
<1>1. ControlInv => RecoversFromWindup
  BY DEF ControlInv
<1>2. QED
  BY <1>1, ControlInvariance, PTL
=============================================================================
