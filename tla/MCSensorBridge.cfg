CONSTANTS
  PID_KP = 2
  PID_KI = 1
  PID_KD = 1
  PID_OUT_MAX = 3
  Readings <- MCReadings
  MilliPerDegree = 2
  MaxDuty = 1
  Period = 4
  Amp = 1
  MaxCurrent = 3

SPECIFICATION Spec

INVARIANTS
  TornOnlyByOverlap
  RecoversFromWindup

PROPERTY DutyIsCurrent
