CONSTANTS
  MaxSpeed = 255
  PidMax = 255
  Command <- MCCommand
  PidOutput <- MCPidOutput

SPECIFICATION FairSpec

INVARIANTS
  TypeOK
  CutAfterLockout

PROPERTIES
  QuietIsForever
  StopEndsSteering
  LockoutCuts
  ResidueIsCleared
  SafeMotorSpec
