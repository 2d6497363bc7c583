CONSTANTS
  Speeds <- MCSpeeds
  Cmd <- MCCmd
  Handler <- MCHandler
  Hanging = {}
  MaxCall = 1
  Dms = 2
  CmdDepth = 2
  IntentDepth = 2
  MaxFrames = 2
  MaxReceived = 1
  MaxSwitches = 1

SPECIFICATION FairSpec

INVARIANTS
  DmsLatency
  MotorsFollowLastAccepted
  NoLostWakeup

PROPERTIES
  DistributedStaysParked
  SilenceStopsMotors
  CommandsReachGuest
