CONSTANTS
  Speeds <- MCSpeeds
  Cmd <- HungCmd
  Handler <- HungHandler
  Hanging = {"TOGGLE_LED"}
  MaxCall = 1
  Dms = 2
  CmdDepth = 1
  IntentDepth = 1
  MaxFrames = 1
  MaxReceived = 1
  MaxSwitches = 0

SPECIFICATION FairSpec

PROPERTY SilenceStopsMotors
