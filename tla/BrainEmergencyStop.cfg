CONSTANTS
  Speeds <- MCSpeeds
  Cmd <- StopCmd
  Handler <- StopHandler
  Hanging = {}
  MaxCall = 1
  Dms = 2
  CmdDepth = 2
  IntentDepth = 2
  MaxFrames = 2
  MaxReceived = 1
  MaxSwitches = 0

SPECIFICATION Spec

PROPERTY EmergencyStopIsHonoured
