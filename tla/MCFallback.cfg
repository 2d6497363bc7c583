CONSTANTS
  ByteBase = 4
  INFERENCE_TENSOR_SIZE = 2
  Snapshots <- MCSnapshots
  Dms = 2
  Threshold = 4
  AUDIO_INFERENCE_QUEUE_DEPTH = 2
  CmdDepth = 2
  IntentDepth = 2

SPECIFICATION Spec

INVARIANTS
  SilentRobotStands
  AutonomyFollowsLatestPass

PROPERTY FallbackActivates
