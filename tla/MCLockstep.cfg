CONSTANTS
  Modulus = 16
  HalfModulus = 8
  INFERENCE_TENSOR_SIZE = 2
  MAX_MOTOR_SPEED = 2
  MAX_BRIGHTNESS = 3
  MAX_TEXT_BYTES = 3
  MAX_AUDIO_READ = 2
  INTENT_QUEUE_DEPTH = 2
  AUDIO_INFERENCE_QUEUE_DEPTH = 1
  AudioRoom = 3
  DEAD_MANS_SWITCH_MS = 2
  NotText = 255
  NoMemory = NoMemory
  NoExpression = NoExpression
  GuestMemory <- MCGuestMemory
  AudioBytes = {1, 97}
  ImuReadings <- MCImuReadings
  MotorArgs <- MCMotorArgs
  MaxMockSnapshots = 2
  Byte = {0}
  OTA_MAX_BINARY_SIZE = 2
  Crc <- MCCrc
  MaxOtaBytes = 2
  MaxOtaSwaps = 1

SPECIFICATION Spec

INVARIANTS
  NoOutOfBounds
  IntentsInRange
  MockMirrorsFirmware
  MotorsAgree
  MockStopIsReal
