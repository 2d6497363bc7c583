CONSTANTS
  ByteBase = 4
  Readings <- MCReadings
  Speeds <- MCSpeeds
  Times <- MCTimes
  Capacity = 2
  TELEMETRY_QUEUE_HIGH_WATER_MARK = 1
  SeqBound = 3
  MaxCore1Pushes = 1

SPECIFICATION WireSpec

INVARIANTS
  RoundTrip
  PeersIgnoreTelemetry
  GuestIsNeverRefused

PROPERTY GapsAreLosses
