CONSTANTS
  Capacity = 4
  MaxDrain = 2
  Beacon = 2
  MaxBusy = 1
  MaxFrames = 1

SPECIFICATION TelemetrySpec

INVARIANT LatencyIsBounded

PROPERTY BeaconsGoOut
