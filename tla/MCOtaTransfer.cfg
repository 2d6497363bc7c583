CONSTANTS
  Byte <- MCByte
  Images <- MCImages
  Crc <- MCCrc
  NoImage = NoImage
  OTA_MAX_BINARY_SIZE = 3
  ChunkSize = 2
  MaxTransfers = 2
  MaxFaults = 1
  MaxBytes = 4
  MaxSwaps = 1

SPECIFICATION LockstepSpec

INVARIANTS
  TypeOK
  ReadyIsWhole
  NoLeftovers
  CompleteTransferIsStaged
  MockOtaAgrees

PROPERTY StagedImageSpec

