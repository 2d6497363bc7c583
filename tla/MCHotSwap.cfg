CONSTANTS
  Byte <- MCByte
  Crc <- MCCrc
  OTA_MAX_BINARY_SIZE = 2
  Images <- MCImages
  GuestBuilds = TRUE
  CmdDepth = 2
  MaxBytes = 3

SPECIFICATION FairSpec

INVARIANTS
  CommandsInOrder
  AtMostOneLate
  SignalNamesVerified

PROPERTY SwapHappens
