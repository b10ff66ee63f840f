SPECIFICATION Spec
CONSTANTS
  IntHalf = 64
  MaxRead = 3
  NULL = NULL
  Kind = {"heartbeat", "error", "message"}
  BodyLength <- MCBodyLength
  WordLength = 2
  CommandLength = 2
  ReadSizes <- MCShortRead
  WriteSizes <- MCShortWrite
  DisconnectInHandler = TRUE
  Window = 14
  MaxFrames = 3
INVARIANTS
  NoByteLost
  NoTornCommand
PROPERTIES
  StaysClosed
