SPECIFICATION FairSpec
CONSTANTS
  IntHalf = 64
  MaxRead = 3
  NULL = NULL
  Kind = {"heartbeat", "response", "message"}
  BodyLength <- MCBodyLength
  WordLength = 2
  CommandLength = 2
  ReadSizes <- MCReadSizes
  WriteSizes <- MCAmple
  DisconnectInHandler = FALSE
  Window = 8
  MaxFrames = 3
INVARIANTS
  TypeOK
  NoByteLost
  NoLostWakeup
  WriterAwake
  AnswersInOrder
  HealthyStaysOpen
PROPERTIES
  
  EveryMessageFinished
  DeliversFrames
