SPECIFICATION Spec
CONSTANTS
  IntHalf = 64
  MaxRead = 3
  NULL = NULL
  WordLength = 2
  TimestampLength = 2
  AttemptsLength = 1
  IdLength = 2
  Radix = 8
  Character <- MCCharacter
  Topic <- MCTopic
  Channel <- MCChannel
  Id <- MCId
  Body <- MCBody
  Bodies <- MCBodies
  Message <- MCMessage
  CommandBufLength = 12
  CommandBufCapacity = 24
  MaxCommands = 3
INVARIANTS
  WireDecodes
  MessageDecoded
