SPECIFICATION Spec
CONSTANTS
  IntHalf = 16
  MaxRead = 2
  Byte = {a, b}
  Junk = junk
  Sizes <- MCSizes
  MaxAdd = 5
  MaxLength = 8
INVARIANTS
  TypeOK
  InBounds
  NoStrayByte
PROPERTIES
  IsAQueue
  StepsAgreeWithOps
