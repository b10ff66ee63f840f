SPECIFICATION Spec
CONSTANTS
  IntHalf = 64
  MaxRead = 5
  Byte = {a}
  Junk = junk
  Sizes <- MCOddSizes
  MaxAdd = 17
  MaxLength = 24
INVARIANTS
  CapacityRespected
  RefusedOnlyWhenFull
