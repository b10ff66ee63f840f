SPECIFICATION Spec
CONSTANTS
  Nsqd = {d1, d2}
  Conn = {c1, c2, c3, c4}
  Direct = {d1}
  MaxEndpoints = 1
  MaxRequests = 1
  FailsAtOnce = {}
  MaxOrphans = 0
INVARIANT MemorySafe
SYMMETRY ConnSymmetry
