SPECIFICATION Spec
CONSTANTS
  Nsqd = {d1, d2}
  Conn = {c1, c2, c3}
  Direct = {d1, d2}
  MaxEndpoints = 0
  MaxRequests = 0
  FailsAtOnce = {"timer"}
  MaxOrphans = 1
INVARIANT DirectNsqdKept
SYMMETRY ConnSymmetry
