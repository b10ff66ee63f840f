SPECIFICATION FairSpec
CONSTANTS
  Nsqd = {d1, d2}
  Conn = {c1, c2, c3, c4, c5}
  Direct = {d1, d2}
  MaxEndpoints = 0
  MaxRequests = 0
  FailsAtOnce = {"user"}
  MaxOrphans = 2
INVARIANTS
  MemorySafe
  OnlyFailedConnectsOrphaned
  OneConnectionPerNsqd
  DirectNsqdKept
PROPERTIES
  DirectNsqdRetried
  FollowsLifecycle
