SPECIFICATION FairSpec
CONSTANTS
  Nsqd = {d1, d2}
  Conn = {c1, c2, c3, c4}
  Direct = {}
  MaxEndpoints = 2
  MaxRequests = 2
  FailsAtOnce = {"lookup"}
  MaxOrphans = 2
INVARIANTS
  TypeOK
  OnlyFailedConnectsOrphaned
  OneConnectionPerNsqd
PROPERTIES
  RegisteredNsqdTried
  FollowsLifecycle
