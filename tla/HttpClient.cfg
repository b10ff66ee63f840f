SPECIFICATION FairSpec
CONSTANT Request = {r1, r2, r3}
INVARIANTS
  WatchersFollowCurl
  NothingForgotten
  FreedOnce
PROPERTIES
  EveryRequestAnswered
