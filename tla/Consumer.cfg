SPECIFICATION FairSpec
CONSTANTS
  Message = {m1, m2}
  Link = {l1, l2}
  NoLink = NoLink
  Readers = 2
  InFlightSizes = {1, 2}
  MaxFaults = 2
INVARIANTS
  TypeOK
  Paced
  NoRepeatUnprovoked
PROPERTIES
  DeliversAtLeastOnce
