SPECIFICATION FairSpec
CONSTANTS
  Sleep = 1
  Slow = 1
  Polls = 2
  Ttl = 6
  MaxPanics = 2
  MaxFaults = 1
  MaxFills = 1
INVARIANTS NoEcho OneAtATime
PROPERTY PreemptionEnds
CHECK_DEADLOCK FALSE
