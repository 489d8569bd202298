\* Two workers that fetch from one host.
SPECIFICATION Spec
CONSTANTS
  Workers = {w1, w2}
  Threshold = 2
  Cooldown = 2
  Capacity = 2
  MaxRetries = 1
  MaxRequests = 4
  MaxStall = 1
  MaxRaces = 1
  MaxCrashes = 1
  Nil = Nil
INVARIANTS TypeOK BreakerHolds HostIsPaced
CHECK_DEADLOCK FALSE
PROPERTY CallsEnd
