SPECIFICATION Spec
CONSTANTS
  NumAses = 7
  Parallel = {p1, p2, p3}
  i0 = i0
  i1 = i1
  Interfaces <- MCInterfaces
  CoreAses <- MCCoreAses
  Links <- MCLinks
  beaconing_period = 1
  expiration_period = 3
  last_beaconing = 4
  MAX_BEACONS_TO_STORE = 2
  MAX_BEACONS_TO_SEND = 1
SYMMETRY ParallelLinks
CHECK_DEADLOCK FALSE
INVARIANTS
  PathsAreSegments
  OneLinkPerPeriod
  CountsExact
  ValidUntilNextUpdate
  RegisteredWhenValid
  ReachedInTime
PROPERTY
  NeverOlder
