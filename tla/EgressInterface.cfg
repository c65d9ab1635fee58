SPECIFICATION FairSpec
CONSTANTS
  a1 = a1
  a2 = a2
  Apps = {a1, a2}
  Sizes = {1, 2}
  MaxPackets = 4
  LastArrival = 6
  transmission_delay = 2
  max_queue_length = 3
  collection_period = 2
INVARIANTS
  SteadyFlowsAreCounted
  CountedFlowsAreRecent
  TimersInv
  ProbesSeeTheWholeQueue
PROPERTIES
  DepartureSpacing
  Quiesces
CHECK_DEADLOCK FALSE
