\* Two packets in two frames, long enough for the bound on the first of them to pass.
CONSTANTS
  max_report_interval = 1
  connection_timeout = 2
  collection_period = 2
  MaxQueueing = 1
  MaxOther = 1
  MaxSeq = 2
  MaxFrame = 1
  MaxTime = 10
SPECIFICATION Spec
INVARIANT DeadConnectionIsClosed
CHECK_DEADLOCK FALSE
