\* Three packets in two frames; time enough to close a connection, to open another
\* and for a timer of the interface.
CONSTANTS
  max_report_interval = 1
  connection_timeout = 2
  collection_period = 1
  MaxQueueing = 1
  MaxOther = 1
  MaxSeq = 3
  MaxFrame = 1
  MaxTime = 5
SPECIFICATION Spec
INVARIANTS ReportsPartitionPackets OneCheckPerConnection ReportedInTime StampCoversPackets
PROPERTIES ClosedOnlyWhenQuiet FeedbackSpec
CHECK_DEADLOCK FALSE
