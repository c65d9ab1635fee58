SPECIFICATION Spec
CONSTANTS
  buffer_window = 2
  tracking_window = 4
  metrics_interval = 1
  MaxReportLatency = 3
  MaxReport = 2
  MaxSeqNo = 4
  MaxTime = 9
INVARIANTS
  PlayedInOrder
  BufferedAtMost
PROPERTIES
  LateIsReallyLate
  LossIsRight
CHECK_DEADLOCK FALSE
