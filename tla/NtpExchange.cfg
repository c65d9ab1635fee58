SPECIFICATION Spec
CONSTANTS
  s1 = s1
  s2 = s2
  Servers = {s1, s2}
  SelectedPaths <- MCOnePath
  alg_v = "V4"
  g = 2
  time_sync_period = 60
  last_event = 241
  Window = 50
  max_drift_per_day = 1
  Day = 40
  jitter_in_drift = TRUE
  constant_drift_per_day <- MCConstantDrift
  InitialDrifts <- MCNoDrift
  LocalCorrections <- MCLocalCorrections
  GlobalCorrections <- MCGlobalCorrections
  QueueDelays <- MCQueueDelays
  MaxQueueDelay = 30
  PathDelays <- MCPathDelays
  MinPathDelay = 4
  MaxPathDelay = 8
  last_link_delay = 1
  ProcessingDelays <- MCProcessingDelays
  MaxProcessingDelay = 10
  OtherEvents = {25}
INVARIANTS
  OffsetsAccurate
  OffsetsRecent
CHECK_DEADLOCK FALSE
