SPECIFICATION Spec
CONSTANTS
  p1 = p1
  p2 = p2
  p3 = p3
  NoPath = NoPath
  Paths = {p1, p2, p3}
  Rates = {}
  Shares = {4}
  Flows = {1}
  ReportLatencies = {0}
  ReportDelays = {0}
  StartTime = 2
  MaxTime = 6
  MaxProbeRtt = 1
  AlertTimes = {}
  StopTimes = {5}
  InitialRate = 2
  MarginNum = 3
  MarginDen = 2
  FactorNum = 17
  FactorDen = 20
  update_interval = 1
  frame_interval = 10
  probe_simultaneous = 1
  probe_recency = 1
  probe_latency = 0
  correction_delay = 0
  path_switch_min_interval = 3
  path_switch_min_candidacy = 2
  path_alive_treshold = 2
  congestion_alert_timeout = 1
  transition_time = 2
  RampScale = 4
  path_shifting = FALSE
  cfgPathSwitching = TRUE
  Ramp <- MCRamp
SYMMETRY PathSymmetry
INVARIANTS
  NoPathUnprobed
PROPERTIES
  SwitchAfterContinuousCandidacy
  SwitchesApart
CHECK_DEADLOCK FALSE
