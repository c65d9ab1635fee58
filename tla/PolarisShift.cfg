SPECIFICATION Spec
CONSTANTS
  p1 = p1
  p2 = p2
  NoPath = NoPath
  Paths = {p1, p2}
  Rates = {2}
  Shares = {2, 8}
  Flows = {1}
  ReportLatencies = {0}
  ReportDelays = {0}
  StartTime = 2
  MaxTime = 7
  MaxProbeRtt = 0
  AlertTimes = {4}
  StopTimes = {}
  InitialRate = 2
  MarginNum = 3
  MarginDen = 2
  FactorNum = 17
  FactorDen = 20
  update_interval = 1
  frame_interval = 1
  probe_simultaneous = 1
  probe_recency = 1
  probe_latency = 0
  correction_delay = 0
  path_switch_min_interval = 2
  path_switch_min_candidacy = 1
  path_alive_treshold = 2
  congestion_alert_timeout = 1
  transition_time = 2
  RampScale = 4
  path_shifting = TRUE
  cfgPathSwitching = TRUE
  Ramp <- MCRamp
SYMMETRY PathSymmetry
INVARIANTS
  TransitionInv
  ShiftKeepsRate
PROPERTIES
  TransitionUndisturbed
CHECK_DEADLOCK FALSE
