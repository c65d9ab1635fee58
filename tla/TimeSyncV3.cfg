SPECIFICATION Spec
CONSTANTS
  s1 = s1
  s2 = s2
  s3 = s3
  s4 = s4
  Servers = {s1, s2, s3, s4}
  alg_v = "V3"
  g = 2
  max_drift = 1
  window_drift = 0
  measurement_error = 0
  global_cut_off = 1
  malicious_offset <- MCMaliciousOffset
  MaliciousReferences = {s4}
  Pathless <- MCPathsMissing
  InitialErrors <- MCNoErrors
  MaxReferenceEvents = 2
  MaxError = 3
PROPERTIES
  FewClocksCannotPull
CHECK_DEADLOCK FALSE
