SPECIFICATION FairSpec
CONSTANTS
  s1 = s1
  s2 = s2
  s3 = s3
  s4 = s4
  Servers = {s1, s2, s3, s4}
  alg_v = "V4"
  g = 2
  max_drift = 2
  window_drift = 0
  measurement_error = 1
  global_cut_off = 1
  malicious_offset <- MCMaliciousOffset
  MaliciousReferences = {s4}
  Pathless <- MCPathsMissing
  InitialErrors <- MCSomeErrors
  MaxReferenceEvents = 0
  MaxError = 100
PROPERTIES
  ClocksStayAccurate
  BecomesAccurate
