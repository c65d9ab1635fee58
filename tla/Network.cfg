SPECIFICATION FairSpec
CONSTANTS
  A = A
  B = B
  C = C
  ASes = {A, B, C}
  Interfaces = {1, 2}
  NoPath = NoPath
  Hosts <- MCHosts
  Link <- MCLink
  Segments <- MCSegments
  Ids = {1, 2, 3, 4, 5}
  ISD <- MCISD
  Apps <- MCApps
  AppDestination <- MCAppDestination
  ConfiguredPaths <- MCConfiguredPaths
  MaxLookups = 1
  MaxTraffic = 1
INVARIANTS
  AssertionsHold
  ExistsWhileUnderWay
  AppPathsLeadThere
  RepliesReachTheirApp
PROPERTIES
  TrafficEnds
  AppsStart
