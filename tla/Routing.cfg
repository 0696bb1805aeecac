SPECIFICATION Spec
CONSTANTS
  a = a
  b = b
  c = c
  h = h
  Nodes <- MCFanNodes
  Home = h
  Links <- MCFanLinks
  Dist <- MCFanDist
  Rssi = {1}
  NoRoute = 3
  MaxNeighbors = 2
  StaleBeacons = 1
  NoId = NoId
  None = None
  MaxRetries = 0
  MaxReboots = 1
  HomeMayFail = FALSE
SYMMETRY MCFanSymmetry
INVARIANTS TypeOK RouteMatchesTable
PROPERTIES OnlyNextHopLengthensRoute
