SPECIFICATION LiveSpec
CONSTANTS
  a = a
  b = b
  c = c
  h = h
  Nodes <- MCChainNodes
  Home = h
  Links <- MCChainLinks
  Dist <- MCChainDist
  Rssi = {1}
  NoRoute = 4
  MaxNeighbors = 2
  StaleBeacons = 1
  NoId = NoId
  None = None
  MaxRetries = 1
  MaxReboots = 0
  HomeMayFail = TRUE
INVARIANTS NeverTooClose
PROPERTIES CountsOnlyRise ImplementsNextHop RoutesVanish
