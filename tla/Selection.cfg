SPECIFICATION Spec
CONSTANTS
  MaxNeighbors = 5
  NoRoute = 2
  Rssi = {1, 2}
INVARIANTS FindsBestTwo FirstOfEquals
CHECK_DEADLOCK FALSE
