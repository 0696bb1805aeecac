SPECIFICATION Spec
CONSTANTS
  Batch = 2
  CounterMax = 9
  StoreMax = 12
  RamValues = {0, 7}
  LoadMayFail = FALSE
INVARIANTS UniqueCounters
