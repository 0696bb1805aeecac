SPECIFICATION LiveSpec
CONSTANTS
  a = a
  b = b
  h = h
  a1 = a1
  a2 = a2
  b1 = b1
  b2 = b2
  Nodes <- MCNodes
  Home = h
  Messages = {a1}
  Origin <- MCSingleOrigin
  Links <- MCMutual
  NoId = NoId
  None = None
  InitTtl = 1
  SeqMod = 2
  SeenCacheSize = 1
  MaxLocalRetries = 2
  RetryCountMod = 4
  MaxReboots = 1
  MaxRebegins = 1
PROPERTIES EveryMessageSettles RetryCyclesEnd ImplementsNextHop
