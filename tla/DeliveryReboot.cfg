SPECIFICATION Spec
CONSTANTS
  a = a
  b = b
  h = h
  a1 = a1
  a2 = a2
  b1 = b1
  b2 = b2
  Nodes = {a}
  Home = h
  Messages <- MCMessages
  Origin <- MCStarOrigin
  Links <- MCStar
  NoId = NoId
  None = None
  InitTtl = 1
  SeqMod = 3
  SeenCacheSize = 2
  MaxLocalRetries = 1
  RetryCountMod = 4
  MaxReboots = 1
  MaxRebegins = 0
INVARIANTS AcknowledgedByHomeIsDelivered
