SPECIFICATION Spec
CONSTANTS
  a = a
  b = b
  h = h
  a1 = a1
  a2 = a2
  b1 = b1
  b2 = b2
  Nodes <- MCNodes
  Home = h
  Messages <- MCMessages
  Origin <- MCOrigin
  Links <- MCChain
  NoId = NoId
  None = None
  InitTtl = 1
  SeqMod = 3
  SeenCacheSize = 2
  MaxLocalRetries = 1
  RetryCountMod = 4
  MaxReboots = 0
  MaxRebegins = 1
INVARIANTS RetryCycleHasPacket
