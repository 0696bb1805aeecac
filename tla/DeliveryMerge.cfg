SPECIFICATION Spec
CONSTANTS
  a = a
  b = b
  h = h
  a1 = a1
  a2 = a2
  b1 = b1
  b2 = b2
  Nodes <- MCNodes
  Home = h
  Messages <- MCTrio
  Origin <- MCTrioOrigin
  Links <- MCDiamond
  NoId = NoId
  None = None
  InitTtl = 1
  SeqMod = 2
  SeenCacheSize = 1
  MaxLocalRetries = 1
  RetryCountMod = 4
  MaxReboots = 0
  MaxRebegins = 0
INVARIANTS TypeOK RetryStateCoherent RetryCycleHasPacket NoSilentLoss Genuine
INVARIANTS AcknowledgedByHomeIsDelivered ConfirmedToSourceIsHeard
PROPERTIES NoRepeatWithinRing ImplementsMesh
SYMMETRY MCTrioSymmetry
VIEW MCView
