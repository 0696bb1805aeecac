SPECIFICATION EncSpec
CONSTANTS
  Batch = 2
  CounterMax = 7
  StoreMax = 7
  RamValues = {0}
  LoadMayFail = TRUE
  Self = self
  Peer = peer
  Other = other
  NoId = NoId
  Keys = {k1, k2}
  NoKey = NoKey
  LowRange = 4
  MaxAttempts = 2
  PhyMax = 255
  MetaLen = 8
  Payloads = {231, 232, 239}
  Hops = {0}
  SeqNums = {0}
  PeerCounters = {5}
  Nothing = Nothing
  Garbled = Garbled
INVARIANTS UniqueUntilLapse StoreIsAhead SkipBounded
INVARIANTS EncTypeOK Understood OthersDiscard BuffersHold
