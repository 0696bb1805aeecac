SPECIFICATION LiveSpec
CONSTANTS
  ClockMod = 128
  BeaconInterval = 5
  ResendDelay = 2
  RfcnWait = 1
  TxMax = 2
  Jitters = {0, 2}
  MaxRetries = 2
  MaxLate = 1
  MaxTraffic = 2
INVARIANTS TypeOK NothingForgottenForLong NeverOversleeps NoIdleWakeups
PROPERTIES BeaconsGoOn
