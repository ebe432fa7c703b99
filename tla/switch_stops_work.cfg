CONSTANTS
  Job = {"crawl"}
  Worker = {w1, w2}
  NoWorker = NoWorker
  NoToken = NoToken
  TypeOf <- MCTypeOf
  MaxAttempts = 2
  LeaseTime = 1
  MaxBackoff = 0
  MaxDelay = 0
  MaxEpoch = 0
  MaxConcurrency = 1
  Scheduled = {}
  MaxFaults = 0
SPECIFICATION RuntimeSpec
SYMMETRY Symmetry
PROPERTIES
  SwitchStopsRunningWork
