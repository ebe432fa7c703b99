CONSTANTS
  Job = {"export_user"}
  Worker = {w1}
  NoWorker = NoWorker
  NoToken = NoToken
  TypeOf <- MCTypeOf
  MaxAttempts = 1
  LeaseTime = 1
  MaxBackoff = 0
  MaxDelay = 0
  MaxEpoch = 2
  MaxConcurrency = 1
  Scheduled = {}
  MaxFaults = 0
SPECIFICATION RuntimeSpec
INVARIANTS
  ExportLeaseFenced
