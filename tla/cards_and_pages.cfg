CONSTANTS
  Job = {"render_share_card", "export_user"}
  Worker = {w1, w2}
  NoWorker = NoWorker
  NoToken = NoToken
  TypeOf <- MCTypeOf
  MaxAttempts = 1
  LeaseTime = 1
  MaxBackoff = 0
  MaxDelay = 0
  MaxEpoch = 1
  MaxConcurrency = 1
  Scheduled = {}
  MaxFaults = 0
  Story = {q1, q2, q3}
  Topic = {1}
  SourceOf <- MCSourceOf
  MinSources = 2
  MaxVersion = 2
  Changes = 2
SPECIFICATION MCSpec
SYMMETRY Symmetry
INVARIANTS
  
  ShownWasTrue
  ComparisonWasReviewed
PROPERTIES
  KeepsPromise
