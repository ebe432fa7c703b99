CONSTANTS
  Voter = {u1, u2}
  Article = {a1}
  VoteRequest = {r1}
  Aggregator = {w1, w2}
  PublicMin = 2
  VoteAttempts = 2
  MaxRevision = 3
  MaxVoteFaults = 1
  a1 = a1
  a2 = a2
  Articles = {a1, a2}
  Old = {a2}
  Configs <- MCConfigs
  Interval = 2
  MaxRetries = 1
  MaxRedirects = 1
  BackoffMax = 1
  MaxPages = 2
  MaxFetches = 2
  Concurrency = 2
  None = None
SPECIFICATION MCSpec
INVARIANTS
  ReadyIsExact
  DeletedLeavesNoVote
  FoundIsKept
PROPERTIES
  AggregatesSettle
  Polite
  CrawlSettles
CHECK_DEADLOCK FALSE
