CONSTANTS
  Job = {"crawl", "render_share_card", "export_user"}
  Worker = {a1, a2}
  NoWorker = NoWorker
  NoToken = NoToken
  TypeOf <- MCTypeOf
  MaxAttempts = 2
  LeaseTime = 2
  MaxBackoff = 1
  MaxDelay = 1
  MaxEpoch = 2
  MaxClaims = 3
  Members = {m1, m2}
  Seeded = m1
  DemoMember = m2
  Nobody = NoUser
  LocalTokens = {t1, t2}
  LocalRequests = {a1, a2}
  LocalReads = {s1, s2}
  Articles = {p1}
  Cards = {k1}
  Feed <- MCFeed
  DaySession = 2
  ReadTtl = 2
  ReadMin = 1
  LocalEnd = 3
  DeskKeys = {a1, a2}
  Contents = {"off", "on"}
  Weights = {w1, w2, w3}
  FirstWeight = w1
  Advice = {g1}
  Targets = {x1}
  Topics = {1, 2}
  PagesAbout <- MCPagesAbout
  PublisherOf <- MCPublisherOf
  Operations = {a1, a2}
  Enough = 2
  PerEvent = 2
  EditionSize = 2
  Floor = 3
  Submissions = 12
  ArticleSlots = 4
  Others = 1
  Admissions = 5
  Mutations = 7
  DeskCalls = 3
SPECIFICATION MCSpec
SYMMETRY Symmetry
INVARIANTS
  RetryBudgetHeld
  FailedCrawlIsClosed
  StaleLeaseFenced
  ExportIsCurrent
  LocalCreditsEarned
  LocalChangesQueued
  LocalActiveIsVetted
  EditionAffordable
PROPERTIES
  LocalDeletionSticks
