CONSTANTS
  Key <- Inputs
  Caller = {c1, c2}
  Article = {1, 2, 3, 4, 5, 6, 7, 8, 9, 10}
  CategoryOf <- MCCategoryOf
  SubjectOf <- MCSubjectOf
  CohortOf <- MCCohortOf
  CostOf <- MCCostOf
  ProtectedCost = 0
  ProtectedRequests = 0
  RequestLimit = 5
  ArticleLimit = 6
  ComparisonLimit = 1
  DailyBudget = 6
  NoKey = NoKey
  LastDate = 2
SPECIFICATION MCSpec
SYMMETRY CallerSymmetry
INVARIANTS
  CapsHeld
  EssentialRoomKept
  LedgerExact
  PaidAtMostOnce
  OneAnalysisPerDay
