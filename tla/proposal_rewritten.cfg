CONSTANTS
  Behaviours = {"administration"}
  Urls = {u1}
  PageTexts = {t1, t2}
  Eligible = {t1}
  Crawls = {c1}
  NoText = NoText
  Changes = 3
  Issues = {d1, d2, i1}
  Daily = {d1, d2}
  Arts = {1, 2}
  Publisher <- Pub
  Texts = {1, 2}
  Quorum = 2
  MaxEdition = 1
  MaxCohort = 2
  MaxReviewed = 2
  MaxIssueVersion = 2
  Keys = {k1, k2}
  Requests = {r1, r2}
  Models = {m1, m2}
  Sources = {s1}
  Profiles <- MCProfiles
  Seeded <- W1
  Draft <- W2
  Far <- W3
  Evidence <- D1
  Generated = {g1}
  MaxRevision = 3
  MaxVersion = 4
  MaxAxisChange = 10
  MaxShift = 14
  Calls = 2
SPECIFICATION MCSpec
PROPERTY ReviewedProposalStays
CHECK_DEADLOCK FALSE
