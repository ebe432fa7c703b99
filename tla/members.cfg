CONSTANTS
  Subject = {i1}
  State = {s1, s2}
  Request = {r1, r2}
  User = {u1, u2}
  Admin = {a1, a2}
  Demo = Demo
  Token = {t1, t2}
  NoState = NoState
  NoSubject = NoSubject
  NoUser = NoUser
  ChallengeTtl = 1
  PruneAge = 1
  SessionTtl = 1
  MaxReopen = 1
  MaxNow = 2
  Read = {s1, s2}
  MemberRequest = {r1, r2}
  Ttl = 3
  MinElapsed = 2
  SecondTicks = 2
  MaxClock = 7
SPECIFICATION MCSpec
SYMMETRY Symmetry
INVARIANTS
  OneMemberPerIdentity
  RedeemedPerRetry
  
  OneActiveRead
  CreditMatchesRead
PROPERTIES
  LiveChallengeKept
  DeletionSticks
