-------------------------- MODULE LLMBudgetProofs --------------------------
(***************************************************************************)
(* The guarantees of the budget ledger, proved for every set of inputs,    *)
(* number of callers, ceilings and number of days.                         *)
(***************************************************************************)
EXTENDS LLMBudget, FiniteSetTheorems, TLAPS

(* ---------------------------- arithmetic ------------------------------- *)

LEMMA ReserveBounds ==
  /\ EssentialArticles \in 0 .. ArticleLimit
  /\ EssentialRequests \in 0 .. RequestLimit
  /\ EssentialCost \in 0 .. DailyBudget
BY LimitAssumption DEF EssentialArticles, EssentialRequests, EssentialCost, Least

LEMMA ChargedType ==
  ASSUME NEW row \in Usage, NEW category, NEW cost \in Nat
  PROVE  /\ Charged(row, category, cost) \in Usage
         /\ Charged(row, category, cost).requests = row.requests + 1
         /\ Charged(row, category, cost).articles
              = row.articles + One(category = "article")
         /\ Charged(row, category, cost).comparisons
              = row.comparisons + One(category = "comparison")
         /\ Charged(row, category, cost).reserved = row.reserved + cost
         /\ One(category = "article") \in {0, 1}
         /\ One(category = "comparison") \in {0, 1}
BY DEF Charged, Usage, One

LEMMA GrantedType ==
  ASSUME NEW grants \in Grants, NEW category, NEW cost \in Nat
  PROVE  /\ Granted(grants, category, cost) \in Grants
         /\ Granted(grants, category, cost).requests = grants.requests + 1
         /\ Granted(grants, category, cost).articles
              = grants.articles + One(category = "article")
         /\ Granted(grants, category, cost).cost = grants.cost + cost
BY DEF Granted, Grants, One

(* --------------------------- the invariant ----------------------------- *)

\* A caller that is at work has an input and a date; the one that holds the
\* lock of a date is alone and has read what the ledger says.
LockInv ==
  /\ \A c \in Caller : caller[c].phase # "idle" =>
       caller[c].key \in Key /\ caller[c].date \in Date
  /\ \A c \in Caller : caller[c].phase = "locked" =>
       caller[c].row = usage[caller[c].date]
  /\ \A b, c \in Caller :
       caller[b].phase = "locked" /\ caller[c].phase = "locked"
         /\ caller[b].date = caller[c].date => b = c

\* The insertion into llm_requests makes one caller the only one to submit
\* the input, and it has not done so yet.
SubmitInv ==
  /\ \A c \in Caller : caller[c].phase = "calling" =>
       request[caller[c].key].state # "NONE" /\ paid[caller[c].key] = 0
  /\ \A b, c \in Caller :
       caller[b].phase = "calling" /\ caller[c].phase = "calling"
         /\ caller[b].key = caller[c].key => b = c

\* What ordinary work was granted is part of what the ledger shows.
ShareInv ==
  \A d \in Date :
    /\ ordinary[d].requests <= usage[d].requests
    /\ ordinary[d].articles <= usage[d].articles
    /\ ordinary[d].cost <= usage[d].reserved

FiniteInv ==
  \A d \in Date : IsFiniteSet(cohort[d]) /\ IsFiniteSet(Authorized(d))

BudgetInv ==
  /\ TypeOK
  /\ LockInv
  /\ SubmitInv
  /\ ShareInv
  /\ FiniteInv
  /\ CapsHeld
  /\ LedgerExact
  /\ PaidAtMostOnce
  /\ OneAnalysisPerDay
  /\ EssentialRoomKept

LEMMA BudgetInvInit == Init => BudgetInv
<1> SUFFICES ASSUME Init PROVE BudgetInv
  OBVIOUS
<1> USE DEF Init
<1>1. NoUsage \in Usage /\ Idle \in CallerState
  BY DEF NoUsage, Usage, Idle, CallerState, Phase
<1>2. TypeOK
  BY <1>1, LimitAssumption DEF TypeOK, Date, Grants
<1>3. LockInv /\ SubmitInv /\ PaidAtMostOnce /\ OneAnalysisPerDay
  BY DEF LockInv, SubmitInv, PaidAtMostOnce, OneAnalysisPerDay, Idle, One
<1>4. ASSUME NEW d \in Date PROVE Authorized(d) = {}
  BY DEF Authorized
<1>5. FiniteInv
  BY <1>4, FS_EmptySet DEF FiniteInv
<1>6. CapsHeld
  BY LimitAssumption, FS_EmptySet DEF CapsHeld, NoUsage
<1>7. LedgerExact
  BY <1>4, FS_EmptySet DEF LedgerExact, NoUsage
<1>8. ShareInv /\ EssentialRoomKept
  BY ReserveBounds, LimitAssumption DEF ShareInv, EssentialRoomKept, NoUsage
<1> QED BY <1>2, <1>3, <1>5, <1>6, <1>7, <1>8 DEF BudgetInv

(* --------------------------- the transitions --------------------------- *)

LedgerInv ==
  ShareInv /\ FiniteInv /\ CapsHeld /\ LedgerExact /\ OneAnalysisPerDay /\ EssentialRoomKept

\* Steps that neither charge the ledger nor insert a request.
LEMMA LedgerKept ==
  ASSUME LedgerInv, UNCHANGED <<usage, cohort, ordinary>>,
         \A k \in Key : /\ request'[k].date = request[k].date
                        /\ request'[k].state = "NONE" <=> request[k].state = "NONE"
  PROVE  LedgerInv'
<1>1. \A d : Authorized(d)' = Authorized(d)
  BY DEF Authorized
<1>2. ShareInv' /\ FiniteInv' /\ CapsHeld' /\ EssentialRoomKept'
  BY <1>1 DEF LedgerInv, ShareInv, FiniteInv, CapsHeld, EssentialRoomKept
<1>3. LedgerExact'
  BY <1>1 DEF LedgerInv, LedgerExact
<1>4. OneAnalysisPerDay'
  BY DEF LedgerInv, OneAnalysisPerDay
<1> QED BY <1>2, <1>3, <1>4 DEF LedgerInv

\* The bookkeeping of one authorization: input k on date d.
LEMMA LedgerCharged ==
  ASSUME TypeOK, LedgerInv, NEW k \in Key, NEW d \in Date, NEW essential \in BOOLEAN,
         Affordable(d, k, essential, usage[d]),
         Inserts(k),
         request' = [request EXCEPT ![k] = [state |-> "SUBMITTED", date |-> d]],
         cohort' = [cohort EXCEPT ![d] = @ \cup CohortOf[k]],
         usage' = [usage EXCEPT ![d] = Charged(@, CategoryOf[k], CostOf[k])],
         ordinary' = IF essential THEN ordinary
                     ELSE [ordinary EXCEPT ![d] = Granted(@, CategoryOf[k], CostOf[k])]
  PROVE  LedgerInv'
<1>1. /\ usage[d] \in Usage /\ CostOf[k] \in Nat
      /\ CohortOf[k] \in SUBSET Article /\ IsFiniteSet(CohortOf[k])
  BY KeyAssumption DEF TypeOK
<1>2. request[k].state = "NONE"
  BY DEF Inserts
<1>4. /\ Authorized(d)' = Authorized(d) \cup {k} /\ k \notin Authorized(d)
      /\ \A e \in Date : e # d => Authorized(e)' = Authorized(e)
  BY <1>2 DEF Authorized, TypeOK
<1>5. /\ usage'[d].requests = usage[d].requests + 1
      /\ usage'[d].articles = usage[d].articles + One(CategoryOf[k] = "article")
      /\ usage'[d].comparisons = usage[d].comparisons + One(CategoryOf[k] = "comparison")
      /\ usage'[d].reserved = usage[d].reserved + CostOf[k]
      /\ One(CategoryOf[k] = "article") \in {0, 1}
      /\ One(CategoryOf[k] = "comparison") \in {0, 1}
      /\ \A e \in Date : e # d => usage'[e] = usage[e]
  BY <1>1, ChargedType DEF TypeOK
<1>3. IsFiniteSet(cohort[d]) /\ IsFiniteSet(Authorized(d))
  BY DEF LedgerInv, FiniteInv
<1>6. FiniteInv'
  <2>1. IsFiniteSet(cohort[d] \cup CohortOf[k])
    BY <1>1, <1>3, FS_Union
  <2>2. IsFiniteSet(Authorized(d)')
    BY <1>3, <1>4, FS_AddElement
  <2>3. ASSUME NEW e \in Date
        PROVE  IsFiniteSet(cohort'[e]) /\ IsFiniteSet(Authorized(e)')
    <3>1. CASE e = d
      BY <2>1, <2>2, <3>1 DEF TypeOK
    <3>2. CASE e # d
      BY <1>4, <3>2 DEF LedgerInv, FiniteInv, TypeOK
    <3> QED BY <3>1, <3>2
  <2> QED BY <2>3 DEF FiniteInv
<1>7. LedgerExact'
  <2>1. usage'[d].requests = Cardinality(Authorized(d)')
    <3>1. Cardinality(Authorized(d) \cup {k}) = Cardinality(Authorized(d)) + 1
      BY <1>3, <1>4, FS_AddElement
    <3> QED BY <1>4, <1>5, <3>1 DEF LedgerInv, LedgerExact
  <2>2. cohort'[d] = UNION {CohortOf[l] : l \in Authorized(d)'}
    BY <1>1, <1>4 DEF LedgerInv, LedgerExact, TypeOK
  <2>3. ASSUME NEW e \in Date, e # d
        PROVE  /\ usage'[e].requests = Cardinality(Authorized(e)')
               /\ cohort'[e] = UNION {CohortOf[l] : l \in Authorized(e)'}
    BY <1>4, <1>5, <2>3 DEF LedgerInv, LedgerExact, TypeOK
  <2> QED BY <2>1, <2>2, <2>3 DEF LedgerExact
<1>8. CapsHeld'
  <2>1. ASSUME NEW e \in Date, e # d
        PROVE  usage'[e] = usage[e] /\ cohort'[e] = cohort[e]
    BY <1>5, <2>1 DEF TypeOK
  <2>2. /\ usage[d].requests < RequestLimit /\ usage[d].reserved + CostOf[k] <= DailyBudget
        /\ CategoryOf[k] = "comparison" => usage[d].comparisons < ComparisonLimit
        /\ CategoryOf[k] = "article" => usage[d].articles < ArticleLimit
        /\ CohortFits(d, k, essential)
    BY DEF Affordable, WithinLimits
  <2>3. /\ usage'[d].requests <= RequestLimit
        /\ usage'[d].articles <= ArticleLimit
        /\ usage'[d].comparisons <= ComparisonLimit
        /\ usage'[d].reserved <= DailyBudget
    BY <1>1, <1>5, <2>2, LimitAssumption
       DEF LedgerInv, CapsHeld, One, Usage
  <2>4. Cardinality(cohort'[d]) <= ArticleLimit
    <3>1. CASE CohortOf[k] = {}
      BY <3>1 DEF LedgerInv, CapsHeld, TypeOK
    <3>2. CASE CohortOf[k] # {}
      <4>1. cohort'[d] = cohort[d] \cup CohortOf[k]
        BY DEF TypeOK
      <4>2. Cardinality(cohort[d] \cup CohortOf[k]) \in Nat
        BY <1>1, FS_Union, FS_CardinalityType DEF LedgerInv, FiniteInv
      <4>3. Cardinality(cohort[d] \cup CohortOf[k])
              <= ArticleLimit - (IF essential THEN 0 ELSE EssentialArticles)
        BY <2>2, <3>2 DEF CohortFits
      <4>4. CASE essential
        <5>1. Cardinality(cohort'[d]) <= ArticleLimit - 0
          BY <4>1, <4>3, <4>4, Zenon
        <5>2. ArticleLimit \in Nat /\ Cardinality(cohort'[d]) \in Nat
          BY <4>1, <4>2, LimitAssumption
        <5> QED BY <5>1, <5>2
      <4>5. CASE ~essential
        <5>1. Cardinality(cohort'[d]) <= ArticleLimit - EssentialArticles
          BY <4>1, <4>3, <4>5, Zenon
        <5>2. /\ EssentialArticles \in 0 .. ArticleLimit /\ ArticleLimit \in Nat
              /\ Cardinality(cohort'[d]) \in Nat
          BY <4>1, <4>2, ReserveBounds, LimitAssumption
        <5> QED BY <5>1, <5>2
      <4> QED BY <4>4, <4>5
    <3> QED BY <3>1, <3>2
  <2> QED BY <2>1, <2>3, <2>4 DEF CapsHeld, LedgerInv
<1>9. OneAnalysisPerDay'
  <2>1. CategoryOf[k] = "article" => ~AnalyzedOn(d, SubjectOf[k])
    BY DEF Affordable
  <2>2. /\ request'[k].state # "NONE" /\ request'[k].date = d
        /\ \A l \in Key : l # k => request'[l] = request[l]
    BY DEF TypeOK
  <2> QED BY <2>1, <2>2 DEF LedgerInv, OneAnalysisPerDay, AnalyzedOn
<1>10. ShareInv' /\ EssentialRoomKept'
  <2>1. CASE essential
    BY <1>1, <1>5, <2>1
       DEF LedgerInv, ShareInv, EssentialRoomKept, TypeOK, Usage, Grants
  <2>2. CASE ~essential
    <3>1. /\ ordinary'[d].requests = ordinary[d].requests + 1
          /\ ordinary'[d].articles
               = ordinary[d].articles + One(CategoryOf[k] = "article")
          /\ ordinary'[d].cost = ordinary[d].cost + CostOf[k]
          /\ \A e \in Date : e # d => ordinary'[e] = ordinary[e]
      BY <1>1, <2>2, GrantedType DEF TypeOK
    <3>2. WithinOrdinary(usage[d], CostOf[k])
      BY <2>2 DEF Affordable
    <3> QED
      BY <1>1, <1>5, <3>1, <3>2, ReserveBounds, LimitAssumption
         DEF LedgerInv, ShareInv, EssentialRoomKept, TypeOK, Usage, Grants,
             WithinOrdinary
  <2> QED BY <2>1, <2>2
<1> QED BY <1>6, <1>7, <1>8, <1>9, <1>10 DEF LedgerInv

LEMMA EnterType ==
  ASSUME TypeOK, NEW c \in Caller, NEW phase \in Phase, Enter(c, phase)
  PROVE  caller' \in [Caller -> CallerState]
BY DEF TypeOK, Enter, CallerState

LEMMA LeaveType ==
  ASSUME TypeOK, NEW c \in Caller, Leave(c)
  PROVE  caller' \in [Caller -> CallerState]
BY DEF TypeOK, Leave, Idle, CallerState, NoUsage, Usage, Phase

LEMMA TypeStep == TypeOK /\ LockInv /\ [Next]_vars => TypeOK'
<1> SUFFICES ASSUME TypeOK, LockInv, [Next]_vars PROVE TypeOK'
  OBVIOUS
<1>1. ASSUME NEW c \in Caller, NEW k \in Key, NEW essential \in BOOLEAN,
             Start(c, k, essential)
      PROVE  TypeOK'
  <2>1. [phase |-> "waiting", key |-> k, date |-> today,
         essential |-> essential, row |-> NoUsage] \in CallerState
    BY DEF TypeOK, CallerState, Phase, NoUsage, Usage
  <2> QED BY <1>1, <2>1 DEF TypeOK, Start, ledger
<1>2. ASSUME NEW c \in Caller, Replay(c) \/ Refuse(c) \/ Crash(c) PROVE TypeOK'
  BY <1>2, LeaveType DEF TypeOK, Replay, Refuse, Crash, ledger
<1>3. ASSUME NEW c \in Caller, Lock(c) PROVE TypeOK'
  <2>1. caller[c].date \in Date
    BY <1>3 DEF LockInv, Lock
  <2>2. caller' \in [Caller -> CallerState]
    <3> DEFINE reading == [caller[c] EXCEPT !.phase = "locked",
                                            !.row = usage[caller[c].date]]
    <3>1. reading \in CallerState
      BY <2>1 DEF TypeOK, CallerState, Phase
    <3>2. caller' = [caller EXCEPT ![c] = reading]
      BY <1>3, Zenon DEF Lock
    <3> QED BY <3>1, <3>2 DEF TypeOK
  <2> QED BY <1>3, <2>2 DEF TypeOK, Lock, ledger
<1>4. ASSUME NEW c \in Caller, Authorize(c) PROVE TypeOK'
  <2> DEFINE k == caller[c].key
             d == caller[c].date
  <2>1. k \in Key /\ d \in Date
    BY <1>4 DEF LockInv, Authorize
  <2>2. usage' \in [Date -> Usage] /\ ordinary' \in [Date -> Grants]
    BY <1>4, <2>1, ChargedType, GrantedType, KeyAssumption DEF TypeOK, Authorize
  <2>3. cohort' \in [Date -> SUBSET Article]
    BY <1>4, <2>1, KeyAssumption DEF TypeOK, Authorize
  <2>4. caller' \in [Caller -> CallerState]
    BY <1>4, EnterType DEF Authorize, Phase
  <2> QED BY <1>4, <2>1, <2>2, <2>3, <2>4 DEF TypeOK, Authorize
<1>5. ASSUME NEW c \in Caller, NEW answered \in BOOLEAN, Call(c, answered) PROVE TypeOK'
  <2>1. caller' \in [Caller -> CallerState]
    BY <1>5, EnterType, LeaveType DEF Call, Phase
  <2>2. paid' \in [Key -> Nat]
    <3>1. caller[c].key \in Key
      BY <1>5 DEF LockInv, Call
    <3>2. paid' = [paid EXCEPT ![caller[c].key] = @ + 1]
      BY <1>5 DEF Call
    <3> QED BY <3>1, <3>2 DEF TypeOK
  <2>3. UNCHANGED <<today, usage, cohort, request, ordinary>>
    BY <1>5 DEF Call, ledger
  <2> QED BY <2>1, <2>2, <2>3 DEF TypeOK
<1>6. ASSUME NEW c \in Caller, RecordResponse(c) PROVE TypeOK'
  <2>1. caller' \in [Caller -> CallerState]
    BY <1>6, LeaveType DEF RecordResponse
  <2> QED BY <1>6, <2>1 DEF TypeOK, RecordResponse
<1>7. CASE Midnight
  BY <1>7, LimitAssumption DEF TypeOK, Midnight, ledger, Date
<1>8. CASE UNCHANGED vars
  BY <1>8 DEF TypeOK, vars, ledger
<1> QED BY <1>1, <1>2, <1>3, <1>4, <1>5, <1>6, <1>7, <1>8 DEF Next

LEMMA LeaveStep ==
  ASSUME TypeOK, LockInv, NEW c \in Caller, Leave(c), UNCHANGED usage
  PROVE  LockInv'
<1>1. \A b \in Caller : caller'[b] = IF b = c THEN Idle ELSE caller[b]
  BY DEF TypeOK, Leave
<1> QED BY <1>1 DEF LockInv, Idle

LEMMA LockStep == TypeOK /\ LockInv /\ [Next]_vars => LockInv'
<1> SUFFICES ASSUME TypeOK, LockInv, [Next]_vars PROVE LockInv'
  OBVIOUS
<1>1. ASSUME NEW c \in Caller, NEW k \in Key, NEW essential \in BOOLEAN,
             Start(c, k, essential)
      PROVE  LockInv'
  <2>1. \A b \in Caller :
          IF b = c THEN /\ caller'[b].phase = "waiting" /\ caller'[b].key = k
                        /\ caller'[b].date = today
                   ELSE caller'[b] = caller[b]
    BY <1>1 DEF TypeOK, Start
  <2>2. usage' = usage /\ today \in Date
    BY <1>1 DEF TypeOK, Start, ledger
  <2> QED BY <2>1, <2>2 DEF LockInv
<1>2. ASSUME NEW c \in Caller, Replay(c) \/ Refuse(c) \/ Crash(c) \/ RecordResponse(c)
      PROVE  LockInv'
  BY <1>2, LeaveStep DEF Replay, Refuse, Crash, RecordResponse, ledger
<1>3. ASSUME NEW c \in Caller, Lock(c) PROVE LockInv'
  <2>1. \A b \in Caller :
          IF b = c THEN /\ caller'[b].phase = "locked" /\ caller'[b].key = caller[b].key
                        /\ caller'[b].date = caller[b].date
                        /\ caller'[b].row = usage[caller[b].date]
                   ELSE caller'[b] = caller[b]
    BY <1>3 DEF TypeOK, Lock, CallerState
  <2>2. \A b \in Caller : caller[b].phase = "locked" => caller[b].date # caller[c].date
    BY <1>3 DEF Lock, Unlocked
  <2>3. usage' = usage /\ caller[c].phase = "waiting"
    BY <1>3 DEF Lock, ledger
  <2> QED BY <2>1, <2>2, <2>3 DEF LockInv
<1>4. ASSUME NEW c \in Caller, Authorize(c) PROVE LockInv'
  <2>1. \A b \in Caller :
          IF b = c THEN /\ caller'[b].phase = "calling" /\ caller'[b].key = caller[b].key
                        /\ caller'[b].date = caller[b].date
                   ELSE caller'[b] = caller[b]
    BY <1>4 DEF TypeOK, Authorize, Enter, CallerState
  <2>2. /\ caller[c].phase = "locked" /\ caller[c].date \in Date
        /\ \A e \in Date : e # caller[c].date => usage'[e] = usage[e]
    BY <1>4 DEF Authorize, LockInv, TypeOK
  <2> QED BY <2>1, <2>2 DEF LockInv
<1>5. ASSUME NEW c \in Caller, NEW answered \in BOOLEAN, Call(c, answered)
      PROVE  LockInv'
  <2>1. CASE answered
    <3>1. \A b \in Caller :
            IF b = c THEN /\ caller'[b].phase = "answered"
                          /\ caller'[b].key = caller[b].key
                          /\ caller'[b].date = caller[b].date
                     ELSE caller'[b] = caller[b]
      BY <1>5, <2>1 DEF TypeOK, Call, Enter, CallerState
    <3>2. usage' = usage /\ caller[c].phase = "calling"
      BY <1>5 DEF Call, ledger
    <3> QED BY <3>1, <3>2 DEF LockInv
  <2>2. CASE ~answered
    BY <1>5, <2>2, LeaveStep DEF Call, ledger
  <2> QED BY <2>1, <2>2
<1>6. CASE Midnight \/ UNCHANGED vars
  BY <1>6 DEF Midnight, vars, ledger, LockInv
<1> QED BY <1>1, <1>2, <1>3, <1>4, <1>5, <1>6 DEF Next

LEMMA SubmitStep ==
  TypeOK /\ LockInv /\ SubmitInv /\ PaidAtMostOnce /\ [Next]_vars
    => SubmitInv' /\ PaidAtMostOnce'
<1> SUFFICES ASSUME TypeOK, LockInv, SubmitInv, PaidAtMostOnce, [Next]_vars
             PROVE  SubmitInv' /\ PaidAtMostOnce'
  OBVIOUS
<1>0. \A k \in Key : paid[k] \in Nat /\ (request[k].state = "NONE" => paid[k] = 0)
  BY DEF TypeOK, PaidAtMostOnce, One
\* A step that sends nothing, and after which nobody else is about to send.
<1> DEFINE Quiet ==
      /\ paid' = paid
      /\ \A k \in Key : request'[k].state = "NONE" <=> request[k].state = "NONE"
      /\ \A b \in Caller : caller'[b].phase = "calling" => caller'[b] = caller[b]
<1>1. ASSUME Quiet PROVE SubmitInv' /\ PaidAtMostOnce'
  <2>1. SubmitInv'
    BY <1>1 DEF SubmitInv, LockInv
  <2>2. PaidAtMostOnce'
    BY <1>1 DEF PaidAtMostOnce, One
  <2> QED BY <2>1, <2>2
<1>2. ASSUME NEW c \in Caller, NEW k \in Key, NEW essential \in BOOLEAN,
             Start(c, k, essential)
      PROVE  Quiet
  BY <1>2 DEF TypeOK, Start, ledger
<1>3. ASSUME NEW c \in Caller, Replay(c) \/ Refuse(c) \/ Crash(c) PROVE Quiet
  BY <1>3 DEF TypeOK, Replay, Refuse, Crash, Leave, Idle, ledger
<1>4. ASSUME NEW c \in Caller, Lock(c) PROVE Quiet
  BY <1>4 DEF TypeOK, Lock, CallerState, ledger
<1>5. ASSUME NEW c \in Caller, RecordResponse(c) PROVE Quiet
  <2>1. \A k \in Key : request'[k].state = "NONE" <=> request[k].state = "NONE"
    BY <1>5 DEF TypeOK, RecordResponse
  <2> QED BY <1>5, <2>1 DEF TypeOK, RecordResponse, Leave, Idle
<1>6. CASE Midnight \/ UNCHANGED vars
  BY <1>6, <1>1 DEF Midnight, vars, ledger
<1>7. ASSUME NEW c \in Caller, Authorize(c) PROVE SubmitInv' /\ PaidAtMostOnce'
  <2>1. caller[c].key \in Key /\ request[caller[c].key].state = "NONE"
    BY <1>7 DEF LockInv, Authorize, Inserts
  <2>2. /\ \A b \in Caller :
             IF b = c THEN /\ caller'[b].phase = "calling"
                           /\ caller'[b].key = caller[b].key
                      ELSE caller'[b] = caller[b]
        /\ paid' = paid
        /\ \A l \in Key : IF l = caller[c].key THEN request'[l].state = "SUBMITTED"
                                               ELSE request'[l] = request[l]
    BY <1>7, <2>1 DEF TypeOK, Authorize, Enter, CallerState
  <2>3. SubmitInv'
    BY <1>0, <2>1, <2>2 DEF SubmitInv, LockInv
  <2>4. PaidAtMostOnce'
    BY <1>0, <2>1, <2>2 DEF PaidAtMostOnce, One
  <2> QED BY <2>3, <2>4
<1>8. ASSUME NEW c \in Caller, NEW answered \in BOOLEAN, Call(c, answered)
      PROVE  SubmitInv' /\ PaidAtMostOnce'
  <2>1. /\ caller[c].phase = "calling" /\ caller[c].key \in Key
        /\ request[caller[c].key].state # "NONE" /\ paid[caller[c].key] = 0
    BY <1>8 DEF Call, SubmitInv, LockInv
  <2>2. /\ request' = request
        /\ \A l \in Key : paid'[l] = IF l = caller[c].key THEN 1 ELSE paid[l]
    BY <1>0, <1>8, <2>1 DEF Call, ledger, TypeOK
  <2>3. \A b \in Caller : /\ b = c => caller'[b].phase # "calling"
                          /\ b # c => caller'[b] = caller[b]
    BY <1>8 DEF Call, Enter, Leave, Idle, TypeOK, CallerState
  <2>4. SubmitInv'
    BY <2>1, <2>2, <2>3 DEF SubmitInv, LockInv
  <2>5. PaidAtMostOnce'
    BY <1>0, <2>1, <2>2 DEF PaidAtMostOnce, One
  <2> QED BY <2>4, <2>5
<1> QED BY <1>1, <1>2, <1>3, <1>4, <1>5, <1>6, <1>7, <1>8 DEF Next

LEMMA LedgerStep == TypeOK /\ LockInv /\ LedgerInv /\ [Next]_vars => LedgerInv'
<1> SUFFICES ASSUME TypeOK, LockInv, LedgerInv, [Next]_vars PROVE LedgerInv'
  OBVIOUS
<1>1. ASSUME NEW c \in Caller, Authorize(c) PROVE LedgerInv'
  <2>1. /\ caller[c].key \in Key /\ caller[c].date \in Date
        /\ caller[c].essential \in BOOLEAN
        /\ caller[c].row = usage[caller[c].date]
    BY <1>1 DEF Authorize, LockInv, TypeOK, CallerState
  <2> QED BY <1>1, <2>1, LedgerCharged DEF Authorize
<1>2. ASSUME NEW c \in Caller, RecordResponse(c) PROVE LedgerInv'
  <2>1. \A k \in Key : /\ request'[k].date = request[k].date
                       /\ request'[k].state = "NONE" <=> request[k].state = "NONE"
    BY <1>2 DEF TypeOK, RecordResponse
  <2> QED BY <1>2, <2>1, LedgerKept DEF RecordResponse
<1>3. ASSUME UNCHANGED <<ledger, ordinary>> PROVE LedgerInv'
  BY <1>3, LedgerKept DEF ledger
<1>4. ASSUME NEW c \in Caller,
             \/ \E k \in Key, essential \in BOOLEAN : Start(c, k, essential)
             \/ Replay(c) \/ Lock(c) \/ Refuse(c) \/ Crash(c)
             \/ \E answered \in BOOLEAN : Call(c, answered)
      PROVE  LedgerInv'
  BY <1>3, <1>4 DEF Start, Replay, Lock, Refuse, Crash, Call
<1>5. CASE Midnight \/ UNCHANGED vars
  BY <1>3, <1>5 DEF Midnight, vars, ledger
<1> QED BY <1>1, <1>2, <1>4, <1>5 DEF Next

(* ------------------------------ theorems ------------------------------- *)

\* The facts above hold together in every reachable state.
THEOREM BudgetInvariant == Spec => []BudgetInv
<1>1. BudgetInv /\ [Next]_vars => BudgetInv'
  BY TypeStep, LockStep, SubmitStep, LedgerStep DEF BudgetInv, LedgerInv
<1> QED BY <1>1, BudgetInvInit, PTL DEF Spec

\* The tables and the callers keep their types.
THEOREM BudgetTypes == Spec => []TypeOK
BY BudgetInvariant, PTL DEF BudgetInv

\* No number of concurrent callers exceeds a ceiling of any day.
THEOREM CapsTheorem == Spec => []CapsHeld
BY BudgetInvariant, PTL DEF BudgetInv

\* The ledger equals what was authorized, through crashes and midnight.
THEOREM LedgerTheorem == Spec => []LedgerExact
BY BudgetInvariant, PTL DEF BudgetInv

\* No input is ever paid for twice.
THEOREM PaidTheorem == Spec => []PaidAtMostOnce
BY BudgetInvariant, PTL DEF BudgetInv

\* One single-article submission per article and day.
THEOREM AnalysisTheorem == Spec => []OneAnalysisPerDay
BY BudgetInvariant, PTL DEF BudgetInv

\* Ordinary work leaves the essential reserve alone.
THEOREM ReserveTheorem == Spec => []EssentialRoomKept
BY BudgetInvariant, PTL DEF BudgetInv
=============================================================================
