------------------------------ MODULE LLMBudget ------------------------------
(***************************************************************************)
(* The daily authorization of paid model requests: the tables llm_daily_   *)
(* usage, llm_daily_articles and llm_requests, and the callers (handlers   *)
(* in any worker process) that reserve, call the provider and record.      *)
(*                                                                         *)
(* A reservation takes the KST date from the clock, then waits for the     *)
(* row lock of that date's ledger; midnight may pass in between.  Callers  *)
(* of one date exclude each other from the lock to the commit, callers of  *)
(* different dates meet only at the primary key of llm_requests.           *)
(***************************************************************************)
EXTENDS Integers, FiniteSets

CONSTANTS
  Key,           \* exact inputs (request_key): one category, subject and cost
  Caller,        \* concurrent callers
  Article,       \* article identifiers
  CategoryOf, SubjectOf, CohortOf, CostOf,
  ProtectedCost, ProtectedRequests,   \* what discovery asks to keep free
  RequestLimit, ArticleLimit, ComparisonLimit, DailyBudget,
  NoKey,         \* an idle caller
  LastDate       \* bound: the days looked at are 1 .. LastDate

Category == {"article", "comparison", "discovery"}
Date == 1 .. LastDate

ASSUME KeyAssumption ==
  /\ NoKey \notin Key
  /\ CategoryOf \in [Key -> Category]
  /\ CohortOf \in [Key -> SUBSET Article]
  /\ \A k \in Key : IsFiniteSet(CohortOf[k])
  /\ \A k \in Key : CategoryOf[k] = "article" => CohortOf[k] = {SubjectOf[k]}
  /\ CostOf \in [Key -> Nat]
ASSUME LimitAssumption ==
  /\ RequestLimit \in Nat \ {0}
  /\ ArticleLimit \in Nat \ {0}
  /\ DailyBudget \in Nat \ {0}
  /\ ComparisonLimit \in 0 .. RequestLimit
  /\ ProtectedCost \in Nat /\ ProtectedRequests \in Nat
  /\ LastDate \in Nat \ {0}

VARIABLES
  today,     \* the KST date
  usage,     \* llm_daily_usage
  cohort,    \* llm_daily_articles
  request,   \* llm_requests: state and date
  caller,    \* local state of each caller
  paid,      \* history: submissions of a key that reached the provider
  ordinary   \* history: what non-essential work was granted on a date

ledger == <<usage, cohort, request>>
vars == <<today, usage, cohort, request, caller, paid, ordinary>>

Usage == [requests: Nat, articles: Nat, comparisons: Nat, reserved: Nat]
NoUsage == [requests |-> 0, articles |-> 0, comparisons |-> 0, reserved |-> 0]
Grants == [requests: Nat, articles: Nat, cost: Nat]

Least(a, b) == IF a < b THEN a ELSE b
Greatest(a, b) == IF a < b THEN b ELSE a

EssentialArticles == Least(9, ArticleLimit \div 5)
EssentialRequests == Least(12, RequestLimit \div 5)
EssentialCost == DailyBudget \div 5

Idle == [phase |-> "idle", key |-> NoKey, date |-> 0, essential |-> FALSE,
         row |-> NoUsage]

Phase == {"idle", "waiting", "locked", "calling", "answered"}
CallerState == [phase: Phase, key: Key \cup {NoKey}, date: Date \cup {0},
                essential: BOOLEAN, row: Usage]

Enter(c, phase) == caller' = [caller EXCEPT ![c].phase = phase]
Leave(c) == caller' = [caller EXCEPT ![c] = Idle]

-----------------------------------------------------------------------------
\* Membership in an active event is looked up for articles; the other two
\* categories always count as essential.
Start(c, k, essential) ==
  /\ caller[c].phase = "idle"
  /\ CategoryOf[k] # "article" => essential
  /\ caller' = [caller EXCEPT ![c] =
                  [phase |-> "waiting", key |-> k, date |-> today,
                   essential |-> essential, row |-> NoUsage]]
  /\ UNCHANGED <<today, ledger, paid, ordinary>>

\* Mutant: the ledger row is read without FOR UPDATE.
Unlocked_Always(d) == TRUE

Unlocked(d) == \A c \in Caller : caller[c].phase = "locked" => caller[c].date # d

\* A known input is answered from its row: a stored response is replayed, a
\* submission without a response is suppressed.
Replay(c) ==
  /\ caller[c].phase = "waiting"
  /\ Unlocked(caller[c].date)
  /\ request[caller[c].key].state # "NONE"
  /\ Leave(c)
  /\ UNCHANGED <<today, ledger, paid, ordinary>>

\* The ledger row is created or locked, and read; the input is unknown.
Lock(c) ==
  /\ caller[c].phase = "waiting"
  /\ Unlocked(caller[c].date)
  /\ request[caller[c].key].state = "NONE"
  /\ caller' = [caller EXCEPT ![c].phase = "locked",
                              ![c].row = usage[caller[c].date]]
  /\ UNCHANGED <<today, ledger, paid, ordinary>>

\* Mutant: only answered submissions count.
AnalyzedOn_Answered(d, subject) ==
  \E k \in Key : /\ CategoryOf[k] = "article" /\ SubjectOf[k] = subject
                 /\ request[k].state = "SUCCEEDED" /\ request[k].date = d

AnalyzedOn(d, subject) ==
  \E k \in Key : /\ CategoryOf[k] = "article" /\ SubjectOf[k] = subject
                 /\ request[k].state # "NONE" /\ request[k].date = d

RequestFloor(row) ==
  Greatest(Greatest(0, ProtectedRequests),
           Least(30, (RequestLimit * 3) \div 5) - row.articles - row.comparisons)

\* Discovery leaves the room that the analysis of its selection will need.
DiscoveryFits(row, cost) ==
  /\ row.reserved + cost + Greatest(EssentialCost, ProtectedCost) <= DailyBudget
  /\ row.requests + 1 + RequestFloor(row) <= RequestLimit

WithinLimits(row, category, cost) ==
  /\ cost \in 1 .. DailyBudget
  /\ row.requests < RequestLimit
  /\ row.reserved + cost <= DailyBudget
  /\ category = "comparison" => row.comparisons < ComparisonLimit
  /\ category = "article" => row.articles < ArticleLimit

\* Mutant: off by one at the request reserve.
WithinOrdinary_OffByOne(row, cost) ==
  /\ row.requests <= RequestLimit - EssentialRequests
  /\ row.articles < ArticleLimit - EssentialArticles
  /\ row.reserved + cost <= DailyBudget - EssentialCost

WithinOrdinary(row, cost) ==
  /\ row.requests < RequestLimit - EssentialRequests
  /\ row.articles < ArticleLimit - EssentialArticles
  /\ row.reserved + cost <= DailyBudget - EssentialCost

CohortFits(d, k, essential) ==
  CohortOf[k] # {} =>
    Cardinality(cohort[d] \cup CohortOf[k])
      <= ArticleLimit - (IF essential THEN 0 ELSE EssentialArticles)

Affordable(d, k, essential, row) ==
  /\ CategoryOf[k] = "article" => ~AnalyzedOn(d, SubjectOf[k])
  /\ CategoryOf[k] = "discovery" => DiscoveryFits(row, CostOf[k])
  /\ WithinLimits(row, CategoryOf[k], CostOf[k])
  /\ ~essential => WithinOrdinary(row, CostOf[k])
  /\ CohortFits(d, k, essential)

One(b) == IF b THEN 1 ELSE 0

Charged(row, category, cost) ==
  [requests |-> row.requests + 1,
   articles |-> row.articles + One(category = "article"),
   comparisons |-> row.comparisons + One(category = "comparison"),
   reserved |-> row.reserved + cost]

Granted(grants, category, cost) ==
  [requests |-> grants.requests + 1,
   articles |-> grants.articles + One(category = "article"),
   cost |-> grants.cost + cost]

\* Mutant: the insert is made an upsert.
Inserts_Upsert(k) == request[k].state # "SUCCEEDED"

\* The primary key of llm_requests lets the row in.
Inserts(k) == request[k].state = "NONE"

\* All rows are written in one transaction, whose commit frees the ledger.
Authorize(c) ==
  LET k == caller[c].key
      d == caller[c].date
  IN
  /\ caller[c].phase = "locked"
  /\ Affordable(d, k, caller[c].essential, caller[c].row)
  /\ Inserts(k)
  /\ request' = [request EXCEPT ![k] = [state |-> "SUBMITTED", date |-> d]]
  /\ cohort' = [cohort EXCEPT ![d] = @ \cup CohortOf[k]]
  /\ usage' = [usage EXCEPT ![d] = Charged(@, CategoryOf[k], CostOf[k])]
  /\ ordinary' = IF caller[c].essential THEN ordinary
                 ELSE [ordinary EXCEPT ![d] = Granted(@, CategoryOf[k], CostOf[k])]
  /\ Enter(c, "calling")
  /\ UNCHANGED <<today, paid>>

\* Too expensive today, or the insert meets a row that a caller of another
\* date committed first: the transaction is rolled back.
Refuse(c) ==
  LET k == caller[c].key IN
  /\ caller[c].phase = "locked"
  /\ \/ ~Affordable(caller[c].date, k, caller[c].essential, caller[c].row)
     \/ ~Inserts(k)
  /\ Leave(c)
  /\ UNCHANGED <<today, ledger, paid, ordinary>>

\* The request is sent; the answer may be lost although it was billed.
Call(c, answered) ==
  /\ caller[c].phase = "calling"
  /\ paid' = [paid EXCEPT ![caller[c].key] = @ + 1]
  /\ IF answered THEN Enter(c, "answered") ELSE Leave(c)
  /\ UNCHANGED <<today, ledger, ordinary>>

RecordResponse(c) ==
  LET k == caller[c].key IN
  /\ caller[c].phase = "answered"
  /\ request' = [request EXCEPT ![k].state =
                   IF @ = "SUBMITTED" THEN "SUCCEEDED" ELSE @]
  /\ Leave(c)
  /\ UNCHANGED <<today, usage, cohort, paid, ordinary>>

\* The process dies, or a database call raises: an open transaction is rolled
\* back, a reservation is never released.
Crash(c) ==
  /\ caller[c].phase # "idle"
  /\ Leave(c)
  /\ UNCHANGED <<today, ledger, paid, ordinary>>

Midnight ==
  /\ today < LastDate
  /\ today' = today + 1
  /\ UNCHANGED <<ledger, caller, paid, ordinary>>

-----------------------------------------------------------------------------
Init ==
  /\ today = 1
  /\ usage = [d \in Date |-> NoUsage]
  /\ cohort = [d \in Date |-> {}]
  /\ request = [k \in Key |-> [state |-> "NONE", date |-> 0]]
  /\ caller = [c \in Caller |-> Idle]
  /\ paid = [k \in Key |-> 0]
  /\ ordinary = [d \in Date |-> [requests |-> 0, articles |-> 0, cost |-> 0]]

Next ==
  \/ \E c \in Caller :
       \/ \E k \in Key, essential \in BOOLEAN : Start(c, k, essential)
       \/ Replay(c) \/ Lock(c) \/ Authorize(c) \/ Refuse(c)
       \/ \E answered \in BOOLEAN : Call(c, answered)
       \/ RecordResponse(c) \/ Crash(c)
  \/ Midnight

Spec == Init /\ [][Next]_vars

-----------------------------------------------------------------------------
TypeOK ==
  /\ today \in Date
  /\ usage \in [Date -> Usage]
  /\ cohort \in [Date -> SUBSET Article]
  /\ request \in [Key -> [state: {"NONE", "SUBMITTED", "SUCCEEDED"}, date: Date \cup {0}]]
  /\ caller \in [Caller -> CallerState]
  /\ paid \in [Key -> Nat]
  /\ ordinary \in [Date -> Grants]

\* No interleaving of callers takes any of the day's five ceilings too far
\* (llm-cost-controls.md: 100 articles, 110 authorizations, 10 comparisons, $5).
CapsHeld ==
  \A d \in Date :
    /\ usage[d].requests <= RequestLimit
    /\ usage[d].articles <= ArticleLimit
    /\ usage[d].comparisons <= ComparisonLimit
    /\ usage[d].reserved <= DailyBudget
    /\ Cardinality(cohort[d]) <= ArticleLimit

Authorized(d) == {k \in Key : request[k].state # "NONE" /\ request[k].date = d}

\* The ledger counts every authorized input, and only those, once: crashes
\* lose none and rolled-back attempts leave no trace.
LedgerExact ==
  \A d \in Date :
    /\ usage[d].requests = Cardinality(Authorized(d))
    /\ cohort[d] = UNION {CohortOf[k] : k \in Authorized(d)}

\* An input is submitted to the provider at most once, ever, across crashes,
\* retries of its job and midnight, and only after its authorization.
PaidAtMostOnce ==
  \A k \in Key : paid[k] <= One(request[k].state # "NONE")

\* An article has at most one new single-article submission per day, however
\* often its text changes.
OneAnalysisPerDay ==
  \A k, l \in Key :
    /\ CategoryOf[k] = "article" /\ CategoryOf[l] = "article"
    /\ SubjectOf[k] = SubjectOf[l]
    /\ request[k].state # "NONE" /\ request[l].state # "NONE"
    /\ request[k].date = request[l].date
    => k = l

\* General feed work never eats into what is kept for events.
EssentialRoomKept ==
  \A d \in Date :
    /\ ordinary[d].requests <= RequestLimit - EssentialRequests
    /\ ordinary[d].articles <= ArticleLimit - EssentialArticles
    /\ ordinary[d].cost <= DailyBudget - EssentialCost
=============================================================================
