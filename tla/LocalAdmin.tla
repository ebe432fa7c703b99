----------------------------- MODULE LocalAdmin ------------------------------
(***************************************************************************)
(* The administrators' side of the deterministic backend: versioned rows    *)
(* under If-Match, requests under an idempotency key, weight revisions and  *)
(* their reviews, the reviewed comparison, the jobs and the switch.         *)
(*                                                                         *)
(* Every handler is one step.  It looks at the row, its state and If-Match  *)
(* first and at the stored answer of the key last, so a request that is     *)
(* sent again after it took effect may be refused instead of answered.      *)
(***************************************************************************)
EXTENDS Integers, FiniteSetsExt

CONSTANTS
  DeskKeys,      \* idempotency keys
  Contents,      \* request bodies
  Weights,       \* identifiers of weight revisions
  FirstWeight,   \* the seeded one
  Advice,        \* identifiers of generated recommendations
  Targets        \* issues a merge may name and create

ASSUME LocalAdminAssumption == FirstWeight \in Weights /\ Weights \cap Advice = {}

VARIABLES
  row,        \* sources, models, issues, autopilot, llm_usage: version and last body
  revision,   \* weights
  advice,     \* recommendations, by weight or generated identifier
  trials,     \* simulations: the revisions with a passing 7 and 30 day one
  answered,   \* idempotency: scope, key and body of each stored answer
  took,       \* how often a request took effect, by scope and key (observed)
  desk,       \* jobs
  made,       \* issues created as a merge's target
  reviewed    \* reviewed_at of the comparison snapshot is set

deskVars == <<row, revision, advice, trials, answered, took, desk, made, reviewed>>

RowNames == {"source", "model", "issue", "autopilot", "llm_usage"}
\* A row's values are named by the revision they were first written in.
Unwritten == [number |-> 0, status |-> "none", values |-> FirstWeight]

LocalAdminInit ==
  /\ row = [n \in RowNames |-> [version |-> 1, body |-> "seed"]]
  /\ revision = [w \in Weights |-> IF w = FirstWeight
                   THEN [Unwritten EXCEPT !.number = 1, !.status = "active"] ELSE Unwritten]
  /\ advice = [w \in Weights \cup Advice |-> "none"]
  /\ trials = {} /\ answered = {} /\ took = {} /\ desk = << >> /\ made = {}
  /\ reviewed = TRUE        \* the seeded one is

-----------------------------------------------------------------------------
\* _idempotent: a key that was answered does nothing again; another body under
\* it is refused.
Fresh(scope, key) == ~\E a \in answered : a[1] = scope /\ a[2] = key

TakeEffect(scope, key, body) ==
  /\ Fresh(scope, key)
  /\ answered' = answered \cup {<<scope, key, body>>}
  /\ took' = took \cup
       {<<scope, key, Cardinality({e \in took : e[1] = scope /\ e[2] = key})>>}

\* A request without a stored answer of its own.
Unrecorded == UNCHANGED <<answered, took>>

\* A job is told apart by its type and dedupe key.
Asked(j) == IF j \in DOMAIN desk THEN desk
            ELSE [k \in DOMAIN desk \cup {j} |-> IF k = j THEN "PENDING" ELSE desk[k]]

CreateRow(scope, key, body) ==
  /\ TakeEffect(scope, key, body)
  /\ UNCHANGED <<row, revision, advice, trials, desk, made, reviewed>>

LocalCreateSource(key, body) == CreateRow(<<"create-source">>, key, body)
LocalCreateModel(key, body) == CreateRow(<<"create-model">>, key, body)

\* PATCH of a versioned row under If-Match.
Patch(n, key, body, ifMatch) ==
  /\ row[n].version = ifMatch
  /\ TakeEffect(<<"row", n>>, key, body)
  /\ row' = [row EXCEPT ![n] = [version |-> ifMatch + 1, body |-> body]]
  /\ UNCHANGED <<revision, advice, trials, desk, made, reviewed>>

\* A body says, beside other fields, whether the source's approval, the model or
\* Auto Pilot is off; a mode that needs guard rails without them is refused and
\* leaves no answer.
LocalPatchSource(key, body, v) == Patch("source", key, body, v)
LocalPatchModel(key, body, v) == Patch("model", key, body, v)
LocalPatchIssue(key, body, v) == Patch("issue", key, body, v)
LocalPutAutopilot(key, body, v) == Patch("autopilot", key, body, v)

\* Switching off cancels what waits; the body says whether it is off.
SwitchUsage(key, body, ifMatch) ==
  /\ row["llm_usage"].version = ifMatch
  /\ TakeEffect(<<"row", "llm_usage">>, key, body)
  /\ row' = [row EXCEPT !["llm_usage"] = [version |-> ifMatch + 1, body |-> body]]
  /\ desk' = IF body = "off" THEN [j \in DOMAIN desk |-> "CANCELLED"] ELSE desk
  /\ UNCHANGED <<revision, advice, trials, made, reviewed>>

\* Crawls, analyses, merges and splits are only queued, one job per key.
QueueOnly(j) ==
  /\ desk' = Asked(j)
  /\ Unrecorded
  /\ UNCHANGED <<row, revision, advice, trials, made, reviewed>>

\* Only while policy, robots and terms of the crawled source are approved.
LocalRequestCrawl(key) == row["source"].body # "off" /\ QueueOnly(<<"crawl", key>>)
LocalSplit(key) == QueueOnly(<<"split_issue", key>>)
LocalAnalyze(key) == QueueOnly(<<"analyze", key>>)

\* A merge creates the target it names.
LocalMerge(t, key) ==
  /\ made' = made \cup {t} /\ desk' = Asked(<<"merge_issue", t, key>>)
  /\ Unrecorded
  /\ UNCHANGED <<row, revision, advice, trials, reviewed>>

RetryDesk(j, key) ==
  /\ desk[j] = "CANCELLED" /\ TakeEffect(<<"retry", j>>, key, "none")
  /\ desk' = [desk EXCEPT ![j] = "PENDING"]
  /\ UNCHANGED <<row, revision, advice, trials, made, reviewed>>

CancelDesk(j, key) ==
  /\ desk[j] = "PENDING" /\ TakeEffect(<<"cancel", j>>, key, "none")
  /\ desk' = [desk EXCEPT ![j] = "CANCELLED"]
  /\ UNCHANGED <<row, revision, advice, trials, made, reviewed>>

\* Only the comparison of the issue's present version, by a trusted model that
\* is still active.  The snapshot is of the seeded version.
ReviewSnapshot(key, body) ==
  /\ row["issue"].version = 1 /\ row["model"].body # "off"
  /\ TakeEffect(<<"comparison">>, key, body)
  /\ reviewed' = TRUE
  /\ UNCHANGED <<row, revision, advice, trials, desk, made>>

-----------------------------------------------------------------------------
(* Weight revisions.                                                        *)

Highest == Max({revision[w].number : w \in Weights})
Actives == {w \in Weights : revision[w].status = "active"}

CreateRevision(w, key, body) ==
  /\ revision[w] = Unwritten /\ TakeEffect(<<"create-weight">>, key, body)
  /\ revision' = [revision EXCEPT ![w] = [number |-> Highest + 1, status |-> "draft", values |-> w]]
  /\ UNCHANGED <<row, advice, trials, desk, made, reviewed>>

\* Whatever the revision's status was.  Both windows pass in this backend, and
\* a review is opened when there was none.
Simulate(w, key) ==
  /\ revision[w] # Unwritten
  /\ revision' = [revision EXCEPT ![w].status = "simulation"]
  /\ trials' = trials \cup {w}
  /\ advice' = [advice EXCEPT ![w] = IF @ = "none" THEN "PENDING_REVIEW" ELSE @]
  /\ desk' = Asked(<<"simulate_weights", w, key>>)
  /\ Unrecorded /\ UNCHANGED <<row, made, reviewed>>

\* Nothing is stored under the key here: sent again, it leaves another
\* recommendation, and the one job names the first.
Generate(r, key) ==
  /\ advice[r] = "none" /\ Actives # {}
  /\ advice' = [advice EXCEPT ![r] = "PENDING_REVIEW"]
  /\ desk' = Asked(<<"recommend_weights", key>>)
  /\ Unrecorded /\ UNCHANGED <<row, revision, trials, made, reviewed>>

ReviewAdvice(r, decision, key, body) ==
  /\ advice[r] = "PENDING_REVIEW" /\ TakeEffect(<<"review", r, decision>>, key, body)
  /\ advice' = [advice EXCEPT ![r] = decision]
  /\ UNCHANGED <<row, revision, trials, desk, made, reviewed>>

Archived(others) ==
  [w \in Weights |-> IF w \in others /\ revision[w].status = "active"
                     THEN [revision[w] EXCEPT !.status = "archived"] ELSE revision[w]]

\* Mutant: the reviewer's decision is not looked at.
Publishable_Unreviewed(w) == revision[w].status \in {"draft", "simulation"} /\ w \in trials

Publishable(w) ==
  revision[w].status \in {"draft", "simulation"} /\ w \in trials /\ advice[w] = "APPROVED"

PublishRevision(w, key, body, ifMatch) ==
  /\ Publishable(w) /\ row["autopilot"].version = ifMatch
  /\ TakeEffect(<<"publish", w>>, key, body)
  /\ revision' = [Archived(Weights) EXCEPT ![w].status = "active"]
  /\ advice' = [advice EXCEPT ![w] = "PUBLISHED"]
  /\ row' = [row EXCEPT !["autopilot"].version = ifMatch + 1]
  /\ UNCHANGED <<trials, desk, made, reviewed>>

\* An older archived revision is copied into a new active one; one that was
\* reviewed or simulated must have been approved and have passed.
RollBackTo(w, target, new, key, body, ifMatch) ==
  /\ revision[w].status = "active" /\ revision[target].status = "archived"
  /\ revision[target].number < revision[w].number
  /\ revision[new] = Unwritten
  /\ row["autopilot"].version = ifMatch
  /\ advice[target] \in {"none", "APPROVED", "PUBLISHED"}
  /\ TakeEffect(<<"rollback", w>>, key, body)
  /\ revision' = [Archived({w}) EXCEPT
       ![new] = [number |-> Highest + 1, status |-> "active", values |-> revision[target].values]]
  /\ row' = [row EXCEPT !["autopilot"].version = ifMatch + 1]
  /\ UNCHANGED <<advice, trials, desk, made, reviewed>>

LocalAdminNext ==
  \/ \E key \in DeskKeys :
       \/ \E body \in Contents :
            \/ LocalCreateSource(key, body) \/ LocalCreateModel(key, body)
            \/ \E v \in 1 .. row["source"].version : LocalPatchSource(key, body, v)
            \/ \E v \in 1 .. row["model"].version : LocalPatchModel(key, body, v)
            \/ \E v \in 1 .. row["issue"].version : LocalPatchIssue(key, body, v)
            \/ \E v \in 1 .. row["autopilot"].version : LocalPutAutopilot(key, body, v)
            \/ \E v \in 1 .. row["llm_usage"].version : SwitchUsage(key, body, v)
            \/ ReviewSnapshot(key, body)
            \/ \E w \in Weights : CreateRevision(w, key, body)
            \/ \E r \in Weights \cup Advice, d \in {"APPROVED", "REJECTED"} :
                 ReviewAdvice(r, d, key, body)
            \/ \E v \in 1 .. row["autopilot"].version :
                 \/ \E w \in Weights : PublishRevision(w, key, body, v)
                 \/ \E w, target, new \in Weights : RollBackTo(w, target, new, key, body, v)
       \/ LocalRequestCrawl(key) \/ LocalSplit(key) \/ LocalAnalyze(key)
       \/ \E t \in Targets : LocalMerge(t, key)
       \/ \E j \in DOMAIN desk : RetryDesk(j, key) \/ CancelDesk(j, key)
       \/ \E w \in Weights : Simulate(w, key)
       \/ \E r \in Advice : Generate(r, key)

LocalAdminSpec == LocalAdminInit /\ [][LocalAdminNext]_deskVars

-----------------------------------------------------------------------------
\* A reviewer approved it and both simulations passed.
Vetted(w) ==
  w \in trials /\ \E e \in took : e[1] = <<"review", w, "APPROVED">>

\* At most one revision is active, and the values it holds were seeded, or were
\* simulated and approved by a reviewer, rollbacks and repeated simulations
\* included.
LocalActiveIsVetted ==
  /\ Cardinality(Actives) <= 1
  /\ \A w \in Actives :
       LET o == revision[w].values IN o = FirstWeight \/ Vetted(o)
=============================================================================
