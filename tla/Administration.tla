---------------------------- MODULE Administration ---------------------------
(* Administrators' changes to models, sources, weight profiles and settings.  *)
(* A request looks its idempotency key up, then does its work and stores the  *)
(* receipt in one transaction; two requests, also two tries of the same one,  *)
(* may be between the lookup and the commit at once.  Workers simulate draft  *)
(* profiles and replace the proposals of recommendations.                     *)
EXTENDS Integers, FiniteSets, Sequences, Functions

CONSTANTS
    Keys,           \* idempotency keys clients choose
    Requests,       \* requests that may be running at once
    Models,         \* model aliases
    Sources,        \* crawler sources
    Profiles,       \* weight vectors, in hundredths, over the same axes
    Seeded,         \* the profile that is active at first
    Evidence,       \* deltas a recommendation may ask for, per axis
    Generated,      \* identifiers for recommendations generated on request
    MaxRevision,    \* bound on profile revisions
    MaxVersion,     \* bound on If-Match versions
    MaxAxisChange, MaxShift     \* guardrails, in hundredths: 10 and 14

ASSUME AdministrationAssumption ==
    /\ MaxRevision \in Nat \ {0}
    /\ \A p \in Profiles : DOMAIN p = DOMAIN Seeded

VARIABLES
    model,      \* model aliases: status and version
    source,     \* sources: policy, whether active, version
    rev,        \* weight profile revisions, in order
    rec,        \* recommendations, by revision (a manual simulation's) or name
    sims,       \* verdicts of the stored simulations of each revision
    auto,       \* the settings row: mode and the version of the active profile
    jobs,       \* queued simulations, recommendations, crawls and analyses
    receipts,   \* (scope, key) -> the request answered
    reqs,       \* requests between the lookup of their key and their commit
    ran         \* ghost: how often each (scope, key) took effect

tables == <<model, source, rev, rec, sims, auto, jobs>>
vars == <<tables, receipts, reqs, ran>>

Axes == DOMAIN Seeded
ModelStatus == {"ACTIVE", "DISABLED"}
Policies == {"PENDING", "APPROVED"}
Modes == {"OFF", "RECOMMEND", "LIMITED_AUTO"}
Revisions == 1..MaxRevision
Recommendations == Revisions \cup Generated

NoModel == [st |-> "none", ver |-> 1]
NoSource == [policy |-> "none", ver |-> 1]
NoRec == [st |-> "none", base |-> 1, prop |-> Seeded, total |-> 100]
Idle == [st |-> "idle"]
NoReceipts == [x \in {} |-> 0]

Init ==
    /\ model = [m \in Models |-> NoModel]
    /\ source = [s \in Sources |-> NoSource]
    /\ rev = <<[st |-> "active", w |-> Seeded, based |-> 0]>>
    /\ rec = [x \in Recommendations |-> NoRec]
    /\ sims = [v \in Revisions |-> {}]
    /\ auto = [mode |-> "OFF", ver |-> 1]
    /\ jobs = {} /\ receipts = NoReceipts /\ ran = NoReceipts
    /\ reqs = [r \in Requests |-> Idle]

------------------------------------------------------------------------------
(* Guardrails and proposals *)

Abs(n) == IF n < 0 THEN 0 - n ELSE n
Clip(n, lo, hi) == IF n < lo THEN lo ELSE IF n > hi THEN hi ELSE n

\* The metrics of a shadow simulation move with the distance between the two
\* vectors; with no evidence attached both windows report the same, and what is
\* left of the guardrails is the change per axis and the shift of the
\* distribution (0.01 and the distance).
Distance(a, b) == SumFunction([x \in Axes |-> Abs(a[x] - b[x])])
Verdict(base, w) ==
    IF /\ \A x \in Axes : Abs(w[x] - base[x]) <= MaxAxisChange
       /\ Distance(base, w) <= MaxShift
    THEN "PASS" ELSE "FAILED"

\* Each axis moves by at most MaxAxisChange; the result is then divided by its
\* total.
Propose(base, d) ==
    LET p == [x \in Axes |-> Clip(base[x] + Clip(d[x], 0 - MaxAxisChange, MaxAxisChange), 0, 100)]
    IN [prop |-> p, total |-> SumFunction(p)]

Active == CHOOSE v \in DOMAIN rev : rev[v].st = "active"
Passed(v) == "PASS" \in sims[v]

------------------------------------------------------------------------------
(* Models *)

ActiveModels == {m \in Models : model[m].st = "ACTIVE"}

\* Whether another model is active is read without a lock.
ModelAllowed(b) ==
    /\ b.arg = "ACTIVE" => ActiveModels \subseteq {b.on}
    /\ \/ b.op = "create_model" /\ model[b.on].st = "none"
       \/ /\ b.op = "update_model" /\ model[b.on].st # "none" /\ model[b.on].ver = b.ver
          /\ \A r \in Requests : reqs[r].st = "checked" => reqs[r].body.on # b.on

CreateModel(b) ==
    /\ b.op = "create_model" /\ model[b.on].st = "none"
    /\ model' = [model EXCEPT ![b.on].st = b.arg]
    /\ UNCHANGED <<source, rev, rec, sims, auto, jobs>>

UpdateModel(b) ==
    /\ b.op = "update_model"
    /\ model' = [model EXCEPT ![b.on] = [st |-> b.arg, ver |-> b.ver + 1]]
    /\ UNCHANGED <<source, rev, rec, sims, auto, jobs>>

------------------------------------------------------------------------------
(* Sources *)

CreateSource(b) ==
    /\ b.op = "create_source" /\ source[b.on].policy = "none"
    /\ source' = [source EXCEPT ![b.on].policy = b.arg]
    /\ UNCHANGED <<model, rev, rec, sims, auto, jobs>>

UpdateSource(b) ==
    /\ b.op = "update_source" /\ source[b.on].policy # "none" /\ source[b.on].ver = b.ver
    /\ source' = [source EXCEPT ![b.on] = [policy |-> b.arg, ver |-> b.ver + 1]]
    /\ UNCHANGED <<model, rev, rec, sims, auto, jobs>>

Queued(j) == jobs' = jobs \cup {j}

\* A crawler's policy, robots and terms must be approved.
EnqueueCrawl(b) ==
    /\ b.op = "crawl" /\ source[b.on].policy = "APPROVED"
    /\ Queued([type |-> "crawl", on |-> b.on, verdict |-> "none"])
    /\ UNCHANGED <<model, source, rev, rec, sims, auto>>

------------------------------------------------------------------------------
(* Weight profiles *)

\* Revision numbers are unique: all revisions are locked while one is added.
CreateWeight(b) ==
    /\ b.op = "create_weight" /\ Len(rev) < MaxRevision
    /\ rev' = Append(rev, [st |-> "draft", w |-> b.arg, based |-> 0])
    /\ UNCHANGED <<model, source, rec, sims, auto, jobs>>

SimulateWeight(b) ==
    LET v == b.on IN
    /\ b.op = "simulate" /\ v \in DOMAIN rev /\ rev[v].st \in {"draft", "simulation"}
    /\ rev' = [rev EXCEPT ![v].st = "simulation"]
    /\ rec' = IF rec[v].st # "none" THEN rec
              ELSE [rec EXCEPT ![v] = [st |-> "PENDING_REVIEW", base |-> v,
                                       prop |-> rev[v].w, total |-> 100]]
    /\ Queued([type |-> "simulate", on |-> v, verdict |-> "none"])
    /\ UNCHANGED <<model, source, sims, auto>>

PublishWeight(b) ==
    LET v == b.on IN
    /\ b.op = "publish" /\ v \in DOMAIN rev /\ auto.ver = b.ver
    /\ Passed(v) /\ rec[v].st = "APPROVED"
    /\ rev[v].st \in {"draft", "simulation"}
    /\ rev' = [x \in DOMAIN rev |->
                 IF x = v THEN [rev[x] EXCEPT !.st = "active"]
                 ELSE IF rev[x].st = "active" THEN [rev[x] EXCEPT !.st = "archived"] ELSE rev[x]]
    /\ auto' = [auto EXCEPT !.ver = @ + 1]
    /\ UNCHANGED <<model, source, rec, sims, jobs>>

RollbackTarget_Any(v, t) == {v, t} \subseteq DOMAIN rev /\ rev[v].st = "active" /\ v # t

\* Only an older archived revision, reviewed if it had a recommendation, and
\* passed if it was ever simulated.
RollbackTarget(v, t) ==
    /\ {v, t} \subseteq DOMAIN rev /\ rev[v].st = "active"
    /\ v # t /\ rev[t].st = "archived" /\ t < v
    /\ rec[t].st \in {"none", "APPROVED"}
    /\ sims[t] # {} => Passed(t)

\* The target is copied into a new revision.
RollbackWeight(b) ==
    /\ b.op = "rollback" /\ RollbackTarget(b.on, b.arg) /\ auto.ver = b.ver
    /\ Len(rev) < MaxRevision
    /\ rev' = Append([rev EXCEPT ![b.on].st = "archived"],
                     [st |-> "active", w |-> rev[b.arg].w, based |-> b.arg])
    /\ auto' = [auto EXCEPT !.ver = @ + 1]
    /\ UNCHANGED <<model, source, rec, sims, jobs>>

\* The recommendation starts from the active profile; a worker is to propose.
GenerateRecommendation(b) ==
    /\ b.op = "recommend" /\ rec[b.on].st = "none"
    /\ rec' = [rec EXCEPT ![b.on] = [st |-> "PENDING_REVIEW", base |-> Active,
                                     prop |-> rev[Active].w, total |-> 100]]
    /\ Queued([type |-> "recommend", on |-> b.on, verdict |-> "none"])
    /\ UNCHANGED <<model, source, rev, sims, auto>>

ReviewRecommendation(b) ==
    /\ b.op = "review" /\ rec[b.on].st = "PENDING_REVIEW"
    /\ rec' = [rec EXCEPT ![b.on].st = b.arg]
    /\ UNCHANGED <<model, source, rev, sims, auto, jobs>>

UpdateAutopilot(b) ==
    /\ b.op = "settings" /\ auto.ver = b.ver
    /\ auto' = [mode |-> b.arg, ver |-> b.ver + 1]
    /\ UNCHANGED <<model, source, rev, rec, sims, jobs>>

------------------------------------------------------------------------------
(* Requests *)

\* The version a client has just read, for the operations that need If-Match.
CurrentVersion(b) ==
    IF b.op = "update_model" THEN model[b.on].ver
    ELSE IF b.op = "update_source" THEN source[b.on].ver
    ELSE auto.ver

\* Keys are scoped by operation and target; creations share one scope.
Scope(b) ==
    IF b.op \in {"create_model", "create_source", "create_weight", "recommend", "settings"}
    THEN <<b.op>>
    ELSE IF b.op = "review" THEN <<b.op, b.on, b.arg>> ELSE <<b.op, b.on>>

Receipt(r) == <<Scope(reqs[r].body), reqs[r].key>>

\* A key that has a receipt is answered from it (or refused, for another
\* request) without touching anything else.
Begin(r, b, k) ==
    /\ reqs[r].st = "idle" /\ <<Scope(b), k>> \notin DOMAIN receipts
    /\ b.ver = CurrentVersion(b) /\ b.ver < MaxVersion
    /\ reqs' = [reqs EXCEPT ![r] = [st |-> "begun", body |-> b, key |-> k]]
    /\ UNCHANGED <<tables, receipts, ran>>

ModelOps == {"create_model", "update_model"}

CheckModel(r) ==
    /\ reqs[r].st = "begun" /\ reqs[r].body.op \in ModelOps
    /\ ModelAllowed(reqs[r].body)
    /\ reqs' = [reqs EXCEPT ![r].st = "checked"]
    /\ UNCHANGED <<tables, receipts, ran>>

Perform(b) ==
    \/ CreateModel(b) \/ UpdateModel(b)
    \/ CreateSource(b) \/ UpdateSource(b) \/ EnqueueCrawl(b)
    \/ CreateWeight(b) \/ SimulateWeight(b) \/ PublishWeight(b) \/ RollbackWeight(b)
    \/ GenerateRecommendation(b) \/ ReviewRecommendation(b) \/ UpdateAutopilot(b)

Extended(f, x, y) == [z \in DOMAIN f \cup {x} |-> IF z = x THEN y ELSE f[z]]
Times(x) == IF x \in DOMAIN ran THEN ran[x] ELSE 0

Ready(r) ==
    \/ reqs[r].st = "checked"
    \/ reqs[r].st = "begun" /\ reqs[r].body.op \notin ModelOps

Commit_Upsert(r) ==
    LET b == reqs[r].body IN
    /\ Ready(r)
    /\ Perform(b)
    /\ receipts' = Extended(receipts, Receipt(r), [op |-> b.op, on |-> b.on, arg |-> b.arg])
    /\ ran' = Extended(ran, Receipt(r), Times(Receipt(r)) + 1)
    /\ reqs' = [reqs EXCEPT ![r] = Idle]

\* The receipt's key is unique: of two tries at once the second to insert it
\* fails, and takes its own work back.
Commit(r) ==
    LET b == reqs[r].body IN
    /\ Ready(r)
    /\ Receipt(r) \notin DOMAIN receipts
    /\ Perform(b)
    /\ receipts' = Extended(receipts, Receipt(r), [op |-> b.op, on |-> b.on, arg |-> b.arg])
    /\ ran' = Extended(ran, Receipt(r), Times(Receipt(r)) + 1)
    /\ reqs' = [reqs EXCEPT ![r] = Idle]

\* Refused, a deadlock's victim, a duplicate receipt or a lost connection.
RollBack(r) ==
    /\ reqs[r].st # "idle"
    /\ reqs' = [reqs EXCEPT ![r] = Idle]
    /\ UNCHANGED <<tables, receipts, ran>>

------------------------------------------------------------------------------
(* Workers *)

\* The vector given with the job, against the profile active now.
RunSimulation(j) ==
    /\ j.type = "simulate" /\ j.verdict = "none"
    /\ jobs' = (jobs \ {j}) \cup {[j EXCEPT !.verdict = Verdict(rev[Active].w, rev[j.on].w)]}
    /\ UNCHANGED <<model, source, rev, rec, sims, auto, receipts, reqs, ran>>

ApplySimulation(j) ==
    /\ j.type = "simulate" /\ j.verdict # "none"
    /\ sims' = [sims EXCEPT ![j.on] = @ \cup {j.verdict}]
    /\ jobs' = jobs \ {j}
    /\ UNCHANGED <<model, source, rev, rec, auto, receipts, reqs, ran>>

\* The row's proposal is replaced, whatever its review.
ApplyRecommendation(j, d) ==
    LET p == Propose(rev[rec[j.on].base].w, d) IN
    /\ j.type = "recommend"
    /\ rec' = [rec EXCEPT ![j.on].prop = p.prop, ![j.on].total = p.total]
    /\ jobs' = jobs \ {j}
    /\ UNCHANGED <<model, source, rev, sims, auto, receipts, reqs, ran>>

Versions == 1..MaxVersion
Bodies ==
    [op : {"create_model"}, on : Models, arg : ModelStatus, ver : Versions]
    \cup [op : {"update_model"}, on : Models, arg : ModelStatus, ver : Versions]
    \cup [op : {"create_source"}, on : Sources, arg : Policies, ver : Versions]
    \cup [op : {"update_source"}, on : Sources, arg : Policies, ver : Versions]
    \cup [op : {"crawl"}, on : Sources, arg : {""}, ver : Versions]
    \cup [op : {"create_weight"}, on : {0}, arg : Profiles, ver : Versions]
    \cup [op : {"simulate", "publish"}, on : Revisions, arg : {""}, ver : Versions]
    \cup [op : {"rollback"}, on : Revisions, arg : Revisions, ver : Versions]
    \cup [op : {"recommend"}, on : Generated, arg : {""}, ver : Versions]
    \cup [op : {"review"}, on : Recommendations, arg : {"APPROVED", "REJECTED"}, ver : Versions]
    \cup [op : {"settings"}, on : {0}, arg : Modes, ver : Versions]

Next ==
    \/ \E r \in Requests : \/ \E b \in Bodies, k \in Keys : Begin(r, b, k)
                           \/ CheckModel(r) \/ Commit(r) \/ RollBack(r)
    \/ \E j \in jobs : RunSimulation(j) \/ ApplySimulation(j)
                       \/ \E d \in Evidence : ApplyRecommendation(j, d)

AdminSpec == Init /\ [][Next]_vars

------------------------------------------------------------------------------
(* Properties *)

\* A key's operation takes effect at most once in its scope, however often and
\* however simultaneously it is tried.
EffectOncePerKey == \A x \in DOMAIN ran : ran[x] <= 1

\* Articles are scored with one profile: whatever drafts, publications and
\* rollbacks overlap, one revision is active, and it, like every revision
\* that ever was, is the first one, an approved one that passed its
\* simulations, or the copy of one of those.
ActiveIsVetted ==
    /\ Cardinality({v \in DOMAIN rev : rev[v].st = "active"}) = 1
    /\ \A v \in DOMAIN rev : rev[v].st \in {"active", "archived"} =>
          \/ v = 1
          \/ rec[v].st = "APPROVED" /\ Passed(v)
          \/ LET t == rev[v].based IN t # 0 /\ rev[t].st = "archived" /\ rev[t].w = rev[v].w

\* "Return the single active OpenAI GPT configuration": no two models are
\* active.
OneActiveModel == Cardinality(ActiveModels) <= 1

\* "A worker may replace the proposed values only by adding a new
\* recommendation, never by rewriting this row": what was approved or rejected
\* stays what it was.
ReviewedProposalStays ==
    [][\A x \in Recommendations : rec[x].st \in {"APPROVED", "REJECTED"} => rec'[x] = rec[x]]_vars

==============================================================================
