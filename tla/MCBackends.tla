----------------------------- MODULE MCBackends -----------------------------
(***************************************************************************)
(* Small instances of the durable job store, of the day's search for events *)
(* and of the deterministic backend for TLC; a behaviour is of one of them. *)
(* JobStore: jobs are named by their type.  Rows share nothing but the      *)
(* clock and the switch, so one row at a time is enough: which of the jobs  *)
(* is ever submitted is the first choice.                                   *)
(* Discovery: two attempts at a date's job, two candidates, two pages each.  *)
(* LocalMember and LocalAdmin: a few requests about reads, votes and        *)
(* consent, cards and exports, weight revisions, or other rows and jobs.    *)
(***************************************************************************)
EXTENDS JobStore, Discovery, LocalMember, LocalAdmin, TLC

CONSTANTS
  MaxClaims,                         \* bound: claims of one row
  Admissions, Mutations, DeskCalls   \* bounds on the requests of a behaviour

VARIABLES about, left

MCTypeOf == [j \in Job |-> j]
MCPagesAbout == [t \in Topics |-> IF t = 1 THEN {1, 2} ELSE {3, 4}]
MCFeed == <<CHOOSE a \in Articles : TRUE>>       \* the only one
MCPublisherOf == [x \in 1 .. 4 |-> x]

\* Workers, requests, keys and operations share their names.
Symmetry == Permutations(Worker \cup LocalRequests \cup Operations)
              \cup Permutations(LocalTokens)

OneRow ==
  /\ Cardinality({j \in Job : jobs[j].status # "NONE"}) <= 1
  /\ \A j \in Job : Cardinality(issued[j]) <= MaxClaims

Budget == [store |-> 0, search |-> 0, reads |-> Admissions - 1, votes |-> Admissions,
           cards |-> Admissions - 1, weights |-> Mutations, desk |-> DeskCalls]

MCInit == /\ Init /\ DiscoveryInit /\ LocalInit /\ LocalAdminInit
          /\ about \in DOMAIN Budget /\ left = Budget[about]

Free == left' = left
Spend == left > 0 /\ left' = left - 1

LocalStep ==
  \/ Spend /\ \E t \in LocalTokens, r \in LocalRequests : Admit(r, t)
  \/ /\ Free
     /\ \/ \E t \in LocalTokens : \/ \E m \in Members : Callback(t, m)
                                  \/ DemoLogin(t)
                                  \/ \E r \in LocalRequests : Logout(r, t)
        \/ \E r \in LocalRequests :
             \/ Refuse(r) \/ LocalDelete(r)
             \/ /\ about = "reads"
                /\ \/ \E s \in Sessions : LocalReturn(r, s)
                   \/ \E s \in LocalReads : \/ LocalRedirect(r, s)
                                            \/ \E a \in Articles : LocalCreateRead(r, s, a)
             \/ /\ about = "votes"
                /\ \/ LocalQuestionnaire(r)
                   \/ \E p \in Purposes, g \in BOOLEAN : LocalConsent(r, p, g)
                   \/ \E a \in Articles : LocalVote(r, a) \/ LocalUnvote(r, a)
             \/ /\ about = "cards"
                /\ \/ LocalExport(r)
                   \/ \E c \in Cards : LocalCreateCard(r, c) \/ LocalRevokeCard(r, c)
        \/ about = "cards" /\ \E k \in Queued : CancelQueued(k) \/ RetryQueued(k)
        \/ about = "reads" /\ LocalTick

WeightStep ==
  \E key \in DeskKeys :
    \/ \E w \in Weights : CreateRevision(w, key, "on") \/ Simulate(w, key)
    \/ \E r \in Advice : Generate(r, key)
    \/ \E r \in Weights \cup Advice, d \in {"APPROVED", "REJECTED"} :
         ReviewAdvice(r, d, key, "on")
    \/ \E v \in 1 .. row["autopilot"].version :
         \/ \E w \in Weights : PublishRevision(w, key, "on", v)
         \/ \E w, target, new \in Weights : RollBackTo(w, target, new, key, "on", v)

DeskStep ==
  \E key \in DeskKeys :
    \/ \E body \in Contents :
         \/ LocalCreateSource(key, body) \/ LocalCreateModel(key, body)
         \/ \E v \in 1 .. row["source"].version : LocalPatchSource(key, body, v)
         \/ \E v \in 1 .. row["model"].version : LocalPatchModel(key, body, v)
         \/ \E v \in 1 .. row["issue"].version : LocalPatchIssue(key, body, v)
         \/ \E v \in 1 .. row["autopilot"].version : LocalPutAutopilot(key, body, v)
         \/ \E v \in 1 .. row["llm_usage"].version : SwitchUsage(key, body, v)
         \/ ReviewSnapshot(key, body)
    \/ LocalRequestCrawl(key) \/ LocalSplit(key) \/ LocalAnalyze(key)
    \/ \E t \in Targets : LocalMerge(t, key)
    \/ \E j \in DOMAIN desk : RetryDesk(j, key) \/ CancelDesk(j, key)

MCNext ==
  /\ UNCHANGED about
  /\ \/ /\ about = "store" /\ Next /\ OneRow' /\ Free
        /\ UNCHANGED <<discoveryVars, localVars, deskVars>>
     \/ /\ about = "search" /\ DiscoveryNext /\ Free
        /\ UNCHANGED <<storeVars, localVars, deskVars>>
     \/ /\ about \in {"reads", "votes", "cards"} /\ LocalStep
        /\ UNCHANGED <<storeVars, discoveryVars, deskVars>>
     \/ /\ about = "weights" /\ Spend /\ WeightStep
        /\ UNCHANGED <<storeVars, discoveryVars, localVars>>
     \/ /\ about = "desk" /\ Spend /\ DeskStep
        /\ UNCHANGED <<storeVars, discoveryVars, localVars>>
     \/ /\ about # "store"        \* nothing waits there: requests may stop
        /\ UNCHANGED <<storeVars, discoveryVars, localVars, deskVars, left>>

MCSpec == MCInit /\ [][MCNext]_<<storeVars, discoveryVars, localVars, deskVars, about, left>>
=============================================================================
