------------------------------ MODULE MCContent ------------------------------
(* Small instances of Publishing, IssueEditions and Administration for TLC; a *)
(* behaviour is of one of them.                                               *)
(* Publishing: one article whose page flips between a text long enough to be  *)
(* analysed, a shorter one and none, with one crawl in flight.                *)
(* IssueEditions: two daily events and an ordinary issue over two crawled     *)
(* articles, with a few editions, crawls, retirements and administrators'     *)
(* requests in any order.                                                     *)
(* Administration: a few requests of two administrators, about weight         *)
(* profiles, or recommendations, or models and sources.                       *)
EXTENDS Publishing, IssueEditions, Administration, TLC

CONSTANTS
    Behaviours,     \* which of the modules
    Changes,        \* bound on what happens to issues and articles
    Calls,          \* bound on administrators' requests
    Draft, Far      \* two profiles

VARIABLES about, left

Symmetry == Permutations(Keys) \cup Permutations(Requests)

Pub == <<"p1", "p2", "p3", "p4", "p5">>

MCProfiles == {Draft, Far}
W1 == <<40, 30, 30>>
W2 == <<45, 28, 27>>
W3 == <<60, 20, 20>>
D1 == {<<10, -10, -10>>}
Topics ==
    {{"create_weight", "simulate", "publish", "rollback", "review"},
     {"recommend", "review", "settings"},
     {"create_model", "update_model", "create_source", "update_source", "crawl"}}

MCInit ==
    /\ PubInit /\ Init
    /\ issue = [i \in Issues |-> NoIssue]
    /\ art = [a \in Arts |-> [text |-> 1, ok |-> TRUE]]
    /\ snap = [i \in Issues |-> [v \in IssueVersions |-> NoSnap]]
    /\ cmp = {} /\ ops = {}
    /\ \/ about = {"article"} /\ left = 0
       \/ about = {"editions"} /\ left = Changes
       \/ about \in Topics /\ left = Calls
    /\ about \subseteq Behaviours \/ (about \in Topics /\ "administration" \in Behaviours)

Step == left' = left
Spend == left > 0 /\ left' = left - 1

EditionStep ==
    \/ /\ Spend
       /\ \/ \E a \in Arts : Crawled(a) \/ Withdraw(a) \/ Retire(a)
          \/ \E i \in Issues : PatchIssue(i)
          \/ \E i \in Issues, as \in SUBSET Arts : Cluster(i, as)
          \/ \E c \in Candidates : Publish(c) \/ \E d \in Candidates : PublishTwo(c, d)
          \/ \E i, j \in Issues : RequestMerge(i, j) \/ \E a \in Arts : RequestSplit(i, j, a)
    \/ /\ Step
       /\ \/ \E a \in Arts : Analyzed(a)
          \/ \E j \in cmp : Build(j) \/ Defer(j) \/ ApplyComparison(j)
          \/ \E i \in Issues : Review(i)
          \/ \E o \in ops : ApplyMerge(o) \/ ApplySplit(o)
          \/ MaintainSnapshots

AdminStep ==
    \/ /\ Spend
       /\ \E r \in Requests, b \in Bodies, k \in Keys : b.op \in about /\ Begin(r, b, k)
    \/ /\ Step
       /\ \/ \E r \in Requests : CheckModel(r) \/ Commit(r) \/ RollBack(r)
          \/ \E j \in jobs : \/ RunSimulation(j) \/ ApplySimulation(j)
                             \/ \E d \in Evidence : ApplyRecommendation(j, d)

MCNext ==
    /\ UNCHANGED about
    /\ \/ about = {"article"} /\ PubNext /\ Step /\ UNCHANGED <<editionVars, vars>>
       \/ about = {"editions"} /\ EditionStep /\ UNCHANGED <<pubVars, vars>>
       \/ about \in Topics /\ AdminStep /\ UNCHANGED <<pubVars, editionVars>>

MCSpec == MCInit /\ [][MCNext]_<<pubVars, editionVars, vars, about, left>>
==============================================================================
