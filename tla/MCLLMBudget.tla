---------------------------- MODULE MCLLMBudget ----------------------------
(***************************************************************************)
(* Two small instances of LLMBudget for TLC; a behaviour is of one of them. *)
(* Night: two versions of one article and a comparison, on two dates.       *)
(* Day: more feed articles than one day has room for, two comparisons of    *)
(* three event articles of which it allows one, and a discovery phase.      *)
(* Whether a request of the day is answered changes nothing in the ledger,  *)
(* so none is.                                                             *)
(* An input is a tuple of its category, subject, articles and version.      *)
(***************************************************************************)
EXTENDS LLMBudget, TLC

VARIABLE about

Feed == 3 .. 7
Event == {8, 9, 10}
Analysis(a, version) == <<"article", a, {a}, version>>

Night == {Analysis(1, 1), Analysis(1, 2), <<"comparison", 1, {1, 2}, 1>>}
Day == {Analysis(a, 1) : a \in Feed} \cup {<<"comparison", i, Event, 1>> : i \in {2, 3}}
         \cup {<<"discovery", 1, {}, 1>>}
Inputs == Night \cup Day

MCCategoryOf == [k \in Key |-> k[1]]
MCSubjectOf == [k \in Key |-> k[2]]
MCCohortOf == [k \in Key |-> k[3]]
MCCostOf == [k \in Key |-> IF k[2] = 1 THEN 2 ELSE 1]

CallerSymmetry == Permutations(Caller)

\* Feed articles are alike, so they are taken up in their order.
Taken(k) == request[k].state # "NONE" \/ \E c \in Caller : caller[c].key = k
Offered ==
  IF about = "night" THEN Night
  ELSE {k \in Day : k[1] = "article" => \A a \in Feed : a < k[2] => Taken(Analysis(a, 1))}

MCInit == Init /\ about \in {"night", "day"}
MCNext ==
  /\ UNCHANGED about
  /\ \/ \E c \in Caller :
          \/ \E k \in Offered, essential \in BOOLEAN : Start(c, k, essential)
          \/ Replay(c) \/ Lock(c) \/ Authorize(c) \/ Refuse(c) \/ Crash(c)
          \/ RecordResponse(c)
          \/ about = "night" /\ \E answered \in BOOLEAN : Call(c, answered)
     \/ about = "night" /\ Midnight
MCSpec == MCInit /\ [][MCNext]_<<vars, about>>
=============================================================================
