------------------------------- MODULE MCPages -------------------------------
(***************************************************************************)
(* Small instances for TLC of what members and readers are handed: jobs of  *)
(* a card or an export that are opened again while the workers run, and the *)
(* public pages while the corpus changes; a behaviour is of one of them.    *)
(* Jobs are named by their type and one row is enough, as in MCBackends.    *)
(***************************************************************************)
EXTENDS WorkerRuntime, PublicViews, TLC

CONSTANT Changes        \* bound: changes of the corpus in a behaviour

VARIABLES about, changed

MCTypeOf == [j \in Job |-> j]
MCSourceOf == [a \in Story |-> a]
Symmetry == Permutations(Worker) \cup Permutations(Story)

OneRow == Cardinality({j \in Job : jobs[j].status # "NONE"}) <= 1

\* Behaviours of the jobs have one of the corpora.
MCInit ==
  /\ RuntimeInit /\ ViewsInit /\ changed = 0
  /\ \/ about = "pages"
     \/ about = "jobs" /\ durable /\ judged # scored

MCNext ==
  /\ UNCHANGED about
  /\ \/ about = "jobs" /\ RuntimeNext /\ OneRow' /\ UNCHANGED <<viewVars, changed>>
     \/ /\ about = "pages" /\ UNCHANGED vars
        /\ \/ ViewStep /\ UNCHANGED changed
           \/ changed < Changes /\ changed' = changed + 1 /\ CorpusStep
     \/ about = "pages" /\ page = Idle     \* nobody need ask
        /\ UNCHANGED <<vars, viewVars, changed>>

MCSpec == MCInit /\ [][MCNext]_<<vars, viewVars, about, changed>>
=============================================================================
