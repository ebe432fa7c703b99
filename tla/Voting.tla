-------------------------------- MODULE Voting --------------------------------
(***************************************************************************)
(* Votes on articles and their public aggregate.                           *)
(*                                                                         *)
(* The article row is locked by every transaction that changes its votes   *)
(* and hands out the revision; the same transaction submits the job that   *)
(* aggregates that revision.  A worker reads the votes without a lock,     *)
(* computes, and stores the snapshot in a later transaction.  Account      *)
(* deletion purges a member's votes in the worker.                         *)
(***************************************************************************)
EXTENDS Integers, FiniteSets

CONSTANTS
  Voter, Article,
  VoteRequest,   \* PUT requests in flight
  Aggregator,    \* workers' operations of job type aggregate_votes
  PublicMin,     \* 5: means are public from this many votes on
  VoteAttempts,  \* attempts granted to an aggregation job
  MaxRevision,   \* bound: changes of one article's votes
  MaxVoteFaults  \* bound: crashes and errors of aggregations

ASSUME VotingAssumption ==
  /\ PublicMin \in Nat /\ VoteAttempts \in Nat \ {0}
  /\ MaxRevision \in Nat /\ MaxVoteFaults \in Nat

VARIABLES
  member,        \* users.status
  votes,         \* votes: all rows
  voteRevision,  \* articles.vote_revision
  voteCredit,    \* credit_ledger: QUALIFIED_VOTE entries
  putting,       \* local state of each PUT request
  tally,         \* open aggregation jobs
  aggregator,    \* local state of each aggregation
  snapshot,      \* newest row of vote_aggregate_snapshots
  voteFaults     \* crashes so far

voteVars == <<member, votes, voteRevision, voteCredit, putting, tally, aggregator,
              snapshot, voteFaults>>

Vote == [user: Voter, article: Article, revision: Nat, active: BOOLEAN]
TallyJob == [article: Article, revision: Nat, attempts: Nat]

NotPutting == [busy |-> FALSE]
NotCounting == [busy |-> FALSE]
NoSnapshot == [version |-> 0, data |-> {}]

VoteInit ==
  /\ member = [u \in Voter |-> "ACTIVE"]
  /\ votes = {}
  /\ voteRevision = [a \in Article |-> 0]
  /\ voteCredit = [u \in Voter |-> [a \in Article |-> 0]]
  /\ putting = [r \in VoteRequest |-> NotPutting]
  /\ tally = {}
  /\ aggregator = [w \in Aggregator |-> NotCounting]
  /\ snapshot = [a \in Article |-> NoSnapshot]
  /\ voteFaults = 0

RowsOf(u, a) == {v \in votes : v.user = u /\ v.article = a}
ActiveOn(a) == {v \in votes : v.article = a /\ v.active}

\* What an aggregate is computed from: who votes, and which revision of the vote.
Ballots(a) == {<<v.user, v.revision>> : v \in ActiveOn(a)}

\* Mutant: one open job per article.
Submit_Once(a, revision) ==
  tally' = IF \E j \in tally : j.article = a THEN tally
           ELSE tally \cup {[article |-> a, revision |-> revision, attempts |-> 0]}

Submit(a, revision) ==
  tally' = tally \cup {[article |-> a, revision |-> revision, attempts |-> 0]}

-----------------------------------------------------------------------------
\* The route looks at the member before the transaction takes its locks.
BeginVote(r, u, a) ==
  /\ ~putting[r].busy
  /\ member[u] = "ACTIVE"
  /\ putting' = [putting EXCEPT ![r] = [busy |-> TRUE, user |-> u, article |-> a]]
  /\ UNCHANGED <<member, votes, voteRevision, voteCredit, tally, aggregator, snapshot,
                 voteFaults>>

\* Mutant: the member is not read again under the lock.
MayVote_Unchecked(u) == TRUE

MayVote(u) == member[u] = "ACTIVE"

\* A first vote earns credit once; a later one replaces the active row.
PutVote(r) ==
  LET u == putting[r].user
      a == putting[r].article
      mine == RowsOf(u, a)
      revision == voteRevision[a] + 1
      first == mine = {} /\ voteCredit[u][a] = 0
  IN
  /\ putting[r].busy
  /\ putting' = [putting EXCEPT ![r] = NotPutting]
  /\ \/ /\ ~MayVote(u)
        /\ UNCHANGED <<votes, voteRevision, voteCredit, tally>>
     \/ /\ MayVote(u) /\ revision <= MaxRevision
        /\ votes' = (votes \ mine) \cup {[v EXCEPT !.active = FALSE] : v \in mine}
                      \cup {[user |-> u, article |-> a, revision |-> revision, active |-> TRUE]}
        /\ voteRevision' = [voteRevision EXCEPT ![a] = revision]
        /\ voteCredit' = IF first THEN [voteCredit EXCEPT ![u][a] = @ + 1] ELSE voteCredit
        /\ Submit(a, revision)
  /\ UNCHANGED <<member, aggregator, snapshot, voteFaults>>

\* Mutant: a withdrawn vote keeps its revision.
NextRevision_Kept(a) == voteRevision[a]

NextRevision(a) == voteRevision[a] + 1

\* Withdrawing a vote moves its row to a new revision.
DeleteVote(u, a) ==
  /\ NextRevision(a) <= MaxRevision
  /\ \E v \in RowsOf(u, a) :
       /\ v.active
       /\ votes' = (votes \ {v})
                     \cup {[v EXCEPT !.active = FALSE, !.revision = NextRevision(a)]}
  /\ voteRevision' = [voteRevision EXCEPT ![a] = NextRevision(a)]
  /\ Submit(a, NextRevision(a))
  /\ UNCHANGED <<member, voteCredit, putting, aggregator, snapshot, voteFaults>>

\* The member asks for deletion; the worker's delete_user job does the rest.
MarkDeletion(u) ==
  /\ member[u] = "ACTIVE"
  /\ member' = [member EXCEPT ![u] = "PENDING_DELETION"]
  /\ UNCHANGED <<votes, voteRevision, voteCredit, putting, tally, aggregator, snapshot,
                 voteFaults>>

\* The articles of the votes are locked in the order of their identifiers.
PurgeVotes(u) ==
  LET affected == {v.article : v \in {w \in votes : w.user = u}} IN
  /\ member[u] = "PENDING_DELETION"
  /\ member' = [member EXCEPT ![u] = "DELETED"]
  /\ votes' = {v \in votes : v.user # u}
  /\ voteRevision' = [a \in Article |->
       IF a \in affected THEN voteRevision[a] + 1 ELSE voteRevision[a]]
  /\ tally' = tally \cup {[article |-> a, revision |-> voteRevision'[a], attempts |-> 0] :
                           a \in affected}
  /\ UNCHANGED <<voteCredit, putting, aggregator, snapshot, voteFaults>>

-----------------------------------------------------------------------------
\* votes_lookup and aggregate_votes: a worker claims a job and reads the votes.
CountVotes(w, j) ==
  /\ ~aggregator[w].busy
  /\ j \in tally /\ j.attempts < VoteAttempts
  /\ \A x \in Aggregator : aggregator[x].busy =>
       <<aggregator[x].job.article, aggregator[x].job.revision>> # <<j.article, j.revision>>
  /\ LET claimed == [j EXCEPT !.attempts = @ + 1] IN
       /\ tally' = (tally \ {j}) \cup {claimed}
       /\ aggregator' = [aggregator EXCEPT ![w] =
            [busy |-> TRUE, job |-> claimed, seen |-> Ballots(j.article)]]
  /\ UNCHANGED <<member, votes, voteRevision, voteCredit, putting, snapshot, voteFaults>>

Newer(w) == aggregator[w].job.revision > snapshot[aggregator[w].job.article].version

\* A stale revision is refused, which fails its job for good.
StoreSnapshot(w) ==
  LET j == aggregator[w].job IN
  /\ aggregator[w].busy
  /\ aggregator' = [aggregator EXCEPT ![w] = NotCounting]
  /\ tally' = tally \ {j}
  /\ snapshot' = IF Newer(w)
                 THEN [snapshot EXCEPT ![j.article] =
                         [version |-> j.revision, data |-> aggregator[w].seen]]
                 ELSE snapshot
  /\ UNCHANGED <<member, votes, voteRevision, voteCredit, putting, voteFaults>>

\* A crash or an error before the snapshot is committed; the job stays.
LoseAggregation(w) ==
  /\ aggregator[w].busy /\ voteFaults < MaxVoteFaults
  /\ aggregator' = [aggregator EXCEPT ![w] = NotCounting]
  /\ voteFaults' = voteFaults + 1
  /\ UNCHANGED <<member, votes, voteRevision, voteCredit, putting, tally, snapshot>>

VoteNext ==
  \/ \E r \in VoteRequest :
       PutVote(r) \/ \E u \in Voter, a \in Article : BeginVote(r, u, a)
  \/ \E u \in Voter :
       MarkDeletion(u) \/ PurgeVotes(u) \/ \E a \in Article : DeleteVote(u, a)
  \/ \E w \in Aggregator :
       \/ StoreSnapshot(w) \/ LoseAggregation(w)
       \/ \E j \in tally : CountVotes(w, j)

VoteSpec == VoteInit /\ [][VoteNext]_voteVars

\* Workers poll for jobs and finish what they claimed.
VoteFairness ==
  \A w \in Aggregator : WF_voteVars(StoreSnapshot(w))
                        /\ WF_voteVars(\E j \in tally : CountVotes(w, j))

FairVoteSpec == VoteSpec /\ VoteFairness

-----------------------------------------------------------------------------
\* vote_aggregate: what readers of an article are told.
Shown(a) == IF snapshot[a] = NoSnapshot THEN Ballots(a) ELSE snapshot[a].data
AggregateView(a) ==
  [count |-> Cardinality(Shown(a)),
   means |-> IF Cardinality(Shown(a)) >= PublicMin THEN Shown(a) ELSE {},
   status |-> IF voteRevision[a] > snapshot[a].version THEN "pending" ELSE "ready"]

VoteTypeOK ==
  /\ member \in [Voter -> {"ACTIVE", "PENDING_DELETION", "DELETED"}]
  /\ votes \subseteq Vote
  /\ voteRevision \in [Article -> Nat]
  /\ voteCredit \in [Voter -> [Article -> Nat]]
  /\ tally \subseteq TallyJob
  /\ voteFaults \in 0 .. MaxVoteFaults

\* An aggregate that is announced as ready counts exactly the votes that are
\* active now, however votes, withdrawals, deletions and aggregations overlap.
ReadyIsExact ==
  \A a \in Article : AggregateView(a).status = "ready" => Shown(a) = Ballots(a)

\* A deleted account leaves no vote behind, not even one whose request was
\* admitted before the deletion was asked for.
DeletedLeavesNoVote ==
  \A u \in Voter : member[u] = "DELETED" => \A v \in votes : v.user # u

\* Once votes stop changing, every aggregate is brought up to date.
AggregatesSettle == <>[](\A a \in Article : AggregateView(a).status = "ready")
=============================================================================
