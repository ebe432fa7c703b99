----------------------------- MODULE SettlingProofs -----------------------------
(***************************************************************************)
(* The safety properties of Voting, proved for every number of members,    *)
(* articles, requests and workers, and those of SourceCrawl, for every     *)
(* source, every set of articles and every limit.                          *)
(***************************************************************************)
EXTENDS Voting, SourceCrawl, TLAPS

PutRequest == [busy: {FALSE}] \cup [busy: {TRUE}, user: Voter, article: Article]
Counting == [busy: {FALSE}]
              \cup [busy: {TRUE}, job: TallyJob, seen: SUBSET (Voter \X Nat)]

RowInv ==
  /\ member \in [Voter -> {"ACTIVE", "PENDING_DELETION", "DELETED"}]
  /\ votes \subseteq Vote
  /\ voteRevision \in [Article -> Nat]
  /\ putting \in [VoteRequest -> PutRequest]
  /\ tally \subseteq TallyJob
  /\ aggregator \in [Aggregator -> Counting]
  /\ snapshot \in [Article -> [version: Nat, data: SUBSET (Voter \X Nat)]]

\* What was read for a revision of the votes: never for one to come, and for
\* the current one it is what the votes are now.
Exact(a, revision, ballots) ==
  /\ revision <= voteRevision[a]
  /\ revision = voteRevision[a] => ballots = Ballots(a)

CountInv ==
  /\ \A j \in tally : j.revision <= voteRevision[j.article]
  /\ \A w \in Aggregator : aggregator[w].busy =>
       Exact(aggregator[w].job.article, aggregator[w].job.revision, aggregator[w].seen)
  /\ \A a \in Article :
       snapshot[a] # NoSnapshot => Exact(a, snapshot[a].version, snapshot[a].data)

VoteInv == RowInv /\ CountInv /\ DeletedLeavesNoVote

LEMMA VoteInitial == VoteInit => VoteInv
<1> SUFFICES ASSUME VoteInit PROVE VoteInv
  OBVIOUS
<1>1. NotPutting \in PutRequest /\ NotCounting \in Counting
  BY DEF NotPutting, NotCounting, PutRequest, Counting
<1>2. RowInv
  BY <1>1 DEF VoteInit, RowInv, NoSnapshot
<1>3. CountInv /\ DeletedLeavesNoVote
  BY DEF VoteInit, CountInv, DeletedLeavesNoVote, NotCounting
<1> QED BY <1>2, <1>3 DEF VoteInv

\* Ballots depend on the rows of their own article only.
LEMMA SameBallots ==
  ASSUME NEW a \in Article, ActiveOn(a)' = ActiveOn(a)
  PROVE  Ballots(a)' = Ballots(a)
BY DEF Ballots

\* Votes change: every article keeps its ballots or gets a new revision.
LEMMA VotesStep ==
  ASSUME VoteInv,
         votes' \subseteq Vote, voteRevision' \in [Article -> Nat],
         \A a \in Article : \/ voteRevision'[a] > voteRevision[a]
                            \/ /\ voteRevision'[a] = voteRevision[a]
                               /\ ActiveOn(a)' = ActiveOn(a),
         tally' \subseteq TallyJob,
         \A j \in tally' : j \in tally \/ j.revision = voteRevision'[j.article],
         UNCHANGED <<aggregator, snapshot>>
  PROVE  CountInv'
<1>1. \A a \in Article : voteRevision[a] \in Nat /\ voteRevision'[a] \in Nat
  BY DEF VoteInv, RowInv
<1>2. ASSUME NEW a \in Article, NEW n \in Nat, NEW ballots, Exact(a, n, ballots)
      PROVE  Exact(a, n, ballots)'
  BY <1>1, <1>2, SameBallots DEF Exact
<1>3. ASSUME NEW j \in tally' PROVE j.revision <= voteRevision'[j.article]
  BY <1>1, <1>3 DEF VoteInv, CountInv, TallyJob
<1>4. ASSUME NEW w \in Aggregator, aggregator[w].busy
      PROVE  aggregator[w].job.article \in Article /\ aggregator[w].job.revision \in Nat
  BY <1>4 DEF VoteInv, RowInv, Counting, TallyJob
<1>5. \A a \in Article : snapshot[a].version \in Nat
  BY DEF VoteInv, RowInv
<1> QED BY <1>2, <1>3, <1>4, <1>5 DEF VoteInv, CountInv

LEMMA PutStep ==
  ASSUME VoteInv, NEW r \in VoteRequest, PutVote(r) PROVE VoteInv'
<1> DEFINE u == putting[r].user
           a == putting[r].article
           mine == RowsOf(u, a)
           new == [user |-> u, article |-> a, revision |-> voteRevision[a] + 1, active |-> TRUE]
           old == {[v EXCEPT !.active = FALSE] : v \in mine}
           job == [article |-> a, revision |-> voteRevision[a] + 1, attempts |-> 0]
<1>1. /\ u \in Voter /\ a \in Article /\ voteRevision[a] \in Nat /\ votes \subseteq Vote
      /\ putting' = [putting EXCEPT ![r] = NotPutting]
      /\ UNCHANGED <<member, aggregator, snapshot>>
  BY DEF PutVote, VoteInv, RowInv, PutRequest
<1>2. putting' \in [VoteRequest -> PutRequest]
  BY <1>1 DEF VoteInv, RowInv, NotPutting, PutRequest
<1>3. CASE UNCHANGED <<votes, voteRevision, tally>>
  BY <1>1, <1>2, <1>3 DEF VoteInv, RowInv, CountInv, Exact, Ballots, ActiveOn,
     DeletedLeavesNoVote
<1>4. CASE /\ member[u] = "ACTIVE"
           /\ votes' = (votes \ mine) \cup old \cup {new}
           /\ voteRevision' = [voteRevision EXCEPT ![a] = voteRevision[a] + 1]
           /\ tally' = tally \cup {job}
  <2>1. new \in Vote /\ new.article = a /\ new.user = u
    BY <1>1 DEF Vote
  <2>2. job \in TallyJob /\ job.article = a /\ job.revision = voteRevision[a] + 1
    BY <1>1 DEF TallyJob
  <2>3. \A v \in old : v \in Vote /\ v.article = a /\ v.user = u
    BY <1>1 DEF RowsOf, Vote
  <2> HIDE DEF u, a, new, old, job, mine
  <2>4. votes' \subseteq Vote /\ tally' \subseteq TallyJob
    BY <1>1, <1>4, <2>1, <2>2, <2>3 DEF VoteInv, RowInv
  <2>5. \A b \in Article : voteRevision'[b] = IF b = a THEN voteRevision[a] + 1
                                                       ELSE voteRevision[b]
    BY <1>1, <1>4 DEF VoteInv, RowInv
  <2>6. voteRevision' \in [Article -> Nat]
    BY <1>1, <1>4 DEF VoteInv, RowInv
  <2>7. ASSUME NEW b \in Article, b # a PROVE ActiveOn(b)' = ActiveOn(b)
    BY <1>4, <2>1, <2>3, <2>7 DEF ActiveOn, RowsOf, mine
  <2>8. CountInv'
    <3>1. \A b \in Article : \/ voteRevision'[b] > voteRevision[b]
                             \/ /\ voteRevision'[b] = voteRevision[b]
                                /\ ActiveOn(b)' = ActiveOn(b)
      BY <1>1, <2>5, <2>7
    <3>2. \A j \in tally' : j \in tally \/ j.revision = voteRevision'[j.article]
      BY <1>1, <1>4, <2>2, <2>5
    <3> QED BY <1>1, <2>4, <2>6, <3>1, <3>2, VotesStep
  <2>9. DeletedLeavesNoVote'
    BY <1>1, <1>4, <2>1, <2>3 DEF VoteInv, DeletedLeavesNoVote
  <2> QED BY <1>1, <1>2, <2>4, <2>6, <2>8, <2>9 DEF VoteInv, RowInv
<1> QED BY <1>3, <1>4 DEF PutVote, MayVote, Submit

LEMMA WithdrawStep ==
  ASSUME VoteInv, NEW u \in Voter, NEW a \in Article, DeleteVote(u, a) PROVE VoteInv'
<1> DEFINE job == [article |-> a, revision |-> voteRevision[a] + 1, attempts |-> 0]
<1>1. /\ voteRevision[a] \in Nat /\ votes \subseteq Vote
      /\ voteRevision' = [voteRevision EXCEPT ![a] = voteRevision[a] + 1]
      /\ tally' = tally \cup {job}
      /\ UNCHANGED <<member, putting, aggregator, snapshot>>
  BY DEF DeleteVote, NextRevision, Submit, VoteInv, RowInv
<1>2. job \in TallyJob /\ job.article = a /\ job.revision = voteRevision[a] + 1
  BY <1>1 DEF TallyJob
<1>3. PICK v \in RowsOf(u, a) :
        votes' = (votes \ {v})
                   \cup {[v EXCEPT !.active = FALSE, !.revision = voteRevision[a] + 1]}
  BY DEF DeleteVote, NextRevision
<1> DEFINE new == [v EXCEPT !.active = FALSE, !.revision = voteRevision[a] + 1]
<1>4. /\ v \in votes /\ v.article = a /\ v.user = u
      /\ new \in Vote /\ new.article = a /\ new.user = u
  <2>1. v \in Vote /\ v \in votes /\ v.article = a /\ v.user = u
    BY <1>1 DEF RowsOf
  <2>2. voteRevision[a] + 1 \in Nat
    BY <1>1
  <2> QED BY <2>1, <2>2 DEF Vote
<1> HIDE DEF job, new
<1>5. votes' \subseteq Vote /\ tally' \subseteq TallyJob /\ voteRevision' \in [Article -> Nat]
  BY <1>1, <1>2, <1>3, <1>4 DEF VoteInv, RowInv, new
<1>6. \A b \in Article : voteRevision'[b] = IF b = a THEN voteRevision[a] + 1
                                                     ELSE voteRevision[b]
  BY <1>1 DEF VoteInv, RowInv
<1>7. ASSUME NEW b \in Article, b # a PROVE ActiveOn(b)' = ActiveOn(b)
  BY <1>3, <1>4, <1>7 DEF ActiveOn, new
<1>8. CountInv'
  <2>1. \A b \in Article : \/ voteRevision'[b] > voteRevision[b]
                           \/ /\ voteRevision'[b] = voteRevision[b]
                              /\ ActiveOn(b)' = ActiveOn(b)
    BY <1>1, <1>6, <1>7
  <2>2. \A j \in tally' : j \in tally \/ j.revision = voteRevision'[j.article]
    BY <1>1, <1>2, <1>6
  <2> QED BY <1>1, <1>5, <2>1, <2>2, VotesStep
<1>9. DeletedLeavesNoVote'
  BY <1>1, <1>3, <1>4 DEF VoteInv, DeletedLeavesNoVote, new
<1> QED BY <1>1, <1>5, <1>8, <1>9 DEF VoteInv, RowInv

LEMMA PurgeVotesStep ==
  ASSUME VoteInv, NEW u \in Voter, PurgeVotes(u) PROVE VoteInv'
<1> DEFINE affected == {v.article : v \in {w \in votes : w.user = u}}
           Job(a) == [article |-> a, revision |-> voteRevision'[a], attempts |-> 0]
<1>1. /\ votes \subseteq Vote /\ affected \subseteq Article
      /\ member' = [member EXCEPT ![u] = "DELETED"]
      /\ votes' = {v \in votes : v.user # u}
      /\ voteRevision' = [a \in Article |-> IF a \in affected THEN voteRevision[a] + 1
                                                           ELSE voteRevision[a]]
      /\ tally' = tally \cup {Job(a) : a \in affected}
      /\ UNCHANGED <<putting, aggregator, snapshot>>
  BY DEF PurgeVotes, VoteInv, RowInv, Vote
<1>2. ASSUME NEW a \in Article, a \notin affected PROVE ActiveOn(a)' = ActiveOn(a)
  BY <1>1, <1>2 DEF ActiveOn
<1> HIDE DEF affected
<1>3. \A a \in Article : voteRevision[a] \in Nat /\ voteRevision'[a] \in Nat
  BY <1>1 DEF VoteInv, RowInv
<1>4. \A a \in affected : /\ Job(a) \in TallyJob /\ Job(a).article = a
                          /\ Job(a).revision = voteRevision'[a]
  BY <1>1, <1>3 DEF TallyJob
<1> HIDE DEF Job
<1>5. votes' \subseteq Vote /\ tally' \subseteq TallyJob /\ voteRevision' \in [Article -> Nat]
  BY <1>1, <1>3, <1>4 DEF VoteInv, RowInv
<1>6. CountInv'
  <2>1. \A a \in Article : \/ voteRevision'[a] > voteRevision[a]
                           \/ /\ voteRevision'[a] = voteRevision[a]
                              /\ ActiveOn(a)' = ActiveOn(a)
    BY <1>1, <1>2, <1>3
  <2>2. \A j \in tally' : j \in tally \/ j.revision = voteRevision'[j.article]
    BY <1>1, <1>4
  <2> QED BY <1>1, <1>5, <2>1, <2>2, VotesStep
<1>7. RowInv'
  <2>1. member' \in [Voter -> {"ACTIVE", "PENDING_DELETION", "DELETED"}]
    BY <1>1 DEF VoteInv, RowInv
  <2> QED BY <1>1, <1>5, <2>1 DEF VoteInv, RowInv
<1>8. DeletedLeavesNoVote'
  <2>1. \A m \in Voter : m # u => member'[m] = member[m]
    BY <1>1 DEF VoteInv, RowInv
  <2> QED BY <1>1, <2>1 DEF VoteInv, DeletedLeavesNoVote
<1> QED BY <1>6, <1>7, <1>8 DEF VoteInv

\* An aggregation reads the votes as they are at the revision of its job or later.
LEMMA CountStep ==
  ASSUME VoteInv, NEW w \in Aggregator, NEW j \in tally, CountVotes(w, j) PROVE VoteInv'
<1> DEFINE claimed == [j EXCEPT !.attempts = @ + 1]
           counting == [busy |-> TRUE, job |-> claimed, seen |-> Ballots(j.article)]
<1>1. /\ j \in TallyJob /\ votes \subseteq Vote /\ tally \subseteq TallyJob
      /\ tally' = (tally \ {j}) \cup {claimed}
      /\ aggregator' = [aggregator EXCEPT ![w] = counting]
      /\ UNCHANGED <<member, votes, voteRevision, putting, snapshot>>
  BY DEF CountVotes, VoteInv, RowInv
<1>2. /\ claimed \in TallyJob /\ claimed.article = j.article
      /\ claimed.revision = j.revision
  BY <1>1 DEF TallyJob
<1>3. Ballots(j.article) \in SUBSET (Voter \X Nat)
  BY <1>1 DEF Ballots, ActiveOn, Vote
<1> HIDE DEF claimed
<1>4. /\ counting \in Counting /\ counting.busy /\ counting.job = claimed
      /\ counting.seen = Ballots(j.article)
  BY <1>2, <1>3 DEF Counting
<1> HIDE DEF counting
<1>5. RowInv'
  BY <1>1, <1>2, <1>4 DEF VoteInv, RowInv
<1>6. \A a \in Article : Ballots(a)' = Ballots(a)
  BY <1>1 DEF Ballots, ActiveOn
<1>7. j.article \in Article /\ Exact(j.article, j.revision, Ballots(j.article))
  BY <1>1 DEF VoteInv, CountInv, Exact, TallyJob
<1>8. CountInv'
  <2>1. \A i \in tally' : i.revision <= voteRevision'[i.article]
    BY <1>1, <1>2 DEF VoteInv, CountInv
  <2>2. ASSUME NEW x \in Aggregator, aggregator'[x].busy
        PROVE  LET k == aggregator'[x] IN
                 /\ k.job.revision <= voteRevision[k.job.article]
                 /\ k.job.revision = voteRevision[k.job.article]
                      => k.seen = Ballots(k.job.article)
                 /\ k.job.article \in Article
    <3>1. CASE x = w
      <4>1. aggregator'[x] = counting
        BY <1>1, <3>1 DEF VoteInv, RowInv
      <4> QED BY <1>2, <1>4, <1>7, <4>1 DEF Exact
    <3>2. CASE x # w
      <4>1. aggregator'[x] = aggregator[x]
        BY <1>1, <3>2 DEF VoteInv, RowInv
      <4>2. aggregator[x].job.article \in Article
        BY <2>2, <4>1 DEF VoteInv, RowInv, Counting, TallyJob
      <4> QED BY <2>2, <4>1, <4>2 DEF VoteInv, CountInv, Exact
    <3> QED BY <3>1, <3>2
  <2>3. \A x \in Aggregator : aggregator'[x].busy =>
          (Exact(aggregator[x].job.article, aggregator[x].job.revision, aggregator[x].seen))'
    BY <1>1, <1>6, <2>2 DEF Exact
  <2>4. \A a \in Article :
          snapshot'[a] # NoSnapshot => (Exact(a, snapshot[a].version, snapshot[a].data))'
    BY <1>1, <1>6 DEF VoteInv, CountInv, Exact
  <2> QED BY <2>1, <2>3, <2>4 DEF CountInv
<1> QED BY <1>1, <1>5, <1>8 DEF VoteInv, DeletedLeavesNoVote

LEMMA EndCountType ==
  ASSUME VoteInv, NEW w \in Aggregator, aggregator' = [aggregator EXCEPT ![w] = NotCounting]
  PROVE  /\ aggregator' \in [Aggregator -> Counting]
         /\ \A x \in Aggregator : aggregator'[x].busy => aggregator'[x] = aggregator[x]
<1>1. NotCounting \in Counting /\ ~NotCounting.busy
  BY DEF NotCounting, Counting
<1> QED BY <1>1 DEF VoteInv, RowInv

LEMMA StoreStep ==
  ASSUME VoteInv, NEW w \in Aggregator, StoreSnapshot(w) PROVE VoteInv'
<1> DEFINE j == aggregator[w].job
           stored == [version |-> j.revision, data |-> aggregator[w].seen]
<1>1. /\ aggregator' = [aggregator EXCEPT ![w] = NotCounting]
      /\ tally' \subseteq tally
      /\ snapshot' \in {snapshot, [snapshot EXCEPT ![j.article] = stored]}
      /\ UNCHANGED <<member, votes, voteRevision, putting>>
  BY DEF StoreSnapshot
<1>2. /\ j \in TallyJob /\ aggregator[w].seen \in SUBSET (Voter \X Nat)
      /\ Exact(j.article, j.revision, aggregator[w].seen)
  BY DEF StoreSnapshot, VoteInv, RowInv, CountInv, Counting
<1>3. /\ j.article \in Article /\ stored \in [version: Nat, data: SUBSET (Voter \X Nat)]
      /\ Exact(j.article, stored.version, stored.data)
  BY <1>2 DEF TallyJob
<1> HIDE DEF j, stored
<1>4. /\ aggregator' \in [Aggregator -> Counting]
      /\ \A x \in Aggregator : aggregator'[x].busy => aggregator'[x] = aggregator[x]
  BY <1>1, EndCountType
<1>5. snapshot' \in [Article -> [version: Nat, data: SUBSET (Voter \X Nat)]]
  BY <1>1, <1>3 DEF VoteInv, RowInv
<1>6. \A a \in Article :
        snapshot'[a] = snapshot[a] \/ (a = j.article /\ snapshot'[a] = stored)
  BY <1>1, <1>3 DEF VoteInv, RowInv
<1>7. /\ \A a : Ballots(a)' = Ballots(a)
      /\ voteRevision' = voteRevision
  BY <1>1 DEF Ballots, ActiveOn
<1>8. CountInv'
  <2>1. \A i \in tally' : i.revision <= voteRevision'[i.article]
    BY <1>1 DEF VoteInv, CountInv
  <2>2. \A x \in Aggregator : aggregator'[x].busy =>
          (Exact(aggregator[x].job.article, aggregator[x].job.revision, aggregator[x].seen))'
    BY <1>4, <1>7 DEF VoteInv, CountInv, Exact
  <2>3. \A a \in Article :
          snapshot'[a] # NoSnapshot => (Exact(a, snapshot[a].version, snapshot[a].data))'
    BY <1>3, <1>6, <1>7 DEF VoteInv, CountInv, Exact
  <2> QED BY <2>1, <2>2, <2>3 DEF CountInv
<1> QED BY <1>1, <1>4, <1>5, <1>8 DEF VoteInv, RowInv, DeletedLeavesNoVote

LEMMA LoseStep ==
  ASSUME VoteInv, NEW w \in Aggregator, LoseAggregation(w) PROVE VoteInv'
<1>1. /\ aggregator' \in [Aggregator -> Counting]
      /\ \A x \in Aggregator : aggregator'[x].busy => aggregator'[x] = aggregator[x]
      /\ UNCHANGED <<member, votes, voteRevision, putting, tally, snapshot>>
  BY EndCountType DEF LoseAggregation
<1>2. CountInv'
  BY <1>1 DEF VoteInv, CountInv, Exact, Ballots, ActiveOn
<1> QED BY <1>1, <1>2 DEF VoteInv, RowInv, DeletedLeavesNoVote

LEMMA MemberSteps ==
  ASSUME VoteInv,
         \/ \E r \in VoteRequest, u \in Voter, a \in Article : BeginVote(r, u, a)
         \/ \E u \in Voter : MarkDeletion(u)
         \/ UNCHANGED voteVars
  PROVE  VoteInv'
<1>1. /\ member' \in [Voter -> {"ACTIVE", "PENDING_DELETION", "DELETED"}]
      /\ \A u \in Voter : member'[u] = "DELETED" => member[u] = "DELETED"
  BY DEF BeginVote, MarkDeletion, voteVars, VoteInv, RowInv
<1>2. putting' \in [VoteRequest -> PutRequest]
  <2>1. ASSUME NEW r \in VoteRequest, NEW u \in Voter, NEW a \in Article, BeginVote(r, u, a)
        PROVE  putting' \in [VoteRequest -> PutRequest]
    <3>1. [busy |-> TRUE, user |-> u, article |-> a] \in PutRequest
      BY DEF PutRequest
    <3> QED BY <2>1, <3>1 DEF BeginVote, VoteInv, RowInv
  <2> QED BY <2>1 DEF MarkDeletion, voteVars, VoteInv, RowInv
<1>3. UNCHANGED <<votes, voteRevision, tally, aggregator, snapshot>>
  BY DEF BeginVote, MarkDeletion, voteVars
<1>4. CountInv'
  BY <1>3 DEF VoteInv, CountInv, Exact, Ballots, ActiveOn
<1> QED BY <1>1, <1>2, <1>3, <1>4 DEF VoteInv, RowInv, DeletedLeavesNoVote

LEMMA VoteStep == VoteInv /\ [VoteNext]_voteVars => VoteInv'
BY MemberSteps, PutStep, WithdrawStep, PurgeVotesStep, CountStep, StoreStep, LoseStep
   DEF VoteNext

(* ------------------------------- theorems --------------------------------- *)

\* Whatever was counted for the present revision of an article's votes, by a
\* worker or in the snapshot, is what the votes are, and no revision to come
\* has been counted.
THEOREM VoteInvariant == VoteSpec => []VoteInv
BY VoteInitial, VoteStep, PTL DEF VoteSpec

\* Rows, counters and requests keep their types.
THEOREM VoteTypeCorrect == VoteSpec => []VoteTypeOK
<1> DEFINE Counters == /\ voteCredit \in [Voter -> [Article -> Nat]]
                       /\ voteFaults \in 0 .. MaxVoteFaults
<1>1. VoteInit => Counters
  BY VotingAssumption DEF VoteInit
<1>2. VoteInv /\ Counters /\ [VoteNext]_voteVars => Counters'
  <2> SUFFICES ASSUME VoteInv, Counters, [VoteNext]_voteVars PROVE Counters'
    OBVIOUS
  <2>1. ASSUME NEW r \in VoteRequest, PutVote(r) PROVE Counters'
    <3>1. putting[r].user \in Voter /\ putting[r].article \in Article
      BY <2>1 DEF PutVote, VoteInv, RowInv, PutRequest
    <3>2. voteFaults' = voteFaults
      BY <2>1 DEF PutVote
    <3>3. \/ voteCredit' = voteCredit
          \/ voteCredit' = [voteCredit EXCEPT ![putting[r].user][putting[r].article] =
                             voteCredit[putting[r].user][putting[r].article] + 1]
      BY <2>1, Zenon DEF PutVote
    <3>4. \A n \in Nat : n + 1 \in Nat
      OBVIOUS
    <3> QED BY <3>1, <3>2, <3>3, <3>4
  <2>2. ASSUME NEW w \in Aggregator, LoseAggregation(w) PROVE Counters'
    BY <2>2, VotingAssumption DEF LoseAggregation
  <2>3. CASE UNCHANGED <<voteCredit, voteFaults>>
    BY <2>3
  <2> QED
    BY <2>1, <2>2, <2>3
       DEF VoteNext, voteVars, BeginVote, MarkDeletion, PurgeVotes, DeleteVote, StoreSnapshot,
           CountVotes
<1>3. VoteInv /\ Counters => VoteTypeOK
  BY DEF VoteInv, RowInv, VoteTypeOK
<1> QED BY <1>1, <1>2, <1>3, VoteInvariant, PTL DEF VoteSpec

\* An aggregate that is announced as ready counts the votes that are active.
THEOREM ExactTheorem == VoteSpec => []ReadyIsExact
<1>1. VoteInv => ReadyIsExact
  <2> SUFFICES ASSUME VoteInv, NEW a \in Article, AggregateView(a).status = "ready"
               PROVE  Shown(a) = Ballots(a)
    BY DEF ReadyIsExact
  <2>1. ~(voteRevision[a] > snapshot[a].version)
    BY DEF AggregateView
  <2>2. voteRevision[a] \in Nat /\ snapshot[a].version \in Nat
    BY DEF VoteInv, RowInv
  <2>3. snapshot[a] # NoSnapshot => snapshot[a].data = Ballots(a)
    BY <2>1, <2>2 DEF VoteInv, CountInv, Exact
  <2> QED BY <2>3 DEF Shown
<1> QED BY <1>1, VoteInvariant, PTL

\* A deleted account leaves no vote behind.
THEOREM NoVoteTheorem == VoteSpec => []DeletedLeavesNoVote
<1>1. VoteInv => DeletedLeavesNoVote
  BY DEF VoteInv
<1> QED BY <1>1, VoteInvariant, PTL

(* ------------------------- the crawl of a source -------------------------- *)

Fetching == [st : {"idle", "hop", "queued", "slot", "sent", "backoff"} \cup Over,
             retries : Nat, hops : Nat, timer : Nat]

\* What has passed since the last request and what is still to wait make up the
\* interval of the source; whoever sleeps for a slot holds the lock and sleeps
\* at least as long.
PaceTyped ==
  /\ task \in [Tasks -> Fetching]
  /\ rateIn \in Nat /\ since \in Nat /\ since <= Interval

SlotInv ==
  /\ rateIn + since >= Interval
  /\ \A t \in Tasks : task[t].st = "slot" => lock = t /\ rateIn <= task[t].timer

PaceInv == PaceTyped /\ SlotInv

\* Nothing was found before the seed page is read, and what was found when the
\* crawl failed is what its result was judged by.
FoundInv ==
  /\ cands \in Candidates
  /\ phase \in {"start", "seed"} => Mentioned(cands) = {}
  /\ outcome \in {"retry", "failed"} => phase = "done"
  /\ FoundIsKept

LEMMA PaceInitial == Init => PaceInv
<1> SUFFICES ASSUME Init PROVE PaceInv
  OBVIOUS
<1>1. \A t \in Tasks : task[t].st = "idle" /\ task[t].timer = 0
  BY DEF Init, Idle
<1> QED BY <1>1, CrawlAssumption DEF Init, PaceInv, PaceTyped, SlotInv, Idle, Fetching, Tasks

\* A task that does not go to sleep for a slot changes nothing for the others.
LEMMA PaceKept ==
  ASSUME PaceInv, NEW t \in Tasks, NEW row \in Fetching, row.st # "slot",
         task' = [task EXCEPT ![t] = row], UNCHANGED <<lock, rateIn, since>>
  PROVE  PaceInv'
<1>1. PaceTyped'
  BY DEF PaceInv, PaceTyped
<1>2. ASSUME NEW u \in Tasks, task'[u].st = "slot"
      PROVE  u # t /\ task'[u] = task[u]
  BY <1>2 DEF PaceInv, PaceTyped
<1>3. SlotInv'
  BY <1>2 DEF PaceInv, SlotInv
<1> QED BY <1>1, <1>3 DEF PaceInv

\* Sent when nobody else sleeps for a slot.
LEMMA PaceSent ==
  ASSUME PaceInv, NEW t \in Tasks, lock \in {None, t}, Sent(t)
  PROVE  PaceInv'
<1> DEFINE row == [task[t] EXCEPT !.st = "sent", !.timer = 0]
<1>1. task \in [Tasks -> Fetching] /\ task[t] \in Fetching
  BY DEF PaceInv, PaceTyped
<1>2. row \in Fetching /\ row.st = "sent"
  BY <1>1 DEF Fetching
<1>3. task' = [task EXCEPT ![t] = row] /\ rateIn' = Interval /\ since' = 0 /\ lock' = None
  BY DEF Sent
<1>4. PaceTyped'
  BY <1>1, <1>2, <1>3, CrawlAssumption DEF PaceInv, PaceTyped
<1>5. ASSUME NEW u \in Tasks, task'[u].st = "slot" PROVE FALSE
  <2>1. u # t /\ task[u].st = "slot"
    BY <1>1, <1>2, <1>3, <1>5
  <2>2. lock = u /\ u # None
    BY <2>1, CrawlAssumption DEF PaceInv, SlotInv, Tasks
  <2> QED BY <2>1, <2>2
<1>6. SlotInv'
  BY <1>3, <1>5, CrawlAssumption DEF SlotInv
<1> QED BY <1>4, <1>6 DEF PaceInv

LEMMA PaceFetch ==
  ASSUME PaceInv, Fetch
  PROVE  PaceInv'
<1> USE DEF PaceTyped, Fetching
<1>1. PICK t \in Tasks : Validate(t) \/ Acquire(t) \/ Slot(t) \/ Wake(t) \/ Answer(t)
  BY DEF Fetch
<1>2. task[t] \in Fetching /\ task \in [Tasks -> Fetching]
  BY DEF PaceInv
<1>3. ASSUME Again(t), UNCHANGED <<lock, rateIn, since>> PROVE PaceInv'
  <2>1. ASSUME NEW d \in Nat
        PROVE  [task[t] EXCEPT !.st = "backoff", !.timer = d, !.retries = @ + 1] \in Fetching
    <3>1. task[t].retries + 1 \in Nat
      BY <1>2
    <3> QED BY <1>2, <3>1
  <2>2. [task[t] EXCEPT !.st = "soft"] \in Fetching
    BY <1>2 DEF Over
  <2>3. CASE task' = [task EXCEPT ![t].st = "soft"]
    BY <1>2, <1>3, <2>2, <2>3, PaceKept
  <2>4. ASSUME NEW d \in 0..BackoffMax,
               task' = [task EXCEPT ![t].st = "backoff", ![t].timer = d, ![t].retries = @ + 1]
        PROVE  PaceInv'
    <3>1. d \in Nat
      BY <2>4, CrawlAssumption
    <3>2. task' = [task EXCEPT ![t] =
                     [task[t] EXCEPT !.st = "backoff", !.timer = d, !.retries = @ + 1]]
      BY <1>2, <2>4
    <3>3. [task[t] EXCEPT !.st = "backoff", !.timer = d, !.retries = @ + 1].st = "backoff"
      BY <1>2
    <3> QED BY <1>3, <2>1, <3>1, <3>2, <3>3, PaceKept
  <2> QED BY <1>3, <2>3, <2>4 DEF Again
<1>4. ASSUME GiveUp(t), UNCHANGED <<lock, rateIn, since>> PROVE PaceInv'
  BY <1>2, <1>4, PaceKept DEF GiveUp, Over
<1>5. CASE Validate(t)
  BY <1>2, <1>3, <1>4, <1>5, PaceKept DEF Validate
<1>6. CASE Acquire(t)
  <2>1. CASE rateIn = 0
    BY <1>6, <2>1, PaceSent DEF Acquire
  <2>2. CASE rateIn # 0
    <3>1. /\ task' = [task EXCEPT ![t] = [task[t] EXCEPT !.st = "slot", !.timer = rateIn]]
          /\ lock = None /\ lock' = t /\ rateIn' = rateIn /\ since' = since
      BY <1>6, <2>2 DEF Acquire
    <3>2. PaceTyped'
      BY <1>2, <3>1 DEF PaceInv
    <3>3. ASSUME NEW u \in Tasks, task'[u].st = "slot" PROVE u = t /\ task'[u].timer = rateIn
      <4>1. CASE u = t
        BY <1>2, <3>1, <4>1
      <4>2. CASE u # t
        <5>1. task[u].st = "slot"
          BY <1>2, <3>1, <3>3, <4>2
        <5>2. lock = u /\ u # None
          BY <5>1, CrawlAssumption DEF PaceInv, SlotInv, Tasks
        <5> QED BY <3>1, <5>2
      <4> QED BY <4>1, <4>2
    <3>4. SlotInv'
      BY <3>1, <3>3 DEF PaceInv, SlotInv
    <3> QED BY <3>2, <3>4 DEF PaceInv
  <2> QED BY <2>1, <2>2
<1>7. CASE Slot(t)
  BY <1>7, PaceSent DEF Slot, PaceInv, SlotInv
<1>8. CASE Wake(t)
  BY <1>2, <1>8, PaceKept DEF Wake
<1>9. CASE Answer(t)
  <2>1. /\ [task[t] EXCEPT !.st = "ok"] \in Fetching
        /\ [task[t] EXCEPT !.st = "ok"].st = "ok"
        /\ [task[t] EXCEPT !.st = "hop", !.hops = @ + 1] \in Fetching
        /\ [task[t] EXCEPT !.st = "hop", !.hops = @ + 1].st = "hop"
    <3>1. task[t].hops + 1 \in Nat
      BY <1>2
    <3>2. [task[t] EXCEPT !.st = "ok"] \in Fetching /\ [task[t] EXCEPT !.st = "ok"].st = "ok"
      BY <1>2 DEF Over
    <3> QED BY <1>2, <3>1, <3>2
  <2>2. ASSUME Redirect(t), UNCHANGED <<lock, rateIn, since>> PROVE PaceInv'
    <3>1. CASE task' = [task EXCEPT ![t].st = "hop", ![t].hops = @ + 1]
      <4>1. task' = [task EXCEPT ![t] = [task[t] EXCEPT !.st = "hop", !.hops = @ + 1]]
        BY <1>2, <3>1
      <4> QED BY <2>1, <2>2, <4>1, PaceKept
    <3> QED BY <1>4, <2>2, <3>1 DEF Redirect
  <2> QED BY <1>2, <1>3, <1>4, <1>9, <2>1, <2>2, PaceKept DEF Answer
<1> QED BY <1>1, <1>5, <1>6, <1>7, <1>8, <1>9

LEMMA PaceTick ==
  ASSUME PaceInv, Tick
  PROVE  PaceInv'
<1>1. \A t \in Tasks : task[t] \in Fetching
  BY DEF PaceInv, PaceTyped
<1>2. \A t \in Tasks : /\ task'[t] \in Fetching /\ task'[t].st = task[t].st
                       /\ task'[t].timer = IF task[t].timer = 0 THEN 0 ELSE task[t].timer - 1
  BY <1>1 DEF Tick, Fetching
<1>3. PaceTyped'
  BY <1>2, CrawlAssumption DEF Tick, PaceInv, PaceTyped
<1>4. rateIn' + since' >= Interval
  BY CrawlAssumption DEF Tick, PaceInv, PaceTyped, SlotInv
<1>5. ASSUME NEW t \in Tasks, task'[t].st = "slot"
      PROVE  lock' = t /\ rateIn' <= task'[t].timer
  <2>1. lock = t /\ rateIn <= task[t].timer /\ task[t].timer \in Nat /\ rateIn \in Nat
    BY <1>1, <1>2, <1>5 DEF PaceInv, PaceTyped, SlotInv, Fetching
  <2>2. lock' = lock /\ rateIn' = IF rateIn = 0 THEN 0 ELSE rateIn - 1
    BY DEF Tick
  <2> QED BY <1>2, <2>1, <2>2
<1> QED BY <1>3, <1>4, <1>5 DEF PaceInv, SlotInv

LEMMA PaceRequest ==
  ASSUME PaceInv, NEW t \in Tasks, Request(t)
  PROVE  PaceInv'
<1>1. Fresh \in Fetching /\ Fresh.st # "slot"
  BY DEF Fresh, Idle, Fetching
<1> QED BY <1>1, PaceKept DEF Request

LEMMA PaceStep == PaceInv /\ [Next]_vars => PaceInv'
<1> SUFFICES ASSUME PaceInv, [Next]_vars PROVE PaceInv'
  OBVIOUS
<1>1. CASE Fetch
  BY <1>1, PaceFetch
<1>2. CASE Tick
  BY <1>2, PaceTick
<1>3. ASSUME UNCHANGED fetchVars PROVE PaceInv'
  BY <1>3 DEF fetchVars, PaceInv, PaceTyped, SlotInv
<1>4. ASSUME NEW t \in Tasks, Request(t) PROVE PaceInv'
  BY <1>4, PaceRequest
<1>5. "main" \in Tasks /\ Articles \subseteq Tasks
  BY DEF Tasks
<1> QED
  BY <1>1, <1>2, <1>3, <1>4, <1>5
     DEF Next, vars, Begin, Seed, TurnPage, Page, EndPages, Choose, Child, Gather

\* A request is sent only when the pace of the source allows one at once.
LEMMA SentAtPace ==
  ASSUME PaceInv, Next, NEW t \in Tasks, task'[t].st = "sent", task[t].st # "sent"
  PROVE  rateIn = 0
<1>1. task \in [Tasks -> Fetching] /\ Fresh.st = "hop" /\ rateIn \in Nat
  BY DEF PaceInv, PaceTyped, Fresh, Idle
<1>2. ASSUME NEW u \in Tasks, NEW row, row.st # "sent", task' = [task EXCEPT ![u] = row]
      PROVE  FALSE
  BY <1>1, <1>2
<1>3. ASSUME UNCHANGED task PROVE FALSE
  BY <1>3
<1>4. CASE Fetch
  <2>1. PICK u \in Tasks : Validate(u) \/ Acquire(u) \/ Slot(u) \/ Wake(u) \/ Answer(u)
    BY <1>4 DEF Fetch
  <2>2. task[u] \in Fetching
    BY <1>1
  <2>3. ASSUME NEW x, x # "sent", task' = [task EXCEPT ![u].st = x] PROVE FALSE
    BY <1>2, <2>2, <2>3 DEF Fetching
  <2>4. ~GiveUp(u)
    BY <2>3 DEF GiveUp
  <2>5. ~Again(u)
    <3>1. ASSUME NEW d, task' = [task EXCEPT ![u].st = "backoff", ![u].timer = d,
                                             ![u].retries = @ + 1]
          PROVE  FALSE
      <4>1. task' = [task EXCEPT ![u] =
                       [task[u] EXCEPT !.st = "backoff", !.timer = d, !.retries = @ + 1]]
        BY <1>1, <3>1 DEF Fetching
      <4> QED BY <1>2, <2>2, <4>1 DEF Fetching
    <3> QED BY <2>3, <3>1 DEF Again
  <2>6. ~Redirect(u)
    <3>1. ASSUME task' = [task EXCEPT ![u].st = "hop", ![u].hops = @ + 1] PROVE FALSE
      <4>1. task' = [task EXCEPT ![u] = [task[u] EXCEPT !.st = "hop", !.hops = @ + 1]]
        BY <1>1, <3>1 DEF Fetching
      <4> QED BY <1>2, <2>2, <4>1 DEF Fetching
    <3> QED BY <2>4, <3>1 DEF Redirect
  <2>7. ~Validate(u) /\ ~Wake(u) /\ ~Answer(u)
    BY <2>3, <2>4, <2>5, <2>6 DEF Validate, Wake, Answer
  <2>8. CASE Acquire(u)
    <3>1. ASSUME task' = [task EXCEPT ![u].st = "slot", ![u].timer = rateIn] PROVE FALSE
      <4>1. task' = [task EXCEPT ![u] = [task[u] EXCEPT !.st = "slot", !.timer = rateIn]]
        BY <1>1, <3>1 DEF Fetching
      <4> QED BY <1>2, <2>2, <4>1 DEF Fetching
    <3> QED BY <2>8, <3>1 DEF Acquire
  <2>9. CASE Slot(u)
    BY <1>1, <2>2, <2>9 DEF Slot, PaceInv, SlotInv, Fetching
  <2> QED BY <2>1, <2>7, <2>8, <2>9
<1>5. CASE Tick
  <2>1. task[t] \in Fetching
    BY <1>1
  <2>2. task'[t].st = task[t].st
    BY <1>5, <2>1 DEF Tick, Fetching
  <2> QED BY <2>2
<1>6. \A u \in Tasks : ~Request(u)
  BY <1>1, <1>2 DEF Request
<1> QED
  BY <1>3, <1>4, <1>5, <1>6
     DEF Next, Begin, Seed, TurnPage, Page, EndPages, Choose, Child, Gather, fetchVars, Tasks

\* Requests are never closer together than the source's rate limit.
THEOREM PoliteTheorem == CrawlSpec => Polite
<1>1. PaceInv /\ Next =>
        \A t \in Tasks : task'[t].st = "sent" /\ task[t].st # "sent" => since = Interval
  BY SentAtPace, CrawlAssumption DEF PaceInv, PaceTyped, SlotInv
<1>2. CrawlSpec => []PaceInv
  BY PaceInitial, PaceStep, PTL DEF CrawlSpec
<1>3. CrawlSpec => [][Next]_vars
  BY PTL DEF CrawlSpec
<1>4. PaceInv /\ [Next]_vars =>
        [\A t \in Tasks : task'[t].st = "sent" /\ task[t].st # "sent" => since = Interval]_vars
  BY <1>1
<1> QED BY <1>2, <1>3, <1>4, PTL DEF Polite

\* What is rich was mentioned: with nothing mentioned, nothing survives.
LEMMA SurvivorsMentioned == \A f \in Candidates : Surviving(f) \subseteq Mentioned(f)
BY DEF Surviving, Rich, Mentioned, Candidates

LEMMA MergedCandidates ==
  ASSUME NEW f \in Candidates, NEW g \in Candidates
  PROVE  Merged(f, g) \in Candidates
BY DEF Merged, Candidates

LEMMA FoundStep == FoundInv /\ [Next]_vars => FoundInv'
<1> SUFFICES ASSUME FoundInv, [Next]_vars PROVE FoundInv'
  OBVIOUS
<1> USE DEF FoundInv
<1>1. ASSUME UNCHANGED planVars, phase' \notin {"start", "seed"} \/ phase' = phase,
             phase # "done" \/ phase' = "done"
      PROVE  FoundInv'
  <2>1. /\ cands' = cands /\ cfg' = cfg /\ outcome' = outcome
        /\ Surviving(cands)' = Surviving(cands) /\ Mentioned(cands)' = Mentioned(cands)
    BY <1>1 DEF planVars, Surviving, Hydrated, Rich, Mentioned
  <2> QED BY <1>1, <2>1 DEF FoundIsKept
<1>2. ASSUME cands' \in Candidates, phase' \notin {"start", "seed"}, phase # "done",
             UNCHANGED outcome
      PROVE  FoundInv'
  BY <1>2 DEF FoundIsKept
<1>3. ASSUME cands' \in Candidates, phase' = "done",
             (outcome' \in {"retry", "failed"} /\ (cfg'.hydrate => cfg'.approved))
               => Surviving(cands)' = {}
      PROVE  FoundInv'
  BY <1>3 DEF FoundIsKept
<1>4. ASSUME NEW some, cfg' = cfg, cands' = some PROVE Surviving(cands)' = Surviving(some)
  BY <1>4 DEF Surviving, Hydrated, Rich, Mentioned
<1>5. ASSUME Reads PROVE cands' \in Candidates
  BY <1>5, MergedCandidates DEF Reads, HtmlPage, FeedPage
<1>6. CASE Fetch \/ Tick \/ \E a \in Articles : Child(a)
  BY <1>1, <1>6 DEF Fetch, Tick, Child
<1>7. ASSUME Mentioned(cands) = {}, UNCHANGED <<cands, cfg>> PROVE Surviving(cands)' = {}
  BY <1>4, <1>7, SurvivorsMentioned
<1>8. CASE Begin
  <2>1. CASE Failing(FALSE)
    BY <1>3, <1>7, <1>8, <2>1 DEF Begin, Failing, Return
  <2>2. CASE phase' = "seed" /\ UNCHANGED outcome
    <3>1. Mentioned(cands)' = {}
      BY <1>8 DEF Begin, Mentioned
    <3> QED BY <1>8, <2>2, <3>1 DEF Begin, FoundIsKept
  <2> QED BY <1>8, <2>1, <2>2 DEF Begin
<1>9. CASE Seed
  <2>1. CASE UNCHANGED cands /\ phase' = "done"
    BY <1>3, <1>7, <1>9, <2>1 DEF Seed
  <2> QED BY <1>2, <1>5, <1>9, <2>1 DEF Seed, Failing, Return
<1>10. CASE TurnPage
  BY <1>1, <1>10 DEF TurnPage
<1>11. CASE Page
  BY <1>2, <1>5, <1>11 DEF Page
<1>12. CASE EndPages
  <2>1. CASE phase' = "done" /\ Mentioned(cands) = {}
    BY <1>3, <1>7, <1>12, <2>1 DEF EndPages
  <2> QED BY <1>2, <1>12, <2>1 DEF EndPages, Failing, Return
<1>13. CASE Choose
  <2>1. cands' \in Candidates
    <3>1. PICK kept, links :
            cands' = Merged([a \in Articles |-> IF a \notin kept THEN 0
                                               ELSE IF Hydrated THEN 1 ELSE cands[a]],
                            [a \in Articles |-> IF a \in links THEN 1 ELSE 0])
      BY <1>13 DEF Choose
    <3> QED BY <3>1, MergedCandidates DEF Candidates
  <2>2. CASE phase' = "children"
    BY <1>2, <1>13, <2>1, <2>2 DEF Choose, Failing, Return
  <2>3. CASE cfg.hydrate /\ ~cfg.approved /\ phase' = "done"
    BY <1>3, <1>13, <2>1, <2>3 DEF Choose
  <2> QED BY <1>13, <2>2, <2>3 DEF Choose, Failing, Return
<1>14. CASE Gather
  <2>1. PICK got \in SUBSET {a \in plan : task[a].st = "ok"} :
          LET some == [a \in Articles |-> IF a \in got THEN 2 ELSE cands[a]] IN
          /\ cands' = some
          /\ Surviving(some) # {} => outcome' = "saved"
          /\ phase' = "done"
    BY <1>14 DEF Gather, Failing, Return
  <2> DEFINE some == [a \in Articles |-> IF a \in got THEN 2 ELSE cands[a]]
  <2>2. some \in Candidates
    BY DEF Candidates
  <2>3. Surviving(cands)' = Surviving(some)
    BY <1>4, <1>14, <2>1 DEF Gather
  <2> QED BY <1>3, <2>1, <2>2, <2>3
<1>15. CASE UNCHANGED vars
  BY <1>1, <1>15 DEF vars
<1> QED
  BY <1>6, <1>8, <1>9, <1>10, <1>11, <1>12, <1>13, <1>14, <1>15 DEF Next

\* A crawl never fails while it holds an article it could hand over.
THEOREM FoundTheorem == CrawlSpec => []FoundIsKept
<1>1. Init => FoundInv
  BY DEF Init, FoundInv, FoundIsKept, Candidates, Mentioned
<1>2. FoundInv => FoundIsKept
  BY DEF FoundInv
<1> QED BY <1>1, <1>2, FoundStep, PTL DEF CrawlSpec
=============================================================================
