-------------------------- MODULE BackendsProofs --------------------------
(***************************************************************************)
(* The safety properties of the deterministic backend and of the day's     *)
(* search for events: LocalMember, for every number of members, sessions,  *)
(* requests and bodies, LocalAdmin, for every number of revisions, keys and *)
(* bodies, and Discovery, for every number of topics and pages and every   *)
(* budget.                                                                 *)
(***************************************************************************)
EXTENDS LocalMember, LocalAdmin, Discovery, FiniteSetTheorems, SequenceTheorems,
        NaturalsInduction, TLAPS

(* ------------------------------ members -------------------------------- *)

Account == [status: {"NONE", "ACTIVE", "PENDING_DELETION"}, complete: BOOLEAN, onboarded: BOOLEAN]
Login == [user: Members \cup {Nobody}, expires: Nat, revoked: BOOLEAN]
ReadRow == [owner: Members \cup {Nobody},
            status: {"NONE", "CREATED", "OUTBOUND", "RETURNED", "EXPIRED", "ELIGIBLE"},
            article: Articles \cup {Nobody}, out: Nat, back: Nat, expires: Nat]
Key == ({"read"} \X Sessions) \cup ({"vote"} \X Articles)
VoteRow == [revision: Nat, active: BOOLEAN]

AccountInv ==
  /\ time \in Nat
  /\ member \in [Members -> Account]
  /\ inside \in [LocalRequests -> Members \cup {Nobody}]
  /\ login \in [LocalTokens -> Login]
  /\ \A m \in Members : member[m].status = "PENDING_DELETION" => <<"delete_user", m>> \in Queued

LedgerTypes ==
  /\ reading \in [Sessions -> ReadRow]
  /\ ledger \in [Members -> Seq(Key)]
  /\ ballots \in [Members -> [Articles -> Seq(VoteRow)]]

\* A sample session was over before it was made.
SampleInv ==
  \A s \in Sampled : reading[s].owner # Nobody =>
    reading[s].status \in {"ELIGIBLE", "EXPIRED"} /\ reading[s].expires = 0

\* A session that was credited is closed: its times do not move any more.
Earned(m, k) ==
  IF k[1] = "vote" THEN ballots[m][k[2]] # <<>>
  ELSE IF k[2] \in Sampled
  THEN m = DemoMember /\ reading[k[2]].status \in {"ELIGIBLE", "EXPIRED"}
  ELSE /\ reading[k[2]].owner = m /\ reading[k[2]].status \in {"RETURNED", "EXPIRED"}
       /\ reading[k[2]].back - reading[k[2]].out >= ReadMin
       /\ reading[k[2]].back < reading[k[2]].expires

Entries(h) == {h[i] : i \in DOMAIN h}
Once(h) == \A i, j \in DOMAIN h : h[i] = h[j] => i = j

EarnedInv ==
  \A m \in Members :
    /\ Once(ledger[m])
    /\ \A k \in Key : k \in Entries(ledger[m]) => Earned(m, k)
    /\ \A a \in Articles : ballots[m][a] # <<>> => <<"vote", a>> \in Entries(ledger[m])

\* The revisions up to that of each row have their jobs, and were given once, but
\* for the first vote of the demonstration member on a sample article.
HasJob(a, n) ==
  \/ <<"aggregate_votes", a, n>> \in Queued
  \/ n = 1 /\ a \in Sampled /\ ballots[DemoMember][a] # <<>>
Jobbed(a) ==
  \A m \in Members : \A i \in DOMAIN ballots[m][a] : \A n \in 1 .. ballots[m][a][i].revision :
    HasJob(a, n)
GivenOnce(a) ==
  \A m, o \in Members : \A i \in DOMAIN ballots[m][a], j \in DOMAIN ballots[o][a] :
    ballots[m][a][i].revision = ballots[o][a][j].revision
      => (m = o /\ i = j) \/ IsSample(m, a, i) \/ IsSample(o, a, j)
Bounded(a) ==
  \E top \in Nat : \A m \in Members : \A i \in DOMAIN ballots[m][a] :
    ballots[m][a][i].revision <= top

RevisionsInv == \A a \in Articles : Jobbed(a) /\ GivenOnce(a) /\ Bounded(a)

LocalInv == AccountInv /\ LedgerTypes /\ SampleInv /\ EarnedInv /\ RevisionsInv

LEMMA SampledTypes ==
  /\ Sampled \subseteq Articles /\ Sampled \subseteq Sessions /\ Sampled \cap LocalReads = {}
  /\ Len(Feed) \in Nat /\ DOMAIN Feed = 1 .. Len(Feed)
  /\ \A i \in 1 .. Len(Feed) : Feed[i] \in Sampled
  /\ \A i, j \in 1 .. Len(Feed) : Feed[i] = Feed[j] => i = j
<1>1. /\ Len(Feed) \in Nat /\ DOMAIN Feed = 1 .. Len(Feed)
      /\ \A i \in 1 .. Len(Feed) : Feed[i] \in Articles
  BY LocalAssumption, LenProperties, ElementOfSeq
<1>2. Sampled \subseteq Articles
  BY <1>1 DEF Sampled
<1>3. /\ \A i \in 1 .. Len(Feed) : Feed[i] \in Sampled
      /\ \A i, j \in 1 .. Len(Feed) : Feed[i] = Feed[j] => i = j
  BY <1>1, LocalAssumption DEF Sampled
<1> QED BY <1>1, <1>2, <1>3, LocalAssumption DEF Sessions

LEMMA LocalInitial == LocalInit => LocalInv
<1> SUFFICES ASSUME LocalInit PROVE LocalInv
  OBVIOUS
<1>1. NoLogin \in Login /\ NoReading \in ReadRow /\ Absent \in Account /\ [SignedUp EXCEPT !.complete = TRUE] \in Account
  BY DEF NoLogin, Login, NoReading, ReadRow, Absent, Account, SignedUp
<1>2. \A m \in Members : member[m].status # "PENDING_DELETION"
  BY DEF LocalInit, Absent, SignedUp
<1>3. AccountInv
  BY <1>1, <1>2 DEF LocalInit, AccountInv
<1>4. LedgerTypes
  BY <1>1, EmptySeq DEF LocalInit, LedgerTypes
<1>5. EarnedInv /\ SampleInv
  BY SampledTypes DEF LocalInit, EarnedInv, Entries, Once, SampleInv, NoReading
<1>6. RevisionsInv
  <2>1. \A m \in Members, a \in Articles : DOMAIN ballots[m][a] = {}
    BY DEF LocalInit
  <2> QED BY <2>1 DEF RevisionsInv, Jobbed, GivenOnce, Bounded
<1> QED BY <1>3, <1>4, <1>5, <1>6 DEF LocalInv

\* Steps that touch neither readings, nor credits, nor votes.
LEMMA AccountStep ==
  ASSUME LocalInv, AccountInv', UNCHANGED <<reading, ledger, ballots>>,
         DOMAIN queue \subseteq DOMAIN queue'
  PROVE  LocalInv'
<1>1. LedgerTypes'
  BY DEF LocalInv, LedgerTypes
<1>2. \A m, k : Earned(m, k)' = Earned(m, k)
  BY DEF Earned
<1>3. EarnedInv'
  BY <1>2 DEF LocalInv, EarnedInv
<1>4. RevisionsInv'
  BY DEF LocalInv, RevisionsInv, Jobbed, HasJob, GivenOnce, IsSample, Bounded, Queued
<1>5. SampleInv'
  BY DEF LocalInv, SampleInv
<1> QED BY <1>1, <1>3, <1>4, <1>5 DEF LocalInv

LEMMA EnqueuedGrows ==
  ASSUME NEW k, queue' = Enqueued(k)
  PROVE  DOMAIN queue \subseteq DOMAIN queue' /\ k \in DOMAIN queue'
BY DEF Enqueued, Queued, With

LEMMA RespondType ==
  ASSUME LocalInv, NEW r \in LocalRequests, Respond(r)
  PROVE  /\ inside[r] \in Members /\ time' = time
         /\ inside' \in [LocalRequests -> Members \cup {Nobody}]
BY DEF LocalInv, AccountInv, Respond

\* Steps that change no account.
LEMMA QuietStep ==
  ASSUME LocalInv, UNCHANGED <<member, reading, ledger, ballots>>,
         time' \in Nat, login' \in [LocalTokens -> Login],
         inside' \in [LocalRequests -> Members \cup {Nobody}],
         DOMAIN queue \subseteq DOMAIN queue'
  PROVE  LocalInv'
<1>1. AccountInv'
  BY DEF LocalInv, AccountInv, Queued
<1> QED BY <1>1, AccountStep

LEMMA QueueSteps ==
  ASSUME LocalInv, NEW k \in Queued, CancelQueued(k) \/ RetryQueued(k)
  PROVE  LocalInv'
<1>1. DOMAIN queue \subseteq DOMAIN queue'
  BY DEF CancelQueued, RetryQueued, With
<1> QED BY <1>1, QuietStep DEF CancelQueued, RetryQueued, LocalInv, AccountInv

LEMMA OpenLoginType ==
  ASSUME LocalInv, NEW t \in LocalTokens, NEW m \in Members, OpenLogin(t, m)
  PROVE  login' \in [LocalTokens -> Login] /\ time' \in Nat
<1>1. [user |-> m, expires |-> time + DaySession, revoked |-> FALSE] \in Login
  BY LocalAssumption DEF LocalInv, AccountInv, Login
<1> QED BY <1>1 DEF OpenLogin, LocalInv, AccountInv

LEMMA CallbackStep ==
  ASSUME LocalInv, NEW t \in LocalTokens, NEW m \in Members, Callback(t, m)
  PROVE  LocalInv'
<1>1. SignedUp \in Account /\ SignedUp.status # "PENDING_DELETION"
  BY DEF SignedUp, Absent, Account
<1>2. AccountInv'
  BY <1>1, OpenLoginType DEF Callback, OpenLogin, LocalInv, AccountInv, Queued
<1> QED BY <1>2, AccountStep DEF Callback, OpenLogin

LEMMA HistoryType ==
  ASSUME LocalInv, NEW m \in Members, NEW a \in Articles
  PROVE  /\ ballots[m][a] \in Seq(VoteRow)
         /\ \A i \in DOMAIN ballots[m][a] : /\ ballots[m][a][i] \in VoteRow
                                           /\ ballots[m][a][i].revision \in Nat
<1>1. ballots[m][a] \in Seq(VoteRow)
  BY DEF LocalInv, LedgerTypes
<1>2. \A i \in DOMAIN ballots[m][a] : ballots[m][a][i] \in VoteRow
  BY <1>1, LenProperties, ElementOfSeq
<1> QED BY <1>1, <1>2 DEF VoteRow

\* The sample activity credits each sample session and vote once.
LEMMA SampleCredits ==
  /\ SampleLedger \in Seq(Key) /\ Once(SampleLedger)
  /\ \A k \in Entries(SampleLedger) : k[1] \in {"read", "vote"} /\ k[2] \in Sampled
  /\ \A a \in Sampled : <<"vote", a>> \in Entries(SampleLedger)
<1> DEFINE n == Len(Feed)
           reads == [i \in 1 .. n |-> <<"read", Feed[i]>>]
           votes == [i \in 1 .. n |-> <<"vote", Feed[i]>>]
           all == reads \o votes
<1>1. /\ n \in Nat /\ DOMAIN Feed = 1 .. n
      /\ \A i \in 1 .. n : Feed[i] \in Sampled
      /\ \A i, j \in 1 .. n : Feed[i] = Feed[j] => i = j
  BY SampledTypes
<1>2. SampleLedger = all
  BY <1>1 DEF SampleLedger
<1>3. \A i \in 1 .. n : <<"read", Feed[i]>> \in Key /\ <<"vote", Feed[i]>> \in Key
  BY <1>1, SampledTypes DEF Key
<1>4. /\ reads \in Seq(Key) /\ Len(reads) = n
      /\ votes \in Seq(Key) /\ Len(votes) = n
  <2>1. reads \in [1 .. n -> Key] /\ votes \in [1 .. n -> Key]
    BY <1>3
  <2> HIDE DEF reads, votes, n
  <2> QED BY <1>1, <2>1
<1>5. \A i \in 1 .. n : reads[i] = <<"read", Feed[i]>> /\ votes[i] = <<"vote", Feed[i]>>
  OBVIOUS
<1> HIDE DEF reads, votes, n
<1>6. /\ all \in Seq(Key) /\ Len(all) = n + n
      /\ \A i \in 1 .. n + n : all[i] = IF i <= n THEN reads[i] ELSE votes[i - n]
  <2>1. /\ all \in Seq(Key) /\ Len(all) = Len(reads) + Len(votes)
        /\ \A i \in 1 .. Len(reads) + Len(votes) :
             all[i] = IF i <= Len(reads) THEN reads[i] ELSE votes[i - Len(reads)]
    BY <1>4, ConcatProperties, Zenon
  <2> HIDE DEF all
  <2> QED BY <1>4, <2>1, Zenon
<1>7. DOMAIN all = 1 .. n + n
  BY <1>6, LenProperties
<1>8. ASSUME NEW i \in 1 .. n + n
      PROVE  \/ i \in 1 .. n /\ all[i] = <<"read", Feed[i]>>
             \/ i - n \in 1 .. n /\ all[i] = <<"vote", Feed[i - n]>>
  <2>1. n \in Nat /\ all[i] = IF i <= n THEN reads[i] ELSE votes[i - n]
    BY <1>1, <1>6
  <2> HIDE DEF all
  <2>2. CASE i <= n
    <3>1. i \in 1 .. n /\ all[i] = reads[i]
      BY <2>1, <2>2
    <3> QED BY <1>5, <3>1
  <2>3. CASE ~(i <= n)
    <3>1. i - n \in 1 .. n /\ all[i] = votes[i - n]
      BY <2>1, <2>3
    <3> QED BY <1>5, <3>1
  <2> QED BY <2>2, <2>3
<1> HIDE DEF all
<1>9. Once(all)
  <2> SUFFICES ASSUME NEW i \in 1 .. n + n, NEW j \in 1 .. n + n, all[i] = all[j] PROVE i = j
    BY <1>7 DEF Once
  <2>1. "read" # "vote"
    OBVIOUS
  <2>2. \/ i \in 1 .. n /\ j \in 1 .. n /\ Feed[i] = Feed[j]
        \/ i - n \in 1 .. n /\ j - n \in 1 .. n /\ Feed[i - n] = Feed[j - n]
    BY <1>8, <2>1
  <2>3. i = j \/ i - n = j - n
    BY <1>1, <2>2
  <2> QED BY <1>1, <2>3
<1>10. \A k \in Entries(all) : k[1] \in {"read", "vote"} /\ k[2] \in Sampled
  BY <1>1, <1>7, <1>8 DEF Entries
<1>11. ASSUME NEW a \in Sampled PROVE <<"vote", a>> \in Entries(all)
  <2>1. PICK i \in 1 .. n : Feed[i] = a
    BY <1>1 DEF Sampled
  <2>2. i + n \in 1 .. n + n /\ all[i + n] = votes[i]
    BY <1>1, <1>6
  <2> QED BY <1>5, <1>7, <2>1, <2>2 DEF Entries
<1> QED BY <1>2, <1>6, <1>9, <1>10, <1>11

\* The rows of the sample activity.
LEMMA SeedDemoTypes ==
  ASSUME LocalInv, SeedDemo
  PROVE  LedgerTypes' /\ SampleInv'
<1>1. SampleVote \in VoteRow /\ <<SampleVote>> \in Seq(VoteRow) /\ <<>> \in Seq(VoteRow)
  BY DEF SampleVote, VoteRow
<1>2. \A a \in Sampled : /\ SampleRead(a) \in ReadRow
                          /\ SampleRead(a).status = "ELIGIBLE" /\ SampleRead(a).expires = 0
  BY SampledTypes, LocalAssumption DEF SampleRead, NoReading, ReadRow
<1>3. reading' \in [Sessions -> ReadRow]
  BY <1>2 DEF SeedDemo, LocalInv, LedgerTypes
<1>4. ledger' \in [Members -> Seq(Key)]
  BY SampleCredits DEF SeedDemo, LocalInv, LedgerTypes
<1>5. ballots' \in [Members -> [Articles -> Seq(VoteRow)]]
  <2> DEFINE mine == [a \in Articles |-> IF a \in Sampled THEN <<SampleVote>> ELSE <<>>]
  <2>1. mine \in [Articles -> Seq(VoteRow)]
    BY <1>1
  <2>2. ballots' = [ballots EXCEPT ![DemoMember] = mine]
    BY DEF SeedDemo
  <2> HIDE DEF mine
  <2> QED BY <2>1, <2>2 DEF LocalInv, LedgerTypes
<1>6. SampleInv'
  BY <1>2, SampledTypes DEF SeedDemo, SampleInv
<1> QED BY <1>3, <1>4, <1>5, <1>6 DEF LedgerTypes

\* Whoever voted before the demonstration member was made keeps their rows.
LEMMA SeedDemoVotes ==
  ASSUME LocalInv, SeedDemo, queue' = queue
  PROVE  RevisionsInv'
<1>1. /\ \A m \in Members, a \in Articles : m # DemoMember => ballots'[m][a] = ballots[m][a]
      /\ \A a \in Articles :
           ballots'[DemoMember][a] = IF a \in Sampled THEN <<SampleVote>> ELSE <<>>
      /\ DemoMember \in Members
  BY LocalAssumption DEF SeedDemo, LocalInv, LedgerTypes
<1>2. ASSUME NEW a \in Articles, NEW i \in DOMAIN ballots'[DemoMember][a]
      PROVE  a \in Sampled /\ i = 1 /\ ballots'[DemoMember][a][i].revision = 1
  BY <1>1, <1>2 DEF SampleVote
<1>3. ASSUME NEW a \in Articles PROVE Jobbed(a)'
  <2> SUFFICES ASSUME NEW m \in Members, NEW i \in DOMAIN ballots'[m][a],
                      NEW n \in 1 .. ballots'[m][a][i].revision
               PROVE  HasJob(a, n)'
    BY DEF Jobbed
  <2>1. CASE m = DemoMember
    <3>1. a \in Sampled /\ n = 1
      BY <1>2, <2>1
    <3>2. ballots'[DemoMember][a] # <<>>
      BY <1>1, <3>1
    <3> QED BY <3>1, <3>2 DEF HasJob
  <2>2. CASE m # DemoMember
    <3>1. HasJob(a, n)
      BY <1>1, <2>2 DEF LocalInv, RevisionsInv, Jobbed
    <3>2. a \in Sampled => ballots'[DemoMember][a] # <<>>
      BY <1>1
    <3> QED BY <3>1, <3>2 DEF HasJob, Queued
  <2> QED BY <2>1, <2>2
<1>4. ASSUME NEW a \in Articles PROVE GivenOnce(a)'
  <2> SUFFICES ASSUME NEW m \in Members, NEW o \in Members,
                      NEW i \in DOMAIN ballots'[m][a], NEW j \in DOMAIN ballots'[o][a],
                      ballots'[m][a][i].revision = ballots'[o][a][j].revision
               PROVE  (m = o /\ i = j) \/ IsSample(m, a, i)' \/ IsSample(o, a, j)'
    BY DEF GivenOnce
  <2>1. CASE m = DemoMember \/ o = DemoMember
    BY <1>2, <2>1 DEF IsSample
  <2>2. CASE m # DemoMember /\ o # DemoMember
    BY <1>1, <2>2 DEF LocalInv, RevisionsInv, GivenOnce, IsSample
  <2> QED BY <2>1, <2>2
<1>5. ASSUME NEW a \in Articles PROVE Bounded(a)'
  <2>1. PICK top \in Nat : \A m \in Members : \A i \in DOMAIN ballots[m][a] :
                             ballots[m][a][i].revision <= top
    BY DEF LocalInv, RevisionsInv, Bounded
  <2>2. ASSUME NEW m \in Members, NEW i \in DOMAIN ballots'[m][a]
        PROVE  ballots'[m][a][i].revision <= top + 1
    <3>1. CASE m = DemoMember
      BY <1>2, <3>1
    <3>2. CASE m # DemoMember
      <4>1. i \in DOMAIN ballots[m][a] /\ ballots'[m][a][i] = ballots[m][a][i]
        BY <1>1, <3>2
      <4>2. ballots[m][a][i].revision \in Nat /\ ballots[m][a][i].revision <= top
        BY <2>1, <4>1, HistoryType
      <4> QED BY <4>1, <4>2
    <3> QED BY <3>1, <3>2
  <2> QED BY <2>2 DEF Bounded
<1> QED BY <1>3, <1>4, <1>5 DEF RevisionsInv

LEMMA SeedDemoCredits ==
  ASSUME LocalInv, SeedDemo
  PROVE  EarnedInv'
<1>1. /\ ledger'[DemoMember] = SampleLedger /\ DemoMember \in Members
      /\ \A m \in Members : m # DemoMember => /\ ledger'[m] = ledger[m]
                                             /\ ballots'[m] = ballots[m]
      /\ \A a \in Articles :
           ballots'[DemoMember][a] = IF a \in Sampled THEN <<SampleVote>> ELSE <<>>
      /\ \A s \in Sampled : reading'[s].status = "ELIGIBLE"
      /\ \A s \in Sessions \ Sampled : reading'[s] = reading[s]
  BY LocalAssumption, SampledTypes DEF SeedDemo, SampleRead, NoReading, LocalInv, LedgerTypes
<1>2. ASSUME NEW m \in Members, m # DemoMember
      PROVE  /\ Once(ledger'[m])
             /\ \A k \in Key : k \in Entries(ledger'[m]) => Earned(m, k)'
             /\ \A a \in Articles : ballots'[m][a] # <<>> => <<"vote", a>> \in Entries(ledger'[m])
  <2>1. ASSUME NEW k \in Key, Earned(m, k) PROVE Earned(m, k)'
    BY <1>1, <1>2, <2>1 DEF Earned, Key
  <2> QED BY <1>1, <1>2, <2>1 DEF LocalInv, EarnedInv
<1>3. /\ Once(ledger'[DemoMember])
      /\ \A k \in Key : k \in Entries(ledger'[DemoMember]) => Earned(DemoMember, k)'
      /\ \A a \in Articles :
           ballots'[DemoMember][a] # <<>> => <<"vote", a>> \in Entries(ledger'[DemoMember])
  <2>1. ASSUME NEW k \in Key, k \in Entries(SampleLedger) PROVE Earned(DemoMember, k)'
    <3>1. k[1] \in {"read", "vote"} /\ k[2] \in Sampled /\ k[2] \in Articles
      BY <2>1, SampleCredits, SampledTypes
    <3>2. ballots'[DemoMember][k[2]] # <<>> /\ reading'[k[2]].status = "ELIGIBLE"
      BY <1>1, <3>1
    <3> QED BY <3>1, <3>2 DEF Earned
  <2> QED BY <1>1, <2>1, SampleCredits
<1> QED BY <1>2, <1>3 DEF EarnedInv

LEMMA DemoLoginStep ==
  ASSUME LocalInv, NEW t \in LocalTokens, DemoLogin(t)
  PROVE  LocalInv'
<1> DEFINE demo == [status |-> "ACTIVE", complete |-> TRUE, onboarded |-> TRUE]
<1>1. demo \in Account /\ demo.status # "PENDING_DELETION" /\ DemoMember \in Members
  BY LocalAssumption DEF Account
<1>2. member' = member \/ member' = [member EXCEPT ![DemoMember] = demo]
  BY DEF DemoLogin, SeedDemo
<1> HIDE DEF demo
<1>3. /\ member' \in [Members -> Account]
      /\ \A m \in Members : member'[m].status = "PENDING_DELETION" =>
                            member[m].status = "PENDING_DELETION"
  BY <1>1, <1>2 DEF LocalInv, AccountInv
<1>4. /\ login' \in [LocalTokens -> Login] /\ time' \in Nat
      /\ UNCHANGED <<inside, queue>>
  BY <1>1, OpenLoginType DEF DemoLogin, OpenLogin
<1>5. AccountInv'
  BY <1>3, <1>4 DEF LocalInv, AccountInv, Queued
<1>6. CASE SeedDemo
  BY <1>4, <1>5, <1>6, SeedDemoTypes, SeedDemoVotes, SeedDemoCredits DEF LocalInv
<1>7. CASE UNCHANGED <<reading, ledger, ballots>>
  BY <1>4, <1>5, <1>7, AccountStep
<1> QED BY <1>6, <1>7 DEF DemoLogin

\* Whoever is admitted is active at that moment.
LEMMA Principal ==
  ASSUME LocalInv, NEW t \in LocalTokens, PrincipalOf(t) # Nobody
  PROVE  PrincipalOf(t) \in Members /\ member[PrincipalOf(t)].status = "ACTIVE"
<1>1. login[t].user \in Members \cup {Nobody}
  BY DEF LocalInv, AccountInv, Login
<1> QED BY <1>1 DEF PrincipalOf

LEMMA AdmitStep ==
  ASSUME LocalInv, NEW t \in LocalTokens, NEW r \in LocalRequests, Admit(r, t)
  PROVE  LocalInv'
<1>1. inside' \in [LocalRequests -> Members \cup {Nobody}]
  BY Principal DEF Admit, LocalInv, AccountInv
<1> QED BY <1>1, QuietStep DEF Admit, LocalInv, AccountInv

LEMMA QuietAnswers ==
  ASSUME LocalInv, NEW r \in LocalRequests,
         Refuse(r) \/ LocalExport(r) \/ \E c \in Cards : LocalCreateCard(r, c) \/ LocalRevokeCard(r, c)
  PROVE  LocalInv'
<1>1. /\ inside' \in [LocalRequests -> Members \cup {Nobody}] /\ time' = time
      /\ UNCHANGED <<member, login, reading, ledger, ballots>>
  BY RespondType DEF Refuse, LocalExport, LocalCreateCard, LocalRevokeCard
<1>2. DOMAIN queue \subseteq DOMAIN queue'
  BY EnqueuedGrows DEF Refuse, LocalExport, LocalCreateCard, LocalRevokeCard, With
<1> QED BY <1>1, <1>2, QuietStep DEF LocalInv, AccountInv

LEMMA LogoutStep ==
  ASSUME LocalInv, NEW r \in LocalRequests, NEW t \in LocalTokens, Logout(r, t)
  PROVE  LocalInv'
<1>1. login' \in [LocalTokens -> Login]
  BY DEF Logout, LocalInv, AccountInv, Login
<1> QED BY <1>1, RespondType, QuietStep DEF Logout, LocalInv, AccountInv

\* An account changes its consents or its questionnaire only.
LEMMA AccountAnswer ==
  ASSUME LocalInv, NEW r \in LocalRequests, Respond(r), member' \in [Members -> Account],
         \A m \in Members : member'[m].status = member[m].status,
         UNCHANGED <<login, reading, ledger, ballots, queue>>
  PROVE  LocalInv'
<1>1. AccountInv'
  BY RespondType DEF LocalInv, AccountInv, Queued
<1> QED BY <1>1, AccountStep

LEMMA ConsentStep ==
  ASSUME LocalInv, NEW r \in LocalRequests, NEW p \in Purposes, NEW granted \in BOOLEAN,
         LocalConsent(r, p, granted)
  PROVE  LocalInv'
<1> DEFINE m == inside[r]
           complete == \A q \in Purposes : <<m, q>> \in grants'
           onboarded == member[m].onboarded /\ (granted \/ p # "POLITICAL_PROFILE")
<1>1. m \in Members /\ member \in [Members -> Account]
  BY RespondType DEF LocalConsent, LocalInv, AccountInv
<1>2. member' = [member EXCEPT ![m].complete = complete, ![m].onboarded = onboarded]
  BY DEF LocalConsent
<1>3. complete \in BOOLEAN /\ onboarded \in BOOLEAN
  OBVIOUS
<1> HIDE DEF complete, onboarded
<1>4. /\ member' \in [Members -> Account]
      /\ \A x \in Members : member'[x].status = member[x].status
  BY <1>1, <1>2, <1>3 DEF Account
<1> QED BY <1>4, AccountAnswer DEF LocalConsent

LEMMA QuestionnaireStep ==
  ASSUME LocalInv, NEW r \in LocalRequests, LocalQuestionnaire(r)
  PROVE  LocalInv'
<1>1. inside[r] \in Members /\ member \in [Members -> Account]
  BY RespondType DEF LocalQuestionnaire, LocalInv, AccountInv
<1>2. member' = [member EXCEPT ![inside[r]].onboarded = TRUE]
  BY DEF LocalQuestionnaire
<1>3. /\ member' \in [Members -> Account]
      /\ \A x \in Members : member'[x].status = member[x].status
  BY <1>1, <1>2 DEF Account
<1> QED BY <1>3, AccountAnswer DEF LocalQuestionnaire

LEMMA DeleteStep ==
  ASSUME LocalInv, NEW r \in LocalRequests, LocalDelete(r)
  PROVE  LocalInv'
<1> DEFINE m == inside[r]
           new == [member[m] EXCEPT !.status = "PENDING_DELETION"]
<1>1. m \in Members /\ member[m] \in Account
  BY RespondType DEF LocalDelete, LocalInv, AccountInv
<1>2. new \in Account /\ member' = [member EXCEPT ![m] = new]
  BY <1>1 DEF LocalDelete, Account
<1>3. DOMAIN queue \subseteq DOMAIN queue' /\ <<"delete_user", m>> \in DOMAIN queue'
  BY EnqueuedGrows DEF LocalDelete, DeleteJob
<1>4. login' \in [LocalTokens -> Login]
  <2>1. \A t \in LocalTokens : login[t] \in Login /\ [login[t] EXCEPT !.revoked = TRUE] \in Login
    BY DEF LocalInv, AccountInv, Login
  <2> QED BY <2>1 DEF LocalDelete
<1> HIDE DEF new
<1>5. AccountInv'
  BY <1>1, <1>2, <1>3, <1>4, RespondType DEF LocalDelete, LocalInv, AccountInv, Queued
<1> QED BY <1>3, <1>5, AccountStep DEF LocalDelete

LEMMA TickStep == ASSUME LocalInv, LocalTick PROVE LocalInv'
BY QuietStep DEF LocalTick, LocalInv, AccountInv

LEMMA RevisionsKept ==
  ASSUME LocalInv, UNCHANGED <<ballots, queue>> PROVE RevisionsInv'
BY DEF LocalInv, RevisionsInv, Jobbed, HasJob, GivenOnce, IsSample, Bounded, Queued

(* ------------------------------ readings ------------------------------- *)

\* All that happens to a sample session is that it is marked as expired.
SampleKept(s) ==
  \/ reading'[s] = reading[s]
  \/ reading[s].owner # Nobody /\ reading'[s] = [reading[s] EXCEPT !.status = "EXPIRED"]

\* A reading changes: what was credited stays as it was.
LEMMA ReadingStep ==
  ASSUME LocalInv, AccountInv', reading' \in [Sessions -> ReadRow],
         UNCHANGED <<ledger, ballots, queue>>,
         \A s \in Sampled : SampleKept(s),
         \A s \in LocalReads, m \in Members : Earned(m, <<"read", s>>) => Earned(m, <<"read", s>>)'
  PROVE  LocalInv'
<1>1. LedgerTypes'
  BY DEF LocalInv, LedgerTypes
<1>2. ASSUME NEW s \in Sampled
      PROVE  \/ reading'[s] = reading[s]
             \/ /\ reading'[s].owner = reading[s].owner
                /\ reading'[s].expires = reading[s].expires
                /\ reading'[s].status = "EXPIRED"
                /\ reading[s].owner # Nobody
  <2>1. reading[s] \in ReadRow
    BY SampledTypes DEF LocalInv, LedgerTypes
  <2> QED BY <2>1 DEF SampleKept, ReadRow
<1>6. SampleInv'
  BY <1>2 DEF LocalInv, SampleInv
<1>3. ASSUME NEW m \in Members, NEW k \in Key, Earned(m, k) PROVE Earned(m, k)'
  <2>1. CASE k[1] = "vote"
    BY <1>3, <2>1 DEF Earned
  <2>2. CASE k[1] # "vote" /\ k[2] \in Sampled
    BY <1>2, <1>3, <2>2 DEF Earned
  <2>3. CASE k[1] # "vote" /\ k[2] \notin Sampled
    <3>1. k[2] \in LocalReads /\ k = <<"read", k[2]>>
      BY <2>3 DEF Key, Sessions
    <3> QED BY <1>3, <3>1
  <2> QED BY <2>1, <2>2, <2>3
<1>4. EarnedInv'
  BY <1>3 DEF LocalInv, EarnedInv
<1>5. RevisionsInv'
  BY RevisionsKept
<1> QED BY <1>1, <1>4, <1>5, <1>6 DEF LocalInv

LEMMA CreateReadStep ==
  ASSUME LocalInv, NEW r \in LocalRequests, NEW s \in LocalReads, NEW a \in Articles,
         LocalCreateRead(r, s, a)
  PROVE  LocalInv'
<1> DEFINE new == [owner |-> inside[r], status |-> "CREATED", article |-> a, out |-> 0,
                   back |-> 0, expires |-> time + ReadTtl]
<1>1. new \in ReadRow
  BY RespondType, LocalAssumption DEF LocalCreateRead, LocalInv, AccountInv, ReadRow
<1>2. /\ reading' = [reading EXCEPT ![s] = new] /\ reading[s].owner = Nobody
      /\ UNCHANGED <<member, login, ledger, ballots, queue>>
  BY DEF LocalCreateRead
<1> HIDE DEF new
<1>3. reading' \in [Sessions -> ReadRow] /\ \A x \in Sampled : SampleKept(x)
  BY <1>1, <1>2, SampledTypes DEF LocalInv, LedgerTypes, SampleKept
<1>4. AccountInv'
  BY <1>2, RespondType DEF LocalCreateRead, LocalInv, AccountInv, Queued
<1>5. \A x \in LocalReads, m \in Members :
        Earned(m, <<"read", x>>) => Earned(m, <<"read", x>>)'
  <2>1. \A x \in LocalReads : x # s => reading'[x] = reading[x]
    BY <1>2 DEF LocalInv, LedgerTypes, Sessions
  <2>2. \A m \in Members : ~Earned(m, <<"read", s>>)
    BY <1>2, LocalAssumption, SampledTypes DEF Earned
  <2>3. \A x \in LocalReads, m \in Members :
          x # s => (Earned(m, <<"read", x>>) <=> Earned(m, <<"read", x>>)')
    BY <2>1, SampledTypes DEF Earned
  <2> QED BY <2>2, <2>3
<1> QED BY <1>2, <1>3, <1>4, <1>5, ReadingStep

LEMMA RedirectStep ==
  ASSUME LocalInv, NEW r \in LocalRequests, NEW s \in LocalReads, LocalRedirect(r, s)
  PROVE  LocalInv'
<1>1. PICK new \in ReadRow :
        /\ reading' = [reading EXCEPT ![s] = new]
        /\ \/ new = [reading[s] EXCEPT !.status = "EXPIRED"]
           \/ reading[s].status = "CREATED"
  <2>1. reading[s] \in ReadRow /\ time \in Nat
    BY DEF LocalInv, LedgerTypes, AccountInv, Sessions
  <2>2. CASE reading' = [reading EXCEPT ![s].status = "EXPIRED"]
    BY <2>1, <2>2 DEF ReadRow
  <2>3. CASE reading[s].status = "CREATED"
               /\ reading' = [reading EXCEPT ![s].status = "OUTBOUND", ![s].out = time]
    <3> DEFINE new == [reading[s] EXCEPT !.status = "OUTBOUND", !.out = time]
    <3>1. new \in ReadRow
      BY <2>1 DEF ReadRow
    <3>2. reading' = [reading EXCEPT ![s] = new]
      BY <2>1, <2>3 DEF ReadRow, LocalInv, LedgerTypes
    <3> QED BY <2>3, <3>1, <3>2
  <2> QED BY <2>2, <2>3 DEF LocalRedirect
<1>2. UNCHANGED <<member, login, ledger, ballots, queue>>
  BY DEF LocalRedirect
<1>3. reading' \in [Sessions -> ReadRow] /\ \A x \in Sampled : SampleKept(x)
  BY <1>1, SampledTypes DEF LocalInv, LedgerTypes, SampleKept
<1>4. AccountInv'
  BY <1>2, RespondType DEF LocalRedirect, LocalInv, AccountInv, Queued
<1>5. \A x \in LocalReads, m \in Members :
        Earned(m, <<"read", x>>) => Earned(m, <<"read", x>>)'
  <2>1. reading[s] \in ReadRow
    BY DEF LocalInv, LedgerTypes, Sessions
  <2>2. /\ reading'[s] = new /\ \A x \in LocalReads : x # s => reading'[x] = reading[x]
    BY <1>1 DEF LocalInv, LedgerTypes, Sessions
  <2>3. \A x \in LocalReads, m \in Members :
          x # s => (Earned(m, <<"read", x>>) <=> Earned(m, <<"read", x>>)')
    BY <2>2, SampledTypes DEF Earned
  <2>4. \A m \in Members : Earned(m, <<"read", s>>) => Earned(m, <<"read", s>>)'
    BY <1>1, <2>1, <2>2, SampledTypes DEF Earned, ReadRow
  <2> QED BY <2>3, <2>4
<1> QED BY <1>2, <1>3, <1>4, <1>5, ReadingStep

\* An entry is made once and never lost.
WellPosted(l, m, key) ==
  /\ l \in [Members -> Seq(Key)]
  /\ \A o \in Members : o # m => l[o] = ledger[o]
  /\ Once(l[m])
  /\ Entries(l[m]) = Entries(ledger[m]) \cup {key}

LEMMA PostedOnce ==
  ASSUME LocalInv, NEW m \in Members, NEW key \in Key
  PROVE  WellPosted(Posted(m, key), m, key)
<1>l. PICK l : l = Posted(m, key)
  OBVIOUS
<1> SUFFICES WellPosted(l, m, key)
  BY <1>l
<1> DEFINE old == ledger[m]
           new == Append(old, key)
<1>1. ledger \in [Members -> Seq(Key)] /\ old \in Seq(Key)
  BY DEF LocalInv, LedgerTypes
<1>2. Once(old)
  BY DEF LocalInv, EarnedInv
<1>3. CASE key \in Entries(old)
  <2>1. l = ledger
    BY <1>l, <1>3 DEF Posted, Entries
  <2> QED BY <1>1, <1>2, <1>3, <2>1 DEF WellPosted
<1>4. CASE key \notin Entries(old)
  <2>1. l = [ledger EXCEPT ![m] = new]
    BY <1>l, <1>4 DEF Posted, Entries
  <2>2. /\ new \in Seq(Key) /\ Len(new) = Len(old) + 1 /\ Len(old) \in Nat
        /\ \A i \in 1 .. Len(old) : new[i] = old[i]
        /\ new[Len(old) + 1] = key
        /\ DOMAIN new = 1 .. Len(old) + 1 /\ DOMAIN old = 1 .. Len(old)
    BY <1>1, AppendProperties, LenProperties
  <2> HIDE DEF new, old
  <2>3. Once(new)
    <3> SUFFICES ASSUME NEW i \in DOMAIN new, NEW j \in DOMAIN new, new[i] = new[j] PROVE i = j
      BY DEF Once
    <3>1. (i \in DOMAIN old \/ i = Len(old) + 1) /\ (j \in DOMAIN old \/ j = Len(old) + 1)
      BY <2>2
    <3> QED BY <1>2, <1>4, <2>2, <3>1 DEF Once, Entries
  <2>4. Entries(new) = Entries(old) \cup {key}
    <3>1. \A i \in DOMAIN new : new[i] = key \/ \E j \in DOMAIN old : new[i] = old[j]
      BY <2>2
    <3>2. \A j \in DOMAIN old : \E i \in DOMAIN new : new[i] = old[j]
      BY <2>2
    <3>3. \E i \in DOMAIN new : new[i] = key
      BY <2>2
    <3> QED BY <3>1, <3>2, <3>3 DEF Entries
  <2>5. l \in [Members -> Seq(Key)] /\ l[m] = new
        /\ \A o \in Members : o # m => l[o] = ledger[o]
    BY <1>1, <2>1, <2>2
  <2> QED BY <2>3, <2>4, <2>5 DEF old, WellPosted
<1> QED BY <1>3, <1>4

\* An entry that was earned is posted.
LEMMA PostStep ==
  ASSUME LocalInv, NEW m \in Members, NEW key \in Key, ledger' = Posted(m, key),
         reading' \in [Sessions -> ReadRow],
         ballots' \in [Members -> [Articles -> Seq(VoteRow)]],
         Earned(m, key)',
         \A o \in Members, k \in Key : Earned(o, k) => Earned(o, k)',
         \A o \in Members, a \in Articles :
           ballots'[o][a] # <<>> => ballots[o][a] # <<>> \/ (o = m /\ key = <<"vote", a>>)
  PROVE  LedgerTypes' /\ EarnedInv'
<1>1. WellPosted(Posted(m, key), m, key)
  BY PostedOnce
<1>2. PICK l : l = Posted(m, key) /\ ledger' = l
  OBVIOUS
<1>3. WellPosted(l, m, key)
  BY <1>1, <1>2
<1>4. LedgerTypes'
  BY <1>2, <1>3 DEF LedgerTypes, WellPosted
<1>5. \A o \in Members : Once(ledger'[o])
  BY <1>2, <1>3 DEF LocalInv, EarnedInv, WellPosted
<1>6. \A o \in Members, k \in Key : k \in Entries(ledger'[o]) => Earned(o, k)'
  BY <1>2, <1>3 DEF LocalInv, EarnedInv, WellPosted
<1>7. \A o \in Members, a \in Articles :
        ballots'[o][a] # <<>> => <<"vote", a>> \in Entries(ledger'[o])
  BY <1>2, <1>3 DEF LocalInv, EarnedInv, WellPosted
<1>8. EarnedInv'
  BY <1>5, <1>6, <1>7 DEF EarnedInv
<1> QED BY <1>4, <1>8

LEMMA ReturnStep ==
  ASSUME LocalInv, NEW r \in LocalRequests, NEW s \in Sessions, LocalReturn(r, s)
  PROVE  LocalInv'
<1>0. PICK m \in Members : m = inside[r]
  BY RespondType DEF LocalReturn
<1>k. PICK key \in Key : key = <<"read", s>>
  BY DEF Key
<1>1. /\ reading[s] \in ReadRow /\ time \in Nat
      /\ reading[s].owner = m /\ reading[s].status # "RETURNED"
      /\ UNCHANGED <<member, login, ballots, queue>>
  BY <1>0 DEF LocalReturn, LocalInv, LedgerTypes, AccountInv
<1>2. AccountInv'
  BY <1>1, RespondType DEF LocalReturn, LocalInv, AccountInv, Queued
<1>3. CASE reading' = [reading EXCEPT ![s].status = "EXPIRED"] /\ UNCHANGED ledger
  <2> DEFINE new == [reading[s] EXCEPT !.status = "EXPIRED"]
  <2>1. /\ new \in ReadRow /\ new.status = "EXPIRED" /\ new.owner = reading[s].owner
        /\ new.out = reading[s].out /\ new.back = reading[s].back
        /\ new.expires = reading[s].expires /\ reading' = [reading EXCEPT ![s] = new]
    BY <1>1, <1>3 DEF ReadRow
  <2> HIDE DEF new
  <2>2. /\ reading' \in [Sessions -> ReadRow]
        /\ reading'[s] = new /\ \A x \in Sessions : x # s => reading'[x] = reading[x]
    BY <2>1 DEF LocalInv, LedgerTypes
  <2>3. \A x \in LocalReads, o \in Members :
          Earned(o, <<"read", x>>) => Earned(o, <<"read", x>>)'
    BY <2>1, <2>2, SampledTypes DEF Earned, Sessions
  <2>4. \A x \in Sampled : SampleKept(x)
    BY <1>1, <2>2, SampledTypes, LocalAssumption DEF new, SampleKept
  <2> QED BY <1>1, <1>2, <1>3, <2>2, <2>3, <2>4, ReadingStep
<1>4. CASE /\ reading[s].expires > time /\ reading[s].status = "OUTBOUND"
           /\ reading' = [reading EXCEPT ![s].status = "RETURNED", ![s].back = time]
           /\ ledger' = IF Elapsed(s) THEN Posted(m, key) ELSE ledger
  <2> DEFINE new == [reading[s] EXCEPT !.status = "RETURNED", !.back = time]
  <2>1. /\ new \in ReadRow /\ new.status = "RETURNED" /\ new.owner = m
        /\ new.out = reading[s].out /\ new.back = time /\ new.expires = reading[s].expires
    BY <1>1 DEF ReadRow
  <2>2. reading' = [reading EXCEPT ![s] = new]
    BY <1>1, <1>4 DEF ReadRow, LocalInv, LedgerTypes
  <2>3. /\ reading' \in [Sessions -> ReadRow]
        /\ \A x \in Sessions : x # s => reading'[x] = reading[x]
    BY <2>1, <2>2 DEF LocalInv, LedgerTypes
  <2>0. s \notin Sampled
    BY <1>1, <1>4, LocalAssumption DEF LocalInv, SampleInv
  <2>4. /\ reading'[s].status = "RETURNED" /\ reading'[s].owner = m
        /\ reading'[s].out = reading[s].out /\ reading'[s].back = time
        /\ reading'[s].expires = reading[s].expires
    BY <2>1, <2>2 DEF LocalInv, LedgerTypes
  <2> HIDE DEF new
  <2>5. \A o \in Members, k \in Key : Earned(o, k) => Earned(o, k)'
    BY <1>1, <1>4, <2>0, <2>3, SampledTypes DEF Earned, Key
  <2>8. \A x \in Sampled : reading'[x] = reading[x] /\ SampleKept(x)
    BY <2>0, <2>3, SampledTypes DEF SampleKept
  <2>6. CASE Elapsed(s)
    <3>1. Earned(m, key)'
      BY <1>k, <1>1, <1>4, <2>0, <2>4, <2>6 DEF Earned, Elapsed, ReadRow
    <3>2. ballots' \in [Members -> [Articles -> Seq(VoteRow)]]
      BY <1>1 DEF LocalInv, LedgerTypes
    <3>3. ledger' = Posted(m, key)
      BY <1>4, <2>6
    <3>v. \A o \in Members, a \in Articles :
            ballots'[o][a] # <<>> => ballots[o][a] # <<>> \/ (o = m /\ key = <<"vote", a>>)
      BY <1>1
    <3>r. reading' \in [Sessions -> ReadRow]
      BY <2>3
    <3>4. LedgerTypes' /\ EarnedInv'
      BY <2>5, <3>1, <3>2, <3>3, <3>v, <3>r, PostStep
    <3>5. RevisionsInv'
      BY <1>1, RevisionsKept
    <3>6. SampleInv'
      BY <2>8 DEF LocalInv, SampleInv
    <3> QED BY <1>2, <3>4, <3>5, <3>6 DEF LocalInv
  <2>7. CASE ~Elapsed(s)
    <3>1. \A x \in LocalReads, o \in Members :
            Earned(o, <<"read", x>>) => Earned(o, <<"read", x>>)'
      <4>1. \A x \in LocalReads : <<"read", x>> \in Key
        BY DEF Key, Sessions
      <4> QED BY <2>5, <4>1
    <3> QED BY <1>1, <1>2, <1>4, <2>3, <2>7, <2>8, <3>1, ReadingStep
  <2> QED BY <2>6, <2>7
<1> QED BY <1>0, <1>k, <1>3, <1>4 DEF LocalReturn

(* -------------------------------- votes -------------------------------- *)

\* A bounded set of numbers has a greatest one.
LEMMA MaxOfBounded ==
  ASSUME NEW S \in SUBSET Nat, S # {}, NEW top \in Nat, \A x \in S : x <= top
  PROVE  Max(S) \in S /\ \A x \in S : x <= Max(S)
<1> DEFINE Bound == {n \in Nat : \A x \in S : x <= n}
           Less == {ss \in Nat \X Nat : ss[1] < ss[2]}
<1>0. IsWellFoundedOn(Less, Nat)
  BY NatLessThanWellFounded DEF OpToRel
<1>1. PICK n \in Bound : \A y \in Bound : ~(<<y, n>> \in Less)
  <2>1. Bound \subseteq Nat /\ Bound # {}
    OBVIOUS
  <2> HIDE DEF Bound, Less
  <2> QED BY <1>0, <2>1, WFMin
<1>2. ASSUME NEW y \in Bound PROVE n <= y
  <2>1. ~(<<y, n>> \in Less) /\ y \in Nat /\ n \in Nat
    BY <1>1
  <2>2. y < n => <<y, n>> \in Less
    BY <2>1
  <2> QED BY <2>1, <2>2
<1>3. n \in S
  <2> SUFFICES ASSUME n \notin S PROVE FALSE
    OBVIOUS
  <2>1. PICK x \in S : TRUE
    OBVIOUS
  <2>2. n \in Nat /\ n > 0 /\ \A y \in S : y <= n - 1
    BY <2>1
  <2>3. n - 1 \in Bound
    BY <2>2
  <2> QED BY <1>2, <2>2, <2>3
<1>4. \E x \in S : \A y \in S : x >= y
  BY <1>3
<1>5. Max(S) \in S /\ \A y \in S : Max(S) >= y
  BY <1>4 DEF Max
<1> QED BY <1>5

\* The next revision is above all of the article.
LEMMA NextIsNew ==
  ASSUME LocalInv, NEW m \in Members, NEW a \in Articles
  PROVE  /\ NextRow(m, a) \in Nat
         /\ \A o \in Members : \A i \in DOMAIN ballots[o][a] :
              ballots[o][a][i].revision < NextRow(m, a)
         /\ \/ NextRow(m, a) = 1
            \/ \E o \in Members : \E i \in DOMAIN ballots[o][a] :
                 ballots[o][a][i].revision = NextRow(m, a) - 1
<1> DEFINE S == {0} \cup {v.revision : v \in Rows(a)}
<1>2. PICK top \in Nat : \A o \in Members : \A i \in DOMAIN ballots[o][a] :
                          ballots[o][a][i].revision <= top
  BY DEF LocalInv, RevisionsInv, Bounded
<1>3. \A v \in Rows(a) : v.revision \in Nat /\ v.revision <= top
  BY <1>2, HistoryType DEF Rows
<1>4. S \in SUBSET Nat /\ S # {} /\ \A x \in S : x <= top
  BY <1>3
<1>5. \A o \in Members : \A i \in DOMAIN ballots[o][a] : ballots[o][a][i].revision \in S
  BY DEF Rows
<1>r. \A x \in S : x = 0 \/ \E o \in Members : \E i \in DOMAIN ballots[o][a] :
                                ballots[o][a][i].revision = x
  BY DEF Rows
<1> HIDE DEF S
<1>6. Max(S) \in S /\ \A x \in S : x <= Max(S)
  BY <1>4, MaxOfBounded
<1>7. NextRow(m, a) = 1 + Max(S)
  BY DEF NextRow, S
<1>8. /\ NextRow(m, a) \in Nat /\ \A x \in S : x < NextRow(m, a)
      /\ NextRow(m, a) - 1 \in S
  <2>1. PICK greatest \in Nat : greatest = Max(S)
    BY <1>4, <1>6
  <2>2. NextRow(m, a) = 1 + greatest /\ \A x \in S : x \in Nat /\ x <= greatest
    BY <1>4, <1>6, <1>7, <2>1
  <2>3. greatest \in S
    BY <1>6, <2>1
  <2>4. \A x \in S : x < 1 + greatest
    BY <2>2
  <2>5. NextRow(m, a) - 1 = greatest /\ NextRow(m, a) \in Nat
    BY <2>1, <2>2
  <2> QED BY <2>2, <2>3, <2>4, <2>5
<1>9. NextRow(m, a) = 1 \/ NextRow(m, a) - 1 # 0
  BY <1>8
<1> QED BY <1>5, <1>8, <1>9, <1>r

\* One history changes: a row gets the next revision, the others keep theirs.
LEMMA RevisionStep ==
  ASSUME LocalInv, NEW m \in Members, NEW a \in Articles, NEW n \in Nat, n = NextRow(m, a),
         NEW h \in Seq(VoteRow), NEW last \in DOMAIN h,
         ballots' = [ballots EXCEPT ![m][a] = h],
         h[last].revision = n,
         \A i \in DOMAIN h : i # last =>
           i \in DOMAIN ballots[m][a] /\ h[i].revision = ballots[m][a][i].revision,
         DOMAIN queue \subseteq DOMAIN queue',
         <<"aggregate_votes", a, n>> \in DOMAIN queue'
  PROVE  RevisionsInv'
<1>1. /\ ballots \in [Members -> [Articles -> Seq(VoteRow)]]
      /\ ballots'[m][a] = h
      /\ \A o \in Members, b \in Articles : o # m \/ b # a => ballots'[o][b] = ballots[o][b]
  BY DEF LocalInv, LedgerTypes
<1>2. \A o \in Members : \A i \in DOMAIN ballots[o][a] : ballots[o][a][i].revision < n
  BY NextIsNew
<1>3. ASSUME NEW b \in Articles, b # a
      PROVE  Jobbed(b)' /\ GivenOnce(b)' /\ Bounded(b)'
  <2>1. \A o \in Members : ballots'[o][b] = ballots[o][b]
    BY <1>1, <1>3
  <2>2. Jobbed(b) /\ GivenOnce(b) /\ Bounded(b)
    BY DEF LocalInv, RevisionsInv
  <2>3. Jobbed(b)'
    BY <2>1, <2>2, LocalAssumption DEF Jobbed, HasJob, Queued
  <2>4. GivenOnce(b)'
    BY <2>1, <2>2 DEF GivenOnce, IsSample
  <2>5. Bounded(b)'
    BY <2>1, <2>2 DEF Bounded
  <2> QED BY <2>3, <2>4, <2>5
<1>4. ASSUME NEW o \in Members, NEW i \in DOMAIN ballots'[o][a]
      PROVE  \/ o = m /\ i = last /\ ballots'[o][a][i].revision = n
             \/ i \in DOMAIN ballots[o][a] /\ ballots'[o][a][i].revision = ballots[o][a][i].revision
  BY <1>1
<1>5. Jobbed(a)'
  <2> SUFFICES ASSUME NEW o \in Members, NEW i \in DOMAIN ballots'[o][a],
                      NEW k \in 1 .. ballots'[o][a][i].revision
               PROVE  HasJob(a, k)'
    BY DEF Jobbed
  <2>1. ASSUME HasJob(a, k) PROVE HasJob(a, k)'
    <3>1. ballots[DemoMember][a] # <<>> => ballots'[DemoMember][a] # <<>>
      BY <1>1, LocalAssumption
    <3> QED BY <2>1, <3>1 DEF HasJob, Queued
  <2>2. \A q \in Members : \A x \in DOMAIN ballots[q][a] :
          ballots[q][a][x].revision \in Nat /\ (k <= ballots[q][a][x].revision => HasJob(a, k))
    BY HistoryType DEF LocalInv, RevisionsInv, Jobbed
  <2>3. CASE k = n
    BY <2>3 DEF HasJob, Queued
  <2>4. CASE k # n /\ ballots'[o][a][i].revision = n
    <3>1. k \in Nat /\ 1 <= k /\ k <= n - 1
      BY <2>4
    <3>2. PICK q \in Members : \E x \in DOMAIN ballots[q][a] : ballots[q][a][x].revision = n - 1
      BY <3>1, NextIsNew
    <3> QED BY <2>1, <2>2, <3>1, <3>2
  <2>5. CASE i \in DOMAIN ballots[o][a] /\ ballots'[o][a][i].revision = ballots[o][a][i].revision
    <3>1. k <= ballots[o][a][i].revision
      BY <2>2, <2>5
    <3> QED BY <2>1, <2>2, <2>5, <3>1
  <2> QED BY <1>4, <2>3, <2>4, <2>5
<1>6. GivenOnce(a)'
  <2> SUFFICES ASSUME NEW o \in Members, NEW p \in Members,
                      NEW i \in DOMAIN ballots'[o][a], NEW j \in DOMAIN ballots'[p][a],
                      ballots'[o][a][i].revision = ballots'[p][a][j].revision
               PROVE  (o = p /\ i = j) \/ IsSample(o, a, i)' \/ IsSample(p, a, j)'
    BY DEF GivenOnce
  <2>1. \A q \in Members : \A k \in DOMAIN ballots[q][a] : ballots[q][a][k].revision # n
    <3>1. \A q \in Members : \A k \in DOMAIN ballots[q][a] : ballots[q][a][k].revision \in Nat
      BY HistoryType
    <3> QED BY <1>2, <3>1
  <2>2. GivenOnce(a)
    BY DEF LocalInv, RevisionsInv
  <2>3. CASE o = m /\ i = last /\ ballots'[o][a][i].revision = n
    BY <1>4, <2>1, <2>3
  <2>4. CASE p = m /\ j = last /\ ballots'[p][a][j].revision = n
    BY <1>4, <2>1, <2>4
  <2>5. CASE /\ i \in DOMAIN ballots[o][a] /\ ballots'[o][a][i].revision = ballots[o][a][i].revision
             /\ j \in DOMAIN ballots[p][a] /\ ballots'[p][a][j].revision = ballots[p][a][j].revision
    BY <2>2, <2>5 DEF GivenOnce, IsSample
  <2> QED BY <1>4, <2>3, <2>4, <2>5
<1>7. Bounded(a)'
  <2>1. \A q \in Members : \A k \in DOMAIN ballots[q][a] : ballots[q][a][k].revision \in Nat
    BY HistoryType
  <2>2. ASSUME NEW o \in Members, NEW i \in DOMAIN ballots'[o][a]
        PROVE  ballots'[o][a][i].revision <= n
    <3>1. CASE ballots'[o][a][i].revision = n
      BY <3>1
    <3>2. CASE i \in DOMAIN ballots[o][a] /\ ballots'[o][a][i].revision = ballots[o][a][i].revision
      <4>1. ballots[o][a][i].revision < n /\ ballots[o][a][i].revision \in Nat
        BY <1>2, <2>1, <3>2
      <4> QED BY <3>2, <4>1
    <3> QED BY <1>4, <3>1, <3>2
  <2> QED BY <2>2 DEF Bounded
<1> QED BY <1>3, <1>5, <1>6, <1>7 DEF RevisionsInv

LEMMA RetiredRows ==
  ASSUME NEW h \in Seq(VoteRow)
  PROVE  /\ Retired(h) \in Seq(VoteRow) /\ Len(Retired(h)) = Len(h)
         /\ \A i \in DOMAIN h : Retired(h)[i].revision = h[i].revision
<1>1. /\ Len(h) \in Nat /\ DOMAIN h = 1 .. Len(h) /\ \A i \in 1 .. Len(h) : h[i] \in VoteRow
  BY LenProperties, ElementOfSeq
<1>2. \A i \in 1 .. Len(h) :
        LET vote == IF i = Len(h) THEN [h[i] EXCEPT !.active = FALSE] ELSE h[i]
        IN  vote \in VoteRow /\ vote.revision = h[i].revision
  BY <1>1 DEF VoteRow
<1>3. Retired(h) = [i \in 1 .. Len(h) |->
                     IF i = Len(h) THEN [h[i] EXCEPT !.active = FALSE] ELSE h[i]]
  BY <1>1 DEF Retired
<1> QED BY <1>1, <1>2, <1>3

LEMMA VoteStep ==
  ASSUME LocalInv, NEW r \in LocalRequests, NEW a \in Articles, LocalVote(r, a)
  PROVE  LocalInv'
<1>1. PICK m \in Members : m = inside[r]
  BY RespondType DEF LocalVote
<1>2. PICK n \in Nat : n = NextRow(m, a)
  BY NextIsNew
<1> DEFINE old == ballots[m][a]
           new == [revision |-> n, active |-> TRUE]
           kept == Retired(old)
           h == Append(kept, new)
<1>3. /\ Respond(r) /\ ballots' = [ballots EXCEPT ![m][a] = h]
      /\ ledger' = IF old = <<>> THEN Posted(m, <<"vote", a>>) ELSE ledger
      /\ queue' = Enqueued(<<"aggregate_votes", a, n>>)
      /\ UNCHANGED <<member, login, reading>>
  BY <1>1, <1>2 DEF LocalVote
<1>4. old \in Seq(VoteRow) /\ new \in VoteRow
  BY HistoryType DEF VoteRow
<1>5. /\ h \in Seq(VoteRow) /\ h # <<>> /\ Len(h) \in DOMAIN h /\ h[Len(h)].revision = n
      /\ \A i \in DOMAIN h : i # Len(h) => i \in DOMAIN old /\ h[i].revision = old[i].revision
  <2>1. /\ kept \in Seq(VoteRow) /\ Len(kept) = Len(old) /\ Len(old) \in Nat
        /\ \A i \in 1 .. Len(old) : kept[i].revision = old[i].revision
        /\ DOMAIN old = 1 .. Len(old)
    BY <1>4, RetiredRows, LenProperties
  <2> HIDE DEF kept, old
  <2>2. /\ h \in Seq(VoteRow) /\ h # <<>> /\ Len(h) = Len(old) + 1 /\ DOMAIN h = 1 .. Len(h)
        /\ \A i \in 1 .. Len(old) : h[i] = kept[i]
        /\ h[Len(old) + 1] = new
    BY <1>4, <2>1, AppendProperties, LenProperties
  <2> HIDE DEF h
  <2> QED BY <2>1, <2>2
<1> HIDE DEF h
<1>6. /\ DOMAIN queue \subseteq DOMAIN queue' /\ <<"aggregate_votes", a, n>> \in DOMAIN queue'
  BY <1>3, EnqueuedGrows
<1>7. RevisionsInv'
  BY <1>2, <1>3, <1>5, <1>6, RevisionStep
<1>8. AccountInv'
  BY <1>3, <1>6, RespondType DEF LocalInv, AccountInv, Queued
<1>9. /\ ballots' \in [Members -> [Articles -> Seq(VoteRow)]] /\ ballots'[m][a] # <<>>
      /\ \A o \in Members, b \in Articles : o # m \/ b # a => ballots'[o][b] = ballots[o][b]
  BY <1>3, <1>5 DEF LocalInv, LedgerTypes
<1>10. \A o \in Members, k \in Key : Earned(o, k) => Earned(o, k)'
  BY <1>3, <1>9 DEF Earned, Key
<1>13. SampleInv'
  BY <1>3 DEF LocalInv, SampleInv
<1>11. CASE old = <<>>
  <2>1. PICK key \in Key : key = <<"vote", a>>
    BY DEF Key
  <2>2. Earned(m, key)'
    BY <1>9, <2>1 DEF Earned
  <2>3. reading' \in [Sessions -> ReadRow] /\ ledger' = Posted(m, key)
    BY <1>3, <1>11, <2>1 DEF LocalInv, LedgerTypes
  <2>4. \A o \in Members, b \in Articles :
          ballots'[o][b] # <<>> => ballots[o][b] # <<>> \/ (o = m /\ key = <<"vote", b>>)
    BY <1>9, <2>1
  <2>5. ballots' \in [Members -> [Articles -> Seq(VoteRow)]]
    BY <1>9
  <2>6. LedgerTypes' /\ EarnedInv'
    BY <1>10, <2>2, <2>3, <2>4, <2>5, PostStep
  <2> QED BY <1>7, <1>8, <1>13, <2>6 DEF LocalInv
<1>12. CASE old # <<>>
  <2>1. LedgerTypes'
    BY <1>3, <1>9, <1>12 DEF LocalInv, LedgerTypes
  <2>2. EarnedInv'
    BY <1>3, <1>9, <1>10, <1>12 DEF LocalInv, EarnedInv
  <2> QED BY <1>7, <1>8, <1>13, <2>1, <2>2 DEF LocalInv
<1> QED BY <1>11, <1>12

LEMMA UnvoteStep ==
  ASSUME LocalInv, NEW r \in LocalRequests, NEW a \in Articles, LocalUnvote(r, a)
  PROVE  LocalInv'
<1>1. PICK m \in Members : m = inside[r]
  BY RespondType DEF LocalUnvote
<1>2. PICK n \in Nat : n = NextRow(m, a)
  BY NextIsNew
<1> DEFINE old == ballots[m][a]
           new == [revision |-> n, active |-> FALSE]
           h == [old EXCEPT ![Len(old)] = new]
<1>3. /\ Respond(r) /\ ballots' = [ballots EXCEPT ![m][a][Len(old)] = new]
      /\ old # <<>>
      /\ queue' = Enqueued(<<"aggregate_votes", a, n>>)
      /\ UNCHANGED <<member, login, reading, ledger>>
  BY <1>1, <1>2 DEF LocalUnvote, Voted
<1>4. old \in Seq(VoteRow) /\ new \in VoteRow
  BY HistoryType DEF VoteRow
<1>h. ballots' = [ballots EXCEPT ![m][a] = h]
  BY <1>3 DEF LocalInv, LedgerTypes
<1>5. /\ h \in Seq(VoteRow) /\ h # <<>> /\ Len(old) \in DOMAIN h /\ h[Len(old)].revision = n
      /\ \A i \in DOMAIN h : i # Len(old) => i \in DOMAIN old /\ h[i].revision = old[i].revision
  <2>1. Len(old) \in 1 .. Len(old) /\ DOMAIN old = 1 .. Len(old)
    BY <1>3, <1>4, EmptySeq, LenProperties
  <2> HIDE DEF old
  <2>2. h \in Seq(VoteRow) /\ DOMAIN h = DOMAIN old /\ h[Len(old)] = new
        /\ \A i \in DOMAIN old : i # Len(old) => h[i] = old[i]
    BY <1>4, <2>1, ExceptSeq
  <2> HIDE DEF h
  <2> QED BY <2>1, <2>2
<1> HIDE DEF h
<1>6. /\ DOMAIN queue \subseteq DOMAIN queue' /\ <<"aggregate_votes", a, n>> \in DOMAIN queue'
  BY <1>3, EnqueuedGrows
<1>7. RevisionsInv'
  BY <1>2, <1>h, <1>5, <1>6, RevisionStep
<1>8. AccountInv'
  BY <1>3, <1>6, RespondType DEF LocalInv, AccountInv, Queued
<1>9. /\ ballots' \in [Members -> [Articles -> Seq(VoteRow)]] /\ ballots'[m][a] # <<>>
      /\ \A o \in Members, b \in Articles : o # m \/ b # a => ballots'[o][b] = ballots[o][b]
  BY <1>h, <1>5 DEF LocalInv, LedgerTypes
<1>10. \A o \in Members, k \in Key : Earned(o, k) => Earned(o, k)'
  BY <1>3, <1>9 DEF Earned, Key
<1>11. LedgerTypes'
  BY <1>3, <1>9 DEF LocalInv, LedgerTypes
<1>12. EarnedInv'
  BY <1>3, <1>9, <1>10 DEF LocalInv, EarnedInv
<1>13. SampleInv'
  BY <1>3 DEF LocalInv, SampleInv
<1> QED BY <1>7, <1>8, <1>11, <1>12, <1>13 DEF LocalInv

LEMMA LocalInvStep == LocalInv /\ [LocalNext]_localVars => LocalInv'
<1> SUFFICES ASSUME LocalInv, [LocalNext]_localVars PROVE LocalInv'
  OBVIOUS
<1>1. ASSUME NEW t \in LocalTokens,
             \/ \E m \in Members : Callback(t, m)
             \/ DemoLogin(t)
             \/ \E r \in LocalRequests : Admit(r, t) \/ Logout(r, t)
      PROVE  LocalInv'
  BY <1>1, CallbackStep, DemoLoginStep, AdmitStep, LogoutStep
<1>2. ASSUME NEW r \in LocalRequests,
             \/ Refuse(r) \/ LocalQuestionnaire(r) \/ LocalExport(r) \/ LocalDelete(r)
             \/ \E p \in Purposes, g \in BOOLEAN : LocalConsent(r, p, g)
             \/ \E c \in Cards : LocalCreateCard(r, c) \/ LocalRevokeCard(r, c)
      PROVE  LocalInv'
  BY <1>2, QuietAnswers, QuestionnaireStep, DeleteStep, ConsentStep
<1>3. ASSUME NEW r \in LocalRequests,
             \/ \E s \in Sessions : LocalReturn(r, s)
             \/ \E s \in LocalReads : \/ LocalRedirect(r, s)
                                      \/ \E a \in Articles : LocalCreateRead(r, s, a)
             \/ \E a \in Articles : LocalVote(r, a) \/ LocalUnvote(r, a)
      PROVE  LocalInv'
  BY <1>3, RedirectStep, ReturnStep, CreateReadStep, VoteStep, UnvoteStep
<1>4. CASE UNCHANGED localVars
  BY <1>4, QuietStep DEF localVars, LocalInv, AccountInv
<1> QED BY <1>1, <1>2, <1>3, <1>4, QueueSteps, TickStep DEF LocalNext

(* ----------------------------- properties ------------------------------ *)

LEMMA CreditsFromInv == LocalInv => LocalCreditsEarned
<1> SUFFICES ASSUME LocalInv, NEW m \in Members
             PROVE  /\ \A i, j \in DOMAIN ledger[m] : ledger[m][i] = ledger[m][j] => i = j
                    /\ \A k \in Credited(m) :
                         IF k[1] = "vote" THEN ballots[m][k[2]] # <<>>
                         ELSE IF k[2] \in Sampled
                         THEN m = DemoMember /\ reading[k[2]].status \in {"ELIGIBLE", "EXPIRED"}
                         ELSE /\ reading[k[2]].owner = m
                              /\ reading[k[2]].status \in {"RETURNED", "EXPIRED"}
                              /\ reading[k[2]].back - reading[k[2]].out >= ReadMin
                              /\ reading[k[2]].back < reading[k[2]].expires
                    /\ Cardinality(ReadArticles(m) \cup VotedArticles(m)) <= Len(ledger[m])
  BY DEF LocalCreditsEarned
<1>1. /\ ledger[m] \in Seq(Key) /\ Len(ledger[m]) \in Nat
      /\ DOMAIN ledger[m] = 1 .. Len(ledger[m])
  BY LenProperties DEF LocalInv, LedgerTypes
<1>2. Credited(m) = Entries(ledger[m]) /\ Credited(m) \subseteq Key
  BY <1>1, ElementOfSeq DEF Credited, Entries
<1>3. \A k \in Credited(m) : Earned(m, k)
  BY <1>2 DEF LocalInv, EarnedInv
<1>4. Cardinality(ReadArticles(m) \cup VotedArticles(m)) <= Len(ledger[m])
  <2> DEFINE Of(k) == IF k[1] = "read" THEN reading[k[2]].article ELSE k[2]
             f == [i \in 1 .. Len(ledger[m]) |-> Of(ledger[m][i])]
             T == {f[i] : i \in 1 .. Len(ledger[m])}
  <2>1. ASSUME NEW a \in ReadArticles(m) PROVE a \in T
    <3>1. PICK s \in Sessions, k \in Credited(m) :
            a = reading[s].article /\ k[1] = "read" /\ k[2] = s
      BY <2>1 DEF ReadArticles
    <3>2. PICK i \in 1 .. Len(ledger[m]) : ledger[m][i] = k
      BY <1>1, <3>1 DEF Credited
    <3>3. f[i] = a
      BY <3>1, <3>2
    <3> QED BY <3>3
  <2>2. ASSUME NEW a \in VotedArticles(m) PROVE a \in T
    <3>1. <<"vote", a>> \in Credited(m)
      BY <1>2 DEF VotedArticles, Voted, LocalInv, EarnedInv
    <3>2. PICK i \in 1 .. Len(ledger[m]) : ledger[m][i] = <<"vote", a>>
      BY <1>1, <3>1 DEF Credited
    <3>3. f[i] = a
      BY <3>2
    <3> QED BY <3>3
  <2>3. f \in Surjection(1 .. Len(ledger[m]), T)
    BY DEF Surjection
  <2> HIDE DEF f, T
  <2>4. /\ IsFiniteSet(1 .. Len(ledger[m]))
        /\ Cardinality(1 .. Len(ledger[m])) = Len(ledger[m])
    BY <1>1, FS_Interval
  <2>5. IsFiniteSet(T) /\ Cardinality(T) <= Len(ledger[m])
    BY <2>3, <2>4, FS_Surjection
  <2>6. /\ IsFiniteSet(ReadArticles(m) \cup VotedArticles(m))
        /\ Cardinality(ReadArticles(m) \cup VotedArticles(m)) <= Cardinality(T)
    BY <2>1, <2>2, <2>5, FS_Subset
  <2> QED BY <1>1, <2>5, <2>6, FS_CardinalityType
<1>5. \A i, j \in DOMAIN ledger[m] : ledger[m][i] = ledger[m][j] => i = j
  BY DEF LocalInv, EarnedInv, Once
<1> QED BY <1>3, <1>4, <1>5 DEF Earned

LEMMA ChangesFromInv == LocalInv => LocalChangesQueued
<1> SUFFICES ASSUME LocalInv PROVE LocalChangesQueued
  OBVIOUS
<1>1. ASSUME NEW a \in Articles, NEW v \in Rows(a), NEW n \in 1 .. v.revision
      PROVE  HasJob(a, n)
  <2>1. PICK m \in Members : \E i \in DOMAIN ballots[m][a] : v = ballots[m][a][i]
    BY DEF Rows
  <2> QED BY <2>1 DEF LocalInv, RevisionsInv, Jobbed
<1>2. \A m \in Members : member[m].status = "PENDING_DELETION" => <<"delete_user", m>> \in Queued
  BY DEF LocalInv, AccountInv
<1>3. \A a \in Articles : GivenOnce(a)
  BY DEF LocalInv, RevisionsInv
<1> QED BY <1>1, <1>2, <1>3 DEF LocalChangesQueued, GivenOnce, HasJob

LEMMA DeletionStep ==
  ASSUME LocalInv, [LocalNext]_localVars, NEW m \in Members, member[m].status = "PENDING_DELETION"
  PROVE  /\ member'[m].status = "PENDING_DELETION"
         /\ \A r \in LocalRequests : inside'[r] = m => inside[r] = m
<1>1. member \in [Members -> Account] /\ inside \in [LocalRequests -> Members \cup {Nobody}]
  BY DEF LocalInv, AccountInv
<1>2. m # Nobody
  BY LocalAssumption
<1>3. ASSUME NEW r \in LocalRequests, Respond(r)
      PROVE  \A q \in LocalRequests : inside'[q] = m => inside[q] = m
  BY <1>1, <1>2, <1>3 DEF Respond
<1>4. ASSUME NEW t \in LocalTokens, \E o \in Members : Callback(t, o)
      PROVE  UNCHANGED inside /\ member'[m].status = "PENDING_DELETION"
  BY <1>1, <1>4 DEF Callback, OpenLogin
<1>5. ASSUME NEW t \in LocalTokens, DemoLogin(t)
      PROVE  UNCHANGED inside /\ member'[m].status = "PENDING_DELETION"
  BY <1>1, <1>5 DEF DemoLogin, SeedDemo, OpenLogin
<1>6. ASSUME NEW t \in LocalTokens, NEW r \in LocalRequests, Admit(r, t)
      PROVE  UNCHANGED member /\ \A q \in LocalRequests : inside'[q] = m => inside[q] = m
  BY <1>1, <1>6, Principal DEF Admit
<1>7. ASSUME NEW r \in LocalRequests, NEW p \in Purposes, NEW g \in BOOLEAN, LocalConsent(r, p, g)
      PROVE  member'[m].status = "PENDING_DELETION"
  BY <1>1, <1>7 DEF LocalConsent, Account
<1>8. ASSUME NEW r \in LocalRequests, LocalQuestionnaire(r) \/ LocalDelete(r)
      PROVE  member'[m].status = "PENDING_DELETION"
  BY <1>1, <1>8 DEF LocalQuestionnaire, LocalDelete, Account
<1>9. ASSUME NEW r \in LocalRequests,
             \/ \E t \in LocalTokens : Logout(r, t)
             \/ Refuse(r) \/ LocalExport(r)
             \/ \E s \in Sessions : LocalReturn(r, s)
             \/ \E s \in LocalReads : \/ LocalRedirect(r, s)
                                      \/ \E a \in Articles : LocalCreateRead(r, s, a)
             \/ \E a \in Articles : LocalVote(r, a) \/ LocalUnvote(r, a)
             \/ \E c \in Cards : LocalCreateCard(r, c) \/ LocalRevokeCard(r, c)
      PROVE  UNCHANGED member /\ Respond(r)
  BY <1>9 DEF Logout, Refuse, LocalExport, LocalRedirect, LocalReturn, LocalCreateRead,
     LocalVote, LocalUnvote, LocalCreateCard, LocalRevokeCard
<1>10. ASSUME NEW r \in LocalRequests,
              \/ LocalQuestionnaire(r) \/ LocalDelete(r)
              \/ \E p \in Purposes, g \in BOOLEAN : LocalConsent(r, p, g)
       PROVE  Respond(r)
  BY <1>10 DEF LocalQuestionnaire, LocalDelete, LocalConsent
<1>11. CASE \/ \E k \in Queued : CancelQueued(k) \/ RetryQueued(k)
            \/ LocalTick \/ UNCHANGED localVars
  BY <1>11 DEF CancelQueued, RetryQueued, LocalTick, localVars
<1> QED BY <1>3, <1>4, <1>5, <1>6, <1>7, <1>8, <1>9, <1>10, <1>11 DEF LocalNext

\* Sessions, requests and sign-ins are of members; a member who asked for the
\* deletion has its job; every credit is of a closed reading of the member that
\* qualifies, of an article voted on, or of a sample session of the demonstration
\* member, and is there once; every revision of an article has its job and one
\* row, the sample votes excepted.
THEOREM LocalInvariant == LocalSpec => []LocalInv
BY LocalInitial, LocalInvStep, PTL DEF LocalSpec

\* Nothing is credited but what was earned or came with the sample activity, and
\* nothing twice: neither a return or a vote that is sent again nor an expiry pays
\* a second time.
THEOREM LocalCreditsTheorem == LocalSpec => []LocalCreditsEarned
BY LocalInvariant, CreditsFromInv, PTL

\* Every vote, change, withdrawal and deletion has its job in the queue, and every
\* row its own revision, but for the demonstration's sample votes.
THEOREM LocalChangesTheorem == LocalSpec => []LocalChangesQueued
BY LocalInvariant, ChangesFromInv, PTL

\* A member who asked for deletion stays so, and no request of theirs is let in
\* any more.
THEOREM LocalDeletionTheorem == LocalSpec => LocalDeletionSticks
<1>1. LocalInv /\ [LocalNext]_localVars =>
        [\A m \in Members : member[m].status = "PENDING_DELETION" =>
          /\ member'[m].status = "PENDING_DELETION"
          /\ \A r \in LocalRequests : inside'[r] = m => inside[r] = m]_localVars
  BY DeletionStep
<1> QED BY <1>1, LocalInvariant, PTL DEF LocalSpec, LocalDeletionSticks

(* ------------------------- weight revisions ---------------------------- *)

IsRevision(r) == r = [number |-> r.number, status |-> r.status, values |-> r.values]

Approved(w) == \E e \in took : e[1] = <<"review", w, "APPROVED">>

\* Values that were never in force may still be of anybody.
HeldWell(w) ==
  LET o == revision[w].values IN
  \/ o = FirstWeight \/ Vetted(o)
  \/ o = w /\ revision[w].status \notin {"active", "archived"}

OneActive ==
  \A w, x \in Weights : revision[w].status = "active" /\ revision[x].status = "active" => w = x

RevisionInv ==
  /\ DOMAIN revision = Weights /\ revision = [w \in Weights |-> revision[w]]
  /\ \A w \in Weights : IsRevision(revision[w]) /\ revision[w].values \in Weights /\ HeldWell(w)
  /\ OneActive

AdviceInv ==
  /\ DOMAIN advice = Weights \cup Advice /\ advice = [r \in Weights \cup Advice |-> advice[r]]
  /\ \A r \in Weights \cup Advice : advice[r] = "APPROVED" => Approved(r)

DeskInv == RevisionInv /\ AdviceInv

LEMMA DeskInitial == LocalAdminInit => DeskInv
<1> SUFFICES ASSUME LocalAdminInit PROVE DeskInv
  OBVIOUS
<1>1. FirstWeight \in Weights
  BY LocalAdminAssumption
<1>2. \A w \in Weights : /\ IsRevision(revision[w]) /\ revision[w].values = FirstWeight
                         /\ revision[w].status = "active" => w = FirstWeight
  BY DEF LocalAdminInit, Unwritten, IsRevision
<1> QED BY <1>1, <1>2 DEF LocalAdminInit, DeskInv, RevisionInv, AdviceInv, HeldWell, OneActive

\* What was approved or simulated stays so.
LEMMA StaysVetted ==
  ASSUME took \subseteq took', trials \subseteq trials'
  PROVE  \A w : /\ Approved(w) => Approved(w)'
                /\ Vetted(w) => Vetted(w)'
BY DEF Approved, Vetted

LEMMA Effective ==
  ASSUME NEW scope, NEW key, NEW body, TakeEffect(scope, key, body)
  PROVE  took \subseteq took' /\ \E e \in took' : e[1] = scope
<1> DEFINE e == <<scope, key, Cardinality({x \in took : x[1] = scope /\ x[2] = key})>>
<1>1. took' = took \cup {e} /\ e[1] = scope
  BY DEF TakeEffect
<1> QED BY <1>1

LEMMA ElsewhereStep ==
  ASSUME DeskInv, UNCHANGED <<revision, advice, trials>>, took \subseteq took'
  PROVE  DeskInv'
<1>1. \A w \in Weights : HeldWell(w) => HeldWell(w)'
  BY StaysVetted DEF HeldWell
<1>2. OneActive'
  BY DEF DeskInv, RevisionInv, OneActive
<1>3. RevisionInv'
  BY <1>1, <1>2 DEF DeskInv, RevisionInv
<1>4. AdviceInv'
  BY StaysVetted DEF DeskInv, AdviceInv
<1> QED BY <1>3, <1>4 DEF DeskInv

LEMMA CreateRevisionStep ==
  ASSUME DeskInv, NEW w \in Weights, NEW key, NEW body, CreateRevision(w, key, body)
  PROVE  DeskInv'
<1> DEFINE new == [number |-> Highest + 1, status |-> "draft", values |-> w]
<1>1. took \subseteq took' /\ revision' = [revision EXCEPT ![w] = new] /\ UNCHANGED <<advice, trials>>
  BY Effective DEF CreateRevision
<1>2. IsRevision(new) /\ new.values = w /\ new.status = "draft"
  BY DEF IsRevision
<1> HIDE DEF new
<1>3. /\ DOMAIN revision' = Weights /\ revision' = [x \in Weights |-> revision'[x]]
      /\ revision'[w] = new /\ \A x \in Weights : x # w => revision'[x] = revision[x]
  BY <1>1 DEF DeskInv, RevisionInv
<1>4. \A x \in Weights : HeldWell(x)'
  BY <1>1, <1>2, <1>3, StaysVetted DEF DeskInv, RevisionInv, HeldWell
<1>5. OneActive'
  BY <1>2, <1>3 DEF DeskInv, RevisionInv, OneActive
<1>6. RevisionInv'
  BY <1>2, <1>3, <1>4, <1>5 DEF DeskInv, RevisionInv
<1>7. AdviceInv'
  BY <1>1, StaysVetted DEF DeskInv, AdviceInv
<1> QED BY <1>6, <1>7 DEF DeskInv

LEMMA SimulateStep ==
  ASSUME DeskInv, NEW w \in Weights, NEW key, Simulate(w, key)
  PROVE  DeskInv'
<1> DEFINE new == [revision[w] EXCEPT !.status = "simulation"]
<1>1. /\ took' = took /\ trials \subseteq trials'
      /\ revision' = [revision EXCEPT ![w] = new]
      /\ advice' = [advice EXCEPT ![w] = IF advice[w] = "none" THEN "PENDING_REVIEW" ELSE advice[w]]
  BY DEF Simulate, Unrecorded
<1>2. IsRevision(new) /\ new.values = revision[w].values /\ new.status = "simulation"
  BY DEF IsRevision, DeskInv, RevisionInv
<1> HIDE DEF new
<1>3. /\ DOMAIN revision' = Weights /\ revision' = [x \in Weights |-> revision'[x]]
      /\ revision'[w] = new /\ \A x \in Weights : x # w => revision'[x] = revision[x]
  BY <1>1 DEF DeskInv, RevisionInv
<1>4. \A x \in Weights : HeldWell(x)'
  BY <1>1, <1>2, <1>3, StaysVetted DEF DeskInv, RevisionInv, HeldWell
<1>5. OneActive'
  BY <1>2, <1>3 DEF DeskInv, RevisionInv, OneActive
<1>6. RevisionInv'
  BY <1>2, <1>3, <1>4, <1>5 DEF DeskInv, RevisionInv
<1>7. AdviceInv'
  BY <1>1, StaysVetted DEF DeskInv, AdviceInv
<1> QED BY <1>6, <1>7 DEF DeskInv

LEMMA GenerateStep ==
  ASSUME DeskInv, NEW r \in Advice, NEW key, Generate(r, key)
  PROVE  DeskInv'
<1>1. /\ took' = took /\ UNCHANGED <<revision, trials>>
      /\ advice' = [advice EXCEPT ![r] = "PENDING_REVIEW"]
  BY DEF Generate, Unrecorded
<1>2. \A w \in Weights : HeldWell(w) => HeldWell(w)'
  BY <1>1, StaysVetted DEF HeldWell
<1>3. RevisionInv'
  BY <1>1, <1>2 DEF DeskInv, RevisionInv, OneActive
<1>4. AdviceInv'
  BY <1>1, StaysVetted DEF DeskInv, AdviceInv
<1> QED BY <1>3, <1>4 DEF DeskInv

LEMMA ReviewAdviceStep ==
  ASSUME DeskInv, NEW r \in Weights \cup Advice, NEW decision, NEW key, NEW body,
         ReviewAdvice(r, decision, key, body)
  PROVE  DeskInv'
<1>1. /\ took \subseteq took' /\ UNCHANGED <<revision, trials>>
      /\ advice' = [advice EXCEPT ![r] = decision]
      /\ \E e \in took' : e[1] = <<"review", r, decision>>
  BY Effective DEF ReviewAdvice
<1>2. \A w \in Weights : HeldWell(w) => HeldWell(w)'
  BY <1>1, StaysVetted DEF HeldWell
<1>3. RevisionInv'
  BY <1>1, <1>2 DEF DeskInv, RevisionInv, OneActive
<1>4. decision = "APPROVED" => Approved(r)'
  BY <1>1 DEF Approved
<1>5. AdviceInv'
  BY <1>1, <1>4, StaysVetted DEF DeskInv, AdviceInv
<1> QED BY <1>3, <1>5 DEF DeskInv

LEMMA ArchivedRows ==
  ASSUME DeskInv, NEW weights
  PROVE  \A x \in Weights :
           /\ IsRevision(Archived(weights)[x]) /\ Archived(weights)[x].values = revision[x].values
           /\ Archived(weights)[x].status =
                IF x \in weights /\ revision[x].status = "active" THEN "archived"
                ELSE revision[x].status
BY DEF Archived, IsRevision, DeskInv, RevisionInv

LEMMA PublishRevisionStep ==
  ASSUME DeskInv, NEW w \in Weights, NEW key, NEW body, NEW ifMatch,
         PublishRevision(w, key, body, ifMatch)
  PROVE  DeskInv'
<1> DEFINE rows == Archived(Weights)
           new == [rows[w] EXCEPT !.status = "active"]
<1>1. /\ took \subseteq took' /\ trials' = trials
      /\ revision' = [rows EXCEPT ![w] = new]
      /\ advice' = [advice EXCEPT ![w] = "PUBLISHED"]
  BY Effective DEF PublishRevision
<1>2. /\ \A x \in Weights : /\ IsRevision(rows[x]) /\ rows[x].values = revision[x].values
                            /\ rows[x].status = IF revision[x].status = "active" THEN "archived"
                                                ELSE revision[x].status
      /\ DOMAIN rows = Weights
  BY ArchivedRows DEF Archived
<1>3. IsRevision(new) /\ new.values = revision[w].values /\ new.status = "active"
  BY <1>2 DEF IsRevision
<1>4. Vetted(w)
  BY DEF PublishRevision, Publishable, Vetted, DeskInv, AdviceInv, Approved
<1> HIDE DEF rows, new
<1>5. /\ DOMAIN revision' = Weights /\ revision' = [x \in Weights |-> revision'[x]]
      /\ revision'[w] = new /\ \A x \in Weights : x # w => revision'[x] = rows[x]
  BY <1>1, <1>2
<1>6. \A x \in Weights : /\ IsRevision(revision'[x]) /\ revision'[x].values = revision[x].values
                         /\ x # w => /\ revision'[x].status # "active"
                                     /\ revision'[x].status # "archived" =>
                                          revision[x].status \notin {"active", "archived"}
                                     /\ revision'[x].status = "archived" =>
                                          revision[x].status \in {"active", "archived"}
  BY <1>2, <1>3, <1>5
<1>7. \A x \in Weights : HeldWell(x)'
  BY <1>1, <1>4, <1>6, StaysVetted DEF DeskInv, RevisionInv, HeldWell
<1>8. OneActive'
  BY <1>6 DEF OneActive
<1>9. RevisionInv'
  BY <1>5, <1>6, <1>7, <1>8 DEF DeskInv, RevisionInv
<1>10. AdviceInv'
  BY <1>1, StaysVetted DEF DeskInv, AdviceInv
<1> QED BY <1>9, <1>10 DEF DeskInv

LEMMA RollBackStep ==
  ASSUME DeskInv, NEW w \in Weights, NEW target \in Weights, NEW fresh \in Weights,
         NEW key, NEW body, NEW ifMatch, RollBackTo(w, target, fresh, key, body, ifMatch)
  PROVE  DeskInv'
<1> DEFINE rows == Archived({w})
           new == [number |-> Highest + 1, status |-> "active", values |-> revision[target].values]
<1>1. /\ took \subseteq took' /\ UNCHANGED <<advice, trials>>
      /\ revision' = [rows EXCEPT ![fresh] = new]
      /\ revision[w].status = "active" /\ revision[target].status = "archived"
      /\ fresh # w
  BY Effective DEF RollBackTo, Unwritten
<1>2. /\ \A x \in Weights : /\ IsRevision(rows[x]) /\ rows[x].values = revision[x].values
                            /\ rows[x].status = IF x \in {w} /\ revision[x].status = "active"
                                                THEN "archived" ELSE revision[x].status
      /\ DOMAIN rows = Weights
  BY ArchivedRows DEF Archived
<1>3. IsRevision(new) /\ new.values = revision[target].values /\ new.status = "active"
  BY DEF IsRevision
<1> HIDE DEF rows, new
<1>4. /\ DOMAIN revision' = Weights /\ revision' = [x \in Weights |-> revision'[x]]
      /\ revision'[fresh] = new /\ \A x \in Weights : x # fresh => revision'[x] = rows[x]
  BY <1>1, <1>2
<1>5. \A x \in Weights : x # fresh =>
        /\ IsRevision(revision'[x]) /\ revision'[x].values = revision[x].values
        /\ revision'[x].status # "active"
        /\ revision'[x].status = "archived" => revision[x].status \in {"active", "archived"}
        /\ revision'[x].status # "archived" => revision[x].status \notin {"active", "archived"}
  BY <1>1, <1>2, <1>4 DEF DeskInv, RevisionInv, OneActive
<1>6. revision[target].values = FirstWeight \/ Vetted(revision[target].values)
  BY <1>1 DEF DeskInv, RevisionInv, HeldWell
<1>7. \A x \in Weights : HeldWell(x)'
  BY <1>1, <1>3, <1>4, <1>5, <1>6, StaysVetted DEF DeskInv, RevisionInv, HeldWell
<1>8. OneActive'
  BY <1>5 DEF OneActive
<1>9. RevisionInv'
  BY <1>3, <1>4, <1>5, <1>7, <1>8 DEF DeskInv, RevisionInv
<1>10. AdviceInv'
  BY <1>1, StaysVetted DEF DeskInv, AdviceInv
<1> QED BY <1>9, <1>10 DEF DeskInv

LEMMA DeskStep == DeskInv /\ [LocalAdminNext]_deskVars => DeskInv'
<1> SUFFICES ASSUME DeskInv, [LocalAdminNext]_deskVars PROVE DeskInv'
  OBVIOUS
<1>1. ASSUME NEW key \in DeskKeys, NEW body \in Contents,
             \/ LocalCreateSource(key, body) \/ LocalCreateModel(key, body)
             \/ \E v \in 1 .. row["source"].version : LocalPatchSource(key, body, v)
             \/ \E v \in 1 .. row["model"].version : LocalPatchModel(key, body, v)
             \/ \E v \in 1 .. row["issue"].version : LocalPatchIssue(key, body, v)
             \/ \E v \in 1 .. row["autopilot"].version : LocalPutAutopilot(key, body, v)
             \/ \E v \in 1 .. row["llm_usage"].version : SwitchUsage(key, body, v)
             \/ ReviewSnapshot(key, body)
      PROVE  DeskInv'
  BY <1>1, Effective, ElsewhereStep DEF LocalCreateSource, LocalCreateModel, CreateRow,
     LocalPatchSource, LocalPatchModel, LocalPatchIssue, LocalPutAutopilot, Patch, SwitchUsage,
     ReviewSnapshot
<1>2. ASSUME NEW key \in DeskKeys,
             \/ LocalRequestCrawl(key) \/ LocalSplit(key) \/ LocalAnalyze(key)
             \/ \E t \in Targets : LocalMerge(t, key)
      PROVE  DeskInv'
  BY <1>2, ElsewhereStep DEF LocalRequestCrawl, LocalSplit, LocalAnalyze, QueueOnly, LocalMerge,
     Unrecorded
<1>3. ASSUME NEW key \in DeskKeys, NEW j \in DOMAIN desk, RetryDesk(j, key) \/ CancelDesk(j, key)
      PROVE  DeskInv'
  BY <1>3, Effective, ElsewhereStep DEF RetryDesk, CancelDesk
<1>4. CASE UNCHANGED deskVars
  BY <1>4, ElsewhereStep DEF deskVars
<1> QED BY <1>1, <1>2, <1>3, <1>4, CreateRevisionStep, SimulateStep, GenerateStep,
        ReviewAdviceStep, PublishRevisionStep, RollBackStep DEF LocalAdminNext

LEMMA ActiveFromInv == DeskInv => LocalActiveIsVetted
<1> SUFFICES ASSUME DeskInv PROVE LocalActiveIsVetted
  OBVIOUS
<1>1. Cardinality(Actives) <= 1
  <2>1. CASE Actives = {}
    BY <2>1, FS_EmptySet
  <2>2. CASE Actives # {}
    <3>1. PICK w \in Actives : TRUE
      BY <2>2
    <3>2. Actives = {w}
      BY <3>1 DEF Actives, DeskInv, RevisionInv, OneActive
    <3>3. Cardinality({w}) = 1
      BY FS_Singleton
    <3> QED BY <3>2, <3>3
  <2> QED BY <2>1, <2>2
<1>2. ASSUME NEW w \in Actives
      PROVE  revision[w].values = FirstWeight \/ Vetted(revision[w].values)
  BY <1>2 DEF Actives, DeskInv, RevisionInv, HeldWell
<1> QED BY <1>1, <1>2 DEF LocalActiveIsVetted

\* The invariant of the revisions and their recommendations: whatever is or was
\* in force holds values that were seeded, or simulated and approved.
THEOREM DeskInvariant == LocalAdminSpec => []DeskInv
BY DeskInitial, DeskStep, PTL DEF LocalAdminSpec

\* At most one revision is active, and its values were seeded or vetted.
THEOREM LocalVettedTheorem == LocalAdminSpec => []LocalActiveIsVetted
BY DeskInvariant, ActiveFromInv, PTL

(* ---------------------- the day's search for events --------------------- *)

Page == UNION {PagesAbout[t] : t \in Topics}
Event == [topic: Topics, pages: SUBSET Page]
Places == {"idle", "topics", "look", "sources", "size", "selection", "over"}
SearchRow == [at: Places, sent: BOOLEAN, left: SUBSET Topics, topic: Nat, pages: SUBSET Page,
              limit: Nat, events: SUBSET Event, pending: Nat]
Granted == [requests: Nat, articles: Nat, comparisons: Nat]
Request == [state: {"NONE", "SUBMITTED", "SUCCEEDED"}, answer: SUBSET (Topics \cup Page),
            evidence: SUBSET Page]

Work(s) == UNION {e.pages : e \in s.events}

\* What a search holds, however it got there.
WellFormed(s) ==
  /\ s \in SearchRow
  /\ IsFiniteSet(s.pages) /\ IsFiniteSet(s.events) /\ IsFiniteSet(Work(s))
  /\ s.pending = Cardinality(Work(s))
  /\ s.sent => Asking(s)
  /\ s.at \in {"sources", "size", "selection"} => s.topic \in Topics
  /\ s.at \in {"idle", "topics", "over"} => s.events = {}

\* Articles and requests put aside between the sizing of an event and its
\* selection: those of the event, its comparison and the request itself.
Claim(s) == IF s.at = "selection" THEN s.limit ELSE 0
Extra(s) == IF s.at # "selection" THEN 0 ELSE IF s.sent THEN 1 ELSE 2

Affordable(s, granted, used) ==
  /\ Claim(s) + s.pending + used.articles <= ArticleSlots + granted.articles
  /\ Claim(s) + Extra(s) + s.pending + Cardinality(s.events) + used.requests
       <= Submissions + granted.requests

LedgerInv ==
  /\ spent \in Granted
  /\ spent.requests <= Submissions /\ spent.articles <= ArticleSlots

AnswerInv ==
  /\ asked \in [Phases -> Request]
  /\ \A f \in Phases : asked[f].state = "SUCCEEDED" =>
       IF f[1] = "topics" THEN asked[f].answer \subseteq Topics
       ELSE asked[f].answer \subseteq Page /\ IsFiniteSet(asked[f].answer)

SearchInv ==
  /\ search \in [Operations -> SearchRow] /\ elsewhere \in [Operations -> Granted]
  /\ \A o \in Operations :
       /\ WellFormed(search[o]) /\ Affordable(search[o], elsewhere[o], spent)
       /\ ~Searching(o) => elsewhere[o] = Nothing
       /\ elsewhere[o].requests <= spent.requests /\ elsewhere[o].articles <= spent.articles

EditionInv == LedgerInv /\ AnswerInv /\ SearchInv

LEMMA EmptySearch ==
  ASSUME LedgerInv, NEW s \in {Unsearched, Ended, [Unsearched EXCEPT !.at = "topics"]}
  PROVE  /\ WellFormed(s) /\ Affordable(s, Nothing, spent) /\ s.events = {}
         /\ Nothing \in Granted
<1>1. /\ s \in SearchRow /\ s.pages = {} /\ s.events = {} /\ s.pending = 0 /\ ~s.sent
      /\ s.at \in {"idle", "topics", "over"}
  <2>1. CASE s = Unsearched
    BY <2>1 DEF Unsearched, SearchRow, Places
  <2>2. CASE s = Ended
    BY <2>2 DEF Ended, Unsearched, SearchRow, Places
  <2>3. CASE s = [Unsearched EXCEPT !.at = "topics"]
    BY <2>3 DEF Unsearched, SearchRow, Places
  <2> QED BY <2>1, <2>2, <2>3
<1>2. Work(s) = {}
  BY <1>1 DEF Work
<1>3. WellFormed(s)
  BY <1>1, <1>2, FS_EmptySet DEF WellFormed
<1>4. Affordable(s, Nothing, spent)
  <2>1. Claim(s) = 0 /\ Extra(s) = 0 /\ s.pending = 0 /\ Cardinality(s.events) = 0
    BY <1>1, FS_EmptySet DEF Claim, Extra
  <2>2. Nothing.articles = 0 /\ Nothing.requests = 0
    BY DEF Nothing
  <2>3. /\ spent.requests \in Nat /\ spent.articles \in Nat
        /\ spent.requests <= Submissions /\ spent.articles <= ArticleSlots
        /\ Submissions \in Nat /\ ArticleSlots \in Nat
    BY DiscoveryAssumption DEF LedgerInv, Granted
  <2> QED BY <2>1, <2>2, <2>3 DEF Affordable
<1> QED BY <1>1, <1>3, <1>4 DEF Nothing, Granted

LEMMA EditionInitial == DiscoveryInit => EditionInv
<1> SUFFICES ASSUME DiscoveryInit PROVE EditionInv
  OBVIOUS
<1>1. LedgerInv
  BY DiscoveryAssumption DEF DiscoveryInit, LedgerInv, Nothing, Granted
<1>2. AnswerInv
  BY DEF DiscoveryInit, AnswerInv, Unasked, Request
<1>3. SearchInv
  <2>1. \A o \in Operations : search[o] = Unsearched /\ elsewhere[o] = Nothing
    BY DEF DiscoveryInit
  <2>2. Unsearched \in SearchRow
    BY DEF Unsearched, SearchRow, Places
  <2>3. Nothing.requests <= spent.requests /\ Nothing.articles <= spent.articles
    BY <1>1 DEF DiscoveryInit, Nothing
  <2> QED BY <1>1, <2>1, <2>2, <2>3, EmptySearch DEF SearchInv, DiscoveryInit
<1> QED BY <1>1, <1>2, <1>3 DEF EditionInv

\* Everything but one search stays as it is.
LEMMA GoesOnStep ==
  ASSUME EditionInv, AnswerInv', UNCHANGED spent, NEW o \in Operations, NEW next,
         GoesOn(o, next), WellFormed(next),
         next = Ended \/ (Affordable(next, elsewhere[o], spent) /\ next.at \notin {"idle", "over"})
  PROVE  EditionInv'
<1>1. LedgerInv'
  BY DEF EditionInv, LedgerInv
<1>2. search' = [search EXCEPT ![o] = next] /\ next \in SearchRow
  BY DEF GoesOn, WellFormed
<1>4. ASSUME NEW p \in Operations, p # o
      PROVE  search'[p] = search[p] /\ elsewhere'[p] = elsewhere[p]
  BY <1>2, <1>4 DEF GoesOn, EditionInv, SearchInv
<1>5. /\ search'[o] = next /\ elsewhere'[o] \in Granted
      /\ Affordable(search'[o], elsewhere'[o], spent)
      /\ ~Searching(o)' => elsewhere'[o] = Nothing
      /\ elsewhere'[o].requests <= spent.requests /\ elsewhere'[o].articles <= spent.articles
  <2>1. search'[o] = next
    BY <1>2 DEF EditionInv, SearchInv
  <2>2. CASE next = Ended
    <3>1. elsewhere'[o] = Nothing
      BY <2>2 DEF GoesOn, EditionInv, SearchInv
    <3>2. Nothing \in Granted /\ Affordable(Ended, Nothing, spent)
      BY EmptySearch DEF EditionInv
    <3>3. Nothing.requests <= spent.requests /\ Nothing.articles <= spent.articles
      BY DEF Nothing, EditionInv, LedgerInv, Granted
    <3> QED BY <2>1, <2>2, <3>1, <3>2, <3>3
  <2>3. CASE next # Ended
    <3>1. elsewhere'[o] = elsewhere[o]
      BY <2>3 DEF GoesOn
    <3> QED BY <2>1, <2>3, <3>1 DEF EditionInv, SearchInv, Searching
  <2> QED BY <2>2, <2>3
<1>6. /\ search' \in [Operations -> SearchRow] /\ elsewhere' \in [Operations -> Granted]
  BY <1>2, <1>4, <1>5 DEF GoesOn, EditionInv, SearchInv
<1>7. ASSUME NEW p \in Operations
      PROVE  /\ WellFormed(search'[p]) /\ Affordable(search'[p], elsewhere'[p], spent)
             /\ ~Searching(p)' => elsewhere'[p] = Nothing
             /\ elsewhere'[p].requests <= spent.requests /\ elsewhere'[p].articles <= spent.articles
  <2>1. CASE p = o
    BY <1>5, <2>1
  <2>2. CASE p # o
    BY <1>4, <2>2 DEF EditionInv, SearchInv, Searching
  <2> QED BY <2>1, <2>2
<1>9. SearchInv'
  BY <1>6, <1>7 DEF SearchInv
<1> QED BY <1>1, <1>9 DEF EditionInv

\* Two or three numbers have a least and a largest.
LEMMA MinTwo ==
  ASSUME NEW a \in Int, NEW b \in Int
  PROVE  Min({a, b}) \in Int /\ Min({a, b}) <= a /\ Min({a, b}) <= b
<1>1. \E x \in {a, b} : \A y \in {a, b} : x <= y
  <2>1. CASE a <= b
    BY <2>1
  <2>2. CASE b <= a
    BY <2>2
  <2> QED BY <2>1, <2>2
<1>2. Min({a, b}) \in {a, b} /\ \A y \in {a, b} : Min({a, b}) <= y
  BY <1>1 DEF Min
<1> QED BY <1>2

LEMMA MaxTwo ==
  ASSUME NEW a \in Int
  PROVE  Max({0, a}) \in Int /\ Max({0, a}) = IF a >= 0 THEN a ELSE 0
<1>1. \E x \in {0, a} : \A y \in {0, a} : x >= y
  <2>1. CASE a >= 0
    BY <2>1
  <2>2. CASE ~(a >= 0)
    BY <2>2
  <2> QED BY <2>1, <2>2
<1>2. Max({0, a}) \in {0, a} /\ \A y \in {0, a} : Max({0, a}) >= y
  BY <1>1 DEF Max
<1>3. Max({0, a}) >= 0 /\ Max({0, a}) >= a
  BY <1>2
<1> QED BY <1>2, <1>3

LEMMA MaxThree ==
  ASSUME NEW a \in Int, NEW b \in Int
  PROVE  Max({0, a, b}) \in Int /\ Max({0, a, b}) >= 0 /\ Max({0, a, b}) >= b
<1>1. \E x \in {0, a, b} : \A y \in {0, a, b} : x >= y
  <2>1. CASE a <= 0 /\ b <= 0
    BY <2>1
  <2>2. CASE a >= 0 /\ b <= a
    BY <2>2
  <2>3. CASE b >= 0 /\ a <= b
    BY <2>3
  <2> QED BY <2>1, <2>2, <2>3
<1>2. Max({0, a, b}) \in {0, a, b} /\ \A y \in {0, a, b} : Max({0, a, b}) >= y
  BY <1>1 DEF Max
<1>3. Max({0, a, b}) \in Int
  BY <1>2
<1> QED BY <1>2, <1>3

LEMMA MinOfTopics ==
  ASSUME NEW S \in SUBSET Topics, S # {}
  PROVE  Min(S) \in S
<1> DEFINE Less == {ss \in Nat \X Nat : ss[1] < ss[2]}
<1>0. IsWellFoundedOn(Less, Nat)
  BY NatLessThanWellFounded DEF OpToRel
<1>1. S \subseteq Nat
  BY DiscoveryAssumption
<1>2. PICK x \in S : \A y \in S : ~(<<y, x>> \in Less)
  <2> HIDE DEF Less
  <2> QED BY <1>0, <1>1, WFMin
<1>3. ASSUME NEW y \in S PROVE x <= y
  <2>1. ~(<<y, x>> \in Less) /\ y \in Nat /\ x \in Nat
    BY <1>1, <1>2
  <2>2. y < x => <<y, x>> \in Less
    BY <2>1
  <2> QED BY <2>1, <2>2
<1> HIDE DEF Less
<1> QED BY <1>3 DEF Min

-----------------------------------------------------------------------------
\* What a search adds to the ledger, or another takes from it.
LEMMA IdleAffordable ==
  ASSUME LedgerInv, NEW s, WellFormed(s), s.at \in {"idle", "over"}
  PROVE  Affordable(s, Nothing, spent)
<1>1. s.events = {} /\ Work(s) = {}
  BY DEF WellFormed, Work
<1>2. Claim(s) = 0 /\ Extra(s) = 0 /\ s.pending = 0 /\ Cardinality(s.events) = 0
  BY <1>1, FS_EmptySet DEF Claim, Extra, WellFormed
<1>3. Nothing.articles = 0 /\ Nothing.requests = 0
  BY DEF Nothing
<1>4. /\ spent.requests \in Nat /\ spent.articles \in Nat
      /\ spent.requests <= Submissions /\ spent.articles <= ArticleSlots
      /\ Submissions \in Nat /\ ArticleSlots \in Nat
  BY DiscoveryAssumption DEF LedgerInv, Granted
<1> QED BY <1>2, <1>3, <1>4 DEF Affordable

LEMMA Sizes ==
  ASSUME NEW s, WellFormed(s), NEW g \in Granted
  PROVE  /\ s.pending \in Nat /\ Cardinality(s.events) \in Nat /\ Claim(s) \in Nat
         /\ Extra(s) \in 0..2 /\ s.limit \in Nat
         /\ g.requests \in Nat /\ g.articles \in Nat /\ g.comparisons \in Nat
BY FS_CardinalityType DEF WellFormed, SearchRow, Claim, Extra, Granted

More(g, n) == [g EXCEPT !.requests = @ + 1, !.articles = @ + n]

LEMMA MoreGranted ==
  ASSUME NEW g \in Granted, NEW n \in Nat
  PROVE  /\ More(g, n) \in Granted
         /\ More(g, n).requests = g.requests + 1 /\ More(g, n).articles = g.articles + n
<1>1. g.requests + 1 \in Nat /\ g.articles + n \in Nat /\ g.comparisons \in Nat
  BY DEF Granted
<1>2. PICK r \in Nat, a \in Nat : r = g.requests + 1 /\ a = g.articles + n
  BY <1>1
<1>3. More(g, n) = [g EXCEPT !.requests = r, !.articles = a]
  BY <1>2, Zenon DEF More
<1> QED BY <1>2, <1>3 DEF Granted

\* The operations that make no request of their own see it granted to another.
LEMMA ChargeStep ==
  ASSUME EditionInv, NEW by, NEW n \in {0, 1}, NEW c \in {0, 1}, Charge(by, n, c),
         spent.requests + 1 <= Submissions, n = 1 => spent.articles < ArticleSlots
  PROVE  /\ LedgerInv' /\ elsewhere' \in [Operations -> Granted]
         /\ \A o \in Operations :
              /\ elsewhere'[o].requests <= spent'.requests
              /\ elsewhere'[o].articles <= spent'.articles
              /\ ~Searching(o) => elsewhere'[o] = Nothing
              /\ o \in by => elsewhere'[o] = elsewhere[o]
              /\ o \notin by /\ search'[o] = search[o]
                   => Affordable(search'[o], elsewhere'[o], spent')
<1>1. /\ spent.requests \in Nat /\ spent.articles \in Nat /\ spent.comparisons \in Nat
      /\ spent.requests <= Submissions /\ spent.articles <= ArticleSlots
      /\ Submissions \in Nat /\ ArticleSlots \in Nat
  BY DiscoveryAssumption DEF EditionInv, LedgerInv, Granted
<1>2. spent' = [requests |-> spent.requests + 1, articles |-> spent.articles + n,
                comparisons |-> spent.comparisons + c]
  BY DEF Charge
<1>3. /\ spent'.requests = spent.requests + 1 /\ spent'.articles = spent.articles + n
      /\ spent'.comparisons = spent.comparisons + c
  BY <1>2
<1>4. LedgerInv'
  BY <1>1, <1>2 DEF LedgerInv, Granted
<1>5. elsewhere' = [o \in Operations |->
         IF o \notin by /\ Searching(o)
         THEN [elsewhere[o] EXCEPT !.requests = @ + 1, !.articles = @ + n]
         ELSE elsewhere[o]]
  BY DEF Charge
<1>6. ASSUME NEW o \in Operations
      PROVE  /\ elsewhere'[o] \in Granted
             /\ IF o \notin by /\ Searching(o)
                THEN /\ elsewhere'[o].requests = elsewhere[o].requests + 1
                     /\ elsewhere'[o].articles = elsewhere[o].articles + n
                ELSE elsewhere'[o] = elsewhere[o]
  <2>1. elsewhere[o] \in Granted
    BY DEF EditionInv, SearchInv
  <2>2. CASE o \notin by /\ Searching(o)
    <3>1. elsewhere'[o] = More(elsewhere[o], n)
      BY <1>5, <2>2 DEF More
    <3>2. n \in Nat
      OBVIOUS
    <3>3. /\ elsewhere'[o] \in Granted
          /\ elsewhere'[o].requests = elsewhere[o].requests + 1
          /\ elsewhere'[o].articles = elsewhere[o].articles + n
      BY <2>1, <3>1, <3>2, MoreGranted
    <3> QED BY <2>2, <3>3
  <2>3. CASE ~(o \notin by /\ Searching(o))
    BY <1>5, <2>1, <2>3
  <2> QED BY <2>2, <2>3
<1>7. ASSUME NEW o \in Operations
      PROVE  /\ elsewhere'[o].requests <= spent'.requests
             /\ elsewhere'[o].articles <= spent'.articles
             /\ ~Searching(o) => elsewhere'[o] = Nothing
             /\ o \in by => elsewhere'[o] = elsewhere[o]
             /\ o \notin by /\ search'[o] = search[o]
                  => Affordable(search'[o], elsewhere'[o], spent')
  <2>1. /\ WellFormed(search[o]) /\ Affordable(search[o], elsewhere[o], spent)
        /\ elsewhere[o] \in Granted
        /\ ~Searching(o) => elsewhere[o] = Nothing
        /\ elsewhere[o].requests <= spent.requests /\ elsewhere[o].articles <= spent.articles
    BY DEF EditionInv, SearchInv
  <2>2. /\ elsewhere[o].requests \in Nat /\ elsewhere[o].articles \in Nat
    BY <2>1 DEF Granted
  <2>3. elsewhere'[o].requests <= spent'.requests /\ elsewhere'[o].articles <= spent'.articles
    BY <1>1, <1>3, <1>6, <2>1, <2>2
  <2>4. ~Searching(o) => elsewhere'[o] = Nothing
    BY <1>6, <2>1
  <2>5. ASSUME o \notin by, search'[o] = search[o]
        PROVE  Affordable(search'[o], elsewhere'[o], spent')
    <3> DEFINE s == search[o]
               g == elsewhere'[o]
    <3>1. CASE Searching(o)
      <4>1. g.requests = elsewhere[o].requests + 1 /\ g.articles = elsewhere[o].articles + n
        BY <1>6, <2>5, <3>1
      <4>2. /\ s.pending \in Nat /\ Cardinality(s.events) \in Nat /\ Claim(s) \in Nat
            /\ Extra(s) \in 0..2
        BY <2>1, Sizes
      <4>3. /\ Claim(s) + s.pending + spent'.articles <= ArticleSlots + g.articles
            /\ Claim(s) + Extra(s) + s.pending + Cardinality(s.events) + spent'.requests
                 <= Submissions + g.requests
        <5> HIDE DEF s, g
        <5>1. /\ Claim(s) + s.pending + spent.articles <= ArticleSlots + elsewhere[o].articles
              /\ Claim(s) + Extra(s) + s.pending + Cardinality(s.events) + spent.requests
                   <= Submissions + elsewhere[o].requests
          BY <2>1 DEF Affordable, s
        <5> QED BY <1>1, <1>3, <2>2, <4>1, <4>2, <5>1
      <4> QED BY <2>5, <4>3 DEF Affordable
    <3>2. CASE ~Searching(o)
      <4>1. s.at \in {"idle", "over"} /\ g = Nothing
        BY <2>4, <3>2 DEF Searching
      <4>2. /\ s.pending = 0 /\ Cardinality(s.events) = 0 /\ Claim(s) = 0 /\ Extra(s) = 0
        <5>1. s.events = {} /\ Work(s) = {}
          BY <2>1, <4>1 DEF WellFormed, Work
        <5> QED BY <2>1, <4>1, <5>1, FS_EmptySet DEF Claim, Extra, WellFormed
      <4>3. g.requests = 0 /\ g.articles = 0
        BY <4>1 DEF Nothing
      <4>4. /\ spent'.requests \in Nat /\ spent'.articles \in Nat
            /\ spent'.requests <= Submissions /\ spent'.articles <= ArticleSlots
        BY <1>4 DEF LedgerInv, Granted
      <4>5. /\ Claim(s) + s.pending + spent'.articles <= ArticleSlots + g.articles
            /\ Claim(s) + Extra(s) + s.pending + Cardinality(s.events) + spent'.requests
                 <= Submissions + g.requests
        <5> HIDE DEF s, g
        <5> QED BY <1>1, <4>2, <4>3, <4>4
      <4> QED BY <2>5, <4>5 DEF Affordable
    <3> QED BY <3>1, <3>2
  <2> QED BY <1>6, <2>3, <2>4, <2>5
<1> QED BY <1>4, <1>5, <1>6, <1>7

LEMMA CapacityRoom ==
  ASSUME LedgerInv, NEW s, WellFormed(s), Capacity(s) >= Enough
  PROVE  /\ Capacity(s) \in Nat
         /\ Capacity(s) + s.pending + spent.articles <= ArticleSlots
         /\ Capacity(s) + 2 + s.pending + Cardinality(s.events) + spent.requests <= Submissions
<1> DEFINE slots == ArticleSlots - spent.articles - s.pending
           room == Submissions - spent.requests - Protected(s) - 2
<1>1. /\ spent.requests \in Nat /\ spent.articles \in Nat
      /\ Submissions \in Nat /\ ArticleSlots \in Nat /\ Enough \in Nat \ {0}
      /\ s.pending \in Nat /\ Cardinality(s.events) \in Nat
  BY FS_CardinalityType, DiscoveryAssumption DEF LedgerInv, Granted, WellFormed, SearchRow
<1>2. slots \in Int /\ room \in Int
  BY <1>1 DEF Protected
<1>3. Capacity(s) = Max({0, Min({slots, room})})
  BY DEF Capacity
<1>4. PICK least \in Int : least = Min({slots, room}) /\ least <= slots /\ least <= room
  <2> HIDE DEF slots, room
  <2> QED BY <1>2, MinTwo
<1>5. Capacity(s) = IF least >= 0 THEN least ELSE 0
  <2> HIDE DEF slots, room
  <2> QED BY <1>3, <1>4, MaxTwo
<1>6. Capacity(s) = least
  BY <1>1, <1>4, <1>5
<1> QED BY <1>1, <1>4, <1>5, <1>6 DEF Protected

LEMMA RoomFact ==
  ASSUME LedgerInv, NEW need \in Int, RoomLeft(need)
  PROVE  spent.requests + 1 <= Submissions /\ spent.requests + 1 + need <= Submissions
<1> DEFINE usual == Min({Floor, (Submissions * 3) \div 5}) - spent.articles - spent.comparisons
<1>1. /\ spent.requests \in Nat /\ spent.articles \in Nat /\ spent.comparisons \in Nat
      /\ Submissions \in Nat /\ Floor \in Nat
  BY DiscoveryAssumption DEF LedgerInv, Granted
<1>2. PICK share \in Int, floor \in Int : share = (Submissions * 3) \div 5 /\ floor = Floor
  BY <1>1
<1>3. Min({Floor, (Submissions * 3) \div 5}) \in Int
  <2>1. Min({floor, share}) \in Int
    BY MinTwo
  <2> QED BY <1>2, <2>1
<1>4. usual \in Int
  BY <1>1, <1>3
<1>5. spent.requests + 1 + Max({0, usual, need}) <= Submissions
  BY DEF RoomLeft
<1> HIDE DEF usual
<1>6. PICK most \in Int : most = Max({0, usual, need}) /\ most >= 0 /\ most >= need
  BY <1>4, MaxThree
<1> QED BY <1>1, <1>5, <1>6

LEMMA PhaseKnown ==
  ASSUME NEW s, WellFormed(s), Asking(s)
  PROVE  PhaseOf(s) \in Phases /\ PhaseOf(s)[1] = s.at
BY DEF WellFormed, Asking, PhaseOf, Phases

LEMMA NeededIsNumber ==
  ASSUME NEW s, WellFormed(s), Asking(s)
  PROVE  Needed(s) \in Int
<1>1. Protected(s) \in Int /\ s.limit \in Nat
  BY FS_CardinalityType DEF WellFormed, SearchRow, Protected
<1>2. Cardinality(PublishersOf(s.pages)) \in Nat
  <2> DEFINE f == [x \in s.pages |-> PublisherOf[x]]
  <2>1. f \in Surjection(s.pages, PublishersOf(s.pages))
    BY DEF Surjection, PublishersOf
  <2>2. IsFiniteSet(s.pages)
    BY DEF WellFormed
  <2> HIDE DEF f
  <2> QED BY <2>1, <2>2, FS_Surjection, FS_CardinalityType
<1>3. Min({Cardinality(PublishersOf(s.pages)), s.limit}) \in Int
  <2>1. PICK many \in Int, limit \in Int :
          many = Cardinality(PublishersOf(s.pages)) /\ limit = s.limit
    BY <1>1, <1>2
  <2>2. Min({many, limit}) \in Int
    BY MinTwo
  <2> QED BY <2>1, <2>2
<1> QED BY <1>1, <1>3 DEF Needed, Asking

-----------------------------------------------------------------------------
\* An answer adds what was put aside for it, and nothing more.
LEMMA SelectedStep ==
  ASSUME NEW s, WellFormed(s), s.topic \in Topics, NEW S \in SUBSET Page, IsFiniteSet(S),
         Cardinality(S) <= s.limit
  PROVE  LET t == Selected(s, S) IN
         /\ t = [s EXCEPT !.events = t.events, !.pending = t.pending]
         /\ t.events \in SUBSET Event /\ IsFiniteSet(t.events)
         /\ IsFiniteSet(Work(t)) /\ t.pending = Cardinality(Work(t)) /\ t.pending \in Nat
         /\ t.pending <= s.pending + s.limit
         /\ Cardinality(t.events) <= Cardinality(s.events) + 1
<1> DEFINE kept == S \ Work(s)
           e == [topic |-> s.topic, pages |-> kept]
           events == s.events \cup {e}
           pending == s.pending + Cardinality(kept)
           grown == [s EXCEPT !.events = events, !.pending = pending]
<1>1. /\ s \in SearchRow /\ IsFiniteSet(s.events) /\ IsFiniteSet(Work(s))
      /\ s.pending = Cardinality(Work(s))
  BY DEF WellFormed
<1>2. /\ s.pending \in Nat /\ s.limit \in Nat /\ Cardinality(s.events) \in Nat
      /\ s.events \in SUBSET Event
  BY <1>1, FS_CardinalityType DEF SearchRow
<1>3. IsFiniteSet(kept) /\ Cardinality(kept) \in Nat /\ Cardinality(kept) <= s.limit
  <2>1. IsFiniteSet(kept) /\ Cardinality(kept) <= Cardinality(S)
    BY FS_Subset
  <2>2. Cardinality(kept) \in Nat /\ Cardinality(S) \in Nat
    BY <2>1, FS_CardinalityType
  <2> HIDE DEF kept
  <2> QED BY <1>2, <2>1, <2>2
<1>4. e \in Event /\ e.pages = kept
  BY DEF Event
<1>5. /\ grown.events = events /\ grown.pending = pending /\ pending \in Nat
      /\ grown = [s EXCEPT !.events = grown.events, !.pending = grown.pending]
  <2>1. pending \in Nat
    BY <1>2, <1>3
  <2> HIDE DEF events, pending
  <2> QED BY <1>1, <2>1 DEF SearchRow
<1>6. Work(grown) = Work(s) \cup kept
  <2>1. UNION {x.pages : x \in events} = Work(s) \cup e.pages
    <3> HIDE DEF e
    <3> QED BY DEF Work
  <2> HIDE DEF grown, events, e, kept
  <2> QED BY <1>4, <1>5, <2>1 DEF Work
<1>7. IsFiniteSet(Work(s) \cup kept) /\ Cardinality(Work(s) \cup kept) = pending
  <2>1. Work(s) \cap kept = {}
    OBVIOUS
  <2>2. /\ IsFiniteSet(Work(s) \cup kept)
        /\ Cardinality(Work(s) \cup kept)
             = Cardinality(Work(s)) + Cardinality(kept) - Cardinality(Work(s) \cap kept)
    <3> HIDE DEF kept
    <3> QED BY <1>1, <1>3, FS_Union
  <2>3. Cardinality(Work(s) \cap kept) = 0
    BY <2>1, FS_EmptySet
  <2> HIDE DEF kept
  <2> QED BY <1>1, <1>2, <1>3, <2>2, <2>3
<1>8. IsFiniteSet(events) /\ Cardinality(events) <= Cardinality(s.events) + 1
  <2> HIDE DEF e
  <2>1. /\ IsFiniteSet(events)
        /\ Cardinality(events) = IF e \in s.events THEN Cardinality(s.events)
                                 ELSE Cardinality(s.events) + 1
    BY <1>1, FS_AddElement
  <2> QED BY <1>2, <2>1
<1>9. CASE Selected(s, S) = grown
  <2>1. pending <= s.pending + s.limit
    <3> HIDE DEF kept
    <3> QED BY <1>2, <1>3
  <2>2. events \in SUBSET Event
    BY <1>2, <1>4
  <2> HIDE DEF grown, events, pending, kept
  <2> QED BY <1>5, <1>6, <1>7, <1>8, <1>9, <2>1, <2>2
<1>10. CASE Selected(s, S) = s
  <2>1. s = [s EXCEPT !.events = s.events, !.pending = s.pending]
    BY <1>1 DEF SearchRow
  <2>2. s.pending <= s.pending + s.limit /\ Cardinality(s.events) <= Cardinality(s.events) + 1
    BY <1>2
  <2> HIDE DEF grown, events, pending, e, kept
  <2> QED BY <1>1, <1>2, <1>10, <2>1, <2>2, Zenon
<1>11. Selected(s, S) = grown \/ Selected(s, S) = s
  <2>1. CASE Varied(S) /\ Varied(kept)
    BY <2>1 DEF Selected, Work
  <2>2. CASE ~(Varied(S) /\ Varied(kept))
    BY <2>2 DEF Selected, Work
  <2> QED BY <2>1, <2>2
<1> HIDE DEF grown
<1> QED BY <1>9, <1>10, <1>11

LEMMA ContinuedStep ==
  ASSUME NEW s, WellFormed(s), ~s.sent, Asking(s), NEW g \in Granted, NEW used \in Granted,
         Affordable([s EXCEPT !.sent = TRUE], g, used), NEW answer,
         IF s.at = "topics" THEN answer \subseteq Topics
         ELSE answer \subseteq Page /\ IsFiniteSet(answer),
         NEW next \in Continued(s, answer)
  PROVE  WellFormed(next) /\ Affordable(next, g, used) /\ next.at \in {"look", "size"}
<1>1. s \in SearchRow /\ s.at \in {"topics", "sources", "selection"}
  BY DEF WellFormed, Asking
<1>2. /\ s.pending \in Nat /\ Cardinality(s.events) \in Nat /\ s.limit \in Nat
      /\ g.requests \in Nat /\ g.articles \in Nat
      /\ used.requests \in Nat /\ used.articles \in Nat
      /\ Submissions \in Nat /\ ArticleSlots \in Nat
  BY Sizes, DiscoveryAssumption DEF Granted
<1>3. /\ (IF s.at = "selection" THEN s.limit ELSE 0) + s.pending + used.articles
           <= ArticleSlots + g.articles
      /\ (IF s.at = "selection" THEN s.limit + 1 ELSE 0) + s.pending + Cardinality(s.events)
           + used.requests <= Submissions + g.requests
  <2> DEFINE u == [s EXCEPT !.sent = TRUE]
  <2>1. /\ u.at = s.at /\ u.pending = s.pending /\ u.events = s.events /\ u.limit = s.limit
        /\ u.sent
    BY <1>1 DEF SearchRow
  <2> HIDE DEF u
  <2>2. Affordable(u, g, used)
    BY DEF u
  <2>3. Claim(u) = IF s.at = "selection" THEN s.limit ELSE 0
    BY <2>1 DEF Claim
  <2>4. Extra(u) = IF s.at = "selection" THEN 1 ELSE 0
    BY <2>1 DEF Extra
  <2> QED BY <1>2, <2>1, <2>2, <2>3, <2>4 DEF Affordable
<1>4. ASSUME NEW n, n \in SearchRow, n.at \in {"look", "size"}, n.events = s.events,
             n.pending = s.pending, ~n.sent, IsFiniteSet(n.pages),
             n.at = "size" => n.topic \in Topics
      PROVE  WellFormed(n) /\ Affordable(n, g, used)
  <2>1. WellFormed(n)
    BY <1>4 DEF WellFormed, Work
  <2>2. Claim(n) = 0 /\ Extra(n) = 0
    BY <1>4 DEF Claim, Extra
  <2> QED BY <1>2, <1>3, <1>4, <2>1, <2>2 DEF Affordable
<1>5. CASE s.at = "topics"
  <2>1. next = [s EXCEPT !.at = "look", !.left = answer]
    BY <1>5 DEF Continued
  <2>2. /\ next \in SearchRow /\ next.at = "look" /\ next.events = s.events
        /\ next.pending = s.pending /\ next.sent = s.sent /\ next.pages = s.pages
    BY <1>1, <1>5, <2>1 DEF SearchRow, Places
  <2> QED BY <1>4, <2>2 DEF WellFormed
<1>6. CASE s.at = "sources"
  <2>1. PICK S \in SUBSET answer :
          next = IF Varied(S) THEN [s EXCEPT !.at = "size", !.pages = S]
                              ELSE [s EXCEPT !.at = "look"]
    BY <1>6 DEF Continued
  <2>2. S \in SUBSET Page /\ IsFiniteSet(S)
    BY <1>6, FS_Subset
  <2>3. CASE next = [s EXCEPT !.at = "size", !.pages = S]
    <3>1. /\ next \in SearchRow /\ next.at = "size" /\ next.events = s.events
          /\ next.pending = s.pending /\ next.sent = s.sent /\ next.pages = S
          /\ next.topic = s.topic
      BY <1>1, <2>2, <2>3 DEF SearchRow, Places
    <3> QED BY <1>4, <1>6, <2>2, <3>1 DEF WellFormed
  <2>4. CASE next = [s EXCEPT !.at = "look"]
    <3>1. /\ next \in SearchRow /\ next.at = "look" /\ next.events = s.events
          /\ next.pending = s.pending /\ next.sent = s.sent /\ next.pages = s.pages
      BY <1>1, <2>4 DEF SearchRow, Places
    <3> QED BY <1>4, <3>1 DEF WellFormed
  <2> QED BY <2>1, <2>3, <2>4
<1>7. CASE s.at = "selection"
  <2>1. PICK S \in SUBSET answer :
          /\ Cardinality(S) <= s.limit
          /\ next = [Selected(s, S) EXCEPT !.at = "look", !.pages = {}, !.limit = 0]
    BY <1>7 DEF Continued
  <2>2. S \in SUBSET Page /\ IsFiniteSet(S) /\ s.topic \in Topics
    BY <1>7, FS_Subset DEF WellFormed
  <2> DEFINE t == Selected(s, S)
  <2>3. /\ t = [s EXCEPT !.events = t.events, !.pending = t.pending]
        /\ t.events \in SUBSET Event /\ IsFiniteSet(t.events)
        /\ IsFiniteSet(Work(t)) /\ t.pending = Cardinality(Work(t)) /\ t.pending \in Nat
        /\ t.pending <= s.pending + s.limit
        /\ Cardinality(t.events) <= Cardinality(s.events) + 1
    BY <2>1, <2>2, SelectedStep
  <2>4. next = [t EXCEPT !.at = "look", !.pages = {}, !.limit = 0]
    BY <2>1
  <2> HIDE DEF t
  <2>5. t \in SearchRow /\ t.sent = s.sent
    BY <1>1, <2>3 DEF SearchRow
  <2>6. /\ next \in SearchRow /\ next.at = "look" /\ next.events = t.events
        /\ next.pending = t.pending /\ ~next.sent /\ next.pages = {}
    BY <2>4, <2>5 DEF SearchRow, Places
  <2>7. WellFormed(next)
    BY <2>3, <2>6, FS_EmptySet DEF WellFormed, Work
  <2>8. Claim(next) = 0 /\ Extra(next) = 0 /\ Cardinality(t.events) \in Nat
    BY <2>3, <2>6, FS_CardinalityType DEF Claim, Extra
  <2>9. Affordable(next, g, used)
    BY <1>2, <1>3, <1>7, <2>3, <2>6, <2>8 DEF Affordable
  <2> QED BY <2>6, <2>7, <2>9
<1> QED BY <1>1, <1>5, <1>6, <1>7

-----------------------------------------------------------------------------
\* One step of each action.
LEMMA BeginStep ==
  ASSUME EditionInv, NEW o \in Operations, BeginDiscovery(o)
  PROVE  EditionInv'
<1> DEFINE first == [Unsearched EXCEPT !.at = "topics"]
<1>1. elsewhere[o] = Nothing
  BY DEF BeginDiscovery, EditionInv, SearchInv, Searching, Unsearched
<1>2. AnswerInv' /\ UNCHANGED spent
  BY DEF BeginDiscovery, EditionInv, AnswerInv
<1>3. /\ WellFormed(first) /\ Affordable(first, Nothing, spent)
      /\ WellFormed(Ended)
  BY EmptySearch DEF EditionInv
<1>4. first.at = "topics"
  BY DEF Unsearched
<1>5. GoesOn(o, first) \/ GoesOn(o, Ended)
  BY DEF BeginDiscovery
<1> HIDE DEF first
<1> QED BY <1>1, <1>2, <1>3, <1>4, <1>5, GoesOnStep

LEMMA EndStep ==
  ASSUME EditionInv, NEW o \in Operations, GoesOn(o, Ended), UNCHANGED <<spent, asked>>
  PROVE  EditionInv'
<1>1. AnswerInv'
  BY DEF EditionInv, AnswerInv
<1>2. WellFormed(Ended)
  BY EmptySearch DEF EditionInv
<1> QED BY <1>1, <1>2, GoesOnStep

LEMMA SuppressedStep ==
  ASSUME EditionInv, NEW o \in Operations, Suppressed(o)
  PROVE  EditionInv'
<1> DEFINE s == search[o]
           next == [s EXCEPT !.at = "look", !.sent = FALSE, !.pages = {}, !.limit = 0]
<1>1. /\ WellFormed(s) /\ Affordable(s, elsewhere[o], spent) /\ elsewhere[o] \in Granted
      /\ spent \in Granted
  BY DEF EditionInv, SearchInv, LedgerInv
<1>2. CASE GoesOn(o, Ended)
  BY <1>2, EndStep DEF Suppressed
<1>3. CASE GoesOn(o, next)
  <2>1. /\ next \in SearchRow /\ next.at = "look" /\ ~next.sent /\ next.pages = {}
        /\ next.events = s.events /\ next.pending = s.pending
    BY <1>1 DEF WellFormed, SearchRow, Places
  <2> HIDE DEF next, s
  <2>2. WellFormed(next)
    BY <1>1, <2>1, FS_EmptySet DEF WellFormed, Work
  <2>3. Claim(next) = 0 /\ Extra(next) = 0
    BY <2>1 DEF Claim, Extra
  <2>4. /\ s.pending \in Nat /\ Cardinality(s.events) \in Nat /\ Claim(s) \in Nat
        /\ Extra(s) \in 0..2
    BY <1>1, Sizes
  <2>5. Affordable(next, elsewhere[o], spent)
    <3>1. /\ spent.requests \in Nat /\ spent.articles \in Nat
          /\ elsewhere[o].requests \in Nat /\ elsewhere[o].articles \in Nat
          /\ Submissions \in Nat /\ ArticleSlots \in Nat
      BY <1>1, DiscoveryAssumption DEF Granted
    <3> QED BY <1>1, <2>1, <2>3, <2>4, <3>1 DEF Affordable
  <2>6. AnswerInv' /\ UNCHANGED spent
    BY DEF Suppressed, EditionInv, AnswerInv
  <2> QED BY <1>3, <2>1, <2>2, <2>5, <2>6, GoesOnStep
<1>4. GoesOn(o, Ended) \/ GoesOn(o, next)
  BY DEF Suppressed
<1> QED BY <1>2, <1>3, <1>4

LEMMA NextTopicStep ==
  ASSUME EditionInv, NEW o \in Operations, NextTopic(o)
  PROVE  EditionInv'
<1> DEFINE s == search[o]
           next == [s EXCEPT !.at = "sources", !.topic = Min(s.left), !.left = @ \ {Min(s.left)}]
<1>1. /\ WellFormed(s) /\ Affordable(s, elsewhere[o], spent) /\ s.at = "look"
  BY DEF EditionInv, SearchInv, NextTopic
<1>2. CASE GoesOn(o, Ended)
  BY <1>2, EndStep DEF NextTopic
<1>3. CASE s.left # {} /\ GoesOn(o, next)
  <2>1. Min(s.left) \in s.left /\ s.left \in SUBSET Topics /\ Min(s.left) \in Nat
    BY <1>1, <1>3, MinOfTopics, DiscoveryAssumption DEF WellFormed, SearchRow
  <2>2. /\ next \in SearchRow /\ next.at = "sources" /\ next.sent = s.sent
        /\ next.pages = s.pages /\ next.events = s.events /\ next.pending = s.pending
        /\ next.topic \in Topics
    BY <1>1, <2>1 DEF WellFormed, SearchRow, Places
  <2> HIDE DEF next, s
  <2>3. WellFormed(next)
    BY <1>1, <2>2 DEF WellFormed, Work, Asking
  <2>4. Affordable(next, elsewhere[o], spent)
    <3>1. Claim(next) = Claim(s) /\ Extra(next) = Extra(s)
      BY <1>1, <2>2 DEF Claim, Extra
    <3> QED BY <1>1, <2>2, <3>1 DEF Affordable
  <2>5. AnswerInv' /\ UNCHANGED spent
    BY DEF NextTopic, EditionInv, AnswerInv
  <2> QED BY <1>3, <2>2, <2>3, <2>4, <2>5, GoesOnStep
<1>4. GoesOn(o, Ended) \/ (s.left # {} /\ GoesOn(o, next))
  BY DEF NextTopic
<1> QED BY <1>2, <1>3, <1>4

LEMMA SizeEventStep ==
  ASSUME EditionInv, NEW o \in Operations, SizeEvent(o)
  PROVE  EditionInv'
<1> DEFINE s == search[o]
           limit == Min({PerEvent, Capacity(s)})
           next == [s EXCEPT !.at = "selection", !.limit = limit]
<1>1. /\ WellFormed(s) /\ s.at = "size" /\ LedgerInv /\ elsewhere[o] \in Granted
  BY DEF EditionInv, SearchInv, SizeEvent
<1>2. CASE GoesOn(o, Ended)
  BY <1>2, EndStep DEF SizeEvent
<1>3. CASE ~(limit < Enough) /\ GoesOn(o, next)
  <2>1. PICK capacity \in Int : capacity = Capacity(s)
    <3> DEFINE least == Min({ArticleSlots - spent.articles - s.pending,
                             Submissions - spent.requests - Protected(s) - 2})
    <3>1. /\ spent.requests \in Nat /\ spent.articles \in Nat
          /\ Submissions \in Nat /\ ArticleSlots \in Nat
          /\ s.pending \in Nat /\ Cardinality(s.events) \in Nat
      BY <1>1, FS_CardinalityType, DiscoveryAssumption
         DEF LedgerInv, Granted, WellFormed, SearchRow
    <3>2. PICK a \in Int, b \in Int :
            /\ a = ArticleSlots - spent.articles - s.pending
            /\ b = Submissions - spent.requests - Protected(s) - 2
      BY <3>1 DEF Protected
    <3>3. Min({a, b}) \in Int
      BY MinTwo
    <3>4. least \in Int
      BY <3>2, <3>3
    <3> HIDE DEF least
    <3>5. Max({0, least}) \in Int
      BY <3>4, MaxTwo
    <3> QED BY <3>5 DEF Capacity, least
  <2>2. PICK most \in Int : most = PerEvent /\ most \in Nat /\ Enough \in Nat \ {0}
    BY DiscoveryAssumption
  <2>3. limit \in Int /\ limit <= capacity
    <3>1. Min({most, capacity}) \in Int /\ Min({most, capacity}) <= capacity
      BY MinTwo
    <3> QED BY <2>1, <2>2, <3>1
  <2> HIDE DEF limit
  <2>4. limit \in Nat /\ Capacity(s) >= Enough
    BY <1>3, <2>1, <2>2, <2>3
  <2>5. /\ limit + s.pending + spent.articles <= ArticleSlots
        /\ limit + 2 + s.pending + Cardinality(s.events) + spent.requests <= Submissions
        /\ s.pending \in Nat /\ Cardinality(s.events) \in Nat
        /\ spent.requests \in Nat /\ spent.articles \in Nat
        /\ Submissions \in Nat /\ ArticleSlots \in Nat
    <3>1. /\ Capacity(s) \in Nat
          /\ Capacity(s) + s.pending + spent.articles <= ArticleSlots
          /\ Capacity(s) + 2 + s.pending + Cardinality(s.events) + spent.requests <= Submissions
      BY <1>1, <2>4, CapacityRoom
    <3>2. /\ spent.requests \in Nat /\ spent.articles \in Nat
          /\ Submissions \in Nat /\ ArticleSlots \in Nat
          /\ s.pending \in Nat /\ Cardinality(s.events) \in Nat
      BY <1>1, FS_CardinalityType, DiscoveryAssumption
         DEF LedgerInv, Granted, WellFormed, SearchRow
    <3> QED BY <2>1, <2>3, <2>4, <3>1, <3>2
  <2>6. /\ next \in SearchRow /\ next.at = "selection" /\ next.sent = s.sent
        /\ next.pages = s.pages /\ next.events = s.events /\ next.pending = s.pending
        /\ next.topic = s.topic /\ next.limit = limit
    BY <1>1, <2>4 DEF WellFormed, SearchRow, Places
  <2> HIDE DEF next, s
  <2>7. WellFormed(next) /\ ~next.sent
    BY <1>1, <2>6 DEF WellFormed, Work, Asking
  <2>8. Claim(next) = limit /\ Extra(next) = 2
    BY <2>6, <2>7 DEF Claim, Extra
  <2>9. Affordable(next, elsewhere[o], spent)
    <3>1. elsewhere[o].requests \in Nat /\ elsewhere[o].articles \in Nat
      BY <1>1 DEF Granted
    <3> QED BY <2>4, <2>5, <2>6, <2>8, <3>1 DEF Affordable
  <2>10. AnswerInv' /\ UNCHANGED spent
    BY DEF SizeEvent, EditionInv, AnswerInv
  <2> QED BY <1>3, <2>6, <2>7, <2>9, <2>10, GoesOnStep
<1>4. GoesOn(o, Ended) \/ (~(limit < Enough) /\ GoesOn(o, next))
  BY DEF SizeEvent
<1> QED BY <1>2, <1>3, <1>4

LEMMA AnsweredStep ==
  ASSUME EditionInv, NEW o \in Operations, Answered(o)
  PROVE  EditionInv'
<1> DEFINE s == search[o]
           u == [s EXCEPT !.sent = FALSE]
<1>1. /\ WellFormed(s) /\ Affordable(s, elsewhere[o], spent) /\ elsewhere[o] \in Granted
      /\ spent \in Granted /\ s.sent /\ Asking(s) /\ s \in SearchRow
  BY DEF EditionInv, SearchInv, LedgerInv, Answered, WellFormed
<1>2. PICK r, next :
        /\ r \in Replies(s)
        /\ next \in Continued(u, r)
        /\ asked' = [asked EXCEPT ![PhaseOf(s)] =
                       [state |-> "SUCCEEDED", answer |-> r, evidence |-> Evidence(s)]]
        /\ GoesOn(o, next)
  BY DEF Answered
<1>3. IF s.at = "topics" THEN r \subseteq Topics ELSE r \subseteq Page /\ IsFiniteSet(r)
  <2>1. CASE s.at = "topics"
    BY <1>2, <2>1 DEF Replies
  <2>2. CASE s.at = "sources"
    <3>1. r = PagesAbout[s.topic] /\ s.topic \in Topics
      BY <1>1, <1>2, <2>2 DEF Replies, WellFormed
    <3> QED BY <2>2, <3>1, DiscoveryAssumption DEF Page
  <2>3. CASE s.at = "selection"
    <3>1. r \subseteq s.pages /\ s.pages \subseteq Page /\ IsFiniteSet(s.pages)
      BY <1>1, <1>2, <2>3 DEF Replies, WellFormed, SearchRow
    <3> QED BY <2>3, <3>1, FS_Subset
  <2> QED BY <1>1, <2>1, <2>2, <2>3 DEF Asking
<1>4. AnswerInv'
  <2>1. PhaseOf(s) \in Phases /\ PhaseOf(s)[1] = s.at
    BY <1>1, PhaseKnown
  <2>2. [state |-> "SUCCEEDED", answer |-> r, evidence |-> Evidence(s)] \in Request
    <3>1. Evidence(s) \subseteq Page /\ r \subseteq Topics \cup Page
      BY <1>1, <1>3 DEF Evidence, SearchRow
    <3> QED BY <3>1 DEF Request
  <2>3. asked \in [Phases -> Request]
    BY DEF EditionInv, AnswerInv
  <2>4. asked' \in [Phases -> Request]
    BY <1>2, <2>1, <2>2, <2>3
  <2>5. ASSUME NEW f \in Phases, asked'[f].state = "SUCCEEDED"
        PROVE  IF f[1] = "topics" THEN asked'[f].answer \subseteq Topics
               ELSE asked'[f].answer \subseteq Page /\ IsFiniteSet(asked'[f].answer)
    <3>1. CASE f = PhaseOf(s)
      <4>1. asked'[f].answer = r
        BY <1>2, <2>1, <2>3, <3>1
      <4> QED BY <1>3, <2>1, <3>1, <4>1
    <3>2. CASE f # PhaseOf(s)
      <4>1. asked'[f] = asked[f]
        BY <1>2, <2>1, <2>3, <3>2
      <4> QED BY <2>5, <4>1 DEF EditionInv, AnswerInv
    <3> QED BY <3>1, <3>2
  <2> QED BY <2>4, <2>5 DEF AnswerInv
<1>5. /\ u \in SearchRow /\ u.at = s.at /\ ~u.sent /\ u.left = s.left /\ u.topic = s.topic
      /\ u.pages = s.pages /\ u.limit = s.limit /\ u.events = s.events /\ u.pending = s.pending
      /\ [u EXCEPT !.sent = TRUE] = s
  BY <1>1 DEF SearchRow
<1> HIDE DEF u, s
<1>6. WellFormed(u) /\ Asking(u)
  BY <1>1, <1>5 DEF WellFormed, Work, Asking
<1>7. WellFormed(next) /\ Affordable(next, elsewhere[o], spent) /\ next.at \in {"look", "size"}
  <2>1. Affordable([u EXCEPT !.sent = TRUE], elsewhere[o], spent)
    BY <1>1, <1>5
  <2>2. IF u.at = "topics" THEN r \subseteq Topics ELSE r \subseteq Page /\ IsFiniteSet(r)
    BY <1>3, <1>5
  <2> QED BY <1>1, <1>2, <1>5, <1>6, <2>1, <2>2, ContinuedStep
<1>8. UNCHANGED spent
  BY DEF Answered
<1> QED BY <1>2, <1>4, <1>7, <1>8, GoesOnStep

LEMMA ReplayedStep ==
  ASSUME EditionInv, NEW o \in Operations, Replayed(o)
  PROVE  EditionInv'
<1> DEFINE s == search[o]
           u == [s EXCEPT !.sent = TRUE]
<1>1. /\ WellFormed(s) /\ Affordable(s, elsewhere[o], spent) /\ elsewhere[o] \in Granted
      /\ spent \in Granted /\ ~s.sent /\ Asking(s) /\ s \in SearchRow
  BY DEF EditionInv, SearchInv, LedgerInv, Replayed, WellFormed
<1>2. PICK answer : answer = asked[PhaseOf(s)].answer
  OBVIOUS
<1>3. PICK next \in Continued(s, answer) : GoesOn(o, next)
  BY <1>2 DEF Replayed
<1>4. IF s.at = "topics" THEN answer \subseteq Topics
      ELSE answer \subseteq Page /\ IsFiniteSet(answer)
  <2>1. PhaseOf(s) \in Phases /\ PhaseOf(s)[1] = s.at
    BY <1>1, PhaseKnown
  <2>2. asked[PhaseOf(s)].state = "SUCCEEDED"
    BY DEF Replayed
  <2> QED BY <1>2, <2>1, <2>2 DEF EditionInv, AnswerInv
<1>5. Affordable(u, elsewhere[o], spent)
  <2>1. u.at = s.at /\ u.sent /\ u.limit = s.limit /\ u.events = s.events /\ u.pending = s.pending
    BY <1>1 DEF SearchRow
  <2> HIDE DEF u, s
  <2>2. Claim(u) = Claim(s) /\ Extra(u) \in 0..2 /\ Extra(s) \in 0..2 /\ Extra(u) <= Extra(s)
    BY <1>1, <2>1 DEF Claim, Extra
  <2>3. /\ s.pending \in Nat /\ Cardinality(s.events) \in Nat /\ Claim(s) \in Nat
        /\ spent.requests \in Nat /\ spent.articles \in Nat
        /\ elsewhere[o].requests \in Nat /\ elsewhere[o].articles \in Nat
        /\ Submissions \in Nat /\ ArticleSlots \in Nat
    BY <1>1, Sizes, DiscoveryAssumption DEF Granted
  <2> QED BY <1>1, <2>1, <2>2, <2>3 DEF Affordable
<1>6. AnswerInv' /\ UNCHANGED spent
  BY DEF Replayed, EditionInv, AnswerInv
<1>7. WellFormed(next) /\ Affordable(next, elsewhere[o], spent) /\ next.at \in {"look", "size"}
  BY <1>1, <1>4, <1>5, ContinuedStep
<1> QED BY <1>3, <1>6, <1>7, GoesOnStep

\* The request asks for room for what its own phase protects.
LEMMA AuthorizeStep ==
  ASSUME EditionInv, NEW o \in Operations, Authorize(o)
  PROVE  EditionInv'
<1> DEFINE s == search[o]
           next == [s EXCEPT !.sent = TRUE]
<1>1. /\ WellFormed(s) /\ Affordable(s, elsewhere[o], spent) /\ elsewhere[o] \in Granted
      /\ LedgerInv /\ ~s.sent /\ Asking(s) /\ s \in SearchRow
      /\ elsewhere[o].requests <= spent.requests /\ elsewhere[o].articles <= spent.articles
  BY DEF EditionInv, SearchInv, Authorize, WellFormed
<1>2. /\ spent.requests + 1 <= Submissions
      /\ spent.requests + 1 + Needed(s) <= Submissions
  BY <1>1, NeededIsNumber, RoomFact DEF Authorize
<1>3. Charge({o}, 0, 0)
  BY DEF Authorize
<1>4. /\ LedgerInv' /\ elsewhere' \in [Operations -> Granted]
      /\ \A p \in Operations :
           /\ elsewhere'[p].requests <= spent'.requests
           /\ elsewhere'[p].articles <= spent'.articles
           /\ ~Searching(p) => elsewhere'[p] = Nothing
           /\ p = o => elsewhere'[p] = elsewhere[p]
           /\ p # o /\ search'[p] = search[p] => Affordable(search'[p], elsewhere'[p], spent')
  <2>1. /\ LedgerInv' /\ elsewhere' \in [Operations -> Granted]
        /\ \A p \in Operations :
             /\ elsewhere'[p].requests <= spent'.requests
             /\ elsewhere'[p].articles <= spent'.articles
             /\ ~Searching(p) => elsewhere'[p] = Nothing
             /\ p \in {o} => elsewhere'[p] = elsewhere[p]
             /\ p \notin {o} /\ search'[p] = search[p]
                  => Affordable(search'[p], elsewhere'[p], spent')
    BY <1>2, <1>3, ChargeStep
  <2> QED BY <2>1
<1>5. /\ next \in SearchRow /\ next.at = s.at /\ next.sent /\ next.topic = s.topic
      /\ next.pages = s.pages /\ next.limit = s.limit /\ next.events = s.events
      /\ next.pending = s.pending
  BY <1>1 DEF SearchRow
<1>6. search' = [search EXCEPT ![o] = next] /\ search \in [Operations -> SearchRow]
  BY DEF Authorize, EditionInv, SearchInv
<1>7. AnswerInv'
  <2>1. PhaseOf(s) \in Phases
    BY <1>1, PhaseKnown
  <2>2. asked' = [asked EXCEPT ![PhaseOf(s)].state = "SUBMITTED"]
    BY DEF Authorize
  <2>3. asked \in [Phases -> Request]
    BY DEF EditionInv, AnswerInv
  <2>4. asked' \in [Phases -> Request]
    BY <2>1, <2>2, <2>3 DEF Request
  <2>5. ASSUME NEW f \in Phases, asked'[f].state = "SUCCEEDED" PROVE asked'[f] = asked[f]
    BY <2>1, <2>2, <2>3, <2>5 DEF Request
  <2> QED BY <2>4, <2>5 DEF EditionInv, AnswerInv
<1>8. WellFormed(next)
  <2> HIDE DEF next, s
  <2> QED BY <1>1, <1>5 DEF WellFormed, Work, Asking
<1>9. Affordable(next, elsewhere[o], spent')
  <2>1. spent'.requests = spent.requests + 1 /\ spent'.articles = spent.articles + 0
    BY <1>3 DEF Charge
  <2> HIDE DEF next, s
  <2>2. /\ s.pending \in Nat /\ Cardinality(s.events) \in Nat /\ Claim(s) \in Nat
        /\ s.limit \in Nat
        /\ spent.requests \in Nat /\ spent.articles \in Nat
        /\ spent.articles <= ArticleSlots
        /\ elsewhere[o].requests \in Nat /\ elsewhere[o].articles \in Nat
        /\ Submissions \in Nat /\ ArticleSlots \in Nat
    BY <1>1, Sizes, DiscoveryAssumption DEF Granted, LedgerInv
  <2>3. /\ Claim(s) + s.pending + spent.articles <= ArticleSlots + elsewhere[o].articles
        /\ Claim(s) + Extra(s) + s.pending + Cardinality(s.events) + spent.requests
             <= Submissions + elsewhere[o].requests
    BY <1>1 DEF Affordable
  <2>4. Claim(next) = Claim(s)
    BY <1>5 DEF Claim
  <2>5. Claim(s) + s.pending + spent'.articles <= ArticleSlots + elsewhere[o].articles
    BY <2>1, <2>2, <2>3
  <2>6. Claim(s) + Extra(next) + s.pending + Cardinality(s.events) + spent'.requests
          <= Submissions + elsewhere[o].requests
    <3>1. CASE s.at = "selection"
      <4>1. Extra(s) = 2 /\ Extra(next) = 1
        BY <1>1, <1>5, <3>1 DEF Extra
      <4> QED BY <2>1, <2>2, <2>3, <4>1
    <3>2. CASE s.at = "sources"
      <4>1. Claim(s) = 0 /\ Extra(next) = 0 /\ Needed(s) = s.pending + Cardinality(s.events)
        BY <1>5, <3>2 DEF Claim, Extra, Needed, Protected
      <4> QED BY <1>2, <2>1, <2>2, <4>1
    <3>3. CASE s.at = "topics"
      <4>1. Claim(s) = 0 /\ Extra(next) = 0 /\ s.pending = 0 /\ Cardinality(s.events) = 0
        <5>1. s.events = {} /\ Work(s) = {}
          BY <1>1, <3>3 DEF WellFormed, Work
        <5> QED BY <1>1, <1>5, <3>3, <5>1, FS_EmptySet DEF Claim, Extra, WellFormed
      <4> QED BY <1>2, <2>1, <2>2, <4>1
    <3> QED BY <1>1, <3>1, <3>2, <3>3 DEF Asking
  <2> QED BY <1>5, <2>4, <2>5, <2>6 DEF Affordable
<1>10. search' \in [Operations -> SearchRow]
  BY <1>5, <1>6
<1>11. ASSUME NEW p \in Operations
       PROVE  /\ WellFormed(search'[p]) /\ Affordable(search'[p], elsewhere'[p], spent')
              /\ ~Searching(p)' => elsewhere'[p] = Nothing
              /\ elsewhere'[p].requests <= spent'.requests
              /\ elsewhere'[p].articles <= spent'.articles
  <2>1. CASE p = o
    <3>1. search'[p] = next /\ Searching(p)' = Searching(p)
      BY <1>5, <1>6, <2>1 DEF Searching
    <3>2. elsewhere'[p] = elsewhere[o]
      BY <1>4, <2>1
    <3> HIDE DEF next
    <3> QED BY <1>4, <1>8, <1>9, <3>1, <3>2
  <2>2. CASE p # o
    <3>1. search'[p] = search[p] /\ Searching(p)' = Searching(p)
      BY <1>6, <2>2 DEF Searching
    <3> QED BY <1>4, <2>2, <3>1 DEF EditionInv, SearchInv
  <2> QED BY <2>1, <2>2
<1>12. SearchInv'
  BY <1>4, <1>10, <1>11 DEF SearchInv
<1> QED BY <1>4, <1>7, <1>12 DEF EditionInv

LEMMA SpendElsewhereStep ==
  ASSUME EditionInv, NEW n \in {0, 1}, SpendElsewhere(n)
  PROVE  EditionInv'
<1>1. /\ UNCHANGED <<asked, search>> /\ spent.requests < Submissions
      /\ n = 1 => spent.articles < ArticleSlots
  BY DEF SpendElsewhere
<1>2. spent.requests + 1 <= Submissions
  BY <1>1, DiscoveryAssumption DEF EditionInv, LedgerInv, Granted
<1>3. PICK c \in {0, 1} : Charge({}, n, c)
  <2>1. 1 - n \in {0, 1}
    OBVIOUS
  <2> QED BY <2>1 DEF SpendElsewhere
<1>4. /\ LedgerInv' /\ elsewhere' \in [Operations -> Granted]
      /\ \A p \in Operations :
           /\ elsewhere'[p].requests <= spent'.requests
           /\ elsewhere'[p].articles <= spent'.articles
           /\ ~Searching(p) => elsewhere'[p] = Nothing
           /\ search'[p] = search[p] => Affordable(search'[p], elsewhere'[p], spent')
  <2>1. /\ LedgerInv' /\ elsewhere' \in [Operations -> Granted]
        /\ \A p \in Operations :
             /\ elsewhere'[p].requests <= spent'.requests
             /\ elsewhere'[p].articles <= spent'.articles
             /\ ~Searching(p) => elsewhere'[p] = Nothing
             /\ p \in {} => elsewhere'[p] = elsewhere[p]
             /\ p \notin {} /\ search'[p] = search[p]
                  => Affordable(search'[p], elsewhere'[p], spent')
    BY <1>1, <1>2, <1>3, ChargeStep
  <2> QED BY <2>1
<1>5. AnswerInv'
  BY <1>1 DEF EditionInv, AnswerInv
<1>6. SearchInv'
  <2>1. \A p \in Operations : search'[p] = search[p] /\ Searching(p)' = Searching(p)
    BY <1>1 DEF Searching
  <2> QED BY <1>1, <1>4, <2>1 DEF EditionInv, SearchInv
<1> QED BY <1>4, <1>5, <1>6 DEF EditionInv

\* What others were granted was spent too: the new day has at least that room.
LEMMA NextDateStep ==
  ASSUME EditionInv, NextDate
  PROVE  EditionInv'
<1>1. /\ spent' = Nothing /\ elsewhere' = [o \in Operations |-> Nothing]
      /\ UNCHANGED <<asked, search>>
  BY DEF NextDate
<1>2. Nothing \in Granted /\ Nothing.requests = 0 /\ Nothing.articles = 0
  BY DEF Nothing, Granted
<1>3. LedgerInv'
  BY <1>1, <1>2, DiscoveryAssumption DEF LedgerInv
<1>4. AnswerInv'
  BY <1>1 DEF EditionInv, AnswerInv
<1>5. ASSUME NEW p \in Operations PROVE Affordable(search[p], Nothing, Nothing)
  <2> DEFINE s == search[p]
             g == elsewhere[p]
  <2>1. /\ WellFormed(s) /\ Affordable(s, g, spent) /\ g \in Granted /\ spent \in Granted
        /\ g.requests <= spent.requests /\ g.articles <= spent.articles
    BY DEF EditionInv, SearchInv, LedgerInv
  <2> HIDE DEF s, g
  <2>2. /\ s.pending \in Nat /\ Cardinality(s.events) \in Nat /\ Claim(s) \in Nat
        /\ Extra(s) \in 0..2
        /\ spent.requests \in Nat /\ spent.articles \in Nat
        /\ g.requests \in Nat /\ g.articles \in Nat
        /\ Submissions \in Nat /\ ArticleSlots \in Nat
    BY <2>1, Sizes, DiscoveryAssumption DEF Granted
  <2>3. Affordable(s, Nothing, Nothing)
    BY <1>2, <2>1, <2>2 DEF Affordable
  <2> QED BY <2>3 DEF s
<1>6. SearchInv'
  <2>1. \A p \in Operations : elsewhere'[p] = Nothing /\ search'[p] = search[p]
    BY <1>1
  <2>2. elsewhere' \in [Operations -> Granted] /\ search' \in [Operations -> SearchRow]
    BY <1>1, <1>2 DEF EditionInv, SearchInv
  <2>3. Nothing.requests <= Nothing.requests /\ Nothing.articles <= Nothing.articles
    BY <1>2
  <2> QED BY <1>1, <1>5, <2>1, <2>2, <2>3 DEF EditionInv, SearchInv
<1> QED BY <1>3, <1>4, <1>6 DEF EditionInv

LEMMA SameEdition ==
  ASSUME EditionInv, UNCHANGED <<spent, asked, search, elsewhere>>
  PROVE  EditionInv'
<1>1. LedgerInv' /\ AnswerInv'
  BY DEF EditionInv, LedgerInv, AnswerInv
<1>2. SearchInv'
  BY DEF EditionInv, SearchInv, Searching
<1> QED BY <1>1, <1>2 DEF EditionInv

LEMMA EditionStep == EditionInv /\ [DiscoveryNext]_discoveryVars => EditionInv'
<1> SUFFICES ASSUME EditionInv, [DiscoveryNext]_discoveryVars PROVE EditionInv'
  OBVIOUS
<1>1. ASSUME NEW o \in Operations, BeginDiscovery(o) PROVE EditionInv'
  BY <1>1, BeginStep
<1>2. ASSUME NEW o \in Operations, CrashSearch(o) \/ Refused(o) PROVE EditionInv'
  BY <1>2, EndStep DEF CrashSearch, Refused
<1>3. ASSUME NEW o \in Operations, Authorize(o) PROVE EditionInv'
  BY <1>3, AuthorizeStep
<1>4. ASSUME NEW o \in Operations, Answered(o) PROVE EditionInv'
  BY <1>4, AnsweredStep
<1>5. ASSUME NEW o \in Operations, Replayed(o) PROVE EditionInv'
  BY <1>5, ReplayedStep
<1>6. ASSUME NEW o \in Operations, Suppressed(o) PROVE EditionInv'
  BY <1>6, SuppressedStep
<1>7. ASSUME NEW o \in Operations, NextTopic(o) PROVE EditionInv'
  BY <1>7, NextTopicStep
<1>8. ASSUME NEW o \in Operations, SizeEvent(o) PROVE EditionInv'
  BY <1>8, SizeEventStep
<1>9. CASE DailyTick \/ RetryDaily
  BY <1>9, SameEdition DEF DailyTick, RetryDaily
<1>10. ASSUME NEW n \in {0, 1}, SpendElsewhere(n) PROVE EditionInv'
  BY <1>10, SpendElsewhereStep
<1>11. CASE NextDate
  BY <1>11, NextDateStep
<1>12. CASE UNCHANGED discoveryVars
  BY <1>12, SameEdition DEF discoveryVars
<1> QED BY <1>1, <1>2, <1>3, <1>4, <1>5, <1>6, <1>7, <1>8, <1>9, <1>10, <1>11, <1>12
        DEF DiscoveryNext

LEMMA AffordableFromInv == EditionInv => EditionAffordable
<1> SUFFICES ASSUME EditionInv, NEW o \in Operations
             PROVE  LET events == search[o].events
                        work   == Cardinality(UNION {e.pages : e \in events}) IN
                    /\ work + spent.articles <= ArticleSlots + elsewhere[o].articles
                    /\ work + Cardinality(events) + spent.requests
                         <= Submissions + elsewhere[o].requests
  BY DEF EditionAffordable
<1> DEFINE s == search[o]
           g == elsewhere[o]
<1>1. WellFormed(s) /\ Affordable(s, g, spent) /\ g \in Granted /\ spent \in Granted
  BY DEF EditionInv, SearchInv, LedgerInv
<1>2. s.pending = Cardinality(UNION {e.pages : e \in s.events})
  BY <1>1 DEF WellFormed, Work
<1> HIDE DEF s, g
<1>3. /\ s.pending \in Nat /\ Cardinality(s.events) \in Nat /\ Claim(s) \in Nat
      /\ Extra(s) \in 0..2
      /\ spent.requests \in Nat /\ spent.articles \in Nat
      /\ g.requests \in Nat /\ g.articles \in Nat
      /\ Submissions \in Nat /\ ArticleSlots \in Nat
  BY <1>1, Sizes, DiscoveryAssumption DEF Granted
<1>4. /\ s.pending + spent.articles <= ArticleSlots + g.articles
      /\ s.pending + Cardinality(s.events) + spent.requests <= Submissions + g.requests
  BY <1>1, <1>3 DEF Affordable
<1> QED BY <1>2, <1>4 DEF s, g

\* What an operation holds is always covered: the ledger within its limits, the
\* answers stored of the kind of their phase, and, of every search, the room
\* for its articles, its events and the selection it is about to pay for.
THEOREM DiscoveryInvariant == DiscoverySpec => []EditionInv
BY EditionInitial, EditionStep, PTL DEF DiscoverySpec

\* EditionAffordable: a search never spends the room its selection needs
\* (discovery_article_capacity, try_authorize_llm_request).
THEOREM AffordableTheorem == DiscoverySpec => []EditionAffordable
BY DiscoveryInvariant, AffordableFromInv, PTL
=============================================================================
