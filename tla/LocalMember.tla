----------------------------- MODULE LocalMember -----------------------------
(***************************************************************************)
(* The member's side of the deterministic backend (APP_BACKEND=memory): the *)
(* branch of every route that works on PlatformState.                      *)
(*                                                                         *)
(* A handler's body runs without an await, so it is one step.  Who calls is *)
(* settled before it, in dependencies that run in a thread: requests of one *)
(* session overlap between Admit and their handler.  No worker runs: a job  *)
(* stays as it is until an administrator touches it.                       *)
(***************************************************************************)
EXTENDS Integers, Sequences, FiniteSetsExt

CONSTANTS
  Members, Seeded, DemoMember, Nobody,   \* two of the members: the local one, the demonstration one
  LocalTokens, LocalRequests, LocalReads, Articles, Cards,
  Feed,             \* the first 48 articles, in their order
  DaySession,       \* 12 hours, in clock ticks
  ReadTtl, ReadMin, \* 30 minutes and 15 seconds
  LocalEnd          \* bound: time stops here

\* The articles of the demonstration's sample activity, one read session each,
\* which is named like its article.
Sampled == {Feed[i] : i \in DOMAIN Feed}
Sessions == LocalReads \cup Sampled

ASSUME LocalAssumption ==
  /\ {Seeded, DemoMember} \subseteq Members /\ Nobody \notin Members
  /\ Feed \in Seq(Articles) /\ \A i, j \in DOMAIN Feed : Feed[i] = Feed[j] => i = j
  /\ LocalReads \cap Articles = {}
  /\ DaySession \in Nat /\ ReadTtl \in Nat /\ ReadMin \in 0 .. ReadTtl /\ LocalEnd \in Nat

VARIABLES
  time,
  member,     \* users: status, consent_complete, onboarding_complete
  grants,     \* consent_grants that are TRUE
  profile,    \* profiles: the active SELF_REPORTED ones, per member
  login,      \* sessions
  inside,     \* requests past their dependencies: the Principal
  reading,    \* read_sessions
  ledger,     \* credits
  ballots,    \* votes: the history of each member and article
  cards,      \* share_cards
  queue       \* jobs

localVars == <<time, member, grants, profile, login, inside, reading, ledger, ballots,
               cards, queue>>

Purposes == {"SERVICE", "POLITICAL_PROFILE"}
Absent == [status |-> "NONE", complete |-> FALSE, onboarded |-> FALSE]
SignedUp == [Absent EXCEPT !.status = "ACTIVE"]
NoLogin == [user |-> Nobody, expires |-> 0, revoked |-> FALSE]
NoReading == [owner |-> Nobody, status |-> "NONE", article |-> Nobody, out |-> 0,
              back |-> 0, expires |-> 0]

\* The seed: one local member with both consents and no profile yet.
LocalInit ==
  /\ time = 0
  /\ member = [m \in Members |-> IF m = Seeded THEN [SignedUp EXCEPT !.complete = TRUE]
                                             ELSE Absent]
  /\ grants = {Seeded} \X Purposes
  /\ profile = [m \in Members |-> 0]
  /\ login = [t \in LocalTokens |-> NoLogin]
  /\ inside = [r \in LocalRequests |-> Nobody]
  /\ reading = [s \in Sessions |-> NoReading]
  /\ ledger = [m \in Members |-> <<>>]
  /\ ballots = [m \in Members |-> [a \in Articles |-> <<>>]]
  /\ cards = [c \in Cards |-> [owner |-> Nobody, status |-> "none"]]
  /\ queue = << >>

-----------------------------------------------------------------------------
(* Jobs: a map from <<type, dedupe key>> to a status.                       *)

Queued == DOMAIN queue
With(q, k, s) == [j \in DOMAIN q \cup {k} |-> IF j = k THEN s ELSE q[j]]

\* enqueue: a job of that key is returned as it is.
Enqueued(k) == IF k \in Queued THEN queue ELSE With(queue, k, "PENDING")

CancelQueued(k) ==
  /\ queue[k] = "PENDING" /\ queue' = With(queue, k, "CANCELLED")
  /\ UNCHANGED <<time, member, grants, profile, login, inside, reading, ledger, ballots, cards>>

RetryQueued(k) ==
  /\ queue[k] = "CANCELLED" /\ queue' = With(queue, k, "PENDING")
  /\ UNCHANGED <<time, member, grants, profile, login, inside, reading, ledger, ballots, cards>>

-----------------------------------------------------------------------------
(* Signing in.                                                              *)

OpenLogin(t, m) ==
  /\ login[t] = NoLogin
  /\ login' = [login EXCEPT ![t] = [user |-> m, expires |-> time + DaySession,
                                    revoked |-> FALSE]]
  /\ UNCHANGED <<time, inside, cards, queue>>

\* A verified callback.  The account of an identity is never taken away, so the
\* member whose deletion was asked for gets a session as well.
Callback(t, m) ==
  /\ m # DemoMember /\ OpenLogin(t, m)
  /\ member' = IF member[m].status = "NONE" THEN [member EXCEPT ![m] = SignedUp] ELSE member
  /\ UNCHANGED <<grants, profile, reading, ledger, ballots>>

\* The sample activity: a read session that was over long ago, its credit, and a
\* vote with its credit for each article.  The vote has revision 1 whatever
\* others voted, and no job.
SampleRead(a) == [NoReading EXCEPT !.owner = DemoMember, !.status = "ELIGIBLE", !.article = a]
SampleLedger == [i \in DOMAIN Feed |-> <<"read", Feed[i]>>]
                  \o [i \in DOMAIN Feed |-> <<"vote", Feed[i]>>]
SampleVote == [revision |-> 1, active |-> TRUE]

SeedDemo ==
  /\ member' = [member EXCEPT ![DemoMember] =
                   [status |-> "ACTIVE", complete |-> TRUE, onboarded |-> TRUE]]
  /\ grants' = grants \cup ({DemoMember} \X Purposes)
  /\ profile' = [profile EXCEPT ![DemoMember] = 1]
  /\ reading' = [s \in Sessions |-> IF s \in Sampled THEN SampleRead(s) ELSE reading[s]]
  /\ ledger' = [ledger EXCEPT ![DemoMember] = SampleLedger]
  /\ ballots' = [ballots EXCEPT ![DemoMember] =
                    [a \in Articles |-> IF a \in Sampled THEN <<SampleVote>> ELSE <<>>]]

\* The demonstration member is made once, consents, profile and sample activity
\* included; no session is opened for it once it is not ACTIVE.
DemoLogin(t) ==
  /\ OpenLogin(t, DemoMember)
  /\ \/ member[DemoMember].status = "NONE" /\ SeedDemo
     \/ /\ member[DemoMember].status = "ACTIVE"
        /\ UNCHANGED <<member, grants, profile, reading, ledger, ballots>>

\* Mutant: the member's status is not looked at.
PrincipalOf_Anyone(t) ==
  IF login[t].revoked \/ login[t].expires <= time THEN Nobody ELSE login[t].user

PrincipalOf(t) ==
  IF \/ login[t].user = Nobody \/ login[t].revoked \/ login[t].expires <= time
     \/ member[login[t].user].status # "ACTIVE"
  THEN Nobody ELSE login[t].user

\* optional_principal and the role check, before the handler.
Admit(r, t) ==
  /\ inside[r] = Nobody /\ PrincipalOf(t) # Nobody
  /\ inside' = [inside EXCEPT ![r] = PrincipalOf(t)]
  /\ UNCHANGED <<time, member, grants, profile, login, reading, ledger, ballots, cards, queue>>

\* The handler ends; views and refusals change nothing.  A card is born ready
\* here, so asking for another rendering of it is always refused.
Respond(r) == inside[r] # Nobody /\ inside' = [inside EXCEPT ![r] = Nobody] /\ UNCHANGED time

Refuse(r) ==
  Respond(r) /\ UNCHANGED <<member, grants, profile, login, reading, ledger, ballots, cards, queue>>

Logout(r, t) ==
  /\ Respond(r) /\ login[t].user = inside[r]
  /\ login' = [login EXCEPT ![t].revoked = TRUE]
  /\ UNCHANGED <<member, grants, profile, reading, ledger, ballots, cards, queue>>

-----------------------------------------------------------------------------
(* Consent, questionnaire, export and deletion.                             *)

Withdrawn(m, p, granted) ==
  IF p = "POLITICAL_PROFILE" /\ ~granted THEN [profile EXCEPT ![m] = 0] ELSE profile

LocalConsent(r, p, granted) ==
  LET m == inside[r] IN
  /\ Respond(r)
  /\ grants' = IF granted THEN grants \cup {<<m, p>>} ELSE grants \ {<<m, p>>}
  /\ profile' = Withdrawn(m, p, granted)
  /\ member' = [member EXCEPT
       ![m].complete = \A q \in Purposes : <<m, q>> \in grants',
       ![m].onboarded = @ /\ (granted \/ p # "POLITICAL_PROFILE")]
  /\ UNCHANGED <<login, reading, ledger, ballots, cards, queue>>

\* Earlier self reported profiles are deactivated, the new one is active.
LocalQuestionnaire(r) ==
  LET m == inside[r] IN
  /\ Respond(r) /\ member[m].complete
  /\ profile' = [profile EXCEPT ![m] = 1]
  /\ member' = [member EXCEPT ![m].onboarded = TRUE]
  /\ UNCHANGED <<grants, login, reading, ledger, ballots, cards, queue>>

\* A finished export starts over and its artifact is dropped.
LocalExport(r) ==
  LET k == <<"export_user", inside[r]>> IN
  /\ Respond(r)
  /\ queue' = With(queue, k, "PENDING")
  /\ UNCHANGED <<member, grants, profile, login, reading, ledger, ballots, cards>>

DeleteJob(m) == Enqueued(<<"delete_user", m>>)

LocalDelete(r) ==
  LET m == inside[r] IN
  /\ Respond(r)
  /\ member' = [member EXCEPT ![m].status = "PENDING_DELETION"]
  /\ login' = [t \in LocalTokens |-> IF login[t].user = m THEN [login[t] EXCEPT !.revoked = TRUE]
                                                          ELSE login[t]]
  /\ cards' = [c \in Cards |-> IF cards[c].owner = m THEN [cards[c] EXCEPT !.status = "revoked"]
                                                     ELSE cards[c]]
  /\ queue' = DeleteJob(m)
  /\ UNCHANGED <<grants, profile, reading, ledger, ballots>>

-----------------------------------------------------------------------------
(* Reading.                                                                 *)

\* A session past its time is unfinished until somebody follows or returns it.
Unfinished(m) == {s \in LocalReads : reading[s].owner = m /\ reading[s].status \in {"CREATED", "OUTBOUND"}}

LocalCreateRead(r, s, a) ==
  /\ Respond(r) /\ reading[s].owner = Nobody /\ Unfinished(inside[r]) = {}
  /\ reading' = [reading EXCEPT ![s] =
       [owner |-> inside[r], status |-> "CREATED", article |-> a, out |-> 0,
        back |-> 0, expires |-> time + ReadTtl]]
  /\ UNCHANGED <<member, grants, profile, login, ledger, ballots, cards, queue>>

\* Expiry is looked at before the status: it is written over RETURNED as well.
\* Nobody holds a redirect token of a sample session.
LocalRedirect(r, s) ==
  /\ Respond(r) /\ reading[s].owner = inside[r]
  /\ \/ reading[s].expires <= time /\ reading' = [reading EXCEPT ![s].status = "EXPIRED"]
     \/ /\ reading[s].expires > time /\ reading[s].status = "CREATED"
        /\ reading' = [reading EXCEPT ![s].status = "OUTBOUND", ![s].out = time]
  /\ UNCHANGED <<member, grants, profile, login, ledger, ballots, cards, queue>>

\* The ledger entry of an event is made once.
Posted(m, key) == IF \E i \in DOMAIN ledger[m] : ledger[m][i] = key THEN ledger
                  ELSE [ledger EXCEPT ![m] = Append(@, key)]

\* Mutant: the time since the redirect is not looked at.
Elapsed_Any(s) == TRUE

\* evaluate_read_eligibility
Elapsed(s) == time - reading[s].out >= ReadMin

LocalReturn(r, s) ==
  LET m == inside[r] IN
  /\ Respond(r) /\ reading[s].owner = m /\ reading[s].status # "RETURNED"
  /\ \/ /\ reading[s].expires <= time
        /\ reading' = [reading EXCEPT ![s].status = "EXPIRED"] /\ UNCHANGED ledger
     \/ /\ reading[s].expires > time /\ reading[s].status = "OUTBOUND"
        /\ reading' = [reading EXCEPT ![s].status = "RETURNED", ![s].back = time]
        /\ ledger' = IF Elapsed(s) THEN Posted(m, <<"read", s>>) ELSE ledger
  /\ UNCHANGED <<member, grants, profile, login, ballots, cards, queue>>

-----------------------------------------------------------------------------
(* Votes.  Revisions are counted over all members of an article.            *)

Rows(a) == UNION {{ballots[m][a][i] : i \in DOMAIN ballots[m][a]} : m \in Members}

\* Mutant: the next revision is the member's own.
NextRow_Own(m, a) == Len(ballots[m][a]) + 1

NextRow(m, a) == 1 + Max({0} \cup {v.revision : v \in Rows(a)})

Last(s) == s[Len(s)]
Retired(h) == [i \in DOMAIN h |-> IF i = Len(h) THEN [h[i] EXCEPT !.active = FALSE] ELSE h[i]]
Voted(m, a) == ballots[m][a] # <<>> /\ Last(ballots[m][a]).active

LocalVote(r, a) ==
  LET m == inside[r]
      n == NextRow(m, a) IN
  /\ Respond(r) /\ member[m].complete
  /\ ballots' = [ballots EXCEPT ![m][a] = Append(Retired(@), [revision |-> n, active |-> TRUE])]
  /\ ledger' = IF ballots[m][a] = <<>> THEN Posted(m, <<"vote", a>>) ELSE ledger
  /\ queue' = Enqueued(<<"aggregate_votes", a, n>>)
  /\ UNCHANGED <<member, grants, profile, login, reading, cards>>

\* The withdrawn row itself moves to the next revision.
LocalUnvote(r, a) ==
  LET m == inside[r]
      n == NextRow(m, a) IN
  /\ Respond(r) /\ Voted(m, a)
  /\ ballots' = [ballots EXCEPT ![m][a][Len(ballots[m][a])] = [revision |-> n, active |-> FALSE]]
  /\ queue' = Enqueued(<<"aggregate_votes", a, n>>)
  /\ UNCHANGED <<member, grants, profile, login, reading, ledger, cards>>

-----------------------------------------------------------------------------
(* Share cards.                                                             *)

LocalCreateCard(r, c) ==
  LET m == inside[r] IN
  /\ Respond(r) /\ cards[c].owner = Nobody /\ member[m].complete
  /\ cards' = [cards EXCEPT ![c] = [owner |-> m, status |-> "ready"]]
  /\ queue' = Enqueued(<<"render_share_card", c>>)
  /\ UNCHANGED <<member, grants, profile, login, reading, ledger, ballots>>

LocalRevokeCard(r, c) ==
  /\ Respond(r) /\ cards[c].owner = inside[r]
  /\ cards' = [cards EXCEPT ![c].status = "revoked"]
  /\ UNCHANGED <<member, grants, profile, login, reading, ledger, ballots, queue>>

LocalTick ==
  /\ time < LocalEnd /\ time' = time + 1
  /\ UNCHANGED <<member, grants, profile, login, inside, reading, ledger, ballots, cards, queue>>

LocalNext ==
  \/ \E t \in LocalTokens : \/ \E m \in Members : Callback(t, m)
                            \/ DemoLogin(t)
                            \/ \E r \in LocalRequests : Admit(r, t) \/ Logout(r, t)
  \/ \E r \in LocalRequests :
       \/ Refuse(r) \/ LocalQuestionnaire(r) \/ LocalExport(r) \/ LocalDelete(r)
       \/ \E p \in Purposes, g \in BOOLEAN : LocalConsent(r, p, g)
       \/ \E s \in Sessions : LocalReturn(r, s)
       \/ \E s \in LocalReads : \/ LocalRedirect(r, s)
                                \/ \E a \in Articles : LocalCreateRead(r, s, a)
       \/ \E a \in Articles : LocalVote(r, a) \/ LocalUnvote(r, a)
       \/ \E c \in Cards : LocalCreateCard(r, c) \/ LocalRevokeCard(r, c)
  \/ \E k \in Queued : CancelQueued(k) \/ RetryQueued(k)
  \/ LocalTick

LocalSpec == LocalInit /\ [][LocalNext]_localVars

-----------------------------------------------------------------------------
(* What the member is shown.                                                *)

Credited(m) == {ledger[m][i] : i \in DOMAIN ledger[m]}

\* read_article_ids and voted_article_ids of the progress view.
ReadArticles(m) ==
  {reading[s].article : s \in {x \in Sessions : reading[x].owner = m
                                 /\ \E k \in Credited(m) : k[1] = "read" /\ k[2] = x}}
VotedArticles(m) == {a \in Articles : Voted(m, a)}

\* The vote that came with the sample activity, before anybody changed it.
IsSample(m, a, i) ==
  m = DemoMember /\ a \in Sampled /\ i = 1 /\ ballots[m][a][i].revision = 1

\* Credit is posted once: for a session of one's own that was followed and
\* returned in time, or for the first vote on an article, and for nothing else
\* but the demonstration's sample sessions; and what progress counts as read
\* was credited so.
LocalCreditsEarned ==
  \A m \in Members :
    /\ \A i, j \in DOMAIN ledger[m] : ledger[m][i] = ledger[m][j] => i = j
    /\ \A k \in Credited(m) :
         IF k[1] = "vote" THEN ballots[m][k[2]] # <<>>
         ELSE IF k[2] \in Sampled
         THEN m = DemoMember /\ reading[k[2]].status \in {"ELIGIBLE", "EXPIRED"}
         ELSE /\ reading[k[2]].owner = m /\ reading[k[2]].status \in {"RETURNED", "EXPIRED"}
              /\ reading[k[2]].back - reading[k[2]].out >= ReadMin
              /\ reading[k[2]].back < reading[k[2]].expires
    /\ Cardinality(ReadArticles(m) \cup VotedArticles(m)) <= Len(ledger[m])

\* Every vote, change and withdrawal, and every deletion, has its own job: the
\* revisions of an article are handed out one by one, each with a job, and two
\* rows never share one.  The demonstration's sample vote is the exception: its
\* revision 1 may be somebody else's too and has no job of its own.
LocalChangesQueued ==
  /\ \A m \in Members : member[m].status = "PENDING_DELETION" => <<"delete_user", m>> \in Queued
  /\ \A a \in Articles :
       /\ \A v \in Rows(a) : \A n \in 1 .. v.revision :
            \/ <<"aggregate_votes", a, n>> \in Queued
            \/ n = 1 /\ a \in Sampled /\ ballots[DemoMember][a] # <<>>
       /\ \A m, o \in Members : \A i \in DOMAIN ballots[m][a], j \in DOMAIN ballots[o][a] :
            ballots[m][a][i].revision = ballots[o][a][j].revision
              => (m = o /\ i = j) \/ IsSample(m, a, i) \/ IsSample(o, a, j)

\* A deletion is final: the member is never active again, and no request is
\* admitted for them any more, a new sign-in notwithstanding; what still
\* happens was admitted before.
LocalDeletionSticks ==
  [][\A m \in Members : member[m].status = "PENDING_DELETION" =>
        /\ member'[m].status = "PENDING_DELETION"
        /\ \A r \in LocalRequests : inside'[r] = m => inside[r] = m]_localVars
=============================================================================
