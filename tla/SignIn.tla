-------------------------------- MODULE SignIn --------------------------------
(***************************************************************************)
(* Sign-in, sessions and account deletion: one-use OAuth challenges kept   *)
(* as rows of the job queue, the callback that turns an identity into a    *)
(* user and a session, the administrators' and the demonstration sign-in,  *)
(* and the deletion that ends an account.                                  *)
(*                                                                         *)
(* Both kinds of rows are in reach of the workers, which claim whatever is  *)
(* PENDING, of the administrators, and of the switch that stops all work.   *)
(*                                                                         *)
(* A request is a database transaction of its own at each commit; what it  *)
(* inserted is invisible before, except through the unique key of          *)
(* oauth_accounts, at which a second insert of the same identity waits.    *)
(***************************************************************************)
EXTENDS Integers, Sequences, FiniteSets

CONSTANTS
  Subject,        \* provider identities
  State,          \* random state values, one per sign-in attempt
  Request,        \* requests in flight
  User,           \* identifiers of members created by the callback
  Admin,          \* identifiers of administrators created by credential sign-in
  Demo,           \* the fixed identifier of the demonstration member
  Token,          \* session tokens
  NoState, NoSubject, NoUser,
  ChallengeTtl, PruneAge, SessionTtl,   \* 10 minutes, 11 minutes, 12 hours
  MaxNow          \* bound: time stops here

Account == User \cup Admin \cup {Demo}

ASSUME SignInAssumption ==
  /\ User \cap Admin = {} /\ Demo \notin User \cup Admin
  /\ NoUser \notin Account /\ NoState \notin State /\ NoSubject \notin Subject
  /\ ChallengeTtl \in Nat /\ PruneAge \in Nat /\ SessionTtl \in Nat
  /\ ChallengeTtl <= PruneAge
  /\ MaxNow \in Nat

VARIABLES
  now,
  challenge,   \* rows of job type __oauth_challenge__; PENDING: or LEASED, DEAD: or FAILED
  user,        \* users.status
  owner,       \* oauth_accounts: identity to user
  session,     \* sessions
  admins,      \* administrators in order of creation
  job,         \* the delete_user row of each account: PENDING (or LEASED), SUCCEEDED,
               \* or STOPPED (FAILED, DEAD or CANCELLED)
  handed,      \* accounts whose deletion a worker has taken up
  request,     \* local state of each request
  purged,      \* history: accounts whose data the worker removed
  origin,      \* history: the identity a member was created for
  redeemed,    \* history: sessions opened by a challenge
  reopened     \* history: how often a challenge was tried again

rows == <<challenge, user, owner, session, admins, job>>
history == <<purged, origin, redeemed, reopened>>
vars == <<now, rows, handed, request, history>>

NoChallenge == [status |-> "NONE", created |-> 0, expires |-> 0]
NoSession == [user |-> NoUser, expires |-> 0, revoked |-> FALSE]
Idle == [phase |-> "idle", state |-> NoState, subject |-> NoSubject, user |-> NoUser]

UserStatus == {"NONE", "ACTIVE", "PENDING_DELETION", "DELETED"}
Phase == {"idle", "exchanging", "known", "inserted", "deleting"}

Init ==
  /\ now = 0
  /\ challenge = [s \in State |-> NoChallenge]
  /\ user = [u \in Account |-> "NONE"]
  /\ owner = [i \in Subject |-> NoUser]
  /\ session = [t \in Token |-> NoSession]
  /\ admins = <<>>
  /\ job = [u \in Account |-> "NONE"]
  /\ handed = {}
  /\ request = [r \in Request |-> Idle]
  /\ purged = {}
  /\ origin = [u \in User |-> NoSubject]
  /\ redeemed = [s \in State |-> 0]
  /\ reopened = [s \in State |-> 0]

-----------------------------------------------------------------------------
\* Mutant: cleanup does not look at the age.
Stale_Early == {s \in State : challenge[s].status = "CANCELLED"}

Stale == {s \in State : /\ challenge[s].status = "CANCELLED"
                        /\ challenge[s].created < now - PruneAge}

\* The challenge is committed first; removing stale ones is best effort.
StartSignIn(s) ==
  /\ challenge[s].status = "NONE"
  /\ \E gone \in {{}, Stale} :
       challenge' = [c \in State |->
         IF c = s THEN [status |-> "CANCELLED", created |-> now,
                        expires |-> now + ChallengeTtl]
         ELSE IF c \in gone THEN [challenge[c] EXCEPT !.status = "PRUNED"]
         ELSE challenge[c]]
  /\ UNCHANGED <<now, user, owner, session, admins, job, handed, request, history>>

\* Mutant: the row is read without changing its status.
Consume_Peek(r, s) ==
  /\ request[r].phase = "idle"
  /\ challenge[s].status = "CANCELLED"
  /\ challenge[s].expires > now
  /\ request' = [request EXCEPT ![r] = [Idle EXCEPT !.phase = "exchanging", !.state = s]]
  /\ UNCHANGED <<now, rows, handed, history>>

Burnt(s) == [challenge EXCEPT ![s].status = "DEAD"]

\* The callback burns the challenge before it looks at provider, nonce, expiry
\* or the provider's answer; any of them may refuse it.
Consume(r, s) ==
  /\ request[r].phase = "idle"
  /\ challenge[s].status = "CANCELLED"
  /\ challenge' = Burnt(s)
  /\ \/ /\ challenge[s].expires > now
        /\ request' = [request EXCEPT ![r] =
                         [Idle EXCEPT !.phase = "exchanging", !.state = s]]
     \/ UNCHANGED request
  /\ UNCHANGED <<now, user, owner, session, admins, job, handed, history>>

Speculative(u) == \E r \in Request : request[r].phase = "inserted" /\ request[r].user = u

\* The provider answered with an identity that has an account.
Recognise(r, i) ==
  /\ request[r].phase = "exchanging"
  /\ owner[i] # NoUser
  /\ request' = [request EXCEPT ![r].phase = "known", ![r].subject = i,
                                ![r].user = owner[i]]
  /\ UNCHANGED <<now, rows, handed, history>>

\* Mutant: no unique key on provider and subject.
Inserting_NoKey(i) == {}

Inserting(i) ==
  {q \in Request : request[q].phase = "inserted" /\ request[q].subject = i}

\* The provider answered with an identity that has none: a member and an
\* account are inserted, not committed.  The insert waits for another one of
\* the same identity and, if that one commits, reads its account instead.
InsertMember(r, i, u) ==
  /\ request[r].phase = "exchanging"
  /\ owner[i] = NoUser
  /\ Inserting(i) = {}
  /\ user[u] = "NONE" /\ ~Speculative(u)
  /\ request' = [request EXCEPT ![r].phase = "inserted", ![r].subject = i,
                                ![r].user = u]
  /\ UNCHANGED <<now, rows, handed, history>>

\* credential sign-in: the oldest active administrator, or a new one
ActiveAdmin(k) == user[admins[k]] = "ACTIVE"

FindAdmin(r) ==
  /\ request[r].phase = "idle"
  /\ \/ \E k \in DOMAIN admins :
           /\ ActiveAdmin(k) /\ \A l \in DOMAIN admins : l < k => ~ActiveAdmin(l)
           /\ request' = [request EXCEPT ![r] =
                            [Idle EXCEPT !.phase = "known", !.user = admins[k]]]
     \/ /\ \A k \in DOMAIN admins : ~ActiveAdmin(k)
        /\ \E a \in Admin :
             /\ user[a] = "NONE" /\ ~Speculative(a)
             /\ request' = [request EXCEPT ![r] =
                              [Idle EXCEPT !.phase = "inserted", !.user = a]]
  /\ UNCHANGED <<now, rows, handed, history>>

-----------------------------------------------------------------------------
Unused == {t \in Token : session[t] = NoSession}

Opened(u) == [user |-> u, expires |-> now + SessionTtl, revoked |-> FALSE]

Counted(s) == IF s = NoState THEN redeemed
              ELSE [redeemed EXCEPT ![s] = @ + 1]

\* The session is inserted and everything commits.
RotateSession(r, t) ==
  LET q == request[r] IN
  /\ q.phase \in {"known", "inserted"}
  /\ t \in Unused
  /\ session' = [session EXCEPT ![t] = Opened(q.user)]
  /\ request' = [request EXCEPT ![r] = Idle]
  /\ redeemed' = Counted(q.state)
  /\ IF q.phase = "inserted"
     THEN /\ user' = [user EXCEPT ![q.user] = "ACTIVE"]
          /\ IF q.user \in Admin
             THEN /\ admins' = Append(admins, q.user)
                  /\ UNCHANGED <<owner, origin>>
             ELSE /\ owner' = [owner EXCEPT ![q.subject] = q.user]
                  /\ origin' = [origin EXCEPT ![q.user] = q.subject]
                  /\ UNCHANGED admins
     ELSE UNCHANGED <<user, owner, admins, origin>>
  /\ UNCHANGED <<now, challenge, job, handed, purged, reopened>>

\* Mutant: the upsert of the demonstration member also sets its columns.
DemoSignIn_Reset(t) ==
  /\ t \in Unused
  /\ user' = [user EXCEPT ![Demo] = "ACTIVE"]
  /\ session' = [session EXCEPT ![t] = Opened(Demo)]
  /\ UNCHANGED <<now, challenge, owner, admins, job, handed, request, history>>

\* The demonstration member is created once, under the lock of its row, and
\* refused unless active.
DemoSignIn(t) ==
  /\ t \in Unused
  /\ user[Demo] \in {"NONE", "ACTIVE"}
  /\ user' = [user EXCEPT ![Demo] = "ACTIVE"]
  /\ session' = [session EXCEPT ![t] = Opened(Demo)]
  /\ UNCHANGED <<now, challenge, owner, admins, job, handed, request, history>>

\* An error or a lost connection rolls the open transaction back.
Abandon(r) ==
  /\ request[r].phase # "idle"
  /\ request' = [request EXCEPT ![r] = Idle]
  /\ UNCHANGED <<now, rows, handed, history>>

-----------------------------------------------------------------------------
\* find_session: the member a token stands for
Principal(t) ==
  LET s == session[t] IN
  IF s.user # NoUser /\ ~s.revoked /\ s.expires > now /\ user[s.user] = "ACTIVE"
  THEN s.user ELSE NoUser

SignOut(t) ==
  /\ Principal(t) # NoUser
  /\ session' = [session EXCEPT ![t].revoked = TRUE]
  /\ UNCHANGED <<now, challenge, user, owner, admins, job, handed, request, history>>

\* DELETE /me: authentication loads the user row into the request's session ...
AskDeletion(r, t) ==
  /\ request[r].phase = "idle"
  /\ Principal(t) # NoUser
  /\ request' = [request EXCEPT ![r] =
                   [Idle EXCEPT !.phase = "deleting", !.user = Principal(t)]]
  /\ UNCHANGED <<now, rows, handed, history>>

Revoked(u) == [t \in Token |-> IF session[t].user = u
                               THEN [session[t] EXCEPT !.revoked = TRUE]
                               ELSE session[t]]

\* Mutant: the job is left to a later request.
RequestDeletion_NoJob(r) ==
  LET u == request[r].user IN
  /\ request[r].phase = "deleting"
  /\ user' = [user EXCEPT ![u] = "PENDING_DELETION"]
  /\ session' = Revoked(u)
  /\ request' = [request EXCEPT ![r] = Idle]
  /\ UNCHANGED <<now, challenge, owner, admins, job, handed, history>>

\* ... and the status is set from that copy, whatever happened since.
RequestDeletion(r) ==
  LET u == request[r].user IN
  /\ request[r].phase = "deleting"
  /\ user' = [user EXCEPT ![u] = "PENDING_DELETION"]
  /\ session' = Revoked(u)
  /\ job' = [job EXCEPT ![u] = IF @ = "NONE" THEN "PENDING" ELSE @]
  /\ request' = [request EXCEPT ![r] = Idle]
  /\ UNCHANGED <<now, challenge, owner, admins, handed, history>>

-----------------------------------------------------------------------------
(* The work of a deletion job, of any worker.                               *)

TakeDeletion(u) ==
  /\ job[u] = "PENDING"
  /\ handed' = handed \cup {u}
  /\ UNCHANGED <<now, rows, request, history>>

\* The result is applied in one transaction, once for the row, and by whoever
\* took it, whatever became of the row since.
Purge(u) ==
  /\ u \in handed \ purged
  /\ session' = Revoked(u)
  /\ owner' = [i \in Subject |-> IF owner[i] = u THEN NoUser ELSE owner[i]]
  /\ user' = [user EXCEPT ![u] = "DELETED"]
  /\ purged' = purged \cup {u}
  /\ UNCHANGED <<now, challenge, admins, job, handed, request, origin, redeemed, reopened>>

MoveDeletion(u, from, to) ==
  /\ job[u] = from /\ job' = [job EXCEPT ![u] = to]
  /\ UNCHANGED <<now, challenge, user, owner, session, admins, handed, request, history>>

\* What was applied, now or by an earlier operation, completes the row.
FinishDeletion(u) == u \in handed \cap purged /\ MoveDeletion(u, "PENDING", "SUCCEEDED")

\* Failed for good, reaped, cancelled by an administrator or by the switch.
StopDeletion(u) == MoveDeletion(u, "PENDING", "STOPPED")

RetryDeletion(u) == MoveDeletion(u, "STOPPED", "PENDING")

-----------------------------------------------------------------------------
(* Rows of challenges in the hands of administrators and workers.           *)

MoveRow(s, from, to) ==
  /\ challenge[s].status \in from
  /\ challenge' = [challenge EXCEPT ![s].status = to]
  /\ UNCHANGED <<now, user, owner, session, admins, job, handed, request, purged, origin,
                 redeemed>>

\* An administrator may retry a row of any job type.
RetryRow(s) ==
  /\ MoveRow(s, {"CANCELLED", "DEAD"}, "PENDING")
  /\ reopened' = [reopened EXCEPT ![s] = @ + 1]

\* An administrator cancels it, or the switch does: the challenge is as new.
StopRow(s) == MoveRow(s, {"PENDING"}, "CANCELLED") /\ UNCHANGED reopened

\* A worker takes it and has no handler for its type.
RejectRow(s) == MoveRow(s, {"PENDING"}, "DEAD") /\ UNCHANGED reopened

\* Time stops at the bound.
Tick ==
  /\ now' = IF now < MaxNow THEN now + 1 ELSE now
  /\ UNCHANGED <<rows, handed, request, history>>

Next ==
  \/ \E s \in State : \/ StartSignIn(s) \/ RetryRow(s) \/ StopRow(s) \/ RejectRow(s)
                      \/ \E r \in Request : Consume(r, s)
  \/ \E r \in Request, i \in Subject :
       Recognise(r, i) \/ \E u \in User : InsertMember(r, i, u)
  \/ \E r \in Request : FindAdmin(r) \/ Abandon(r) \/ RequestDeletion(r)
  \/ \E r \in Request, t \in Token : RotateSession(r, t) \/ AskDeletion(r, t)
  \/ \E t \in Token : DemoSignIn(t) \/ SignOut(t)
  \/ \E u \in Account : \/ TakeDeletion(u) \/ Purge(u) \/ FinishDeletion(u)
                        \/ StopDeletion(u) \/ RetryDeletion(u)
  \/ Tick

Spec == Init /\ [][Next]_vars

-----------------------------------------------------------------------------
TypeOK ==
  /\ now \in 0 .. MaxNow
  /\ challenge \in [State -> [status: {"NONE", "CANCELLED", "DEAD", "PENDING", "PRUNED"},
                              created: Nat, expires: Nat]]
  /\ user \in [Account -> UserStatus]
  /\ owner \in [Subject -> User \cup {NoUser}]
  /\ session \in [Token -> [user: Account \cup {NoUser}, expires: Nat, revoked: BOOLEAN]]
  /\ admins \in Seq(Admin)
  /\ job \in [Account -> {"NONE", "PENDING", "STOPPED", "SUCCEEDED"}]
  /\ handed \subseteq Account
  /\ request \in [Request -> [phase: Phase, state: State \cup {NoState},
                              subject: Subject \cup {NoSubject},
                              user: Account \cup {NoUser}]]
  /\ purged \subseteq Account
  /\ origin \in [User -> Subject \cup {NoSubject}]
  /\ redeemed \in [State -> Nat]
  /\ reopened \in [State -> Nat]

\* Callbacks that race for a first sign-in create one member: two members of
\* one identity exist only when the earlier one was purged
\* (create_or_get_oauth_user relies on the unique key).
OneMemberPerIdentity ==
  \A u, v \in User :
    u # v /\ origin[u] # NoSubject /\ origin[u] = origin[v] => u \in purged \/ v \in purged

\* The account of an identity leads to the member created for it and never to
\* a purged one, so a person who left can come back as a new member.
AccountLeadsHome ==
  \A i \in Subject : owner[i] # NoUser => origin[owner[i]] = i /\ owner[i] \notin purged

\* A challenge opens one session however often its callback arrives.  What an
\* administrator has tried again can be redeemed once more, one-use state or
\* not (platform.py:180): never more often than that.
RedeemedPerRetry == \A s \in State : redeemed[s] <= 1 + reopened[s]

\* A member marked for deletion is purged already or has a row that will do it,
\* or would if an administrator had it tried again: never none, and never one
\* that is done, also when deletion requests, the worker and what stops its
\* job overlap.
MarkedHasJob ==
  \A u \in Account :
    user[u] = "PENDING_DELETION" => job[u] \in {"PENDING", "STOPPED"} \/ u \in purged

\* Cleaning up never removes a challenge whose callback could still succeed.
LiveChallengeKept ==
  [][\A s \in State : challenge[s].status = "CANCELLED" /\ challenge[s].expires > now
       => challenge'[s].status # "PRUNED"]_vars

\* Signing in again does not undo a deletion, for the demonstration member,
\* whose identifier is fixed, or any other (db/seeds/README.md:87).
DeletionSticks ==
  [][\A u \in Account : user[u] \in {"PENDING_DELETION", "DELETED"}
       => user'[u] \in {"PENDING_DELETION", "DELETED"}]_vars

=============================================================================
