-------------------------- MODULE MembersProofs --------------------------
(***************************************************************************)
(* The safety properties of SignIn, proved for every number of identities, *)
(* sign-in attempts, requests, members and sessions, every lifetime of     *)
(* challenges and sessions, and whatever administrators, workers and the   *)
(* switch do to the rows; and those of Engagement, for every number of     *)
(* reading sessions and requests, every lifetime, qualifying time and      *)
(* clock.                                                                  *)
(***************************************************************************)
EXTENDS SignIn, Engagement, FiniteSetTheorems, TLAPS

(* ------------------------------ signing in ------------------------------ *)

\* A challenge keeps the lifetime it was given, whatever becomes of its row.
LifetimeInv ==
  \A s \in State : challenge[s].status # "NONE" =>
    challenge[s].expires = challenge[s].created + ChallengeTtl

\* The requests that burnt a challenge and have not opened a session with it.
Bearers(s) == {r \in Request : request[r].state = s}

\* How often it could have been burnt: it was new once, and again whenever an
\* administrator had it tried again.
Burnings(s) ==
  reopened[s] + (IF challenge[s].status \in {"NONE", "CANCELLED", "PENDING"} THEN 0 ELSE 1)

\* The sessions it opened and the requests that may yet open one were each the
\* first to burn it at some time.
BurntInv ==
  \A s \in State :
    /\ IsFiniteSet(Bearers(s))
    /\ redeemed[s] + Cardinality(Bearers(s)) <= Burnings(s)

\* What a request has inserted and not committed is nobody else's: neither the
\* identifier nor, for a member, the identity.
InsertedInv ==
  \A r \in Request : request[r].phase = "inserted" =>
    /\ request[r].user \in User \cup Admin /\ user[request[r].user] = "NONE"
    /\ request[r].user \in User =>
         request[r].subject \in Subject /\ owner[request[r].subject] = NoUser
    /\ \A q \in Request : q # r /\ request[q].phase = "inserted" =>
         /\ request[q].user # request[r].user
         /\ request[r].user \in User => request[q].subject # request[r].subject

\* Whoever asks for a deletion has an account.
DeletingInv ==
  \A r \in Request : request[r].phase = "deleting" =>
    request[r].user \in Account /\ user[request[r].user] # "NONE"

\* Nothing is known of an account before it is created.
AccountInv ==
  \A u \in Account :
    /\ user[u] = "NONE" => job[u] = "NONE" /\ u \notin purged
                            /\ (u \in User => origin[u] = NoSubject)
                            /\ u \notin handed
    /\ job[u] = "SUCCEEDED" => u \in purged
    /\ user[u] = "PENDING_DELETION" => job[u] \in {"PENDING", "STOPPED"} \/ u \in purged

\* The account of an identity leads to the member created for it, and to every
\* such member that was not purged.
HomeInv ==
  /\ AccountLeadsHome
  /\ \A u \in User : origin[u] # NoSubject /\ u \notin purged => owner[origin[u]] = u

RequestRow == [phase: Phase, state: State \cup {NoState},
               subject: Subject \cup {NoSubject}, user: Account \cup {NoUser}]

SignInInv ==
  /\ TypeOK /\ LifetimeInv /\ BurntInv /\ InsertedInv /\ DeletingInv
  /\ AccountInv /\ HomeInv

LEMMA SignInInit == Init => SignInInv
<1>1. Init => BurntInv
  <2> SUFFICES ASSUME Init, NEW s \in State
               PROVE  /\ IsFiniteSet(Bearers(s))
                      /\ redeemed[s] + Cardinality(Bearers(s)) <= Burnings(s)
    BY DEF BurntInv
  <2>1. Bearers(s) = {}
    BY SignInAssumption DEF Init, Bearers, Idle
  <2> QED BY <2>1, FS_EmptySet DEF Init, Burnings, NoChallenge
<1> QED
  BY <1>1, SignInAssumption
     DEF Init, SignInInv, TypeOK, LifetimeInv, InsertedInv, DeletingInv,
         AccountInv, HomeInv, AccountLeadsHome, NoChallenge, NoSession, Idle, Account,
         UserStatus, Phase

\* Nobody gets hold of a challenge, and what is allowed does not shrink.
LEMMA HandsLeft ==
  ASSUME SignInInv, NEW s \in State, Bearers(s)' \subseteq Bearers(s),
         redeemed'[s] = redeemed[s], Burnings(s)' \in Nat, Burnings(s) <= Burnings(s)'
  PROVE  IsFiniteSet(Bearers(s)') /\ redeemed'[s] + Cardinality(Bearers(s)') <= Burnings(s)'
<1>1. /\ IsFiniteSet(Bearers(s)) /\ redeemed[s] \in Nat
      /\ redeemed[s] + Cardinality(Bearers(s)) <= Burnings(s)
  BY DEF SignInInv, BurntInv, TypeOK
<1>2. /\ IsFiniteSet(Bearers(s)') /\ Cardinality(Bearers(s)') <= Cardinality(Bearers(s))
  BY <1>1, FS_Subset
<1>3. Cardinality(Bearers(s)) \in Nat /\ Cardinality(Bearers(s)') \in Nat
  BY <1>1, <1>2, FS_CardinalityType
<1>4. Burnings(s) \in Nat
  BY DEF SignInInv, TypeOK, Burnings
<1> QED BY <1>1, <1>2, <1>3, <1>4

LEMMA BurntKept ==
  ASSUME SignInInv, UNCHANGED <<challenge, redeemed, reopened>>,
         \A r \in Request, s \in State : request'[r].state = s => request[r].state = s
  PROVE  BurntInv'
<1> SUFFICES ASSUME NEW s \in State
             PROVE  /\ IsFiniteSet(Bearers(s)')
                    /\ redeemed'[s] + Cardinality(Bearers(s)') <= Burnings(s)'
  BY DEF BurntInv
<1>1. Bearers(s)' \subseteq Bearers(s)
  BY DEF Bearers
<1>2. Burnings(s)' = Burnings(s) /\ Burnings(s) \in Nat
  BY DEF SignInInv, TypeOK, Burnings
<1> QED BY <1>1, <1>2, HandsLeft

(* ------------------------------- challenges ------------------------------- *)

ChallengeStatus == {"NONE", "CANCELLED", "DEAD", "PENDING", "PRUNED"}
ChallengeRow == [status: ChallengeStatus, created: Nat, expires: Nat]

LEMMA StatusType ==
  ASSUME NEW row \in ChallengeRow, NEW status \in ChallengeStatus
  PROVE  /\ [row EXCEPT !.status = status] \in ChallengeRow
         /\ [row EXCEPT !.status = status].status = status
BY DEF ChallengeRow

LEMMA ChallengeType ==
  ASSUME TypeOK, NEW s \in State, NEW status \in ChallengeStatus,
         challenge' = [challenge EXCEPT ![s].status = status]
  PROVE  /\ challenge' \in [State -> ChallengeRow]
         /\ \A c \in State : c # s => challenge'[c] = challenge[c]
         /\ challenge'[s].status = status
<1>1. challenge \in [State -> ChallengeRow]
  BY DEF TypeOK, ChallengeRow, ChallengeStatus
<1>2. challenge' = [challenge EXCEPT ![s] = [challenge[s] EXCEPT !.status = status]]
  OBVIOUS
<1>3. /\ [challenge[s] EXCEPT !.status = status] \in ChallengeRow
      /\ [challenge[s] EXCEPT !.status = status].status = status
  BY <1>1, StatusType
<1> QED BY <1>1, <1>2, <1>3

LEMMA StartStep ==
  ASSUME SignInInv, NEW s \in State, StartSignIn(s) PROVE SignInInv'
<1>1. PICK gone \in {{}, Stale} :
        challenge' = [c \in State |->
          IF c = s THEN [status |-> "CANCELLED", created |-> now,
                         expires |-> now + ChallengeTtl]
          ELSE IF c \in gone THEN [challenge[c] EXCEPT !.status = "PRUNED"]
          ELSE challenge[c]]
  BY DEF StartSignIn
<1>2. \A c \in State : challenge[c].status \notin {"NONE", "CANCELLED"} =>
        challenge'[c] = challenge[c]
  BY <1>1 DEF StartSignIn, Stale
<1>3. TypeOK'
  <2>1. /\ now + ChallengeTtl \in Nat /\ now \in Nat
        /\ challenge \in [State -> ChallengeRow]
    BY SignInAssumption DEF SignInInv, TypeOK, ChallengeRow, ChallengeStatus
  <2>2. [status |-> "CANCELLED", created |-> now, expires |-> now + ChallengeTtl]
          \in ChallengeRow
    BY <2>1 DEF ChallengeRow, ChallengeStatus
  <2>3. \A c \in State : [challenge[c] EXCEPT !.status = "PRUNED"] \in ChallengeRow
    BY <2>1, StatusType DEF ChallengeStatus
  <2>4. challenge' \in [State -> ChallengeRow]
    BY <1>1, <2>1, <2>2, <2>3
  <2> QED BY <2>4 DEF SignInInv, TypeOK, StartSignIn, history, ChallengeRow, ChallengeStatus
<1>4. LifetimeInv'
  <2>1. \A c \in State : c # s =>
          /\ challenge'[c].created = challenge[c].created
          /\ challenge'[c].expires = challenge[c].expires
          /\ challenge'[c].status # "NONE" => challenge[c].status # "NONE"
    BY <1>1 DEF SignInInv, TypeOK, Stale
  <2>2. challenge'[s].expires = challenge'[s].created + ChallengeTtl
    BY <1>1
  <2> QED BY <2>1, <2>2 DEF SignInInv, LifetimeInv
<1>5. BurntInv'
  <2> SUFFICES ASSUME NEW c \in State
               PROVE  /\ IsFiniteSet(Bearers(c)')
                      /\ redeemed'[c] + Cardinality(Bearers(c)') <= Burnings(c)'
    BY DEF BurntInv
  <2>1. challenge[s].status = "NONE" /\ UNCHANGED <<request, redeemed, reopened>>
    BY DEF StartSignIn, history
  <2>2. Bearers(c)' \subseteq Bearers(c)
    BY <2>1 DEF Bearers
  <2>3. challenge'[c].status \in {"NONE", "CANCELLED", "PENDING"} =>
          challenge[c].status \in {"NONE", "CANCELLED", "PENDING"}
    BY <1>2, <2>1
  <2>4. Burnings(c)' \in Nat /\ Burnings(c) <= Burnings(c)'
    BY <2>1, <2>3 DEF SignInInv, TypeOK, Burnings
  <2> QED BY <2>1, <2>2, <2>4, HandsLeft
<1> QED
  BY <1>3, <1>4, <1>5 DEF SignInInv, StartSignIn, history, InsertedInv, DeletingInv,
     AccountInv, HomeInv, AccountLeadsHome

LEMMA ConsumeStep ==
  ASSUME SignInInv, NEW s \in State, NEW r \in Request, Consume(r, s) PROVE SignInInv'
<1> DEFINE held == [Idle EXCEPT !.phase = "exchanging", !.state = s]
<1>1. /\ request' \in {request, [request EXCEPT ![r] = held]}
      /\ challenge' = [challenge EXCEPT ![s].status = "DEAD"]
      /\ challenge[s].status = "CANCELLED" /\ request[r].phase = "idle"
      /\ UNCHANGED <<now, user, owner, session, admins, job, handed, history>>
  BY DEF Consume, Burnt
<1>2. /\ held.phase = "exchanging" /\ held.state = s
      /\ held \in RequestRow
  BY DEF Idle, Phase, RequestRow
<1> HIDE DEF held
<1>3. /\ challenge' \in [State -> ChallengeRow]
      /\ \A c \in State : c # s => challenge'[c] = challenge[c]
      /\ challenge'[s].status = "DEAD"
  BY <1>1, ChallengeType DEF SignInInv, ChallengeStatus
<1>4. TypeOK'
  <2>1. request' \in [Request -> RequestRow]
    BY <1>1, <1>2 DEF SignInInv, TypeOK, RequestRow
  <2> QED BY <1>1, <1>3, <2>1
          DEF SignInInv, TypeOK, history, ChallengeRow, ChallengeStatus, RequestRow
<1>5. /\ \A p \in Request : p # r => request'[p] = request[p]
      /\ request'[r] \in {request[r], held}
  BY <1>1 DEF SignInInv, TypeOK
<1>6. LifetimeInv' /\ BurntInv'
  <2>1. LifetimeInv'
    <3>1. /\ challenge'[s].created = challenge[s].created
          /\ challenge'[s].expires = challenge[s].expires
      BY <1>1 DEF SignInInv, TypeOK
    <3> QED BY <1>1, <1>3, <3>1 DEF SignInInv, LifetimeInv
  <2>2. UNCHANGED <<redeemed, reopened>>
    BY <1>1 DEF history
  <2> SUFFICES ASSUME NEW c \in State
               PROVE  /\ IsFiniteSet(Bearers(c)')
                      /\ redeemed'[c] + Cardinality(Bearers(c)') <= Burnings(c)'
    BY <2>1 DEF BurntInv
  <2>3. CASE c # s
    <3>1. Bearers(c)' \subseteq Bearers(c)
      BY <1>2, <1>5, <2>3 DEF Bearers
    <3>2. Burnings(c)' \in Nat /\ Burnings(c) <= Burnings(c)'
      BY <1>3, <2>2, <2>3 DEF SignInInv, TypeOK, Burnings
    <3> QED BY <2>2, <3>1, <3>2, HandsLeft
  <2>4. CASE c = s
    <3>1. Bearers(s)' \in SUBSET (Bearers(s) \cup {r})
      BY <1>5 DEF Bearers
    <3>2. /\ IsFiniteSet(Bearers(s)) /\ redeemed[s] \in Nat /\ reopened[s] \in Nat
          /\ redeemed[s] + Cardinality(Bearers(s)) <= reopened[s]
      BY <1>1 DEF SignInInv, BurntInv, TypeOK, Burnings
    <3>3. /\ IsFiniteSet(Bearers(s) \cup {r}) /\ Cardinality(Bearers(s)) \in Nat
          /\ \/ Cardinality(Bearers(s) \cup {r}) = Cardinality(Bearers(s))
             \/ Cardinality(Bearers(s) \cup {r}) = Cardinality(Bearers(s)) + 1
      BY <3>2, FS_AddElement, FS_CardinalityType
    <3>4. /\ IsFiniteSet(Bearers(s)')
          /\ Cardinality(Bearers(s)') <= Cardinality(Bearers(s) \cup {r})
      BY <3>1, <3>3, FS_Subset
    <3>5. Cardinality(Bearers(s)') \in Nat
      BY <3>4, FS_CardinalityType
    <3>6. Burnings(s)' = reopened[s] + 1
      BY <1>3, <2>2 DEF Burnings
    <3> QED BY <2>2, <2>4, <3>2, <3>3, <3>4, <3>5, <3>6
  <2> QED BY <2>3, <2>4
<1>7. InsertedInv' /\ DeletingInv'
  BY <1>1, <1>2, <1>5 DEF SignInInv, InsertedInv, DeletingInv
<1> QED
  BY <1>1, <1>4, <1>6, <1>7
     DEF SignInInv, history, AccountInv, HomeInv, AccountLeadsHome

\* A row goes from one status to another, and is allowed no less.
LEMMA MoveRowStep ==
  ASSUME SignInInv, NEW s \in State, NEW from, NEW to \in {"PENDING", "CANCELLED", "DEAD"},
         MoveRow(s, from, to), "NONE" \notin from, reopened' \in [State -> Nat],
         \A c \in State : Burnings(c) <= Burnings(c)'
  PROVE  SignInInv'
<1>1. /\ challenge' \in [State -> ChallengeRow]
      /\ challenge[s].status # "NONE"
      /\ UNCHANGED <<now, user, owner, session, admins, job, handed, request, purged, origin,
                     redeemed>>
  BY ChallengeType DEF SignInInv, MoveRow, ChallengeStatus
<1>2. TypeOK'
  BY <1>1 DEF SignInInv, TypeOK, ChallengeRow, ChallengeStatus, RequestRow
<1>3. LifetimeInv'
  <2>1. \A c \in State : /\ challenge'[c].created = challenge[c].created
                         /\ challenge'[c].expires = challenge[c].expires
                         /\ challenge'[c].status # "NONE" => challenge[c].status # "NONE"
    BY <1>1 DEF SignInInv, TypeOK, MoveRow
  <2> QED BY <2>1 DEF SignInInv, LifetimeInv
<1>4. BurntInv'
  <2>1. ASSUME NEW c \in State
        PROVE  /\ IsFiniteSet(Bearers(c)')
               /\ redeemed'[c] + Cardinality(Bearers(c)') <= Burnings(c)'
    <3>1. Bearers(c)' \subseteq Bearers(c)
      BY <1>1 DEF Bearers
    <3>2. Burnings(c)' \in Nat
      BY <1>2 DEF TypeOK, Burnings
    <3> QED BY <1>1, <3>1, <3>2, HandsLeft
  <2> QED BY <2>1 DEF BurntInv
<1> QED
  BY <1>1, <1>2, <1>3, <1>4 DEF SignInInv, InsertedInv, DeletingInv, AccountInv, HomeInv,
     AccountLeadsHome

LEMMA RowSteps ==
  ASSUME SignInInv, NEW s \in State, RetryRow(s) \/ StopRow(s) \/ RejectRow(s)
  PROVE  SignInInv'
<1>0. reopened \in [State -> Nat] /\ challenge \in [State -> ChallengeRow]
  BY DEF SignInInv, TypeOK, ChallengeRow, ChallengeStatus
<1>1. ASSUME NEW to \in ChallengeStatus, challenge' = [challenge EXCEPT ![s].status = to]
      PROVE  /\ \A c \in State : c # s => challenge'[c] = challenge[c]
             /\ challenge'[s].status = to
  BY <1>1, ChallengeType DEF SignInInv
<1>2. CASE RetryRow(s)
  <2>1. /\ MoveRow(s, {"CANCELLED", "DEAD"}, "PENDING")
        /\ reopened' = [reopened EXCEPT ![s] = @ + 1]
    BY <1>2 DEF RetryRow
  <2>2. /\ reopened' \in [State -> Nat] /\ reopened'[s] = reopened[s] + 1
        /\ \A c \in State : c # s => reopened'[c] = reopened[c]
    BY <1>0, <2>1
  <2>3. \A c \in State : Burnings(c) <= Burnings(c)'
    BY <1>0, <1>1, <2>1, <2>2 DEF MoveRow, Burnings, ChallengeStatus
  <2> QED BY <2>1, <2>2, <2>3, MoveRowStep
<1>3. CASE StopRow(s)
  <2>1. MoveRow(s, {"PENDING"}, "CANCELLED") /\ reopened' = reopened
    BY <1>3 DEF StopRow
  <2>2. \A c \in State : Burnings(c) <= Burnings(c)'
    BY <1>0, <1>1, <2>1 DEF MoveRow, Burnings, ChallengeStatus
  <2> QED BY <1>0, <2>1, <2>2, MoveRowStep
<1>4. CASE RejectRow(s)
  <2>1. MoveRow(s, {"PENDING"}, "DEAD") /\ reopened' = reopened
    BY <1>4 DEF RejectRow
  <2>2. \A c \in State : Burnings(c) <= Burnings(c)'
    BY <1>0, <1>1, <2>1 DEF MoveRow, Burnings, ChallengeStatus
  <2> QED BY <1>0, <2>1, <2>2, MoveRowStep
<1> QED BY <1>2, <1>3, <1>4

(* ------------------------------- requests -------------------------------- *)

\* A request that moves on by itself, without a commit.
LEMMA LocalStep ==
  ASSUME SignInInv, NEW r \in Request, NEW q, request' = [request EXCEPT ![r] = q],
         UNCHANGED <<now, rows, handed, history>>,
         q \in RequestRow,
         q.state \in {request[r].state, NoState},
         q.phase = "deleting" => q.user \in Account /\ user[q.user] # "NONE",
         q.phase = "inserted" =>
           /\ q.user \in User \cup Admin /\ user[q.user] = "NONE" /\ ~Speculative(q.user)
           /\ q.user \in User => /\ q.subject \in Subject /\ owner[q.subject] = NoUser
                                 /\ Inserting(q.subject) = {}
           /\ q.user \in Admin => q.subject = NoSubject
  PROVE  SignInInv'
<1> USE DEF SignInInv
<1>1. TypeOK'
  BY DEF TypeOK, rows, history, RequestRow
<1>2. BurntInv'
  <2>1. \A p \in Request, s \in State : request'[p].state = s => request[p].state = s
    BY SignInAssumption DEF TypeOK
  <2> QED BY <2>1, BurntKept DEF rows, history
<1>3. DeletingInv'
  BY DEF TypeOK, DeletingInv, rows
<1>4. InsertedInv'
  <2>1. \A p \in Request : p # r => request'[p] = request[p]
    BY DEF TypeOK
  <2>2. request'[r] = q
    BY DEF TypeOK
  <2>3. CASE q.phase # "inserted"
    BY <2>1, <2>2, <2>3 DEF InsertedInv, rows
  <2>4. CASE q.phase = "inserted"
    BY <2>1, <2>2, <2>4, SignInAssumption DEF InsertedInv, Speculative, Inserting, rows
  <2> QED BY <2>3, <2>4
<1> QED
  BY <1>1, <1>2, <1>3, <1>4 DEF LifetimeInv, AccountInv, HomeInv, AccountLeadsHome,
     rows, history

LEMMA RequestSteps ==
  ASSUME SignInInv, NEW r \in Request,
         \/ \E i \in Subject : Recognise(r, i) \/ \E u \in User : InsertMember(r, i, u)
         \/ FindAdmin(r) \/ Abandon(r)
         \/ \E t \in Token : AskDeletion(r, t)
  PROVE  SignInInv'
<1>0. /\ request[r] \in RequestRow
      /\ request \in [Request -> RequestRow]
      /\ Idle \in RequestRow
  BY DEF SignInInv, TypeOK, Idle, Phase, RequestRow
<1>1. ASSUME NEW i \in Subject, Recognise(r, i) PROVE SignInInv'
  <2> DEFINE q == [request[r] EXCEPT !.phase = "known", !.subject = i, !.user = owner[i]]
  <2>1. request' = [request EXCEPT ![r] = q] /\ UNCHANGED <<now, rows, handed, history>>
    BY <1>1 DEF Recognise
  <2>2. /\ q \in RequestRow
        /\ q.phase = "known" /\ q.state = request[r].state
    BY <1>0 DEF SignInInv, TypeOK, Phase, Account, RequestRow
  <2> HIDE DEF q
  <2> QED BY <2>1, <2>2, LocalStep
<1>2. ASSUME NEW i \in Subject, NEW u \in User, InsertMember(r, i, u) PROVE SignInInv'
  <2> DEFINE q == [request[r] EXCEPT !.phase = "inserted", !.subject = i, !.user = u]
  <2>1. /\ request' = [request EXCEPT ![r] = q] /\ UNCHANGED <<now, rows, handed, history>>
        /\ user[u] = "NONE" /\ ~Speculative(u) /\ owner[i] = NoUser /\ Inserting(i) = {}
    BY <1>2 DEF InsertMember
  <2>2. /\ q \in RequestRow
        /\ q.phase = "inserted" /\ q.state = request[r].state /\ q.user = u /\ q.subject = i
    BY <1>0 DEF Phase, Account, RequestRow
  <2> HIDE DEF q
  <2> QED BY <2>1, <2>2, LocalStep, SignInAssumption
<1>3. CASE FindAdmin(r)
  <2>1. ASSUME NEW k \in DOMAIN admins,
               request' = [request EXCEPT ![r] = [Idle EXCEPT !.phase = "known",
                                                              !.user = admins[k]]]
        PROVE  SignInInv'
    <3> DEFINE q == [Idle EXCEPT !.phase = "known", !.user = admins[k]]
    <3>1. admins[k] \in Admin
      BY <2>1 DEF SignInInv, TypeOK
    <3>2. /\ q \in RequestRow
          /\ q.phase = "known" /\ q.state = NoState
      BY <3>1 DEF Idle, Phase, Account, RequestRow
    <3>3. request' = [request EXCEPT ![r] = q] /\ UNCHANGED <<now, rows, handed, history>>
      BY <1>3, <2>1 DEF FindAdmin
    <3> HIDE DEF q
    <3> QED BY <3>2, <3>3, LocalStep
  <2>2. ASSUME NEW a \in Admin, user[a] = "NONE", ~Speculative(a),
               request' = [request EXCEPT ![r] = [Idle EXCEPT !.phase = "inserted",
                                                              !.user = a]]
        PROVE  SignInInv'
    <3> DEFINE q == [Idle EXCEPT !.phase = "inserted", !.user = a]
    <3>1. /\ q \in RequestRow
          /\ q.phase = "inserted" /\ q.state = NoState /\ q.user = a
          /\ q.subject = NoSubject
      BY DEF Idle, Phase, Account, RequestRow
    <3>2. request' = [request EXCEPT ![r] = q] /\ UNCHANGED <<now, rows, handed, history>>
      BY <1>3, <2>2 DEF FindAdmin
    <3> HIDE DEF q
    <3> QED BY <2>2, <3>1, <3>2, LocalStep, SignInAssumption
  <2> QED BY <1>3, <2>1, <2>2 DEF FindAdmin
<1>4. CASE Abandon(r)
  BY <1>0, <1>4, LocalStep DEF Abandon, Idle
<1>5. ASSUME NEW t \in Token, AskDeletion(r, t) PROVE SignInInv'
  <2> DEFINE q == [Idle EXCEPT !.phase = "deleting", !.user = Principal(t)]
  <2>1. /\ Principal(t) \in Account /\ user[Principal(t)] = "ACTIVE"
    BY <1>5 DEF AskDeletion, Principal, SignInInv, TypeOK
  <2>2. /\ q \in RequestRow
        /\ q.phase = "deleting" /\ q.state = NoState /\ q.user = Principal(t)
    BY <2>1 DEF Idle, Phase, RequestRow
  <2>3. request' = [request EXCEPT ![r] = q] /\ UNCHANGED <<now, rows, handed, history>>
    BY <1>5 DEF AskDeletion
  <2> HIDE DEF q
  <2> QED BY <2>1, <2>2, <2>3, LocalStep
<1> QED BY <1>1, <1>2, <1>3, <1>4, <1>5

(* -------------------------------- commits --------------------------------- *)

SessionRow == [user: Account \cup {NoUser}, expires: Nat, revoked: BOOLEAN]

LEMMA SessionTypes ==
  ASSUME TypeOK
  PROVE  /\ session \in [Token -> SessionRow]
         /\ \A u \in Account \cup {NoUser} : Opened(u) \in SessionRow
         /\ \A u \in Account : Revoked(u) \in [Token -> SessionRow]
         /\ \A t \in Token : [session EXCEPT ![t].revoked = TRUE] \in [Token -> SessionRow]
<1>1. session \in [Token -> SessionRow] /\ now + SessionTtl \in Nat
  BY SignInAssumption DEF TypeOK, SessionRow
<1>2. \A s \in SessionRow : [s EXCEPT !.revoked = TRUE] \in SessionRow
  BY DEF SessionRow
<1>3. \A t \in Token : [session EXCEPT ![t].revoked = TRUE] \in [Token -> SessionRow]
  BY <1>1, <1>2
<1>4. \A u \in Account : Revoked(u) \in [Token -> SessionRow]
  BY <1>1, <1>2 DEF Revoked
<1>5. \A u \in Account \cup {NoUser} : Opened(u) \in SessionRow
  BY <1>1 DEF Opened, SessionRow
<1> QED BY <1>1, <1>3, <1>4, <1>5

\* What remains when a request has ended.
LEMMA EndedRequest ==
  ASSUME SignInInv, NEW r \in Request, request' = [request EXCEPT ![r] = Idle]
  PROVE  /\ request' \in [Request -> RequestRow]
         /\ \A p \in Request : p # r => request'[p] = request[p]
         /\ request'[r] = Idle /\ Idle.phase = "idle" /\ Idle.state = NoState
BY DEF SignInInv, TypeOK, RequestRow, Idle, Phase

LEMMA RotateStep ==
  ASSUME SignInInv, NEW r \in Request, NEW t \in Token, RotateSession(r, t)
  PROVE  SignInInv'
<1> DEFINE q == request[r]
           u == q.user
<1>0. TypeOK /\ q \in RequestRow /\ q.phase \in {"known", "inserted"}
  BY DEF SignInInv, TypeOK, RequestRow, RotateSession
<1>1. /\ session' = [session EXCEPT ![t] = Opened(u)]
      /\ request' = [request EXCEPT ![r] = Idle]
      /\ redeemed' = Counted(q.state)
      /\ UNCHANGED <<now, challenge, job, handed, purged, reopened>>
  BY DEF RotateSession
<1>2. /\ q.phase = "inserted" =>
           /\ u \in User \cup Admin /\ user[u] = "NONE"
           /\ u \in User => q.subject \in Subject /\ owner[q.subject] = NoUser
           /\ \A p \in Request : p # r /\ request[p].phase = "inserted" =>
                /\ request[p].user # u
                /\ u \in User => request[p].subject # q.subject
      /\ IF q.phase = "inserted"
         THEN /\ user' = [user EXCEPT ![u] = "ACTIVE"]
              /\ IF u \in Admin
                 THEN admins' = Append(admins, u) /\ UNCHANGED <<owner, origin>>
                 ELSE /\ owner' = [owner EXCEPT ![q.subject] = u]
                      /\ origin' = [origin EXCEPT ![u] = q.subject]
                      /\ UNCHANGED admins
         ELSE UNCHANGED <<user, owner, admins, origin>>
  BY DEF RotateSession, SignInInv, InsertedInv
<1> HIDE DEF q, u
<1>3. session' \in [Token -> SessionRow]
  BY <1>0, <1>1, SessionTypes DEF RequestRow, u
<1>4. /\ redeemed' \in [State -> Nat]
      /\ \A c \in State : redeemed'[c] = IF c = q.state THEN redeemed[c] + 1 ELSE redeemed[c]
  BY <1>0, <1>1, SignInAssumption DEF TypeOK, Counted, RequestRow
<1>5. /\ request' \in [Request -> RequestRow]
      /\ \A p \in Request : p # r => request'[p] = request[p]
      /\ request'[r].phase = "idle" /\ request'[r].state = NoState
  BY <1>1, EndedRequest
<1>6. LifetimeInv'
  BY <1>1 DEF SignInInv, LifetimeInv
<1>7. BurntInv'
  <2> SUFFICES ASSUME NEW c \in State
               PROVE  /\ IsFiniteSet(Bearers(c)')
                      /\ redeemed'[c] + Cardinality(Bearers(c)') <= Burnings(c)'
    BY DEF BurntInv
  <2>1. Bearers(c)' = Bearers(c) \ {r}
    BY <1>5, SignInAssumption DEF Bearers
  <2>2. /\ Burnings(c)' = Burnings(c) /\ Burnings(c) \in Nat
        /\ redeemed[c] \in Nat /\ IsFiniteSet(Bearers(c))
        /\ redeemed[c] + Cardinality(Bearers(c)) <= Burnings(c)
    BY <1>0, <1>1 DEF SignInInv, BurntInv, TypeOK, Burnings
  <2>3. CASE c # q.state
    <3>1. /\ Bearers(c)' \subseteq Bearers(c)
          /\ Burnings(c)' \in Nat /\ Burnings(c) <= Burnings(c)'
      BY <2>1, <2>2
    <3>2. redeemed'[c] = redeemed[c]
      BY <1>4, <2>3
    <3> QED BY <3>1, <3>2, HandsLeft
  <2>4. CASE c = q.state
    <3>1. r \in Bearers(c)
      BY <2>4 DEF Bearers, q
    <3>2. /\ IsFiniteSet(Bearers(c)')
          /\ Cardinality(Bearers(c)') = Cardinality(Bearers(c)) - 1
      BY <2>1, <2>2, <3>1, FS_RemoveElement
    <3>3. Cardinality(Bearers(c)) \in Nat
      BY <2>2, FS_CardinalityType
    <3> QED BY <1>4, <2>2, <2>4, <3>2, <3>3
  <2> QED BY <2>3, <2>4
<1>8. CASE q.phase = "known"
  <2>1. UNCHANGED <<user, owner, admins, origin>>
    BY <1>2, <1>8
  <2>2. TypeOK'
    BY <1>0, <1>1, <1>3, <1>4, <1>5, <2>1 DEF TypeOK, SessionRow, RequestRow
  <2>3. InsertedInv' /\ DeletingInv'
    BY <1>5, <2>1 DEF SignInInv, InsertedInv, DeletingInv
  <2> QED BY <1>1, <1>6, <1>7, <2>1, <2>2, <2>3
          DEF SignInInv, AccountInv, HomeInv, AccountLeadsHome
<1>9. CASE q.phase = "inserted" /\ u \in Admin
  <2>1. /\ user' = [user EXCEPT ![u] = "ACTIVE"] /\ admins' = Append(admins, u)
        /\ UNCHANGED <<owner, origin>>
    BY <1>2, <1>9
  <2>2. u \in Account /\ u \notin User
    BY <1>9, SignInAssumption DEF Account
  <2>3. TypeOK'
    <3>1. admins' \in Seq(Admin)
      BY <1>0, <1>9, <2>1 DEF TypeOK
    <3>2. user' \in [Account -> UserStatus]
      BY <1>0, <2>1 DEF TypeOK, UserStatus
    <3> QED BY <1>0, <1>1, <1>3, <1>4, <1>5, <2>1, <3>1, <3>2
            DEF TypeOK, SessionRow, RequestRow
  <2>4. InsertedInv' /\ DeletingInv'
    <3>1. \A v \in Account : v # u => user'[v] = user[v]
      BY <1>0, <2>1 DEF TypeOK
    <3>2. \A p \in Request : request'[p].phase = "inserted" =>
            request'[p] = request[p] /\ request'[p].user # u
      BY <1>2, <1>5, <1>9
    <3>3. InsertedInv'
      BY <1>5, <2>1, <3>1, <3>2 DEF SignInInv, InsertedInv, Account
    <3>4. DeletingInv'
      BY <1>0, <1>5, <2>1, <2>2 DEF SignInInv, DeletingInv, TypeOK
    <3> QED BY <3>3, <3>4
  <2>5. AccountInv'
    BY <1>0, <1>1, <2>1, <2>2 DEF SignInInv, AccountInv, TypeOK
  <2> QED BY <1>1, <1>6, <1>7, <2>1, <2>3, <2>4, <2>5
          DEF SignInInv, HomeInv, AccountLeadsHome
<1>10. CASE q.phase = "inserted" /\ u \notin Admin
  <2>1. /\ u \in User /\ u \in Account /\ user[u] = "NONE"
        /\ q.subject \in Subject /\ owner[q.subject] = NoUser /\ u # NoUser
        /\ origin[u] = NoSubject /\ u \notin purged /\ q.subject # NoSubject
    BY <1>2, <1>10, SignInAssumption DEF SignInInv, AccountInv, Account
  <2>2. /\ user' = [user EXCEPT ![u] = "ACTIVE"]
        /\ owner' = [owner EXCEPT ![q.subject] = u]
        /\ origin' = [origin EXCEPT ![u] = q.subject] /\ UNCHANGED admins
    BY <1>2, <1>10
  <2>3. TypeOK'
    BY <1>0, <1>1, <1>3, <1>4, <1>5, <2>1, <2>2
       DEF TypeOK, SessionRow, RequestRow, UserStatus
  <2>4. InsertedInv' /\ DeletingInv'
    <3>1. /\ \A v \in Account : user'[v] = IF v = u THEN "ACTIVE" ELSE user[v]
          /\ \A i \in Subject : i # q.subject => owner'[i] = owner[i]
      BY <1>0, <2>1, <2>2 DEF TypeOK
    <3>2. InsertedInv'
      <4>1. \A p \in Request : request'[p].phase = "inserted" =>
              /\ request'[p] = request[p] /\ request'[p].user # u
              /\ request'[p].subject # q.subject
        BY <1>2, <1>5, <1>10, <2>1
      <4> QED BY <1>5, <2>1, <3>1, <4>1 DEF SignInInv, InsertedInv, Account
    <3>3. DeletingInv'
      BY <1>5, <3>1 DEF SignInInv, DeletingInv
    <3> QED BY <3>2, <3>3
  <2>5. AccountInv'
    BY <1>0, <1>1, <2>1, <2>2 DEF SignInInv, AccountInv, TypeOK
  <2>6. HomeInv'
    <3>1. \A v \in User : v # u /\ origin[v] = q.subject => v \in purged
      BY <2>1, SignInAssumption DEF SignInInv, HomeInv, Account
    <3>2. \A i \in Subject : owner[i] # u
      BY <2>1, SignInAssumption DEF SignInInv, HomeInv, AccountLeadsHome, TypeOK
    <3> QED BY <1>0, <1>1, <2>1, <2>2, <3>1, <3>2
            DEF SignInInv, HomeInv, AccountLeadsHome, TypeOK
  <2> QED BY <1>6, <1>7, <2>3, <2>4, <2>5, <2>6 DEF SignInInv
<1> QED BY <1>0, <1>8, <1>9, <1>10

\* What an account keeps when its sessions, its status and its job change.
LEMMA SessionStep ==
  ASSUME SignInInv, session' \in [Token -> SessionRow],
         UNCHANGED <<now, challenge, user, owner, admins, job, handed, request, history>>
  PROVE  SignInInv'
<1>1. BurntInv'
  BY BurntKept DEF history
<1> QED
  BY <1>1 DEF SignInInv, TypeOK, LifetimeInv, InsertedInv, DeletingInv, AccountInv,
     HomeInv, AccountLeadsHome, SessionRow, history

LEMMA SignOutStep ==
  ASSUME SignInInv, NEW t \in Token, SignOut(t) PROVE SignInInv'
BY SessionTypes, SessionStep DEF SignOut, SignInInv

LEMMA DemoStep ==
  ASSUME SignInInv, NEW t \in Token, DemoSignIn(t) PROVE SignInInv'
<1>0. TypeOK /\ Demo \in Account /\ Demo \notin User \cup Admin
  BY SignInAssumption DEF SignInInv, Account
<1>1. \A v \in Account : user'[v] = IF v = Demo THEN "ACTIVE" ELSE user[v]
  BY <1>0 DEF DemoSignIn, TypeOK
<1>2. session' \in [Token -> SessionRow] /\ user' \in [Account -> UserStatus]
  BY <1>0, SessionTypes DEF DemoSignIn, TypeOK, UserStatus
<1>3. UNCHANGED <<now, challenge, owner, admins, job, handed, request, history>>
  BY DEF DemoSignIn
<1>4. TypeOK'
  BY <1>0, <1>2, <1>3 DEF TypeOK, SessionRow, history
<1>5. InsertedInv' /\ DeletingInv' /\ AccountInv'
  BY <1>0, <1>1, <1>3 DEF SignInInv, InsertedInv, DeletingInv, AccountInv, Account, history
<1>6. BurntInv'
  BY <1>3, BurntKept DEF history
<1> QED BY <1>3, <1>4, <1>5, <1>6
        DEF SignInInv, LifetimeInv, HomeInv, AccountLeadsHome, history

LEMMA RequestDeletionStep ==
  ASSUME SignInInv, NEW r \in Request, RequestDeletion(r) PROVE SignInInv'
<1> DEFINE u == request[r].user
<1>0. TypeOK /\ u \in Account /\ user[u] # "NONE"
  BY DEF RequestDeletion, SignInInv, DeletingInv
<1>1. /\ user' = [user EXCEPT ![u] = "PENDING_DELETION"]
      /\ session' = Revoked(u) /\ request' = [request EXCEPT ![r] = Idle]
      /\ job' = [job EXCEPT ![u] = IF @ = "NONE" THEN "PENDING" ELSE @]
      /\ UNCHANGED <<now, challenge, owner, admins, handed, history>>
  BY DEF RequestDeletion
<1> HIDE DEF u
<1>2. /\ \A v \in Account : user'[v] = IF v = u THEN "PENDING_DELETION" ELSE user[v]
      /\ user' \in [Account -> UserStatus]
  BY <1>0, <1>1 DEF TypeOK, UserStatus
<1>3. /\ \A v \in Account : job'[v] = IF v = u /\ job[v] = "NONE" THEN "PENDING" ELSE job[v]
      /\ job' \in [Account -> {"NONE", "PENDING", "STOPPED", "SUCCEEDED"}]
  BY <1>0, <1>1 DEF TypeOK
<1>4. /\ request' \in [Request -> RequestRow]
      /\ \A p \in Request :
           \/ request'[p] = request[p]
           \/ request'[p].phase = "idle" /\ request'[p].state = NoState
  BY <1>1, EndedRequest
<1>5. session' \in [Token -> SessionRow]
  BY <1>0, <1>1, SessionTypes
<1>6. TypeOK'
  BY <1>0, <1>1, <1>2, <1>3, <1>4, <1>5 DEF TypeOK, SessionRow, RequestRow, history
<1>7. BurntInv'
  <2>1. \A p \in Request, c \in State : request'[p].state = c => request[p].state = c
    BY <1>4, SignInAssumption
  <2> QED BY <1>1, <2>1, BurntKept DEF history
<1>8. InsertedInv' /\ DeletingInv'
  BY <1>0, <1>1, <1>2, <1>4 DEF SignInInv, InsertedInv, DeletingInv, Account
<1>9. AccountInv'
  <2>1. UNCHANGED <<origin, purged, handed>>
    BY <1>1 DEF history
  <2>2. \A v \in Account : job[v] \in {"NONE", "PENDING", "STOPPED", "SUCCEEDED"}
    BY <1>0 DEF TypeOK
  <2>3. \A v \in Account : v # u => user'[v] = user[v] /\ job'[v] = job[v]
    BY <1>2, <1>3
  <2>4. user'[u] = "PENDING_DELETION" /\ job'[u] = IF job[u] = "NONE" THEN "PENDING" ELSE job[u]
    BY <1>0, <1>2, <1>3
  <2> QED BY <1>0, <2>1, <2>2, <2>3, <2>4 DEF SignInInv, AccountInv
<1> QED BY <1>1, <1>6, <1>7, <1>8, <1>9
        DEF SignInInv, LifetimeInv, HomeInv, AccountLeadsHome, history

LEMMA PurgeStep ==
  ASSUME SignInInv, NEW u \in Account, Purge(u) PROVE SignInInv'
<1>0. TypeOK /\ user[u] # "NONE" /\ u # NoUser
  BY SignInAssumption DEF Purge, SignInInv, AccountInv
<1>1. /\ \A v \in Account : user'[v] = IF v = u THEN "DELETED" ELSE user[v]
      /\ \A i \in Subject : owner'[i] = IF owner[i] = u THEN NoUser ELSE owner[i]
  BY <1>0 DEF Purge, TypeOK
<1>2. /\ purged' = purged \cup {u}
      /\ UNCHANGED <<now, challenge, admins, job, handed, request, origin, redeemed, reopened>>
  BY DEF Purge
<1>3. TypeOK'
  <2>1. session' \in [Token -> SessionRow]
    BY <1>0, SessionTypes DEF Purge
  <2> QED BY <1>0, <1>2, <2>1 DEF Purge, TypeOK, SessionRow, UserStatus
<1>4. InsertedInv' /\ DeletingInv'
  BY <1>0, <1>1, <1>2 DEF SignInInv, InsertedInv, DeletingInv, Account
<1>5. AccountInv'
  BY <1>0, <1>1, <1>2 DEF SignInInv, AccountInv
<1>6. HomeInv'
  BY <1>0, <1>1, <1>2 DEF SignInInv, HomeInv, AccountLeadsHome, TypeOK
<1>7. BurntInv'
  BY <1>2, BurntKept
<1> QED BY <1>2, <1>3, <1>4, <1>5, <1>6, <1>7 DEF SignInInv, LifetimeInv

\* What else happens to the row of a deletion.
LEMMA DeletionRowSteps ==
  ASSUME SignInInv, NEW u \in Account,
         TakeDeletion(u) \/ FinishDeletion(u) \/ StopDeletion(u) \/ RetryDeletion(u)
  PROVE  SignInInv'
<1>0. UNCHANGED <<now, challenge, user, owner, session, admins, request, history>>
  BY DEF TakeDeletion, FinishDeletion, StopDeletion, RetryDeletion, MoveDeletion, rows
<1>1. job[u] \in {"PENDING", "STOPPED"} /\ job \in [Account -> {"NONE", "PENDING", "STOPPED", "SUCCEEDED"}]
  BY DEF SignInInv, TypeOK, TakeDeletion, FinishDeletion, StopDeletion, RetryDeletion, MoveDeletion
<1>2. user[u] # "NONE"
  BY <1>1 DEF SignInInv, AccountInv
<1>3. /\ job' \in [Account -> {"NONE", "PENDING", "STOPPED", "SUCCEEDED"}]
      /\ \A v \in Account : v # u => job'[v] = job[v]
      /\ job'[u] \in {"PENDING", "STOPPED"} \/ (job'[u] = "SUCCEEDED" /\ u \in purged)
      /\ handed' = handed \/ handed' = handed \cup {u}
  BY <1>1 DEF TakeDeletion, FinishDeletion, StopDeletion, RetryDeletion, MoveDeletion, rows
<1>4. AccountInv'
  BY <1>0, <1>2, <1>3 DEF SignInInv, AccountInv, history
<1>5. BurntInv'
  BY <1>0, BurntKept DEF history
<1>6. TypeOK'
  BY <1>0, <1>3 DEF SignInInv, TypeOK, history
<1> QED BY <1>0, <1>4, <1>5, <1>6
        DEF SignInInv, LifetimeInv, InsertedInv, DeletingInv, HomeInv, AccountLeadsHome, history

LEMMA SignInStep == SignInInv /\ [Next]_vars => SignInInv'
<1> SUFFICES ASSUME SignInInv, [Next]_vars PROVE SignInInv'
  OBVIOUS
<1>1. CASE UNCHANGED vars
  <2>1. BurntInv'
    BY <1>1, BurntKept DEF vars, rows, history
  <2> QED BY <1>1, <2>1 DEF vars, rows, history, SignInInv, TypeOK, LifetimeInv, InsertedInv,
          DeletingInv, AccountInv, HomeInv, AccountLeadsHome
<1>2. CASE Tick
  <2>1. now' \in 0 .. MaxNow
    BY <1>2, SignInAssumption DEF Tick, SignInInv, TypeOK
  <2>2. BurntInv'
    BY <1>2, BurntKept DEF Tick, rows, history
  <2> QED BY <1>2, <2>1, <2>2 DEF Tick, rows, history, SignInInv, TypeOK, LifetimeInv,
          InsertedInv, DeletingInv, AccountInv, HomeInv, AccountLeadsHome
<1> QED
  BY <1>1, <1>2, StartStep, RowSteps, ConsumeStep, RequestSteps, RotateStep,
     RequestDeletionStep, DemoStep, SignOutStep, PurgeStep, DeletionRowSteps DEF Next

(* ------------------------------- theorems --------------------------------- *)

\* What has burnt a challenge was the first to since it was new or was tried
\* again, what a request has inserted is nobody else's, and the account of an
\* identity leads to its one member.
THEOREM SignInInvariant == Spec => []SignInInv
BY SignInInit, SignInStep, PTL DEF Spec

\* Two callbacks of one first sign-in make one member.
THEOREM OneMemberTheorem == Spec => []OneMemberPerIdentity
<1>1. SignInInv => OneMemberPerIdentity
  BY DEF SignInInv, HomeInv, OneMemberPerIdentity
<1> QED BY <1>1, SignInInvariant, PTL

\* A challenge opens one session however often its callback arrives, and one
\* more at most for each retry of its row.
THEOREM RedeemedTheorem == Spec => []RedeemedPerRetry
<1>1. SignInInv => RedeemedPerRetry
  <2> SUFFICES ASSUME SignInInv, NEW s \in State PROVE redeemed[s] <= 1 + reopened[s]
    BY DEF RedeemedPerRetry
  <2>1. /\ redeemed[s] \in Nat /\ reopened[s] \in Nat /\ IsFiniteSet(Bearers(s))
        /\ redeemed[s] + Cardinality(Bearers(s)) <= Burnings(s)
    BY DEF SignInInv, TypeOK, BurntInv
  <2>2. Cardinality(Bearers(s)) \in Nat
    BY <2>1, FS_CardinalityType
  <2> QED BY <2>1, <2>2 DEF Burnings
<1> QED BY <1>1, SignInInvariant, PTL

\* A member marked for deletion is purged or has a row that is open, or stopped
\* and may be tried again.
THEOREM MarkedTheorem == Spec => []MarkedHasJob
<1>1. SignInInv => MarkedHasJob
  BY DEF SignInInv, AccountInv, MarkedHasJob
<1> QED BY <1>1, SignInInvariant, PTL

\* Cleaning up leaves the challenges that can still be used.
THEOREM ChallengeTheorem == Spec => LiveChallengeKept
<1>1. SignInInv /\ [Next]_vars =>
        [\A s \in State : challenge[s].status = "CANCELLED" /\ challenge[s].expires > now
           => challenge'[s].status # "PRUNED"]_vars
  <2> SUFFICES ASSUME SignInInv, Next, NEW s \in State,
                      challenge[s].status = "CANCELLED", challenge[s].expires > now
               PROVE  challenge'[s].status # "PRUNED"
    BY DEF vars
  <2>0. /\ challenge \in [State -> ChallengeRow] /\ now \in Nat
        /\ challenge[s].expires = challenge[s].created + ChallengeTtl
    BY SignInAssumption DEF SignInInv, TypeOK, LifetimeInv, ChallengeRow, ChallengeStatus
  <2>1. ASSUME NEW c \in State, StartSignIn(c) PROVE challenge'[s].status # "PRUNED"
    <3>1. s \notin Stale
      BY <2>0, SignInAssumption DEF Stale, ChallengeRow
    <3> QED BY <2>1, <3>1 DEF StartSignIn
  <2>2. ASSUME NEW c \in State, RetryRow(c) \/ StopRow(c) \/ RejectRow(c)
        PROVE  challenge'[s].status # "PRUNED"
    BY <2>0, <2>2 DEF RetryRow, StopRow, RejectRow, MoveRow, ChallengeRow
  <2>3. ASSUME NEW c \in State, NEW r \in Request, Consume(r, c)
        PROVE  challenge'[s].status # "PRUNED"
    BY <2>0, <2>3 DEF Consume, Burnt, ChallengeRow
  <2> QED
    BY <2>1, <2>2, <2>3 DEF Next, Recognise, InsertMember, FindAdmin, Abandon,
       RequestDeletion, RotateSession, AskDeletion, DemoSignIn, SignOut, TakeDeletion, Purge,
       FinishDeletion, StopDeletion, RetryDeletion, MoveDeletion, Tick, rows
<1> QED BY <1>1, SignInInvariant, PTL DEF Spec, LiveChallengeKept

\* Signing in again does not undo a deletion.
THEOREM DeletionTheorem == Spec => DeletionSticks
<1>1. SignInInv /\ [Next]_vars =>
        [\A u \in Account : user[u] \in {"PENDING_DELETION", "DELETED"}
           => user'[u] \in {"PENDING_DELETION", "DELETED"}]_vars
  <2> SUFFICES ASSUME SignInInv, Next, NEW u \in Account,
                      user[u] \in {"PENDING_DELETION", "DELETED"}
               PROVE  user'[u] \in {"PENDING_DELETION", "DELETED"}
    BY DEF vars
  <2>0. user \in [Account -> UserStatus]
    BY DEF SignInInv, TypeOK
  <2>1. ASSUME NEW r \in Request, NEW t \in Token, RotateSession(r, t)
        PROVE  user'[u] = user[u]
    BY <2>0, <2>1 DEF RotateSession, SignInInv, InsertedInv
  <2>2. ASSUME NEW t \in Token, DemoSignIn(t) PROVE user'[u] = user[u]
    BY <2>0, <2>2 DEF DemoSignIn
  <2>3. ASSUME NEW r \in Request, RequestDeletion(r)
        PROVE  user'[u] \in {"PENDING_DELETION", "DELETED"}
    BY <2>0, <2>3 DEF RequestDeletion
  <2>4. ASSUME NEW v \in Account, Purge(v)
        PROVE  user'[u] \in {"PENDING_DELETION", "DELETED"}
    BY <2>0, <2>4 DEF Purge
  <2> QED
    BY <2>1, <2>2, <2>3, <2>4 DEF Next, StartSignIn, RetryRow, StopRow, RejectRow, MoveRow,
       Consume, Recognise, InsertMember, FindAdmin, Abandon, AskDeletion, SignOut,
       TakeDeletion, FinishDeletion, StopDeletion, RetryDeletion, MoveDeletion, Tick, rows
<1> QED BY <1>1, SignInInvariant, PTL DEF Spec, DeletionSticks

(* -------------------------- reading and credits ------------------------- *)

Credited == {s \in Read : credited[s] > 0}

\* The time that the credits of the member took at least.
Earned == Cardinality(Credited) * MinElapsed

Creating(r) == pending[r].phase = "creating"
Returning(r) == pending[r].phase = "returning"

\* Each request has one session, which it shares with no other.
OwnInv ==
  /\ \A r \in MemberRequest, s \in Read : s \in pending[r].read =>
       /\ pending[r].read = {s}
       /\ Creating(r) => read[s].status = "NONE"
       /\ Returning(r) => read[s].status = "OUTBOUND"
       /\ Creating(r) \/ Returning(r)
       /\ \A q \in MemberRequest : s \in pending[q].read => q = r
  /\ \A r, q \in MemberRequest :
       /\ Creating(r) /\ Creating(q) => q = r
       /\ Returning(r) /\ Returning(q) => q = r
       /\ Creating(r) => ~Returning(q)

\* Nothing is usable while a session is being made, and nothing else than the
\* session that is being returned while one is.
UsableInv ==
  /\ \A a, b \in Read : Active(a) /\ Active(b) => a = b
  /\ \A r \in MemberRequest, a \in Read : Active(a) =>
       /\ ~Creating(r)
       /\ Returning(r) => a \in pending[r].read

CreditInv ==
  \A s \in Read : /\ read[s].status = "ELIGIBLE" => credited[s] = 1
                  /\ credited[s] > 0 => /\ credited[s] = 1
                                        /\ read[s].status \in {"ELIGIBLE", "EXPIRED"}

\* A session that can still earn began after all that was earned before.
Late(s) ==
  /\ Earned + Ttl <= read[s].expires
  /\ read[s].status = "OUTBOUND" => read[s].expires <= read[s].outbound + Ttl

PaceInv ==
  /\ IsFiniteSet(Credited) /\ Earned <= clock
  /\ \A s \in Read : Active(s) => Late(s) /\ read[s].expires <= clock + Ttl
  /\ \A r \in MemberRequest :
       /\ Creating(r) => Earned <= pending[r].at /\ pending[r].at <= clock
       /\ Returning(r) => \A s \in pending[r].read :
            Late(s) /\ read[s].outbound + MinElapsed <= clock

PendingRow == [phase: ReadPhase, read: SUBSET Read, at: Nat, consent: BOOLEAN]

EngageInv == EngageTypeOK /\ OwnInv /\ UsableInv /\ CreditInv /\ PaceInv

LEMMA EngageInitial == EngageInit => EngageInv
<1> SUFFICES ASSUME EngageInit PROVE EngageInv
  OBVIOUS
<1>1. EngageTypeOK
  <2>1. NoRow \in ReadRow /\ NoRequest \in PendingRow
    BY DEF NoRow, ReadRow, ReadStatus, NoRequest, PendingRow, ReadPhase
  <2>2. 0 \in 0 .. MaxClock
    BY EngagementAssumption
  <2> QED BY <2>1, <2>2 DEF EngageInit, EngageTypeOK, PendingRow
<1>2. OwnInv /\ UsableInv /\ CreditInv
  BY DEF EngageInit, OwnInv, UsableInv, CreditInv, Creating, Returning, Active, NoRow, NoRequest
<1>3. Credited = {} /\ Earned = 0
  <2>1. Credited = {}
    BY DEF EngageInit, Credited
  <2> QED BY <2>1, FS_EmptySet, EngagementAssumption DEF Earned
<1>4. PaceInv
  BY <1>3, FS_EmptySet DEF EngageInit, PaceInv, Active, NoRow, NoRequest, Creating, Returning
<1> QED BY <1>1, <1>2, <1>4 DEF EngageInv

\* What was earned changes only with the ledger.
LEMMA SameEarned == credited' = credited => Credited' = Credited /\ Earned' = Earned
BY DEF Credited, Earned

LEMMA EarnedType ==
  ASSUME IsFiniteSet(Credited) PROVE Earned \in Nat
BY FS_CardinalityType, EngagementAssumption DEF Earned

(* ------------------------- what an action changes ------------------------ *)

\* A request that begins, moves on or ends touches no other one.
LEMMA PendingStep ==
  ASSUME EngageTypeOK, NEW r \in MemberRequest, NEW q \in PendingRow,
         pending' = [pending EXCEPT ![r] = q]
  PROVE  /\ pending' \in [MemberRequest -> PendingRow]
         /\ pending'[r] = q
         /\ \A p \in MemberRequest : p # r => pending'[p] = pending[p]
BY DEF EngageTypeOK, PendingRow

LEMMA RowStep ==
  ASSUME EngageTypeOK, NEW s \in Read, NEW status \in ReadStatus,
         read' = [read EXCEPT ![s].status = status]
  PROVE  /\ read' \in [Read -> ReadRow]
         /\ \A a \in Read : a # s => read'[a] = read[a]
         /\ read'[s].status = status
         /\ read'[s].expires = read[s].expires
         /\ read'[s].outbound = read[s].outbound
BY DEF EngageTypeOK, ReadRow

\* A request that ends, or asks for no session, leaves the sessions alone.
LEMMA IdleStep ==
  ASSUME EngageInv, NEW r \in MemberRequest, NEW q \in PendingRow,
         pending' = [pending EXCEPT ![r] = q],
         q.phase \notin {"creating", "returning"}, q.read = {},
         consent' \in BOOLEAN, self' \in BOOLEAN, behavioral' \in BOOLEAN,
         UNCHANGED <<clock, read, credited>>
  PROVE  EngageInv'
<1>1. /\ pending' \in [MemberRequest -> PendingRow]
      /\ pending'[r] = q
      /\ \A p \in MemberRequest : p # r => pending'[p] = pending[p]
  BY PendingStep DEF EngageInv
<1>2. EngageTypeOK'
  BY <1>1 DEF EngageInv, EngageTypeOK, PendingRow
<1>3. \A p \in MemberRequest :
        /\ Creating(p)' => Creating(p) /\ p # r
        /\ Returning(p)' => Returning(p) /\ p # r
        /\ pending'[p].read = IF p = r THEN {} ELSE pending[p].read
  BY <1>1 DEF Creating, Returning
<1>4. OwnInv'
  BY <1>1, <1>3 DEF EngageInv, OwnInv, Creating, Returning
<1>5. UsableInv'
  BY <1>3 DEF EngageInv, UsableInv, Active
<1>6. CreditInv'
  BY DEF EngageInv, CreditInv
<1>7. PaceInv'
  BY <1>1, <1>3, SameEarned DEF EngageInv, PaceInv, Active, Late
<1> QED BY <1>2, <1>4, <1>5, <1>6, <1>7 DEF EngageInv

LEMMA QuietSteps ==
  ASSUME EngageInv, NEW r \in MemberRequest,
         BeginQuestionnaire(r) \/ SaveProfile(r) \/ DropRequest(r)
  PROVE  EngageInv'
<1>1. /\ NoRequest \in PendingRow
      /\ NoRequest.phase = "idle" /\ NoRequest.read = {}
  BY DEF NoRequest, PendingRow, ReadPhase
<1>2. consent \in BOOLEAN /\ self \in BOOLEAN /\ behavioral \in BOOLEAN
  BY DEF EngageInv, EngageTypeOK
<1>3. CASE BeginQuestionnaire(r)
  <2> DEFINE q == [NoRequest EXCEPT !.phase = "scoring", !.consent = TRUE]
  <2>1. q \in PendingRow /\ q.phase = "scoring" /\ q.read = {}
    BY DEF NoRequest, PendingRow, ReadPhase
  <2>2. pending' = [pending EXCEPT ![r] = q]
        /\ UNCHANGED <<clock, read, credited, consent, self, behavioral>>
    BY <1>3 DEF BeginQuestionnaire
  <2> HIDE DEF q
  <2> QED BY <1>2, <2>1, <2>2, IdleStep
<1>4. CASE SaveProfile(r)
  BY <1>1, <1>2, <1>4, IdleStep DEF SaveProfile
<1>5. CASE DropRequest(r)
  BY <1>1, <1>2, <1>5, IdleStep DEF DropRequest
<1> QED BY <1>3, <1>4, <1>5

LEMMA ConsentStep ==
  ASSUME EngageInv, NEW granted \in BOOLEAN, SetConsent(granted) PROVE EngageInv'
<1>1. EngageTypeOK'
  BY DEF SetConsent, EngageInv, EngageTypeOK
<1> QED BY <1>1, SameEarned DEF SetConsent, EngageInv, OwnInv, UsableInv, CreditInv, PaceInv,
        Creating, Returning, Active, Late

\* Time only takes usability away.
LEMMA ClockStep ==
  ASSUME EngageInv, ClockTick PROVE EngageInv'
<1>1. /\ clock \in 0 .. MaxClock /\ clock' \in 0 .. MaxClock /\ clock <= clock'
      /\ UNCHANGED <<read, credited, consent, self, behavioral, pending>>
  BY EngagementAssumption DEF ClockTick, EngageInv, EngageTypeOK
<1>2. EngageTypeOK'
  BY <1>1 DEF EngageInv, EngageTypeOK
<1>3. \A s \in Read : Active(s)' => Active(s)
  BY <1>1 DEF Active, EngageInv, EngageTypeOK, ReadRow
<1>4. OwnInv' /\ CreditInv'
  BY <1>1 DEF EngageInv, OwnInv, CreditInv, Creating, Returning
<1>5. UsableInv'
  BY <1>1, <1>3 DEF EngageInv, UsableInv, Creating, Returning
<1>6. PaceInv'
  <2>1. IsFiniteSet(Credited)' /\ Earned' = Earned /\ Earned \in Nat
    BY <1>1, SameEarned, EarnedType DEF EngageInv, PaceInv
  <2>2. Earned' <= clock'
    BY <1>1, <2>1 DEF EngageInv, PaceInv
  <2>3. ASSUME NEW s \in Read, Active(s)' PROVE Late(s)' /\ read'[s].expires <= clock' + Ttl
    <3>1. read[s].expires \in Nat
      BY DEF EngageInv, EngageTypeOK, ReadRow
    <3>2. Late(s) /\ read[s].expires <= clock + Ttl
      BY <1>3, <2>3 DEF EngageInv, PaceInv
    <3> QED BY <1>1, <2>1, <3>1, <3>2, EngagementAssumption DEF Late
  <2>4. ASSUME NEW r \in MemberRequest
        PROVE  /\ Creating(r)' => Earned' <= pending'[r].at /\ pending'[r].at <= clock'
               /\ Returning(r)' => \A s \in pending'[r].read :
                    Late(s)' /\ read'[s].outbound + MinElapsed <= clock'
    <3>1. ASSUME NEW s \in pending[r].read, read[s].outbound + MinElapsed <= clock
          PROVE  read[s].outbound + MinElapsed <= clock'
      <4>1. s \in Read
        BY DEF EngageInv, EngageTypeOK
      <4>2. read[s].outbound \in Nat
        BY <4>1 DEF EngageInv, EngageTypeOK, ReadRow
      <4> QED BY <1>1, <3>1, <4>2, EngagementAssumption
    <3>2. pending[r].at \in Nat /\ (pending[r].at <= clock => pending[r].at <= clock')
      BY <1>1 DEF EngageInv, EngageTypeOK
    <3> QED BY <1>1, <2>1, <3>1, <3>2 DEF EngageInv, PaceInv, Creating, Returning, Late
  <2> QED BY <2>1, <2>2, <2>3, <2>4 DEF PaceInv
<1> QED BY <1>2, <1>4, <1>5, <1>6 DEF EngageInv

(* ---------------------------- the sessions ------------------------------- *)

\* A session that nobody is making or returning changes its status, and does
\* not become usable by it.
LEMMA UnlockedStep ==
  ASSUME EngageInv, NEW s \in Read, read[s].status # "NONE", ~Locked(s),
         read' \in [Read -> ReadRow],
         \A a \in Read : a # s => read'[a] = read[a],
         read'[s].expires = read[s].expires,
         Active(s)' => Active(s) /\ (read'[s].status = "OUTBOUND" =>
                                      read[s].expires <= read'[s].outbound + Ttl),
         read'[s].status = "ELIGIBLE" => credited[s] = 1,
         credited[s] > 0 => read'[s].status \in {"ELIGIBLE", "EXPIRED"},
         UNCHANGED <<clock, credited, consent, self, behavioral, pending>>
  PROVE  EngageInv'
<1>1. EngageTypeOK'
  BY DEF EngageInv, EngageTypeOK
<1>2. \A r \in MemberRequest : s \notin pending[r].read
  BY DEF EngageInv, OwnInv, Locked, Holding, Returning
<1>3. OwnInv'
  BY <1>2 DEF EngageInv, OwnInv, Creating, Returning
<1>4. \A a \in Read : Active(a)' => Active(a)
  BY DEF Active
<1>5. UsableInv'
  BY <1>4 DEF EngageInv, UsableInv, Creating, Returning
<1>6. CreditInv'
  BY DEF EngageInv, CreditInv
<1>7. \A a \in Read : Active(a)' => Late(a)' /\ read'[a].expires <= clock' + Ttl
  <2>1. ASSUME NEW a \in Read, a # s, Active(a)'
        PROVE  Late(a)' /\ read'[a].expires <= clock' + Ttl
    BY <1>4, <2>1, SameEarned DEF EngageInv, PaceInv, Late
  <2>2. ASSUME Active(s)' PROVE Late(s)' /\ read'[s].expires <= clock' + Ttl
    BY <2>2, SameEarned DEF EngageInv, PaceInv, Late
  <2> QED BY <2>1, <2>2
<1>8. PaceInv'
  <2>1. \A r \in MemberRequest : pending[r].read \subseteq Read
    BY DEF EngageInv, EngageTypeOK
  <2> QED BY <1>2, <1>7, <2>1, SameEarned DEF EngageInv, PaceInv, Late, Creating, Returning
<1> QED BY <1>1, <1>3, <1>5, <1>6, <1>8 DEF EngageInv

LEMMA RedirectStep ==
  ASSUME EngageInv, NEW s \in Read, UseRedirect(s) PROVE EngageInv'
<1>1. /\ read[s] \in ReadRow /\ read[s].expires \in Nat /\ clock \in Nat
      /\ read \in [Read -> ReadRow] /\ EngageTypeOK
  BY EngagementAssumption DEF EngageInv, EngageTypeOK, ReadRow
<1>2. /\ read[s].status # "NONE" /\ ~Locked(s)
      /\ UNCHANGED <<clock, credited, consent, self, behavioral, pending>>
  BY DEF UseRedirect
<1>3. CASE read[s].expires <= clock /\ read' = [read EXCEPT ![s].status = "EXPIRED"]
  <2>1. /\ read' \in [Read -> ReadRow]
        /\ \A a \in Read : a # s => read'[a] = read[a]
        /\ read'[s].status = "EXPIRED" /\ read'[s].expires = read[s].expires
    BY <1>1, <1>3, RowStep DEF ReadStatus
  <2> QED BY <1>2, <2>1, UnlockedStep DEF Active
<1>4. CASE /\ read[s].expires > clock /\ read[s].status = "CREATED"
           /\ read' = [read EXCEPT ![s].status = "OUTBOUND", ![s].outbound = clock]
  <2>1. /\ read' \in [Read -> ReadRow]
        /\ \A a \in Read : a # s => read'[a] = read[a]
        /\ read'[s].status = "OUTBOUND" /\ read'[s].expires = read[s].expires
        /\ read'[s].outbound = clock
    BY <1>1, <1>4 DEF ReadRow, ReadStatus
  <2>2. Active(s) /\ ~(credited[s] > 0)
    BY <1>4 DEF Active, EngageInv, CreditInv
  <2>3. read[s].expires <= clock + Ttl
    BY <2>2 DEF EngageInv, PaceInv
  <2> QED BY <1>2, <2>1, <2>2, <2>3, UnlockedStep
<1> QED BY <1>3, <1>4 DEF UseRedirect

LEMMA ReturnIdleStep ==
  ASSUME EngageInv, NEW s \in Read, ReturnIdle(s) PROVE EngageInv'
<1>1. PICK status \in {"EXPIRED", "REJECTED"} :
        /\ read' = [read EXCEPT ![s].status = status]
        /\ status = "REJECTED" => read[s].status = "OUTBOUND"
  BY DEF ReturnIdle, Settle
<1>2. /\ read[s].status \notin {"NONE"} \cup Settled /\ ~Locked(s) /\ EngageTypeOK
      /\ UNCHANGED <<clock, credited, consent, self, behavioral, pending>>
  BY DEF ReturnIdle, Settle, EngageInv
<1>3. /\ read' \in [Read -> ReadRow]
      /\ \A a \in Read : a # s => read'[a] = read[a]
      /\ read'[s].status = status /\ read'[s].expires = read[s].expires
  BY <1>1, <1>2, RowStep DEF ReadStatus
<1>4. credited[s] > 0 => status = "EXPIRED"
  BY <1>1 DEF EngageInv, CreditInv
<1> QED BY <1>2, <1>3, <1>4, UnlockedStep DEF Active

LEMMA BeginReadStep ==
  ASSUME EngageInv, NEW r \in MemberRequest, NEW s \in Read, BeginRead(r, s)
  PROVE  EngageInv'
<1> DEFINE q == [NoRequest EXCEPT !.phase = "creating", !.read = {s}, !.at = clock]
<1>1. /\ pending' = [pending EXCEPT ![r] = q] /\ read[s].status = "NONE"
      /\ \A p \in MemberRequest : ~Creating(p) /\ ~Returning(p) /\ s \notin pending[p].read
      /\ \A a \in Read : ~Active(a)
      /\ UNCHANGED <<clock, read, credited, consent, self, behavioral>>
  BY DEF BeginRead, UserLocked, Holding, Creating, Returning
<1>2. /\ clock \in Nat /\ q \in PendingRow
      /\ q.phase = "creating" /\ q.read = {s} /\ q.at = clock
  <2>1. clock \in Nat
    BY EngagementAssumption DEF EngageInv, EngageTypeOK
  <2> QED BY <2>1 DEF NoRequest, PendingRow, ReadPhase
<1> HIDE DEF q
<1>3. /\ pending' \in [MemberRequest -> PendingRow]
      /\ pending'[r] = q
      /\ \A p \in MemberRequest : p # r => pending'[p] = pending[p]
  BY <1>1, <1>2, PendingStep DEF EngageInv
<1>4. \A p \in MemberRequest : (Creating(p)' <=> p = r) /\ ~Returning(p)'
  BY <1>1, <1>2, <1>3 DEF Creating, Returning
<1>5. EngageTypeOK'
  BY <1>1, <1>3 DEF EngageInv, EngageTypeOK, PendingRow
<1>6. OwnInv'
  BY <1>1, <1>2, <1>3, <1>4 DEF EngageInv, OwnInv
<1>7. UsableInv' /\ CreditInv'
  BY <1>1 DEF EngageInv, UsableInv, CreditInv, Active
<1>8. PaceInv'
  BY <1>1, <1>2, <1>3, <1>4, SameEarned DEF EngageInv, PaceInv, Active
<1> QED BY <1>5, <1>6, <1>7, <1>8 DEF EngageInv

LEMMA ReturnEligibleStep ==
  ASSUME EngageInv, NEW r \in MemberRequest, NEW s \in Read, ReturnEligible(r, s)
  PROVE  EngageInv'
<1> DEFINE q == [phase |-> "returning", read |-> {s}, at |-> clock, consent |-> consent]
<1>1. /\ pending' = [pending EXCEPT ![r] = q] /\ pending[r].phase = "idle"
      /\ read[s].status = "OUTBOUND" /\ Active(s) /\ ~Locked(s) /\ Eligible(s)
      /\ UNCHANGED <<clock, read, credited, consent, self, behavioral>>
  BY DEF ReturnEligible, MayReturn, Active
<1>2. /\ clock \in Nat /\ q \in PendingRow
      /\ q.phase = "returning" /\ q.read = {s} /\ q.at = clock
  BY EngagementAssumption DEF EngageInv, EngageTypeOK, PendingRow, ReadPhase
<1> HIDE DEF q
<1>3. /\ pending' \in [MemberRequest -> PendingRow]
      /\ pending'[r] = q
      /\ \A p \in MemberRequest : p # r => pending'[p] = pending[p]
  BY <1>1, <1>2, PendingStep DEF EngageInv
<1>4. \A p \in MemberRequest : ~Creating(p) /\ ~Returning(p) /\ s \notin pending[p].read
  BY <1>1 DEF EngageInv, OwnInv, UsableInv, Locked, Holding, Returning
<1>5. \A p \in MemberRequest : ~Creating(p)' /\ (Returning(p)' => p = r)
  BY <1>2, <1>3, <1>4 DEF Creating, Returning
<1>6. EngageTypeOK'
  BY <1>1, <1>3 DEF EngageInv, EngageTypeOK, PendingRow
<1>7. OwnInv'
  BY <1>1, <1>2, <1>3, <1>4, <1>5 DEF EngageInv, OwnInv, Creating, Returning
<1>8. UsableInv' /\ CreditInv'
  BY <1>1, <1>2, <1>3, <1>5 DEF EngageInv, UsableInv, CreditInv, Active
<1>9. PaceInv'
  <2>1. Late(s) /\ read[s].outbound + MinElapsed <= clock
    <3>1. clock - read[s].outbound \in MinElapsed .. Ttl /\ read[s].outbound \in Nat
      BY <1>1 DEF Eligible, EngageInv, EngageTypeOK, ReadRow
    <3> QED BY <1>1, <1>2, <3>1, EngagementAssumption DEF EngageInv, PaceInv
  <2> QED BY <1>1, <1>2, <1>3, <1>5, <2>1, SameEarned
          DEF EngageInv, PaceInv, Active, Late
<1> QED BY <1>6, <1>7, <1>8, <1>9 DEF EngageInv

LEMMA CreateReadStep ==
  ASSUME EngageInv, NEW r \in MemberRequest, CreateRead(r) PROVE EngageInv'
<1>0. /\ EngageTypeOK /\ Creating(r) /\ pending[r] \in PendingRow /\ clock \in Nat
      /\ NoRequest \in PendingRow /\ NoRequest.phase = "idle" /\ NoRequest.read = {}
  BY EngagementAssumption DEF EngageInv, EngageTypeOK, CreateRead, Creating, PendingRow,
     NoRequest, ReadPhase
<1>1. /\ pending' \in [MemberRequest -> PendingRow]
      /\ pending'[r].phase = "idle" /\ pending'[r].read = {}
      /\ \A p \in MemberRequest : p # r => pending'[p] = pending[p]
  BY <1>0, PendingStep DEF CreateRead
<1>2. \A p \in MemberRequest :
        /\ ~Creating(p)' /\ ~Returning(p)' /\ ~Returning(p)
        /\ p # r => pending[p].read = {}
  BY <1>0, <1>1 DEF EngageInv, EngageTypeOK, OwnInv, Creating, Returning
<1> DEFINE new == [NoRow EXCEPT !.status = "CREATED", !.expires = pending[r].at + Ttl]
<1>3. /\ new \in ReadRow /\ new.status = "CREATED" /\ new.expires = pending[r].at + Ttl
  <2>1. pending[r].at + Ttl \in Nat
    BY <1>0, EngagementAssumption DEF PendingRow
  <2> QED BY <2>1 DEF NoRow, ReadRow, ReadStatus
<1>4. /\ \A a \in Read : read'[a] = IF a \in pending[r].read THEN new ELSE read[a]
      /\ read' = [a \in Read |-> IF a \in pending[r].read THEN new ELSE read[a]]
      /\ UNCHANGED <<clock, credited, consent, self, behavioral>>
  BY DEF CreateRead
<1> HIDE DEF new
<1>5. EngageTypeOK'
  BY <1>0, <1>1, <1>3, <1>4 DEF EngageTypeOK, PendingRow
<1>6. OwnInv'
  BY <1>1, <1>2 DEF OwnInv
<1>7. \A a \in Read : Active(a)' => a \in pending[r].read
  BY <1>0, <1>4 DEF Active, EngageInv, UsableInv
<1>8. \A a \in pending[r].read : pending[r].read = {a} /\ a \in Read /\ read[a].status = "NONE"
  BY <1>0 DEF EngageInv, OwnInv, PendingRow
<1>9. UsableInv'
  BY <1>2, <1>7, <1>8 DEF UsableInv
<1>10. CreditInv'
  BY <1>3, <1>4, <1>8 DEF EngageInv, CreditInv
<1>11. PaceInv'
  <2>1. Earned <= pending[r].at /\ pending[r].at <= clock /\ pending[r].at \in Nat
        /\ IsFiniteSet(Credited) /\ Earned \in Nat /\ Ttl \in Nat
    BY <1>0, EarnedType, EngagementAssumption DEF EngageInv, PaceInv, PendingRow
  <2>2. ASSUME NEW a \in Read, Active(a)' PROVE Late(a)' /\ read'[a].expires <= clock' + Ttl
    <3>1. read'[a].status = "CREATED" /\ read'[a].expires = pending[r].at + Ttl
      BY <1>3, <1>4, <1>7, <2>2
    <3>2. Earned' = Earned /\ clock' = clock
      BY <1>4, SameEarned
    <3>3. Earned + Ttl <= pending[r].at + Ttl /\ pending[r].at + Ttl <= clock + Ttl
      BY <1>0, <2>1
    <3> QED BY <3>1, <3>2, <3>3 DEF Late
  <2> QED BY <1>2, <1>4, <2>1, <2>2, SameEarned DEF EngageInv, PaceInv
<1> QED BY <1>5, <1>6, <1>9, <1>10, <1>11 DEF EngageInv

LEMMA PostCreditStep ==
  ASSUME EngageInv, NEW r \in MemberRequest, PostCredit(r) PROVE EngageInv'
<1>0. /\ EngageTypeOK /\ Returning(r) /\ pending[r] \in PendingRow /\ clock \in Nat
      /\ NoRequest \in PendingRow /\ NoRequest.phase = "idle" /\ NoRequest.read = {}
  BY EngagementAssumption DEF EngageInv, EngageTypeOK, PostCredit, Returning, PendingRow,
     NoRequest, ReadPhase
<1>1. /\ pending' \in [MemberRequest -> PendingRow]
      /\ pending'[r].phase = "idle" /\ pending'[r].read = {}
      /\ \A p \in MemberRequest : p # r => pending'[p] = pending[p]
  BY <1>0, PendingStep DEF PostCredit
<1>2. \A p \in MemberRequest : ~Creating(p) /\ ~Creating(p)' /\ ~Returning(p)'
  BY <1>0, <1>1 DEF EngageInv, OwnInv, Creating, Returning
<1> DEFINE mine == pending[r].read
<1>3. /\ \A a \in Read : credited'[a] = IF a \in mine THEN credited[a] + 1 ELSE credited[a]
      /\ \A a \in Read : read'[a] = IF a \in mine THEN [read[a] EXCEPT !.status = "ELIGIBLE"]
                                                   ELSE read[a]
      /\ behavioral' = (behavioral \/ pending[r].consent)
      /\ UNCHANGED <<clock, consent, self>>
  BY DEF PostCredit
<1>4. /\ mine \subseteq Read
      /\ \A a \in mine : mine = {a} /\ read[a].status = "OUTBOUND"
      /\ \A a \in mine, p \in MemberRequest : a \in pending[p].read => p = r
  BY <1>0 DEF EngageInv, OwnInv, EngageTypeOK
<1>5. \A a \in Read : read[a] \in ReadRow /\ credited[a] \in Nat
  BY <1>0 DEF EngageTypeOK
<1>6. \A a \in Read :
        /\ read'[a] \in ReadRow /\ credited'[a] \in Nat
        /\ a \in mine => read'[a].status = "ELIGIBLE"
        /\ a \notin mine => read'[a] = read[a] /\ credited'[a] = credited[a]
  <2>1. \A row \in ReadRow : /\ [row EXCEPT !.status = "ELIGIBLE"] \in ReadRow
                            /\ [row EXCEPT !.status = "ELIGIBLE"].status = "ELIGIBLE"
    BY DEF ReadRow, ReadStatus
  <2>2. ASSUME NEW a \in Read, a \in mine
        PROVE  /\ read'[a] \in ReadRow /\ credited'[a] \in Nat
               /\ read'[a].status = "ELIGIBLE"
    <3>1. read'[a] = [read[a] EXCEPT !.status = "ELIGIBLE"] /\ credited'[a] = credited[a] + 1
      BY <1>3, <2>2
    <3> QED BY <1>5, <2>1, <3>1
  <2>3. ASSUME NEW a \in Read, a \notin mine
        PROVE  read'[a] = read[a] /\ credited'[a] = credited[a]
    BY <1>3, <2>3
  <2> QED BY <1>5, <2>2, <2>3
<1>7. EngageTypeOK'
  <2>1. read' \in [Read -> ReadRow] /\ credited' \in [Read -> Nat]
    BY <1>6 DEF PostCredit
  <2>2. behavioral' \in BOOLEAN
    BY <1>0, <1>3 DEF EngageTypeOK, PendingRow
  <2> QED BY <1>0, <1>1, <1>3, <2>1, <2>2 DEF EngageTypeOK, PendingRow
<1> HIDE DEF mine
<1>8. OwnInv'
  <2>1. \A p \in MemberRequest, a \in Read : a \in pending'[p].read =>
          p # r /\ a \in pending[p].read /\ a \notin mine
    BY <1>1, <1>4
  <2> QED BY <1>1, <1>2, <1>6, <2>1 DEF EngageInv, OwnInv, Creating, Returning
<1>9. \A a \in Read : Active(a)' => Active(a) /\ a \notin mine
  BY <1>3, <1>6 DEF Active
<1>10. \A a \in Read : ~Active(a)'
  BY <1>0, <1>9 DEF EngageInv, UsableInv, mine
<1>11. UsableInv'
  BY <1>10 DEF UsableInv
<1>12. CreditInv'
  <2>1. \A a \in mine : credited[a] = 0 /\ credited'[a] = 1
    BY <1>3, <1>4, <1>5 DEF EngageInv, CreditInv
  <2>2. ASSUME NEW a \in Read
        PROVE  /\ read'[a].status = "ELIGIBLE" => credited'[a] = 1
               /\ credited'[a] > 0 => /\ credited'[a] = 1
                                       /\ read'[a].status \in {"ELIGIBLE", "EXPIRED"}
    <3>1. CASE a \in mine
      BY <1>6, <2>1, <3>1
    <3>2. CASE a \notin mine
      BY <1>6, <3>2 DEF EngageInv, CreditInv
    <3> QED BY <3>1, <3>2
  <2> QED BY <2>2 DEF CreditInv
<1>13. IsFiniteSet(Credited)' /\ Earned' <= clock'
  <2>0. IsFiniteSet(Credited) /\ Earned <= clock /\ Earned \in Nat
    BY EarnedType DEF EngageInv, PaceInv
  <2>1. CASE mine = {}
    <3>1. Credited' = Credited
      BY <1>6, <2>1 DEF Credited
    <3> QED BY <1>3, <2>0, <3>1 DEF Earned
  <2>2. ASSUME NEW a \in mine PROVE IsFiniteSet(Credited)' /\ Earned' <= clock'
    <3>1. mine = {a} /\ a \in Read /\ credited[a] = 0 /\ credited'[a] = 1
      BY <1>3, <1>4, <1>5, <2>2 DEF EngageInv, CreditInv
    <3>2. Credited' = Credited \cup {a} /\ a \notin Credited
      BY <1>6, <3>1 DEF Credited
    <3>3. /\ IsFiniteSet(Credited \cup {a})
          /\ Cardinality(Credited \cup {a}) = Cardinality(Credited) + 1
          /\ Cardinality(Credited) \in Nat
      BY <2>0, <3>2, FS_AddElement, FS_CardinalityType
    <3>4. Earned' = Earned + MinElapsed
      BY <3>2, <3>3, EngagementAssumption DEF Earned
    <3>5. /\ Earned + Ttl <= read[a].expires /\ read[a].expires <= read[a].outbound + Ttl
          /\ read[a].outbound + MinElapsed <= clock
          /\ read[a].expires \in Nat /\ read[a].outbound \in Nat
      BY <1>0, <1>4, <1>5, <2>2, <3>1 DEF mine, EngageInv, PaceInv, Late, ReadRow
    <3> QED BY <1>0, <1>3, <2>0, <3>2, <3>3, <3>4, <3>5, EngagementAssumption
  <2> QED BY <2>1, <2>2
<1>14. PaceInv'
  BY <1>2, <1>10, <1>13 DEF PaceInv
<1> QED BY <1>7, <1>8, <1>11, <1>12, <1>14 DEF EngageInv

LEMMA EngageStep == EngageInv /\ [EngageNext]_engageVars => EngageInv'
<1> SUFFICES ASSUME EngageInv, [EngageNext]_engageVars PROVE EngageInv'
  OBVIOUS
<1>1. CASE UNCHANGED engageVars
  BY <1>1, SameEarned DEF engageVars, EngageInv, EngageTypeOK, OwnInv, UsableInv, CreditInv,
     PaceInv, Creating, Returning, Active, Late
<1> QED
  BY <1>1, QuietSteps, ConsentStep, ClockStep, RedirectStep, ReturnIdleStep, BeginReadStep,
     ReturnEligibleStep, CreateReadStep, PostCreditStep DEF EngageNext

(* ------------------------------- theorems --------------------------------- *)

\* A request has its session to itself, one session is usable at a time, a
\* credit is of a session that was returned, and what a member has earned took
\* its time.
THEOREM EngageInvariant == EngageSpec => []EngageInv
BY EngageInitial, EngageStep, PTL DEF EngageSpec

\* A member never has two sessions that are both usable.
THEOREM OneActiveTheorem == EngageSpec => []OneActiveRead
<1>1. EngageInv => OneActiveRead
  <2> SUFFICES ASSUME EngageInv PROVE OneActiveRead
    OBVIOUS
  <2> DEFINE usable == {s \in Read : Active(s)}
  <2>1. CASE usable = {}
    BY <2>1, FS_EmptySet DEF OneActiveRead
  <2>2. ASSUME NEW a \in usable PROVE OneActiveRead
    <3>1. usable = {a}
      BY <2>2 DEF EngageInv, UsableInv
    <3> QED BY <3>1, FS_Singleton DEF OneActiveRead
  <2> QED BY <2>1, <2>2
<1> QED BY <1>1, EngageInvariant, PTL

\* The ledger and the sessions agree.
THEOREM CreditTheorem == EngageSpec => []CreditMatchesRead
<1>1. EngageInv => CreditMatchesRead
  BY DEF EngageInv, CreditInv, CreditMatchesRead
<1> QED BY <1>1, EngageInvariant, PTL

\* Credits are never earned faster than reading takes.
THEOREM PaceTheorem == EngageSpec => []PacedCredits
<1>1. EngageInv => PacedCredits
  BY DEF EngageInv, PaceInv, PacedCredits, Earned, Credited
<1> QED BY <1>1, EngageInvariant, PTL

\* A qualified read stays qualified while its session lasts.
THEOREM QualifiedTheorem == EngageSpec => QualifiedStays
<1>1. EngageInv /\ [EngageNext]_engageVars =>
        [\A s \in Read : read[s].status = "ELIGIBLE" /\ clock < read[s].expires
           => read'[s].status = "ELIGIBLE"]_engageVars
  <2> SUFFICES ASSUME EngageInv, EngageNext, NEW s \in Read,
                      read[s].status = "ELIGIBLE", clock < read[s].expires
               PROVE  read'[s].status = "ELIGIBLE"
    BY DEF engageVars
  <2>0. read \in [Read -> ReadRow] /\ clock \in Nat /\ read[s].expires \in Nat
    BY EngagementAssumption DEF EngageInv, EngageTypeOK, ReadRow
  <2>1. ASSUME NEW r \in MemberRequest, CreateRead(r) \/ PostCredit(r)
        PROVE  read'[s].status = "ELIGIBLE"
    BY <2>0, <2>1 DEF CreateRead, PostCredit, EngageInv, OwnInv, Creating, Returning
  <2>2. ASSUME NEW a \in Read, UseRedirect(a) PROVE read'[s].status = "ELIGIBLE"
    BY <2>0, <2>2 DEF UseRedirect, ReadRow
  <2>3. ASSUME NEW a \in Read, ReturnIdle(a) PROVE read'[s].status = "ELIGIBLE"
    BY <2>0, <2>3 DEF ReturnIdle, Settle, Settled, ReadRow
  <2> QED
    BY <2>1, <2>2, <2>3 DEF EngageNext, BeginQuestionnaire, SaveProfile, DropRequest,
       BeginRead, ReturnEligible, SetConsent, ClockTick
<1> QED BY <1>1, EngageInvariant, PTL DEF EngageSpec, QualifiedStays
=============================================================================
