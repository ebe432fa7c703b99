-------------------------- MODULE JobStoreProofs --------------------------
(***************************************************************************)
(* The safety properties of JobStore and its promise to submitters, proved *)
(* for every number of jobs and workers, every attempt budget, lease time, *)
(* back-off, delay and number of renewals.  The invariant is a conjunction of *)
(* facts about one job each: no transaction relates the columns of two     *)
(* different jobs.                                                         *)
(***************************************************************************)
EXTENDS JobStore, FiniteSetTheorems, TLAPS

(* ----------------------------- rows ------------------------------------ *)

LEMMA DelayIsNat == ASSUME NEW d \in Delay PROVE d \in Nat /\ d <= MaxDelay
BY TimeAssumption DEF Delay

\* Timers a transaction writes: due at once, a back-off or a lease.
LEMMA TimerWritten ==
  /\ 0 \in Timer
  /\ \A b \in 0 .. MaxBackoff : b \in Timer
  /\ \A b \in 0 .. MaxBackoff, d \in Delay : b - d \in Timer
  /\ \A d \in Delay : LeaseTime - d \in Timer
BY TimeAssumption, DelayIsNat DEF Timer

LEMMA SaturateType == ASSUME NEW timer \in Timer PROVE Saturate(timer) \in Timer
BY TimeAssumption DEF Timer, Saturate

LEMMA SettledRow ==
  ASSUME NEW row \in JobRow, NEW s \in Status \cup Missing, NEW timer \in Timer
  PROVE  /\ Settled(row, s, timer) \in JobRow
         /\ Settled(row, s, timer).status = s
         /\ Settled(row, s, timer).attempts = row.attempts
         /\ Settled(row, s, timer).max = row.max
         /\ Settled(row, s, timer).owner = NoWorker
         /\ Settled(row, s, timer).timer = timer
BY DEF Settled, JobRow

LEMMA SettledAs ==
  ASSUME NEW row \in JobRow
  PROVE  /\ Settled(row, "RETIRED", 0).status = "RETIRED"
         /\ Settled(row, "PENDING", 0).status = "PENDING"
         /\ Settled(row, "DEAD", 0).status = "DEAD"
         /\ Settled(row, "SUCCEEDED", 0).status = "SUCCEEDED"
         /\ Settled(row, "CANCELLED", 0).status = "CANCELLED"
BY DEF Settled, JobRow

LEMMA ReopenedRow ==
  ASSUME NEW row \in JobRow
  PROVE  /\ Reopened(row) \in JobRow
         /\ Reopened(row).status = "PENDING"
         /\ Reopened(row).attempts = 0
         /\ Reopened(row).max = row.max
<1> DEFINE settled == Settled(row, "PENDING", 0)
<1>1. settled \in JobRow /\ settled.status = "PENDING" /\ settled.max = row.max
  BY SettledRow, TimerWritten DEF Status
<1> HIDE DEF settled
<1>2. Reopened(row) = [settled EXCEPT !.attempts = 0]
  BY DEF Reopened, settled
<1> QED BY <1>1, <1>2 DEF JobRow

LEMMA ExtendedRow ==
  ASSUME NEW row \in JobRow
  PROVE  /\ Extended(row) \in JobRow
         /\ Extended(row).status = "PENDING"
         /\ Extended(row).attempts = row.attempts
         /\ Extended(row).max = row.attempts + MaxAttempts
<1> DEFINE settled == Settled(row, "PENDING", 0)
<1>1. settled \in JobRow /\ settled.status = "PENDING" /\ settled.attempts = row.attempts
  BY SettledRow, TimerWritten DEF Status
<1> HIDE DEF settled
<1>2. Extended(row) = [settled EXCEPT !.max = row.attempts + MaxAttempts]
  BY DEF Extended, settled
<1>3. row.attempts + MaxAttempts \in Nat
  BY AttemptsAssumption DEF JobRow
<1> QED BY <1>1, <1>2, <1>3 DEF JobRow

LEMMA FailStatusType ==
  ASSUME NEW j \in Job, NEW retryable \in BOOLEAN
  PROVE  FailStatus(j, retryable) \in {"FAILED", "DEAD", "PENDING"}
BY DEF FailStatus

(* --------------------------- type invariant ---------------------------- *)

\* Writing a well-typed row for one job keeps the table well-typed.
LEMMA TokenType ==
  ASSUME TypeOK, NEW w \in Worker, NEW j \in Job
  PROVE  NextToken(w, j) \in Token
BY DEF TypeOK, NextToken, Token, JobRow

LEMMA TypeOKInit == Init => TypeOK
<1> SUFFICES ASSUME Init PROVE TypeOK
  OBVIOUS
<1>1. NewRow \in JobRow
  BY TimerWritten DEF NewRow, JobRow, Missing
<1>2. enabled \in BOOLEAN
  BY DEF Init
<1> QED
  BY <1>1, <1>2 DEF Init, TypeOK, RunStatus, CardStatus

LEMMA TypeOKStep == TypeOK /\ [Next]_storeVars => TypeOK'
<1> SUFFICES ASSUME TypeOK, [Next]_storeVars PROVE TypeOK'
  OBVIOUS
<1> USE TimerWritten DEF TypeOK
<1>1. ASSUME NEW j \in Job, ByApi(j) PROVE TypeOK'
  <2>1. ASSUME NEW wait \in 0 .. MaxBackoff, Insert(j, wait)
        PROVE  jobs' \in [Job -> JobRow]
    <3> DEFINE row == [jobs[j] EXCEPT !.status = "PENDING", !.max = MaxAttempts,
                                      !.timer = wait]
    <3>1. row \in JobRow
      BY AttemptsAssumption DEF JobRow, Status
    <3>2. jobs' = [jobs EXCEPT ![j] = row]
      BY <2>1, Zenon DEF Insert
    <3> QED BY <3>1, <3>2
  <2>2. ASSUME NEW wait \in 0 .. MaxBackoff, Enqueue(j, wait) PROVE TypeOK'
    BY <2>1, <2>2 DEF Enqueue, history
  <2>3. CASE ScheduleCrawl(j)
    BY <2>1, <2>3, TimeAssumption DEF ScheduleCrawl, history, RunStatus
  <2>4. CASE CreateShareCard(j)
    BY <2>1, <2>4, TimeAssumption DEF CreateShareCard, history, CardStatus
  <2>5. CASE RequestExport(j)
    BY <2>5, ExtendedRow DEF RequestExport
  <2>6. CASE Retry(j)
    BY <2>6, ReopenedRow DEF Retry, QueueCard, CardStatus
  <2>7. CASE Cancel(j)
    BY <2>7, SettledRow DEF Cancel, history, Status
  <2>8. CASE RetryShareCard(j)
    BY <2>8, ReopenedRow DEF RetryShareCard, CardStatus
  <2>9. CASE RevokeShareCard(j)
    BY <2>9 DEF RevokeShareCard, history, CardStatus
  <2> QED BY <1>1, <2>2, <2>3, <2>4, <2>5, <2>6, <2>7, <2>8, <2>9 DEF ByApi
<1>2. ASSUME NEW j \in Job, Retire(j) PROVE TypeOK'
  BY <1>2, SettledRow DEF Retire, history, Missing
<1>3. ASSUME NEW j \in Job, NEW t \in issued[j], ByToken(j, t) PROVE TypeOK'
  <2>0. t \in Token
    OBVIOUS
  <2>1. ASSUME NEW d \in Delay, Heartbeat(j, t, d) PROVE TypeOK'
    BY <2>1 DEF Heartbeat, history, JobRow
  <2>2. CASE Complete(j, t)
    BY <2>2, SettledRow DEF Complete, history, Status
  <2>3. ASSUME NEW retryable \in BOOLEAN, NEW b \in 0 .. MaxBackoff, NEW d \in Delay,
               Fail(j, t, retryable, b, d)
        PROVE  TypeOK'
    <3> DEFINE s == FailStatus(j, retryable)
               timer == IF s = "PENDING" THEN b - d ELSE 0
    <3>1. s \in {"FAILED", "DEAD", "PENDING"} /\ timer \in Timer
      BY FailStatusType
    <3> HIDE DEF s, timer
    <3>2. jobs' = [jobs EXCEPT ![j] = Settled(@, s, timer)]
      BY <2>3 DEF Fail, s, timer
    <3>3. jobs' \in [Job -> JobRow]
      BY <3>1, <3>2, SettledRow DEF Status
    <3>4. run' \in [Job -> RunStatus] /\ card' \in [Job -> CardStatus]
      BY <2>3 DEF Fail, CloseRun, CloseCard, RunStatus, CardStatus
    <3> QED BY <2>3, <3>3, <3>4 DEF Fail, history
  <2>4. CASE ApplyResult(j, t)
    BY <2>0, <2>4 DEF ApplyResult, RunStatus, CardStatus
  <2> QED BY <1>3, <2>1, <2>2, <2>3, <2>4 DEF ByToken
<1>4. ASSUME NEW w \in Worker, ReleaseLeases(w) PROVE TypeOK'
  BY <1>4, SettledRow DEF ReleaseLeases, history, Status
<1>5. ASSUME NEW w \in Worker, NEW j \in Job, NEW d \in Delay, Claim(w, j, d)
      PROVE  TypeOK'
  <2>1. jobs' \in [Job -> JobRow]
    BY <1>5 DEF Claim, JobRow, Status
  <2>2. issued' \in [Job -> SUBSET Token]
    BY <1>5, TokenType DEF Claim
  <2> QED BY <1>5, <2>1, <2>2 DEF Claim, RunStatus
<1>6. ASSUME NEW d \in Delay, Reap(d) PROVE TypeOK'
  BY <1>6, SettledRow DEF Reap, history, Status, CloseRun, RunStatus
<1>7. CASE Disable
  <2>1. jobs' \in [Job -> JobRow]
    BY <1>7, SettledRow DEF Disable, Status
  <2>2. enabled' \in BOOLEAN
    BY <1>7 DEF Disable
  <2> QED BY <1>7, <2>1, <2>2 DEF Disable, history, RunStatus
<1>8. CASE Enable
  BY <1>8 DEF Enable, rows, history
<1>9. CASE Tick
  BY <1>9, SaturateType DEF Tick, history, JobRow
<1>10. CASE UNCHANGED storeVars
  BY <1>10 DEF storeVars
<1> QED
  BY <1>1, <1>2, <1>3, <1>4, <1>5, <1>6, <1>7, <1>8, <1>9, <1>10 DEF Next

\* Every reachable row of every table has its columns' types.
THEOREM TypeCorrect == Spec => []TypeOK
BY TypeOKInit, TypeOKStep, PTL DEF Spec

(* --------------------------- safety ------------------------------------ *)

\* A set-back of the counter leaves every token of before it behind.
EpochInv(j) ==
  /\ \A t \in issued[j] : t.epoch <= epoch[j]
  /\ reset[j] <= epoch[j]
  /\ requested[j] <= epoch[j]

\* Since the counter was last set back attempts only grew, so a token with the
\* current number of attempts is the one that the current lease was granted with.
FenceInv(j) ==
  /\ \A t \in issued[j] : Counted(j, t) => t.attempt <= jobs[j].attempts
  /\ jobs[j].status = "LEASED" =>
       \A t \in issued[j] :
         Counted(j, t) /\ t.attempt = jobs[j].attempts => t.epoch = epoch[j]

\* Nothing is known of a row before it is inserted, and retention deletes no
\* job that renders a card.
FreshInv(j) ==
  /\ jobs[j].status = "NONE" => receipt[j] = NoToken /\ card[j] = "none"
  /\ jobs[j].status = "RETIRED" => ~Is(j, "render_share_card")
  /\ card[j] # "none" => Is(j, "render_share_card")

OnceInv(j) ==
  jobs[j].status # "RETIRED" => effects[j] = (IF receipt[j] = NoToken THEN 0 ELSE 1)

CurrentInv(j) ==
  Is(j, "export_user") /\ receipt[j] # NoToken =>
    /\ receipt[j].epoch <= epoch[j]
    /\ Counted(j, receipt[j]) => receipt[j].epoch >= requested[j]

ClosedInv(j) ==
  Is(j, "crawl") /\ jobs[j].status \in {"FAILED", "DEAD"}
    => run[j] \notin {"PENDING", "RUNNING"}

VisibleInv(j) ==
  jobs[j].status # "RETIRED" /\ receipt[j] # NoToken =>
    /\ Is(j, "crawl") => run[j] = "SUCCEEDED"
    /\ Is(j, "render_share_card") => card[j] \in {"ready", "revoked"}

RetryableInv(j) == card[j] = "failed" => jobs[j].status \in Stopped

JobInv(j) ==
  /\ EpochInv(j)
  /\ FenceInv(j)
  /\ FreshInv(j)
  /\ OnceInv(j)
  /\ CurrentInv(j)
  /\ ClosedInv(j)
  /\ VisibleInv(j)
  /\ RetryableInv(j)

(* What one transaction does to the columns of a job, i, that count here. *)

LEMMA SettleOne ==
  ASSUME TypeOK, NEW j \in Job, NEW s \in Status \cup Missing, NEW timer \in Timer,
         jobs' = [jobs EXCEPT ![j] = Settled(@, s, timer)],
         NEW i \in Job
  PROVE  /\ jobs'[i].attempts = jobs[i].attempts
         /\ jobs'[i].max = jobs[i].max
         /\ jobs'[i].status = IF i = j THEN s ELSE jobs[i].status
BY SettledRow DEF TypeOK

LEMMA ReopenOne ==
  ASSUME TypeOK, NEW j \in Job, jobs' = [jobs EXCEPT ![j] = Reopened(@)],
         NEW i \in Job
  PROVE  /\ i # j => jobs'[i] = jobs[i]
         /\ i = j => jobs'[i].status = "PENDING" /\ jobs'[i].attempts = 0
         /\ jobs'[i].max = jobs[i].max
BY ReopenedRow DEF TypeOK

LEMMA JobInvStep ==
  ASSUME TypeOK, TypeOK', [Next]_storeVars, NEW i \in Job, JobInv(i)
  PROVE  JobInv(i)'
<1> USE TimerWritten DEF TypeOK, JobInv, EpochInv, FenceInv, FreshInv, OnceInv, CurrentInv,
            ClosedInv, VisibleInv, RetryableInv, Counted, Is
<1>0. /\ epoch[i] \in Nat /\ reset[i] \in Nat /\ requested[i] \in Nat
      /\ jobs[i].attempts \in Nat
      /\ \A t \in issued[i] : t \in Token /\ t.epoch \in Nat /\ t.attempt \in Nat
      /\ receipt[i] # NoToken => receipt[i].epoch \in Nat
  BY DEF JobRow, Token
<1>1. ASSUME NEW j \in Job, ByApi(j) PROVE JobInv(i)'
  <2>2. ASSUME NEW wait \in 0 .. MaxBackoff, Enqueue(j, wait) PROVE JobInv(i)'
    BY <2>2 DEF Enqueue, Insert, history, Stopped
  <2>3. CASE ScheduleCrawl(j)
    BY <2>3 DEF ScheduleCrawl, Insert, history, Stopped
  <2>4. CASE CreateShareCard(j)
    BY <2>4 DEF CreateShareCard, Insert, history, Stopped
  <2>5. CASE RequestExport(j)
    <3>1. CASE i = j
      <4>1. /\ jobs'[i].status = "PENDING" /\ jobs'[i].attempts = jobs[i].attempts
            /\ receipt'[i] = NoToken /\ effects'[i] = 0 /\ issued'[i] = issued[i]
            /\ epoch'[i] = epoch[i] + 1 /\ requested'[i] = epoch[i] + 1
            /\ reset'[i] = reset[i] /\ run'[i] = run[i] /\ card'[i] = card[i]
        BY <2>5, <3>1, ExtendedRow DEF RequestExport
      <4> QED BY <1>0, <2>5, <3>1, <4>1 DEF RequestExport
    <3>2. CASE i # j
      BY <2>5, <3>2 DEF RequestExport
    <3> QED BY <3>1, <3>2
  <2>6. ASSUME jobs' = [jobs EXCEPT ![j] = Reopened(@)],
               epoch' = [epoch EXCEPT ![j] = @ + 1],
               reset' = [reset EXCEPT ![j] = epoch[j] + 1],
               UNCHANGED <<receipt, run, requested, issued, effects>>,
               jobs[i].status \in Stopped, i = j,
               \/ card'[i] = card[i] /\ card[i] # "failed"
               \/ CardRetryable(i) /\ card'[i] = "queued"
        PROVE  JobInv(i)'
    <3>1. /\ jobs'[i].status = "PENDING"
          /\ epoch'[i] = epoch[i] + 1 /\ reset'[i] = epoch[i] + 1
          /\ receipt'[i] = receipt[i] /\ run'[i] = run[i] /\ issued'[i] = issued[i]
          /\ requested'[i] = requested[i] /\ effects'[i] = effects[i]
      BY <2>6, ReopenOne
    <3>2. EpochInv(i)' /\ FenceInv(i)' /\ CurrentInv(i)'
      BY <1>0, <3>1
    <3>3. FreshInv(i)' /\ OnceInv(i)' /\ ClosedInv(i)' /\ VisibleInv(i)' /\ RetryableInv(i)'
      BY <2>6, <3>1 DEF CardRetryable, Stopped
    <3> QED BY <3>2, <3>3
  <2>10. CASE Retry(j)
    <3>1. CASE i = j
      <4>1. \/ card'[i] = card[i] /\ card[i] # "failed"
            \/ CardRetryable(i) /\ card'[i] = "queued"
        BY <2>10, <3>1 DEF Retry, QueueCard, CardRetryable
      <4> QED BY <2>6, <2>10, <3>1, <4>1 DEF Retry
    <3>2. CASE i # j
      BY <2>10, <3>2 DEF Retry
    <3> QED BY <3>1, <3>2
  <2>7. CASE Cancel(j)
    <3>1. /\ jobs'[i].attempts = jobs[i].attempts
          /\ jobs'[i].status = IF i = j THEN "CANCELLED" ELSE jobs[i].status
      BY <2>7, SettleOne DEF Cancel, Status
    <3> QED BY <2>7, <3>1 DEF Cancel, history, Stopped
  <2>8. CASE RetryShareCard(j)
    <3>1. CASE jobs[j].status \in Stopped
      <4>1. /\ jobs' = [jobs EXCEPT ![j] = Reopened(@)]
            /\ card' = [card EXCEPT ![j] = "queued"]
            /\ epoch' = [epoch EXCEPT ![j] = @ + 1]
            /\ reset' = [reset EXCEPT ![j] = epoch[j] + 1]
            /\ UNCHANGED <<receipt, run, requested, issued, effects>>
            /\ CardRetryable(j)
        BY <2>8, <3>1 DEF RetryShareCard, Stopped
      <4>2. CASE i = j
        BY <2>6, <3>1, <4>1, <4>2
      <4>3. CASE i # j
        BY <4>1, <4>3
      <4> QED BY <4>2, <4>3
    <3>2. CASE jobs[j].status \notin Stopped
      BY <2>8, <3>2 DEF RetryShareCard, CardRetryable
    <3> QED BY <3>1, <3>2
  <2>9. CASE RevokeShareCard(j)
    BY <2>9 DEF RevokeShareCard, history
  <2> QED BY <1>1, <2>2, <2>3, <2>4, <2>5, <2>7, <2>8, <2>9, <2>10 DEF ByApi
<1>2. ASSUME NEW j \in Job, Retire(j) PROVE JobInv(i)'
  <2>1. /\ jobs'[i].attempts = jobs[i].attempts
        /\ jobs'[i].status = IF i = j THEN "RETIRED" ELSE jobs[i].status
    BY <1>2, SettleOne DEF Retire, Missing
  <2> QED BY <1>2, <2>1 DEF Retire, Present, history, Missing
<1>3. ASSUME NEW j \in Job, NEW t \in issued[j], ByToken(j, t) PROVE JobInv(i)'
  <2>0. t \in Token /\ t # NoToken
    BY TokenAssumption DEF Token
  <2>1. ASSUME NEW d \in Delay, Heartbeat(j, t, d) PROVE JobInv(i)'
    BY <2>1 DEF Heartbeat, history, JobRow
  <2>2. CASE Complete(j, t)
    <3>1. /\ jobs'[i].attempts = jobs[i].attempts
          /\ jobs'[i].status = IF i = j THEN "SUCCEEDED" ELSE jobs[i].status
      BY <2>2, SettleOne DEF Complete, Status
    <3> QED BY <2>2, <3>1 DEF Complete, Owns, history, Stopped
  <2>3. ASSUME NEW retryable \in BOOLEAN, NEW b \in 0 .. MaxBackoff, NEW d \in Delay,
               Fail(j, t, retryable, b, d)
        PROVE  JobInv(i)'
    <3> DEFINE s == FailStatus(j, retryable)
               timer == IF s = "PENDING" THEN b - d ELSE 0
    <3>1. s \in {"FAILED", "DEAD", "PENDING"} /\ timer \in Timer
      BY FailStatusType
    <3>2. jobs' = [jobs EXCEPT ![j] = Settled(@, s, timer)]
      BY <2>3 DEF Fail
    <3>3. /\ Owns(j, t)
          /\ run' = [run EXCEPT ![j] =
                       IF ~Is(j, "crawl") THEN @
                       ELSE IF s # "PENDING" THEN CloseRun(@)
                       ELSE IF @ = "RUNNING" THEN "PENDING" ELSE @]
          /\ card' = [card EXCEPT ![j] =
                       IF Is(j, "render_share_card") /\ s # "PENDING"
                       THEN CloseCard(@) ELSE @]
          /\ UNCHANGED <<receipt, enabled, history>>
      BY <2>3 DEF Fail
    <3> HIDE DEF s, timer
    <3>4. /\ jobs'[i].attempts = jobs[i].attempts
          /\ jobs'[i].status = IF i = j THEN s ELSE jobs[i].status
      BY <3>1, <3>2, SettleOne DEF Status
    <3> QED BY <3>1, <3>3, <3>4 DEF CloseRun, CloseCard, Owns, history, Stopped
  <2>4. CASE ApplyResult(j, t)
    BY <2>0, <2>4 DEF ApplyResult, MayApply, FirstResult, CardAccepts, Owns, Present, Missing
  <2> QED BY <1>3, <2>1, <2>2, <2>3, <2>4 DEF ByToken
<1>4. ASSUME NEW w \in Worker, ReleaseLeases(w) PROVE JobInv(i)'
  <2>1. jobs'[i] = IF i \in Leased(w) THEN Settled(jobs[i], "PENDING", 0) ELSE jobs[i]
    BY <1>4 DEF ReleaseLeases
  <2>2. /\ jobs'[i].attempts = jobs[i].attempts
        /\ jobs'[i].status = IF i \in Leased(w) THEN "PENDING" ELSE jobs[i].status
    BY <2>1, SettledRow DEF Status
  <2> QED BY <1>4, <2>2 DEF ReleaseLeases, Leased, history, Stopped
<1>5. ASSUME NEW w \in Worker, NEW j \in Job, NEW d \in Delay, Claim(w, j, d)
      PROVE  JobInv(i)'
  <2>1. CASE i = j
    <3>1. /\ jobs[i].status \in {"PENDING", "LEASED"}
          /\ jobs'[i].status = "LEASED" /\ jobs'[i].attempts = jobs[i].attempts + 1
      BY <1>5, <2>1 DEF Claim, Claimable, Due, JobRow
    <3>2. /\ issued'[i] = issued[i] \cup {NextToken(w, i)}
          /\ run'[i] = IF Is(i, "crawl") /\ run[i] = "PENDING" THEN "RUNNING" ELSE run[i]
          /\ UNCHANGED <<receipt, card, epoch, reset, requested, effects>>
      BY <1>5, <2>1 DEF Claim
    <3>3. NextToken(w, i).attempt = jobs[i].attempts + 1 /\ NextToken(w, i).epoch = epoch[i]
      BY DEF NextToken
    <3> HIDE DEF TypeOK
    <3>4. EpochInv(i)'
      BY <1>0, <3>2, <3>3
    <3>5. FenceInv(i)'
      BY <1>0, <3>1, <3>2, <3>3
    <3>6. FreshInv(i)' /\ OnceInv(i)' /\ CurrentInv(i)'
      BY <1>0, <3>1, <3>2
    <3>7. ClosedInv(i)' /\ VisibleInv(i)' /\ RetryableInv(i)'
      BY <3>1, <3>2 DEF Stopped
    <3> QED BY <3>4, <3>5, <3>6, <3>7
  <2>2. CASE i # j
    BY <1>5, <2>2 DEF Claim
  <2> QED BY <2>1, <2>2
<1>6. ASSUME NEW d \in Delay, Reap(d) PROVE JobInv(i)'
  <2>1. jobs'[i] = IF i \in ReapSet(d) THEN Settled(jobs[i], "DEAD", 0) ELSE jobs[i]
    BY <1>6 DEF Reap
  <2>2. /\ jobs'[i].attempts = jobs[i].attempts
        /\ jobs'[i].status = IF i \in ReapSet(d) THEN "DEAD" ELSE jobs[i].status
    BY <2>1, SettledRow DEF Status
  <2> QED BY <1>6, <2>2 DEF Reap, ReapSet, Due, CloseRun, history, Stopped
<1>7. CASE Disable
  <2>1. jobs'[i] = IF jobs[i].status \in {"PENDING", "LEASED"} THEN Settled(jobs[i], "CANCELLED", 0) ELSE jobs[i]
    BY <1>7 DEF Disable
  <2>2. /\ jobs'[i].attempts = jobs[i].attempts
        /\ jobs'[i].status = IF jobs[i].status \in {"PENDING", "LEASED"} THEN "CANCELLED" ELSE jobs[i].status
    BY <2>1, SettledRow DEF Status
  <2> QED BY <1>7, <2>2 DEF Disable, history, Stopped
<1>8. CASE Enable
  BY <1>8 DEF Enable, rows, history
<1>9. CASE Tick
  BY <1>9 DEF Tick, history, JobRow
<1>10. CASE UNCHANGED storeVars
  BY <1>10 DEF storeVars
<1> QED
  BY <1>1, <1>2, <1>3, <1>4, <1>5, <1>6, <1>7, <1>8, <1>9, <1>10 DEF Next

(* ------------------------- the attempt budget -------------------------- *)

BudgetInv(j) ==
  /\ IsFiniteSet(issued[j])
  /\ \A t \in issued[j] : t.epoch <= epoch[j]
  /\ Cardinality(Claims(j)) <= jobs[j].attempts
  /\ jobs[j].attempts <= jobs[j].max
  /\ jobs[j].status = "NONE" => jobs[j].attempts = 0
  /\ jobs[j].status = "DEAD" => Exhausted(j)

\* A transaction that neither claims nor reopens row i leaves its tokens.
LEMMA BudgetKept ==
  ASSUME TypeOK, NEW i \in Job, BudgetInv(i),
         issued'[i] = issued[i], epoch'[i] = epoch[i],
         jobs'[i].attempts = jobs[i].attempts,
         jobs'[i].max = jobs[i].max,
         jobs'[i].status = "NONE" => jobs[i].status = "NONE",
         jobs'[i].status = "DEAD" => jobs[i].status = "DEAD" \/ Exhausted(i)
  PROVE  BudgetInv(i)'
<1>1. Claims(i)' = Claims(i)
  BY DEF Claims
<1> QED BY <1>1 DEF BudgetInv, Exhausted

\* Reopening a row starts a generation that has no tokens yet.
LEMMA BudgetRenewed ==
  ASSUME TypeOK, NEW i \in Job, BudgetInv(i),
         issued'[i] = issued[i], epoch'[i] = epoch[i] + 1,
         jobs'[i].status = "PENDING",
         jobs'[i].attempts \in Nat, jobs'[i].max \in Nat,
         jobs'[i].attempts <= jobs'[i].max
  PROVE  BudgetInv(i)'
<1>1. \A t \in issued[i] : t.epoch \in Nat /\ t.epoch <= epoch[i] /\ epoch[i] \in Nat
  BY DEF TypeOK, BudgetInv, Token
<1>2. Claims(i)' = {}
  BY <1>1 DEF Claims
<1>3. Cardinality(Claims(i)') = 0
  BY <1>2, FS_EmptySet
<1>4. \A t \in issued'[i] : t.epoch <= epoch'[i]
  BY <1>1
<1> QED BY <1>3, <1>4 DEF BudgetInv

LEMMA BudgetClaimed ==
  ASSUME TypeOK, TypeOK', NEW i \in Job, BudgetInv(i),
         NEW w \in Worker, NEW d \in Delay, Claim(w, i, d)
  PROVE  BudgetInv(i)'
<1>1. /\ issued'[i] = issued[i] \cup {NextToken(w, i)}
      /\ epoch' = epoch
      /\ jobs'[i].attempts = jobs[i].attempts + 1
      /\ jobs'[i].max = jobs[i].max
      /\ jobs'[i].status = "LEASED"
      /\ jobs[i].attempts < jobs[i].max
  BY DEF Claim, Claimable, Exhausted, TypeOK, JobRow
<1>2. NextToken(w, i).epoch = epoch[i]
  BY DEF NextToken
<1>3. Claims(i)' = Claims(i) \cup {NextToken(w, i)}
  BY <1>1, <1>2 DEF Claims
<1>4. IsFiniteSet(Claims(i))
  BY FS_Subset DEF Claims, BudgetInv
<1>5. Cardinality(Claims(i)') <= Cardinality(Claims(i)) + 1
  <2>1. Cardinality(Claims(i)) \in Nat
    BY <1>4, FS_CardinalityType
  <2>2. Cardinality(Claims(i) \cup {NextToken(w, i)})
          \in {Cardinality(Claims(i)), Cardinality(Claims(i)) + 1}
    BY <1>4, FS_AddElement, Zenon
  <2> QED BY <1>3, <2>1, <2>2
<1>6. IsFiniteSet(issued'[i])
  BY <1>1, FS_AddElement DEF BudgetInv
<1>7. \A t \in issued'[i] : t.epoch <= epoch'[i]
  BY <1>1, <1>2 DEF BudgetInv, TypeOK
<1>8. /\ Cardinality(Claims(i)) \in Nat
      /\ Cardinality(Claims(i)') \in Nat
      /\ jobs[i].attempts \in Nat /\ jobs[i].max \in Nat
  BY <1>3, <1>4, FS_AddElement, FS_CardinalityType DEF TypeOK, JobRow
<1> QED BY <1>1, <1>5, <1>6, <1>7, <1>8 DEF BudgetInv, Exhausted

LEMMA BudgetStep ==
  ASSUME TypeOK, TypeOK', [Next]_storeVars, NEW i \in Job, BudgetInv(i)
  PROVE  BudgetInv(i)'
<1> USE TimerWritten DEF TypeOK, history
<1>0. jobs[i].attempts \in Nat /\ jobs[i].max \in Nat /\ jobs[i].attempts <= jobs[i].max
  BY DEF BudgetInv, JobRow
<1>1. ASSUME NEW j \in Job, ByApi(j) PROVE BudgetInv(i)'
  <2>1. ASSUME NEW wait \in 0 .. MaxBackoff, Insert(j, wait),
               UNCHANGED <<epoch, issued>>
        PROVE  BudgetInv(i)'
    <3>1. CASE i = j
      <4>1. /\ jobs[i].status = "NONE" /\ jobs'[i].status = "PENDING"
            /\ jobs'[i].attempts = jobs[i].attempts
            /\ jobs'[i].max = MaxAttempts
        BY <2>1, <3>1 DEF Insert, JobRow
      <4>2. Claims(i)' = Claims(i)
        BY <2>1 DEF Claims
      <4> QED BY <1>0, <2>1, <4>1, <4>2, AttemptsAssumption DEF BudgetInv
    <3>2. CASE i # j
      BY <2>1, <3>2, BudgetKept DEF Insert
    <3> QED BY <3>1, <3>2
  <2>2. ASSUME NEW wait \in 0 .. MaxBackoff, Enqueue(j, wait) PROVE BudgetInv(i)'
    BY <2>1, <2>2 DEF Enqueue
  <2>3. CASE ScheduleCrawl(j)
    BY <2>1, <2>3, TimeAssumption DEF ScheduleCrawl
  <2>4. CASE CreateShareCard(j)
    BY <2>1, <2>4, TimeAssumption DEF CreateShareCard
  <2>5. CASE RequestExport(j)
    <3>1. CASE i = j
      <4>1. /\ issued'[i] = issued[i] /\ epoch'[i] = epoch[i] + 1
            /\ jobs'[i].status = "PENDING"
            /\ jobs'[i].attempts = jobs[i].attempts
            /\ jobs'[i].max = jobs[i].attempts + MaxAttempts
        BY <2>5, <3>1, ExtendedRow DEF RequestExport
      <4>2. /\ jobs'[i].attempts \in Nat /\ jobs'[i].max \in Nat
            /\ jobs'[i].attempts <= jobs'[i].max
        BY <1>0, <4>1, AttemptsAssumption
      <4> QED BY <4>1, <4>2, BudgetRenewed
    <3>2. CASE i # j
      BY <2>5, <3>2, BudgetKept DEF RequestExport
    <3> QED BY <3>1, <3>2
  <2>6. ASSUME jobs' = [jobs EXCEPT ![j] = Reopened(@)],
               epoch' = [epoch EXCEPT ![j] = @ + 1], issued' = issued
        PROVE  BudgetInv(i)'
    <3>1. CASE i = j
      <4>1. /\ issued'[i] = issued[i] /\ epoch'[i] = epoch[i] + 1
            /\ jobs'[i].status = "PENDING"
            /\ jobs'[i].attempts = 0
            /\ jobs'[i].max = jobs[i].max
        BY <2>6, <3>1, ReopenOne
      <4> QED BY <1>0, <4>1, BudgetRenewed
    <3>2. CASE i # j
      BY <2>6, <3>2, BudgetKept
    <3> QED BY <3>1, <3>2
  <2>7. CASE Retry(j)
    BY <2>6, <2>7 DEF Retry
  <2>8. CASE RetryShareCard(j)
    <3>1. CASE jobs[j].status \in Stopped
      BY <2>6, <2>8, <3>1 DEF RetryShareCard, CardRetryable, Stopped
    <3>2. CASE jobs[j].status \notin Stopped
      BY <2>8, <3>2, BudgetKept DEF RetryShareCard, CardRetryable
    <3> QED BY <3>1, <3>2
  <2>9. CASE Cancel(j)
    <3>1. /\ jobs'[i].attempts = jobs[i].attempts /\ jobs'[i].max = jobs[i].max
          /\ jobs'[i].status = IF i = j THEN "CANCELLED" ELSE jobs[i].status
      BY <2>9, SettleOne DEF Cancel, Status
    <3> QED BY <2>9, <3>1, BudgetKept DEF Cancel
  <2>10. CASE RevokeShareCard(j)
    BY <2>10, BudgetKept DEF RevokeShareCard
  <2> QED
    BY <1>1, <2>2, <2>3, <2>4, <2>5, <2>7, <2>8, <2>9, <2>10 DEF ByApi
<1>2. ASSUME NEW j \in Job, Retire(j) PROVE BudgetInv(i)'
  <2>1. /\ jobs'[i].attempts = jobs[i].attempts /\ jobs'[i].max = jobs[i].max
        /\ jobs'[i].status = IF i = j THEN "RETIRED" ELSE jobs[i].status
    BY <1>2, SettleOne DEF Retire, Missing
  <2> QED BY <1>2, <2>1, BudgetKept DEF Retire
<1>3. ASSUME NEW j \in Job, NEW t \in issued[j], ByToken(j, t) PROVE BudgetInv(i)'
  <2>1. ASSUME NEW d \in Delay, Heartbeat(j, t, d) PROVE BudgetInv(i)'
    <3>1. jobs'[i].attempts = jobs[i].attempts /\ jobs'[i].max = jobs[i].max
            /\ jobs'[i].status = jobs[i].status
      BY <2>1 DEF Heartbeat, JobRow
    <3> QED BY <2>1, <3>1, BudgetKept DEF Heartbeat
  <2>2. CASE Complete(j, t)
    <3>1. /\ jobs'[i].attempts = jobs[i].attempts /\ jobs'[i].max = jobs[i].max
          /\ jobs'[i].status = IF i = j THEN "SUCCEEDED" ELSE jobs[i].status
      BY <2>2, SettleOne DEF Complete, Status
    <3> QED BY <2>2, <3>1, BudgetKept DEF Complete
  <2>3. ASSUME NEW retryable \in BOOLEAN, NEW b \in 0 .. MaxBackoff, NEW d \in Delay,
               Fail(j, t, retryable, b, d)
        PROVE  BudgetInv(i)'
    <3> DEFINE s == FailStatus(j, retryable)
               timer == IF s = "PENDING" THEN b - d ELSE 0
    <3>1. /\ s \in {"FAILED", "DEAD", "PENDING"} /\ timer \in Timer
          /\ s = "DEAD" => Exhausted(j)
      BY FailStatusType DEF FailStatus
    <3>2. /\ jobs' = [jobs EXCEPT ![j] = Settled(@, s, timer)]
          /\ UNCHANGED <<epoch, issued>>
      BY <2>3 DEF Fail
    <3> HIDE DEF s, timer
    <3>3. /\ jobs'[i].attempts = jobs[i].attempts /\ jobs'[i].max = jobs[i].max
          /\ jobs'[i].status = IF i = j THEN s ELSE jobs[i].status
      BY <3>1, <3>2, SettleOne DEF Status
    <3> QED BY <3>1, <3>2, <3>3, BudgetKept
  <2>4. CASE ApplyResult(j, t)
    BY <2>4, BudgetKept DEF ApplyResult
  <2> QED BY <1>3, <2>1, <2>2, <2>3, <2>4 DEF ByToken
<1>4. ASSUME NEW w \in Worker, ReleaseLeases(w) PROVE BudgetInv(i)'
  <2>1. jobs'[i] = IF i \in Leased(w) THEN Settled(jobs[i], "PENDING", 0) ELSE jobs[i]
    BY <1>4 DEF ReleaseLeases
  <2>2. /\ jobs'[i].attempts = jobs[i].attempts /\ jobs'[i].max = jobs[i].max
        /\ jobs'[i].status \in {jobs[i].status, "PENDING"}
    BY <2>1, SettledRow DEF Status
  <2> QED BY <1>4, <2>2, BudgetKept DEF ReleaseLeases
<1>5. ASSUME NEW w \in Worker, NEW j \in Job, NEW d \in Delay, Claim(w, j, d)
      PROVE  BudgetInv(i)'
  <2>1. CASE i = j
    BY <1>5, <2>1, BudgetClaimed
  <2>2. CASE i # j
    BY <1>5, <2>2, BudgetKept DEF Claim
  <2> QED BY <2>1, <2>2
<1>6. ASSUME NEW d \in Delay, Reap(d) PROVE BudgetInv(i)'
  <2>1. jobs'[i] = IF i \in ReapSet(d) THEN Settled(jobs[i], "DEAD", 0) ELSE jobs[i]
    BY <1>6 DEF Reap
  <2>2. /\ jobs'[i].attempts = jobs[i].attempts /\ jobs'[i].max = jobs[i].max
        /\ jobs'[i].status = IF i \in ReapSet(d) THEN "DEAD" ELSE jobs[i].status
    BY <2>1, SettledRow DEF Status
  <2>3. i \in ReapSet(d) => Exhausted(i)
    BY DEF ReapSet
  <2> QED BY <1>6, <2>2, <2>3, BudgetKept DEF Reap
<1>7. CASE Disable
  <2>1. jobs'[i] = IF jobs[i].status \in {"PENDING", "LEASED"}
                   THEN Settled(jobs[i], "CANCELLED", 0) ELSE jobs[i]
    BY <1>7 DEF Disable
  <2>2. /\ jobs'[i].attempts = jobs[i].attempts /\ jobs'[i].max = jobs[i].max
        /\ jobs'[i].status \in {jobs[i].status, "CANCELLED"}
    BY <2>1, SettledRow DEF Status
  <2> QED BY <1>7, <2>2, BudgetKept DEF Disable
<1>8. CASE Enable
  BY <1>8, BudgetKept DEF Enable, rows
<1>9. CASE Tick
  <2>1. /\ jobs'[i].attempts = jobs[i].attempts /\ jobs'[i].max = jobs[i].max
        /\ jobs'[i].status = jobs[i].status
    BY <1>9 DEF Tick, JobRow
  <2> QED BY <1>9, <2>1, BudgetKept DEF Tick
<1>10. CASE UNCHANGED storeVars
  BY <1>10, BudgetKept DEF storeVars
<1> QED
  BY <1>1, <1>2, <1>3, <1>4, <1>5, <1>6, <1>7, <1>8, <1>9, <1>10 DEF Next

(* ------------------------------ theorems ------------------------------- *)

StoreInv == TypeOK /\ \A j \in Job : JobInv(j) /\ BudgetInv(j)

LEMMA StoreInvInit == Init => StoreInv
<1> SUFFICES ASSUME Init PROVE StoreInv
  OBVIOUS
<1>1. TypeOK
  BY TypeOKInit
<1>2. ASSUME NEW j \in Job
      PROVE  /\ jobs[j].status = "NONE" /\ jobs[j].attempts = 0 /\ jobs[j].max = 0
             /\ receipt[j] = NoToken /\ run[j] = "NONE" /\ card[j] = "none"
             /\ epoch[j] = 0 /\ issued[j] = {} /\ effects[j] = 0
             /\ reset[j] = 0 /\ requested[j] = 0
  BY DEF Init, NewRow
<1>3. ASSUME NEW j \in Job PROVE JobInv(j)
  BY <1>2 DEF JobInv, EpochInv, FenceInv, FreshInv, OnceInv, CurrentInv, ClosedInv,
              VisibleInv, RetryableInv
<1>4. ASSUME NEW j \in Job PROVE BudgetInv(j)
  <2>1. Claims(j) = {}
    BY <1>2 DEF Claims
  <2>2. IsFiniteSet(issued[j]) /\ Cardinality(Claims(j)) = 0
    BY <1>2, <2>1, FS_EmptySet
  <2> QED BY <1>2, <2>2 DEF BudgetInv
<1> QED BY <1>1, <1>3, <1>4 DEF StoreInv

LEMMA StoreInvStep == StoreInv /\ [Next]_storeVars => StoreInv'
<1> SUFFICES ASSUME StoreInv, [Next]_storeVars PROVE StoreInv'
  OBVIOUS
<1>1. TypeOK /\ TypeOK'
  BY TypeOKStep DEF StoreInv
<1>2. ASSUME NEW j \in Job PROVE JobInv(j)' /\ BudgetInv(j)'
  BY <1>1, JobInvStep, BudgetStep DEF StoreInv
<1> QED BY <1>1, <1>2 DEF StoreInv

\* The facts about single jobs hold of every job in every reachable state.
THEOREM StoreInvariant == Spec => []StoreInv
BY StoreInvInit, StoreInvStep, PTL DEF Spec

\* No generation of a job is handed out more often than its budget allows.
THEOREM BudgetTheorem == Spec => []RetryBudgetHeld
<1>1. StoreInv => RetryBudgetHeld
  BY DEF StoreInv, BudgetInv, RetryBudgetHeld
<1> QED BY <1>1, StoreInvariant, PTL

\* A worker from before a row was reopened owns the lease granted after it only
\* if the attempt counter was set back in between; no job type is excluded.
THEOREM FenceTheorem == Spec => []StaleLeaseFenced
<1>1. StoreInv => StaleLeaseFenced
  BY DEF StoreInv, JobInv, FenceInv, StaleLeaseFenced, Owns
<1> QED BY <1>1, StoreInvariant, PTL

\* The domain write of a job happens once per receipt.
THEOREM OnceTheorem == Spec => []EffectOnce
<1>1. StoreInv => EffectOnce
  BY DEF StoreInv, JobInv, OnceInv, EffectOnce, Present, Missing
<1> QED BY <1>1, StoreInvariant, PTL

\* An archive on offer is older than the member's latest request only if an
\* administrator set the attempt counter back after its attempt had begun.
THEOREM CurrentTheorem == Spec => []ExportIsCurrent
<1>1. StoreInv => ExportIsCurrent
  BY DEF StoreInv, JobInv, CurrentInv, ExportIsCurrent
<1> QED BY <1>1, StoreInvariant, PTL

\* A crawl that failed for good leaves no open crawl run.
THEOREM ClosedTheorem == Spec => []FailedCrawlIsClosed
<1>1. StoreInv => FailedCrawlIsClosed
  BY DEF StoreInv, JobInv, ClosedInv, FailedCrawlIsClosed
<1> QED BY <1>1, StoreInvariant, PTL

\* An applied crawl or card is never taken back by a later failure.
THEOREM VisibleTheorem == Spec => []AppliedIsVisible
<1>1. StoreInv => AppliedIsVisible
  BY DEF StoreInv, JobInv, VisibleInv, AppliedIsVisible, Present, Missing
<1> QED BY <1>1, StoreInvariant, PTL

\* A failed card belongs to a job that can be retried.
THEOREM RetryableTheorem == Spec => []FailedCardIsRetryable
<1>1. StoreInv => FailedCardIsRetryable
  BY DEF StoreInv, JobInv, RetryableInv, FailedCardIsRetryable
<1> QED BY <1>1, StoreInvariant, PTL

LEMMA RevokedStep ==
  ASSUME StoreInv, [Next]_storeVars, NEW i \in Job, card[i] = "revoked"
  PROVE  card'[i] = "revoked"
<1>0. TypeOK /\ jobs[i].status # "NONE"
  BY DEF StoreInv, JobInv, FreshInv
<1> USE DEF TypeOK, history
<1>1. ASSUME NEW j \in Job, ByApi(j) PROVE card'[i] = "revoked"
  BY <1>0, <1>1 DEF ByApi, Enqueue, ScheduleCrawl, CreateShareCard, Insert,
     RequestExport, Retry, QueueCard, Cancel, RetryShareCard, CardRetryable, RevokeShareCard
<1>2. ASSUME NEW j \in Job, Retire(j) PROVE card'[i] = "revoked"
  BY <1>2 DEF Retire
<1>3. ASSUME NEW j \in Job, NEW t \in issued[j], ByToken(j, t)
      PROVE  card'[i] = "revoked"
  BY <1>0, <1>3 DEF ByToken, Heartbeat, Complete, Fail, CloseCard, ApplyResult, CardAccepts
<1>4. ASSUME NEW w \in Worker, ReleaseLeases(w) PROVE card'[i] = "revoked"
  BY <1>4 DEF ReleaseLeases
<1>5. ASSUME NEW w \in Worker, NEW j \in Job, NEW d \in Delay, Claim(w, j, d)
      PROVE  card'[i] = "revoked"
  BY <1>5 DEF Claim
<1>6. ASSUME NEW d \in Delay, Reap(d) PROVE card'[i] = "revoked"
  BY <1>6 DEF Reap
<1>7. CASE Disable \/ Enable \/ Tick \/ UNCHANGED storeVars
  BY <1>7 DEF Disable, Enable, Tick, rows, storeVars
<1> QED BY <1>1, <1>2, <1>3, <1>4, <1>5, <1>6, <1>7 DEF Next

\* The withdrawal of a card is final.
THEOREM RevokedTheorem == Spec => RevokedStaysRevoked
<1>1. StoreInv /\ [Next]_storeVars
        => [\A j \in Job : card[j] = "revoked" => card'[j] = "revoked"]_storeVars
  BY RevokedStep
<1> QED BY <1>1, StoreInvariant, PTL DEF Spec, RevokedStaysRevoked

\* Every transaction but a claim.
NoClaim ==
  \/ \E j \in Job : ByApi(j) \/ Retire(j)
  \/ \E j \in Job : \E t \in issued[j] : ByToken(j, t)
  \/ \E w \in Worker : ReleaseLeases(w)
  \/ \E d \in Delay : Reap(d)
  \/ Disable \/ Enable \/ Tick \/ UNCHANGED storeVars

\* Only a claim grants a lease.
LEMMA LeaseNotGranted ==
  ASSUME TypeOK, NoClaim, NEW i \in Job, jobs'[i].status = "LEASED"
  PROVE  /\ jobs[i].status = "LEASED"
         /\ jobs'[i].owner = jobs[i].owner /\ jobs'[i].attempts = jobs[i].attempts
<1> DEFINE Kept == /\ jobs[i].status = "LEASED"
                   /\ jobs'[i].owner = jobs[i].owner /\ jobs'[i].attempts = jobs[i].attempts
<1>0. jobs[i] \in JobRow /\ 0 \in Timer
  BY TimerWritten DEF TypeOK
<1> USE TimerWritten DEF TypeOK
<1>1. ASSUME NEW j \in Job, ByApi(j) PROVE Kept
  <2>1. CASE (\E wait \in 0 .. MaxBackoff : Enqueue(j, wait))
               \/ ScheduleCrawl(j) \/ CreateShareCard(j)
    <3>1. PICK wait \in 0 .. MaxBackoff : Insert(j, wait)
      BY <2>1, TimeAssumption DEF Enqueue, ScheduleCrawl, CreateShareCard
    <3> QED BY <3>1 DEF Insert, JobRow
  <2>2. CASE RequestExport(j)
    BY <2>2, ExtendedRow DEF RequestExport
  <2>3. CASE Retry(j)
    BY <2>3, ReopenOne DEF Retry
  <2>4. CASE Cancel(j)
    <3>1. CASE i = j
      BY <1>0, <2>4, <3>1, SettledAs DEF Cancel
    <3>2. CASE i # j
      BY <2>4, <3>2 DEF Cancel
    <3> QED BY <3>1, <3>2
  <2>5. CASE RetryShareCard(j)
    <3>1. jobs' = jobs \/ jobs' = [jobs EXCEPT ![j] = Reopened(@)]
      BY <2>5 DEF RetryShareCard
    <3> QED BY <3>1, ReopenOne
  <2>6. CASE RevokeShareCard(j)
    BY <2>6 DEF RevokeShareCard
  <2> QED BY <1>1, <2>1, <2>2, <2>3, <2>4, <2>5, <2>6 DEF ByApi
<1>2. ASSUME NEW j \in Job, Retire(j) PROVE Kept
  <2>1. CASE i = j
    <3>1. jobs'[i] = Settled(jobs[i], "RETIRED", 0)
      BY <1>2, <2>1 DEF Retire
    <3>2. Settled(jobs[i], "RETIRED", 0).status = "RETIRED"
      BY <1>0, SettledAs, Zenon
    <3> QED BY <3>1, <3>2
  <2>2. CASE i # j
    BY <1>2, <2>2 DEF Retire
  <2> QED BY <2>1, <2>2
<1>3. ASSUME NEW j \in Job, NEW t \in issued[j], ByToken(j, t) PROVE Kept
  <2>1. ASSUME NEW d \in Delay, Heartbeat(j, t, d) PROVE Kept
    BY <2>1 DEF Heartbeat, JobRow
  <2>2. CASE Complete(j, t)
    <3>1. CASE i = j
      BY <1>0, <2>2, <3>1, SettledAs DEF Complete
    <3>2. CASE i # j
      BY <2>2, <3>2 DEF Complete
    <3> QED BY <3>1, <3>2
  <2>3. ASSUME NEW retryable \in BOOLEAN, NEW b \in 0 .. MaxBackoff, NEW d \in Delay,
               Fail(j, t, retryable, b, d)
        PROVE  Kept
    <3> DEFINE s == FailStatus(j, retryable)
               timer == IF s = "PENDING" THEN b - d ELSE 0
    <3>1. s \in {"FAILED", "DEAD", "PENDING"} /\ timer \in Timer
      BY FailStatusType
    <3>2. jobs' = [jobs EXCEPT ![j] = Settled(@, s, timer)]
      BY <2>3 DEF Fail
    <3> HIDE DEF s, timer
    <3>3. CASE i = j
      BY <3>1, <3>2, <3>3, SettleOne DEF Status
    <3>4. CASE i # j
      BY <3>2, <3>4
    <3> QED BY <3>3, <3>4
  <2>4. CASE ApplyResult(j, t)
    BY <2>4 DEF ApplyResult
  <2> QED BY <1>3, <2>1, <2>2, <2>3, <2>4 DEF ByToken
<1>4. ASSUME NEW w \in Worker, ReleaseLeases(w) PROVE Kept
  <2>1. jobs'[i] = IF i \in Leased(w) THEN Settled(jobs[i], "PENDING", 0) ELSE jobs[i]
    BY <1>4 DEF ReleaseLeases
  <2>2. Settled(jobs[i], "PENDING", 0).status = "PENDING"
    BY <1>0, SettledAs, Zenon
  <2> QED BY <2>1, <2>2
<1>5. ASSUME NEW d \in Delay, Reap(d) PROVE Kept
  <2>1. jobs'[i] = IF i \in ReapSet(d) THEN Settled(jobs[i], "DEAD", 0) ELSE jobs[i]
    BY <1>5 DEF Reap
  <2>2. Settled(jobs[i], "DEAD", 0).status = "DEAD"
    BY <1>0, SettledAs, Zenon
  <2> QED BY <2>1, <2>2
<1>6. CASE Disable
  BY <1>0, <1>6, SettledAs DEF Disable
<1>7. CASE Tick
  BY <1>7 DEF Tick, JobRow
<1>8. CASE Enable \/ UNCHANGED storeVars
  BY <1>8 DEF Enable, rows, storeVars
<1> QED BY <1>1, <1>2, <1>3, <1>4, <1>5, <1>6, <1>7, <1>8 DEF NoClaim

LEMMA LiveLeaseStep ==
  ASSUME TypeOK, [Next]_storeVars, NEW i \in Job,
         jobs[i].status = "LEASED", jobs[i].timer > 0, jobs'[i].status = "LEASED"
  PROVE  jobs'[i].owner = jobs[i].owner /\ jobs'[i].attempts = jobs[i].attempts
<1>1. CASE NoClaim
  BY <1>1, LeaseNotGranted
<1>2. ASSUME NEW w \in Worker, NEW j \in Job, NEW d \in Delay, Claim(w, j, d)
      PROVE  jobs'[i] = jobs[i]
  <2>1. i # j
    BY <1>2, DelayIsNat DEF Claim, Claimable, Due, TypeOK, JobRow, Timer
  <2> QED BY <1>2, <2>1 DEF Claim, TypeOK
<1> QED BY <1>1, <1>2 DEF Next, NoClaim

\* A lease that has not run out is not handed to anybody else.
THEOREM LiveLeaseTheorem == Spec => LiveLeaseKept
<1>1. TypeOK /\ [Next]_storeVars =>
        [\A j \in Job :
           jobs[j].status = "LEASED" /\ jobs[j].timer > 0 /\ jobs'[j].status = "LEASED"
             => jobs'[j].owner = jobs[j].owner /\ jobs'[j].attempts = jobs[j].attempts
        ]_storeVars
  BY LiveLeaseStep
<1> QED BY <1>1, TypeCorrect, PTL DEF Spec, LiveLeaseKept
=============================================================================
