------------------------------ MODULE JobStore ------------------------------
(***************************************************************************)
(* The durable side of the job pipeline: the tables jobs, job_receipts,    *)
(* crawl_runs, share_cards and runtime_controls, and every transaction     *)
(* that the worker's queue repository, the result applier, the API and the *)
(* retention task run on them.  One action is one database transaction.    *)
(*                                                                         *)
(* Callers are not modelled here: any lease token that a claim ever handed *)
(* out may be presented again at any later time, which covers crashed,     *)
(* paused, duplicated and delayed workers.  WorkerRuntime restricts this   *)
(* to what a worker process really does.                                   *)
(*                                                                         *)
(* Time.  Only differences to the current clock are ever compared, so a    *)
(* row keeps timer = (its deadline - now): for a PENDING row the deadline  *)
(* is available_at, for a LEASED row lease_expires_at (available_at is not *)
(* read in any other status and every way back to PENDING rewrites it).    *)
(* The code reads its clock before it waits for connections and locks; a   *)
(* transaction therefore runs with a moment that is d ticks old, d <=      *)
(* MaxDelay.  Timers saturate at -MaxDelay, below which no test can tell   *)
(* them apart.                                                             *)
(***************************************************************************)
EXTENDS Integers, FiniteSets

CONSTANTS
  Job,            \* identifiers of the rows that may ever be inserted
  Worker,         \* worker process identifiers (lease_owner)
  NoWorker,       \* lease_owner IS NULL
  NoToken,        \* no receipt
  TypeOf,         \* job_type of each job
  MaxAttempts,    \* attempts granted to a new row (and to a new export)
  LeaseTime,      \* lease_seconds, in ticks
  MaxBackoff,     \* longest retry delay, in ticks
  MaxDelay,       \* longest wait between reading the clock and the write
  MaxEpoch        \* bound: how often one row may be reopened

JobType == {"crawl", "render_share_card", "export_user", "analyze"}

ASSUME JobAssumption == TypeOf \in [Job -> JobType]
ASSUME WorkerAssumption == NoWorker \notin Worker
ASSUME TokenAssumption ==
  NoToken \notin [worker: Worker, attempt: Nat, epoch: Nat]
ASSUME AttemptsAssumption == MaxAttempts \in Nat \ {0} /\ MaxEpoch \in Nat
ASSUME TimeAssumption ==
  /\ LeaseTime \in Nat \ {0}
  /\ MaxBackoff \in Nat
  /\ MaxDelay \in Nat

VARIABLES
  jobs,     \* jobs: status, attempts, max_attempts, lease_owner, deadline
  receipt,  \* job_receipts: the lease token whose result was applied
  run,      \* crawl_runs.status of the row with the job's identifier
  card,     \* share_cards.status of the card the job renders
  enabled,  \* runtime_controls.llm_enabled
  (* History, used by the properties only. *)
  epoch,    \* how often the row was reopened
  reset,    \* the epoch in which the attempt counter was last set back, or 0
  requested,    \* the epoch of the member's last request for the export, or 0
  issued,   \* every lease token that a claim returned
  effects   \* domain writes since the receipt was last deleted

rows == <<jobs, receipt, run, card>>
history == <<epoch, reset, requested, issued, effects>>
storeVars == <<jobs, receipt, run, card, enabled, epoch, reset, requested, issued, effects>>

Status == {"PENDING", "LEASED", "SUCCEEDED", "FAILED", "DEAD", "CANCELLED"}

\* Mutant: a retry may also reopen what succeeded.
Stopped_Wide == {"FAILED", "DEAD", "CANCELLED", "SUCCEEDED"}

\* What a retry may reopen.
Stopped == {"FAILED", "DEAD", "CANCELLED"}
Missing == {"NONE", "RETIRED"}               \* no such row (yet, any more)
RunStatus == {"NONE", "PENDING", "RUNNING", "SUCCEEDED", "FAILED", "CANCELLED"}
CardStatus == {"none", "queued", "rendering", "ready", "failed", "revoked"}

Delay == 0 .. MaxDelay
Timer == -MaxDelay .. (LeaseTime + MaxBackoff)
JobRow == [status: Status \cup Missing, attempts: Nat, max: Nat,
           owner: Worker \cup {NoWorker}, timer: Timer]
Token == [worker: Worker, attempt: Nat, epoch: Nat]

Is(j, type) == TypeOf[j] = type
Present(j) == jobs[j].status \notin Missing

\* The WHERE clause of heartbeat, complete and fail: status, owner, attempts.
Owns(j, t) ==
  /\ jobs[j].status = "LEASED"
  /\ jobs[j].owner = t.worker
  /\ jobs[j].attempts = t.attempt

\* PENDING and available, or LEASED and expired, at a moment d ticks ago.
Due(j, d) == jobs[j].status \in {"PENDING", "LEASED"} /\ jobs[j].timer <= -d
Exhausted(j) == jobs[j].attempts >= jobs[j].max

\* A row that leaves LEASED for status s; timer is its new available_at.
Settled(row, s, timer) ==
  [row EXCEPT !.status = s, !.owner = NoWorker, !.timer = timer]
Reopened(row) == [Settled(row, "PENDING", 0) EXCEPT !.attempts = 0]

\* Mutant: a renewed export starts counting attempts anew.
Extended_Reset(row) ==
  [Settled(row, "PENDING", 0) EXCEPT !.attempts = 0, !.max = MaxAttempts]

Extended(row) ==
  [Settled(row, "PENDING", 0) EXCEPT !.max = row.attempts + MaxAttempts]

CloseRun(s) == IF s \in {"PENDING", "RUNNING"} THEN "FAILED" ELSE s
CloseCard(s) == IF s \in {"queued", "rendering"} THEN "failed" ELSE s

QueueCard(s) == IF s = "failed" THEN "queued" ELSE s

-----------------------------------------------------------------------------
(* Producers.                                                              *)

\* A new row.  A second insert with the same (job_type, dedupe_key) finds the
\* row and changes nothing.
Insert(j, wait) ==
  /\ jobs[j].status = "NONE"
  /\ jobs' = [jobs EXCEPT ![j].status = "PENDING", ![j].max = MaxAttempts,
                          ![j].timer = wait]

\* Exports are due at once, deferred analyses at a later time.
Enqueue(j, wait) ==
  /\ Is(j, "export_user") => wait = 0
  /\ TypeOf[j] \in {"export_user", "analyze"}
  /\ Insert(j, wait)
  /\ UNCHANGED <<receipt, run, card, enabled, history>>

\* The scheduler inserts a crawl together with its crawl run.
ScheduleCrawl(j) ==
  /\ Is(j, "crawl")
  /\ Insert(j, 0)
  /\ run' = [run EXCEPT ![j] = IF @ = "NONE" THEN "PENDING" ELSE @]
  /\ UNCHANGED <<receipt, card, enabled, history>>

CreateShareCard(j) ==
  /\ Is(j, "render_share_card")
  /\ Insert(j, 0)
  /\ card' = [card EXCEPT ![j] = "queued"]
  /\ UNCHANGED <<receipt, run, enabled, history>>

\* A repeated export request: the receipt is dropped, the attempt counter is
\* kept as a generation fence and max_attempts grows instead.
RequestExport(j) ==
  /\ Is(j, "export_user")
  /\ jobs[j].status \in Stopped \cup {"SUCCEEDED"}
  /\ epoch[j] < MaxEpoch
  /\ jobs' = [jobs EXCEPT ![j] = Extended(@)]
  /\ receipt' = [receipt EXCEPT ![j] = NoToken]
  /\ effects' = [effects EXCEPT ![j] = 0]
  /\ epoch' = [epoch EXCEPT ![j] = @ + 1]
  /\ requested' = [requested EXCEPT ![j] = epoch[j] + 1]
  /\ UNCHANGED <<run, card, enabled, reset, issued>>

-----------------------------------------------------------------------------
(* The worker's queue repository.                                          *)

\* Mutant: only expired leases are looked at, not rows given back at the end
\* of their budget.
ReapSet_LeasedOnly(d) ==
  {j \in Job : Due(j, d) /\ Exhausted(j) /\ jobs[j].status = "LEASED"}

\* Claim-time maintenance: rows whose budget is spent become DEAD, and the
\* crawl runs of those rows are closed in the same transaction.
ReapSet(d) == {j \in Job : Due(j, d) /\ Exhausted(j)}

\* Mutant: reaping forgets the crawl runs.
Reap_LeavesRun(d) ==
  /\ ReapSet(d) # {}
  /\ jobs' = [j \in Job |-> IF j \in ReapSet(d) THEN Settled(jobs[j], "DEAD", 0)
                                                ELSE jobs[j]]
  /\ UNCHANGED <<receipt, run, card, enabled, history>>

Reap(d) ==
  /\ ReapSet(d) # {}
  /\ jobs' = [j \in Job |-> IF j \in ReapSet(d) THEN Settled(jobs[j], "DEAD", 0)
                                                ELSE jobs[j]]
  /\ run' = [j \in Job |-> IF j \in ReapSet(d) /\ Is(j, "crawl")
                           THEN CloseRun(run[j]) ELSE run[j]]
  /\ UNCHANGED <<receipt, card, enabled, history>>

NextToken(w, j) ==
  [worker |-> w, attempt |-> jobs[j].attempts + 1, epoch |-> epoch[j]]

\* Which claimable row is taken is left open: the ORDER BY ranks rows that
\* SKIP LOCKED may skip.
\* Mutant: the attempt budget is not looked at.
Claimable_NoBudget(j, d) == Due(j, d)

Claimable(j, d) == Due(j, d) /\ ~Exhausted(j)

Claim(w, j, d) ==
  /\ Claimable(j, d)
  /\ jobs' = [jobs EXCEPT ![j].status = "LEASED", ![j].owner = w,
                          ![j].attempts = @ + 1, ![j].timer = LeaseTime - d]
  /\ issued' = [issued EXCEPT ![j] = @ \cup {NextToken(w, j)}]
  /\ run' = [run EXCEPT ![j] = IF Is(j, "crawl") /\ @ = "PENDING"
                               THEN "RUNNING" ELSE @]
  /\ UNCHANGED <<receipt, card, enabled, epoch, reset, requested, effects>>

Heartbeat(j, t, d) ==
  /\ Owns(j, t)
  /\ jobs' = [jobs EXCEPT ![j].timer = LeaseTime - d]
  /\ UNCHANGED <<receipt, run, card, enabled, history>>

Complete(j, t) ==
  /\ Owns(j, t)
  /\ jobs' = [jobs EXCEPT ![j] = Settled(@, "SUCCEEDED", 0)]
  /\ UNCHANGED <<receipt, run, card, enabled, history>>

FailStatus(j, retryable) ==
  IF ~retryable THEN "FAILED" ELSE IF Exhausted(j) THEN "DEAD" ELSE "PENDING"

Fail(j, t, retryable, backoff, d) ==
  LET s == FailStatus(j, retryable) IN
  /\ Owns(j, t)
  /\ jobs' = [jobs EXCEPT ![j] =
                Settled(@, s, IF s = "PENDING" THEN backoff - d ELSE 0)]
  /\ run' = [run EXCEPT ![j] =
               IF ~Is(j, "crawl") THEN @
               ELSE IF s # "PENDING" THEN CloseRun(@)
               ELSE IF @ = "RUNNING" THEN "PENDING" ELSE @]
  /\ card' = [card EXCEPT ![j] =
               IF Is(j, "render_share_card") /\ s # "PENDING"
               THEN CloseCard(@) ELSE @]
  /\ UNCHANGED <<receipt, enabled, history>>

Leased(w) == {j \in Job : jobs[j].status = "LEASED" /\ jobs[j].owner = w}

\* Shutdown and pause: the attempt that was running stays counted.
ReleaseLeases(w) ==
  /\ jobs' = [j \in Job |-> IF j \in Leased(w) THEN Settled(jobs[j], "PENDING", 0)
                                               ELSE jobs[j]]
  /\ UNCHANGED <<receipt, run, card, enabled, history>>

-----------------------------------------------------------------------------
(* The result applier.                                                     *)

\* Mutant: an export result is accepted like any other.
MayApply_Unfenced(j, t) == Present(j)

\* Only an export must still hold the lease that produced the result.
MayApply(j, t) == Present(j) /\ (Is(j, "export_user") => Owns(j, t))

\* The rendering of a withdrawn or failed card is dropped.
CardAccepts(j) == card[j] \in {"queued", "rendering", "ready"}

\* Mutant: the applier trusts the look-up made before the handler ran.
FirstResult_Unchecked(j) == TRUE

FirstResult(j) == receipt[j] = NoToken

\* First application: domain rows, downstream rows and the receipt commit in
\* one transaction.  With a receipt in place the stored result is returned
\* and nothing is written.
ApplyResult(j, t) ==
  /\ MayApply(j, t)
  /\ FirstResult(j)
  /\ Is(j, "render_share_card") => CardAccepts(j)
  /\ receipt' = [receipt EXCEPT ![j] = t]
  /\ effects' = [effects EXCEPT ![j] = @ + 1]
  /\ run' = [run EXCEPT ![j] = IF Is(j, "crawl") THEN "SUCCEEDED" ELSE @]
  /\ card' = [card EXCEPT ![j] = IF Is(j, "render_share_card")
                                 THEN "ready" ELSE @]
  /\ UNCHANGED <<jobs, enabled, epoch, reset, requested, issued>>

-----------------------------------------------------------------------------
(* Administrators, members and retention.                                  *)

\* The generic retry, of a job of any type: a fresh budget by resetting the
\* attempt counter.
Retry(j) ==
  /\ jobs[j].status \in Stopped
  /\ epoch[j] < MaxEpoch
  /\ jobs' = [jobs EXCEPT ![j] = Reopened(@)]
  /\ card' = [card EXCEPT ![j] = IF Is(j, "render_share_card")
                                 THEN QueueCard(@) ELSE @]
  /\ epoch' = [epoch EXCEPT ![j] = @ + 1]
  /\ reset' = [reset EXCEPT ![j] = epoch[j] + 1]
  /\ UNCHANGED <<receipt, run, enabled, requested, issued, effects>>

Cancel(j) ==
  /\ jobs[j].status = "PENDING"
  /\ jobs' = [jobs EXCEPT ![j] = Settled(@, "CANCELLED", 0)]
  /\ UNCHANGED <<receipt, run, card, enabled, history>>

\* Mutant: a card that is ready may be asked for again.
CardRetryable_Ready(j) == card[j] \notin {"none", "revoked"}

CardRetryable(j) == card[j] \in {"queued", "rendering", "failed"}

\* The card's owner asks for another rendering.
RetryShareCard(j) ==
  /\ Is(j, "render_share_card")
  /\ CardRetryable(j)
  /\ \/ /\ jobs[j].status \in Stopped
        /\ epoch[j] < MaxEpoch
        /\ jobs' = [jobs EXCEPT ![j] = Reopened(@)]
        /\ card' = [card EXCEPT ![j] = "queued"]
        /\ epoch' = [epoch EXCEPT ![j] = @ + 1]
        /\ reset' = [reset EXCEPT ![j] = epoch[j] + 1]
     \/ /\ jobs[j].status = "PENDING"
        /\ card' = [card EXCEPT ![j] = "queued"]
        /\ UNCHANGED <<jobs, epoch, reset>>
     \/ /\ jobs[j].status = "LEASED"
        /\ card' = [card EXCEPT ![j] = "rendering"]
        /\ UNCHANGED <<jobs, epoch, reset>>
  /\ UNCHANGED <<receipt, run, enabled, requested, issued, effects>>

RevokeShareCard(j) ==
  /\ Is(j, "render_share_card")
  /\ card[j] \notin {"none", "revoked"}
  /\ card' = [card EXCEPT ![j] = "revoked"]
  /\ UNCHANGED <<jobs, receipt, run, enabled, history>>

\* The runtime switch.  Turning it off cancels every open job and every open
\* crawl run, leased or not, in the same transaction.
Disable ==
  /\ jobs' = [j \in Job |-> IF jobs[j].status \in {"PENDING", "LEASED"}
                            THEN Settled(jobs[j], "CANCELLED", 0) ELSE jobs[j]]
  /\ run' = [j \in Job |-> IF run[j] \in {"PENDING", "RUNNING"}
                           THEN "CANCELLED" ELSE run[j]]
  /\ enabled' = FALSE
  /\ UNCHANGED <<receipt, card, history>>

Enable ==
  /\ ~enabled
  /\ enabled' = TRUE
  /\ UNCHANGED <<rows, history>>

\* Inventory retention deletes the jobs that refer to a retired article,
\* leased ones included; their receipts go with them (ON DELETE CASCADE).
Retire(j) ==
  /\ Present(j)
  /\ TypeOf[j] \in {"crawl", "analyze"}
  /\ jobs' = [jobs EXCEPT ![j] = Settled(@, "RETIRED", 0)]
  /\ receipt' = [receipt EXCEPT ![j] = NoToken]
  /\ UNCHANGED <<run, card, enabled, history>>

-----------------------------------------------------------------------------
Saturate(timer) == IF timer > -MaxDelay THEN timer - 1 ELSE timer

Tick ==
  /\ jobs' = [j \in Job |-> IF jobs[j].status \in {"PENDING", "LEASED"}
                            THEN [jobs[j] EXCEPT !.timer = Saturate(@)]
                            ELSE jobs[j]]
  /\ UNCHANGED <<receipt, run, card, enabled, history>>

NewRow == [status |-> "NONE", attempts |-> 0, max |-> 0,
           owner |-> NoWorker, timer |-> 0]

Init ==
  /\ jobs = [j \in Job |-> NewRow]
  /\ receipt = [j \in Job |-> NoToken]
  /\ run = [j \in Job |-> "NONE"]
  /\ card = [j \in Job |-> "none"]
  /\ enabled = FALSE
  /\ epoch = [j \in Job |-> 0]
  /\ reset = [j \in Job |-> 0]
  /\ requested = [j \in Job |-> 0]
  /\ issued = [j \in Job |-> {}]
  /\ effects = [j \in Job |-> 0]

ByToken(j, t) ==
  \/ \E d \in Delay : Heartbeat(j, t, d)
  \/ Complete(j, t)
  \/ \E retryable \in BOOLEAN, b \in 0 .. MaxBackoff, d \in Delay :
       Fail(j, t, retryable, b, d)
  \/ ApplyResult(j, t)

ByApi(j) ==
  \/ \E wait \in 0 .. MaxBackoff : Enqueue(j, wait)
  \/ ScheduleCrawl(j)
  \/ CreateShareCard(j)
  \/ RequestExport(j)
  \/ Retry(j)
  \/ Cancel(j)
  \/ RetryShareCard(j)
  \/ RevokeShareCard(j)

Next ==
  \/ \E j \in Job : ByApi(j) \/ Retire(j)
  \/ \E j \in Job : \E t \in issued[j] : ByToken(j, t)
  \/ \E w \in Worker : ReleaseLeases(w)
  \/ \E w \in Worker, j \in Job, d \in Delay : Claim(w, j, d)
  \/ \E d \in Delay : Reap(d)
  \/ Disable \/ Enable \/ Tick

Spec == Init /\ [][Next]_storeVars

-----------------------------------------------------------------------------
(* Properties.                                                             *)

\* Every table holds values of its columns' types.
TypeOK ==
  /\ jobs \in [Job -> JobRow]
  /\ receipt \in [Job -> Token \cup {NoToken}]
  /\ run \in [Job -> RunStatus]
  /\ card \in [Job -> CardStatus]
  /\ enabled \in BOOLEAN
  /\ epoch \in [Job -> Nat]
  /\ reset \in [Job -> Nat]
  /\ requested \in [Job -> Nat]
  /\ issued \in [Job -> SUBSET Token]
  /\ effects \in [Job -> Nat]

Claims(j) == {t \in issued[j] : t.epoch = epoch[j]}

\* A crashed, paused or slow worker cannot buy extra executions: since the
\* row was last (re)opened it was handed out at most max_attempts times, and
\* it is DEAD only when that budget is spent (claim, fail, release, reap).
RetryBudgetHeld ==
  \A j \in Job :
    /\ Cardinality(Claims(j)) <= jobs[j].attempts
    /\ jobs[j].attempts <= jobs[j].max
    /\ jobs[j].status = "DEAD" => Exhausted(j)

\* The attempt counter has not been set back since the token was handed out.
Counted(j, t) == t.epoch >= reset[j]

\* A worker left over from before a row was reopened matches the lease granted
\* after it only if the attempt counter was set back in between: the member's
\* request for another export fences off all work from before it, whatever
\* retries came earlier.  The retries of administrators and of card owners set
\* the counter back and so end the fence (ExportLeaseFenced in WorkerRuntime).
StaleLeaseFenced ==
  \A j \in Job : \A t \in issued[j] :
    Counted(j, t) /\ Owns(j, t) => t.epoch = epoch[j]

\* However often a lease is lost and the job replayed, the domain write of a
\* job happens once: the receipt and the write are one transaction.
EffectOnce ==
  \A j \in Job :
    Present(j) => effects[j] = (IF receipt[j] = NoToken THEN 0 ELSE 1)

\* An archive on offer is the work of an attempt that began after the member's
\* latest request, or the attempt counter was set back after that attempt began:
\* only an administrator's retry can put an older archive in its place.
ExportIsCurrent ==
  \A j \in Job :
    Is(j, "export_user") /\ receipt[j] # NoToken /\ Counted(j, receipt[j])
      => receipt[j].epoch >= requested[j]

\* No crawl run stays open once its job failed for good, on whichever path
\* (fail, claim-time reaping, a retried job failing again).
FailedCrawlIsClosed ==
  \A j \in Job :
    Is(j, "crawl") /\ jobs[j].status \in {"FAILED", "DEAD"}
      => run[j] \notin {"PENDING", "RUNNING"}

\* An applied result stays visible: no later failure, retry or stop of the
\* same job takes the crawl run or the card back.
AppliedIsVisible ==
  \A j \in Job :
    Present(j) /\ receipt[j] # NoToken =>
      /\ Is(j, "crawl") => run[j] = "SUCCEEDED"
      /\ Is(j, "render_share_card") => card[j] \in {"ready", "revoked"}

\* A card is marked failed only while its job can be retried; a failed card
\* with an active job would be rendered and then refused by the applier.
FailedCardIsRetryable ==
  \A j \in Job : card[j] = "failed" => jobs[j].status \in Stopped

\* A lease that has not run out is never handed to another worker, however
\* old the moment is that the claiming transaction works with.
LiveLeaseKept ==
  [][\A j \in Job :
       jobs[j].status = "LEASED" /\ jobs[j].timer > 0 /\ jobs'[j].status = "LEASED"
         => jobs'[j].owner = jobs[j].owner /\ jobs'[j].attempts = jobs[j].attempts
    ]_storeVars

\* A member's withdrawal of a card is final, against late renderings and
\* retries of the render job.
RevokedStaysRevoked ==
  [][\A j \in Job : card[j] = "revoked" => card'[j] = "revoked"]_storeVars
=============================================================================
