# Verification of effica's server

effica collects news articles, has them analysed by a language model and serves
them with scores, votes, issue comparisons, share cards and exports. Everything
that takes time runs in worker processes over a job table in MariaDB;
everything that costs money passes a daily ledger; members, administrators and
workers change the same tables at the same time. The states that matter need
two processes or two requests, a lost lease, a crash, a stale read or midnight,
which tests reach least.

This directory holds TLA+ models of the server, TLC configurations that check
them on small instances, and TLAPS proofs for arbitrary instances.
`PROJECT.json` has the line-by-line map, the hazards by line with the properties
that cover each, and for every checked property a mutation of the code that
breaks it.

## 1. Inventory

Paths are relative to `src/server/`; `worker/` is `apps/worker/worker/`,
`repositories/` is `apps/api/app/repositories/`, `domains/` is
`apps/api/app/domains/`.

| Part | Code | State | Operations | What makes it correct |
|---|---|---|---|---|
| Job queue | `worker/queue.py`, `apps/api/app/jobs/producer.py` | `jobs` (status, attempts, lease), `crawl_runs`, `share_cards` | enqueue, claim (with reaping), heartbeat, complete, fail, retry, cancel, release | attempts bounded, old leases fenced while attempts are not set back, every job ends, side tables agree with the job |
| Worker runtime | `worker/main.py` | tasks, stop event, permit of the switch | poll, process, heartbeat, pause, shutdown | no orphaned lease, no success without a result |
| Result applier | `worker/services.py` | `job_receipts`, the domain tables | begin, apply, defer | one domain write per job, late results do no harm |
| Runtime switch, job administration | `repositories/admin.py` | `runtime_controls`, audit rows | switch, retry, cancel | switching off stops the work |
| Exports and deletions | `repositories/platform.py` | export and deletion jobs, receipts, users | request, status, download, delete, purge | a download is from the latest request, a marked member has a row that purges them |
| Share cards | `repositories/product.py` | `share_cards` | create, retry, revoke, render | withdrawal is final, no card is stuck |
| LLM budget | `worker/llm_budget.py` | `llm_daily_usage`, `llm_daily_articles`, `llm_requests` | reserve, record response | daily ceilings, no input paid twice, ledger exact |
| Issue discovery, daily scheduler | `worker/issue_discovery.py`, `worker/daily_scheduler.py` | stored answers per phase and date | tick, search, fetch, size, select | resumable, and what is chosen can be paid for |
| Crawl of a source | `worker/handlers/crawl.py`, `worker/source_fetcher.py` | pages, retries, rate limit of a source | fetch, follow, hydrate, gather | ends, polite, keeps what it found |
| Articles, analyses, scores | `worker/services.py`, `worker/handlers/`, `db/article_retention.py` | versions, analyses, scores, tombstones | store, analyse, score, promote, retire | one active score, retired stays gone |
| Editions and comparisons | `worker/services.py`, `worker/comparison_cohort.py`, `repositories/admin.py` | issues, memberships, snapshots, reviews | cluster, publish, build, review, merge, split, retire | nothing lost by a move, an approval is of its inputs |
| Administrators' content | `repositories/admin.py`, `domains/efficacy/` | models, sources, weight profiles, recommendations, settings, idempotency receipts | create, patch, simulate, review, publish, roll back | one effect per key, the active profile was vetted |
| Sign-in and sessions | `repositories/platform.py`, `domains/auth/` | challenges, users, identities, sessions | start, callback, credential, demonstration, rotate, sign out | one member per identity, a challenge opens one session per opening |
| Reading, credits, consent | `repositories/product.py`, `repositories/platform.py`, `domains/engagement/` | read sessions, credits, consents, profiles | begin, redirect, return, save | one credit per read, one usable session |
| Votes | `repositories/product.py`, `worker/services.py` | votes, revisions, aggregates | vote, withdraw, purge, count, store | what is shown as ready is exact, and is reached |
| Public pages | `repositories/product.py` | none of their own | feed, article, issue, comparison | nothing is shown that was not true during the request |
| Deterministic backend | `apps/api/app/api/v1/routes.py`, `domains/*/` (`APP_BACKEND=memory`) | `PlatformState` of one process | the same routes without a database | as above, with overlapping admissions |
| Crawl scheduler | `worker/services.py` | interval buckets | tick | one crawl per source and interval |
| Ranking, clustering, scoring formulas, provider | `domains/feed/`, `domains/issues/`, `domains/analysis/` | none (pure, or an external model) | rank, cluster, score | numerical |
| Web client, migrations, scripts | `src/client`, `db/` | none the server relies on at run time | | |

How they interact: producers (routes, schedulers, results of other jobs) insert
rows into `jobs`; workers poll that table, run a handler, and write the result
and a receipt in one transaction before they complete the row; administrators,
the switch, members and retention change the same rows under the workers' feet.
All communication is through the database; the only shared memory is between
the asyncio tasks of one worker, and between the requests of the deterministic
backend.

Hard behaviours: cancellation that does not reach the inner task, lease expiry
against late results, moments read before a lock wait, attempt counters that
double as fences, midnight, lost provider answers, rows read without a lock and
used after one, results applied in another order than they were asked for, the
same request sent twice, and pages put together from several statements.

## 2. Modules

Each module below has one action per transaction, handler or step between two
awaits. Composition (`MC*`): a behaviour of an MC module is of *one* of the
modules it instantiates, chosen by `about` in the first state; they share no
tables, so nothing is lost by that, and each is explored to the end.

| Module | Models | Instance |
|---|---|---|
| `JobStore` | the tables of the pipeline and every transaction on them | `MCBackends` |
| `WorkerRuntime` (EXTENDS `JobStore`) | worker processes: what the event loop of `main.py` calls, and when | `MCWorkerRuntime`, `MCPages` |
| `JobPromise` | abstract specification: what whoever submits a job may rely on | refined by `WorkerRuntime` |
| `LLMBudget` | the daily ledger and its concurrent callers | `MCLLMBudget` |
| `Discovery` | the day's search for events and its paid phases | `MCBackends` |
| `SignIn` | challenges, callbacks, sessions, deletion and purge | `MCMembers` |
| `Engagement` | reading sessions, credits, consent, profiles of one member | `MCMembers` |
| `Voting` | votes, their revisions, and the workers that count them | `MCSettling` |
| `SourceCrawl` | one crawl of one source against sites that answer anything | `MCSettling` |
| `Publishing` | versions, analyses, scores and retirement of articles | `MCContent` |
| `IssueEditions` | issues, daily editions, comparisons, reviews, merges and splits | `MCContent` |
| `Administration` | administrators' requests with keys, versions and reviews | `MCContent` |
| `LocalMember`, `LocalAdmin` | the deterministic backend: members' and administrators' routes | `MCBackends` |
| `PublicViews` | the public pages as the sequence of their statements | `MCPages` |

Proof modules, each of the modules it extends: `JobStoreProofs`, `RuntimeProofs`
(`WorkerRuntime` and the refinement of `JobPromise`), `LLMBudgetProofs`,
`MembersProofs` (`SignIn`, `Engagement`), `SettlingProofs` (`Voting`,
`SourceCrawl`), `ContentProofs` (`Publishing`, `IssueEditions`,
`Administration`), `BackendsProofs` (`LocalMember`, `LocalAdmin`, `Discovery`)
and `ViewsProofs` (`PublicViews`).

### JobStore

`jobs[j]` is the row (status, attempts, max_attempts, lease_owner and one
timer), `receipt[j]` the row of `job_receipts`, `run[j]` and `card[j]` the
statuses of the crawl run or share card of the job, `enabled` the switch.
`epoch` (how often the row was reopened), `reset` and `requested` (the epochs in
which the attempt counter was last set back and the export last asked for),
`issued` and `effects` are history: they appear in no guard except as the source
of old tokens and as the bound `MaxEpoch`. Every transaction is one
action, called by anybody in any order; a lease token, once handed out, may be
presented at any later time.

Time: the code compares deadlines with a clock, so a row keeps *deadline minus
now*; `Tick` lowers it. `queue.py` reads its moment before it waits for a
connection and for locks, so every transaction works with a moment that is `d`
ticks old (`d <= MaxDelay`): a lease is tested at the old moment and its expiry
is computed from it. Only one of `available_at` and `lease_expires_at` is read
in a given status, so one timer is enough.

`Enqueue`, `ScheduleCrawl`, `CreateShareCard` and `RequestExport` are the
producers; `Reap` and `Claim` the two halves of `claim`; `Heartbeat`,
`Complete`, `Fail`, `ReleaseLeases` the queue; `ApplyResult` the applier;
`Retry`, `Cancel`, `Disable`, `Enable` the administrators (`Retry` is
`queue.retry` and `admin.retry_job`, which do the same to these columns, for a
job of any type, exports included);
`RetryShareCard`, `RevokeShareCard` the members; `Retire` retention. Left out:
payloads, priorities (`SKIP LOCKED` may skip any row, so the choice is free),
error texts.

### WorkerRuntime and JobPromise

A claimed job runs as two asyncio tasks. The outer one waits for the inner
operation or the heartbeat, whichever ends first, and reports failures. Pause
and shutdown cancel the outer task only; `asyncio.wait` leaves the inner one
running. `ops` therefore holds operations with a flag `watched`: cancelling
turns it off and the operation goes on *detached*, without heartbeat, without
anybody to report to. Each database await is a step and may raise (`faults`). A
process incarnation has a fresh worker_id, so a restarted worker is another
element of `Worker`; `Spared` keeps one process from crashing.

`JobPromise` has the phases absent, open, stopped, done, retired and one bit,
*written*. A job is done only after its result was written; a result is written
at most once per request; results of exports are written only while the job is
open; only an explicit request reopens a closed job. The promise to an export
ends (`voided`) when an administrator retries it: the retry sets back the
counter that tells the work for one request from what an earlier one left
behind. `KeepsPromise` is this specification under the refinement mapping from
statuses and receipts. Each step of the runtime is written as a `JobStore`
transaction, so what is proved of `JobStore` holds of the workers; that is how
the module is built and no result.

### LLMBudget and Discovery

In `LLMBudget` a caller takes the date (`Start`), waits for that date's ledger
(`Lock`, or `Replay` for a known input), and commits (`Authorize`) or rolls back
(`Refuse`). Callers of one date exclude each other by the row lock; callers of
two dates meet only at the primary key of `llm_requests`. `Call` submits the
request and may lose the answer, `RecordResponse` stores it, `Crash` can happen
at any point, `Midnight` between any two steps. Prices are small integers.

`Discovery` is one caller of that ledger in full: the scheduler's one job per
date, the phases (topics, sources, selection) each authorized, answered and
stored or replayed from what an earlier attempt stored, the pages fetched in
between, and the sizing of events by what is left of the day's limits, a count
read *without* the lock while other paid work goes on. Two operations may be at
it at once (a lost lease, an administrator's retry).

### SignIn and Engagement

A request of `SignIn` is a transaction per commit. What it inserted is invisible
before, except through the unique key of `oauth_accounts`, where a second insert
of the same identity waits: `InsertMember` and the commit (`RotateSession`) are
separate steps, and a request may be abandoned (`Abandon`) at each. Challenges are rows of the job queue under a
time to live and a clean-up, and like all rows of it can be retried
(`RetryRow`), taken by a worker that has no handler for them (`RejectRow`), and
cancelled by an administrator or the switch (`StopRow`), which makes them
redeemable once more; `reopened` counts the retries. `AskDeletion` loads the
user row when the request is authenticated and `RequestDeletion` marks that
copy, possibly after the purge. The deletion row is taken by a worker
(`TakeDeletion`), applied by any operation that was ever handed it (`Purge`) and
completed (`FinishDeletion`), or fails for good, is reaped or is cancelled
(`StopDeletion`) until it is retried; a second request leaves an existing row as
it is. The sample activity of the demonstration member is not part of
`Engagement`: its sessions are closed and its credits fixed when it is made, and
its votes are made like any other, with a revision and a job each.

`Engagement` has one member whose requests overlap. A row locked by
`SELECT ... FOR UPDATE` excludes requests that ask for the same lock; rows read
without one may be stale at the commit. A read is begun, followed through the
redirect, returned after a least time and credited, or it expires.

### Voting and SourceCrawl

In `Voting` every transaction that changes an article's votes locks the article
row, hands out the next revision and submits the job that counts it. A worker
counts without a lock and stores in a later transaction, where only newer
revisions replace older ones. A deleted account's votes are withdrawn by the
purge, which hands out revisions too.

`SourceCrawl` is one crawl job: the seed request, further pages, article pages
fetched side by side, and the outcome. Each request goes through the fetch
service with its redirect hops, retries with back-off and one rate limit per
source, whose slot is taken when the limiter is locked. Sites may answer
anything to anything. Text is reduced to three qualities: unseen, short, rich.

### Publishing, IssueEditions and Administration

Results are applied under the article inventory lock, so applying and retiring
are atomic steps; between them workers hold what they read or were answered
earlier. `Publishing` follows a page's text through versions, analysis jobs,
scores (a promotion demotes the other score of the version) and retirement with
its tombstone. `IssueEditions` clusters, publishes editions of one or two events
with carried-over and replaced issues, builds, defers and stores comparisons,
approves them, and merges and splits issues long after they were asked to.
`Administration` runs an administrators' request in the order of the code:
look-up of the stored answer, the work, the receipt and the commit; two requests
may be between look-up and commit at once, also two tries of the same one.

### LocalMember, LocalAdmin and PublicViews

In the deterministic backend a handler's body runs without an await and is one
step; who calls is settled before it, in dependencies that run in a thread, so
`Admit` is a step of its own and the requests of one session overlap.
`DemoLogin` makes the demonstration member with its sample activity: closed
sessions with their credits, and for each article a vote of revision 1 without a
job (`SeedDemo`).
Administrators' handlers look at the row, its state and If-Match before the
stored answer of the key. No worker runs: a job stays as it is until an
administrator touches it.

`PublicViews` takes each page apart into its statements (READ COMMITTED: each
sees what is committed by then) while workers and administrators change the
corpus, and compares what is shown at the end with the states the request saw.
`IssuePlan` reads assessments and scores twice, as the code does; `Readiness`
gives the reasons of the analysis status by what became of the job of the
version (waiting, put off to another day, running, over, skipped for its text,
failed, cancelled), a set where the text decides.

## 3. Runs

| Run | Properties | Distinct states |
|---|---|---|
| `worker_crawl` | `EffectOnce`, `LeaseHasKeeper`, `JobsSettle` | 188 k |
| `cards_and_pages` | `CardNeverStuck`, `KeepsPromise`, `ShownWasTrue`, `ComparisonWasReviewed` | 367 k |
| `backends` | `RetryBudgetHeld`, `FailedCrawlIsClosed`, `StaleLeaseFenced`, `ExportIsCurrent`, `EditionAffordable`, `LocalCreditsEarned`, `LocalChangesQueued`, `LocalActiveIsVetted`, `LocalDeletionSticks` | 501 k |
| `budget` | `CapsHeld`, `EssentialRoomKept`, `LedgerExact`, `PaidAtMostOnce`, `OneAnalysisPerDay` | 153 k |
| `members` | `OneMemberPerIdentity`, `RedeemedPerRetry`, `MarkedHasJob`, `LiveChallengeKept`, `DeletionSticks`, `OneActiveRead`, `CreditMatchesRead` | 290 k |
| `settling` | `ReadyIsExact`, `DeletedLeavesNoVote`, `AggregatesSettle`, `FoundIsKept`, `Polite`, `CrawlSettles` | 325 k |
| `content` | `RetiredStaysGone`, `OneActiveScore`, `ApprovalIsOfInputs`, `MovesLoseNothing`, `EffectOncePerKey`, `ActiveIsVetted` | 1.03 M |
| `switch_stops_work`, `export_fence`, `review_replayed`, `two_models`, `proposal_rewritten` | violations, see section 4 | |

What they show:

* `worker_crawl`: two processes and a crawl under crashes, pauses, lost leases
  and one database error. However detached operations, late results and new
  claims overlap, the result is written once, no process that is up leaves a
  lease without a task that watches it or a release to come (before the database
  error), and the job comes to its end.
* `cards_and_pages`: a card or an export asked for again while operations of its
  earlier life run, by the member or by an administrator. No card is left behind
  by its job, and the job table keeps the abstract promise. Pages show only what was true at some moment of the
  request, and a comparison only if it was reviewed for the versions it is of.
* `backends`: the store with stale moments, any old token and retries of every
  type of job: a token from before a reopening owns no later lease, and no
  archive is older than its request, unless the attempts were set back in
  between; the search for
  events, whose chosen events the day's limits can still pay for; and the
  deterministic backend: credits earned, vote changes queued in order, the
  active profile vetted, deletion final, although requests admitted before a
  deletion act after it and the demonstration member comes with a history.
* `budget`: two callers and two dates with two versions of an article and a
  comparison, under crashes and lost answers; or one day with more work than
  room, at the ceilings and at the reserve kept for events.
* `members`: overlapping callbacks of one identity, deletions and purges, with
  rows that are stopped and tried again; or overlapping requests of one reader.
* `settling`: votes, a purge and two counting workers with a crash settle in an
  exact aggregate; a crawl of six kinds of source ends, politely, with what it
  found.
* `content`: what was retired, approved, moved or published by an old result
  stays so; one key has one effect; no profile becomes active unreviewed.

Deadlock checking is on except in `content`, its three violation runs and
`settling`: their corpus stops when its bounded changes are spent, and a crawl
is over when it has gathered. Elsewhere time can always pass, or the MC module
says in an action of its own that requests may stop.

### Bounds

* Jobs: one row at a time; transactions of different jobs touch disjoint rows,
  and the proofs cover any number. Two workers are an old and a new owner, two
  attempts reach the exhausted budget, `LeaseTime` 2 with `MaxDelay` 1 makes a
  moment stale without being older than a lease, `MaxBackoff` 1 makes a row
  wait, `MaxEpoch` 2 and `MaxClaims` 3 give an export its request, another one
  and a retry in either order, with a claim in each generation. Where processes
  run (`worker_crawl`, `cards_and_pages`, `export_fence`) a lease is only expired
  or not, so `LeaseTime` is 1; renewed jobs have one attempt per generation.
* Ledger: two callers, ceilings of one to six that a handful of requests reach.
  A behaviour is of the night (two dates, three inputs, answers lost or not) or
  of the day (more inputs than room; the answer changes nothing in the ledger, so
  none arrives, and feed articles, being alike, are taken up in their order).
  `ProtectedCost` and `ProtectedRequests` are zero; the proofs have any value.
* Discovery: two attempts, two candidates of two pages, room for 12 submissions
  and 4 articles, an edition of two events, one other paid request.
* Members: two users, tokens, challenges and requests on one identity, at most
  two ticks against lifetimes of one. A behaviour of sign-in is about deletions,
  of members with an identity or of administrators and the demonstration member,
  or about challenges, each of which is retried at most once (`MaxReopen`);
  reading lifetimes of three with a least time
  of two over seven ticks, so that one session can expire and another be
  credited.
* Settling: two voters with a threshold of two, of whom one never asks for
  deletion (`Stays`), three revisions (a vote, a change, a purge), one fault; two articles, two pages, one retry, one redirect.
* Content: one article of two texts; two daily and one ordinary issue over two
  articles with three changes; two requests, two keys and five calls, which is a
  draft, its review, its publication and a rollback that races it.
* Deterministic backend: one article, which the sample activity is about; five
  admissions, seven weight mutations, three desk
  calls. Pages: three stories of different publishers, two changes under one
  request.

Symmetry is used only in runs without liveness properties, over sets of model
values that no constant distinguishes.

### Fairness

* `worker_crawl` (`FairSpec`): a live process polls every
  `poll_interval_seconds`, the event loop drives its tasks, handlers end because
  provider and HTTP calls have timeouts, and the clock advances: weak fairness
  of each process's start, check, poll, sweep and release, of the operations of
  each job, and of `Tick`. Nothing is assumed of heartbeats, administrators,
  members, shutdown or errors. `JobsSettle` also has in its premise that the
  switch stays on from some moment; otherwise nobody is obliged to work.
* `settling`: weak fairness of counting and storing (`VoteFairness`), for the
  same reason, not of members; and of the crawl's `Next`, one coroutine whose
  awaits all have timeouts. Members may vote for ever only up to `MaxRevision`;
  `AggregatesSettle` is about the revisions that exist.

## 4. Findings

* `switch_stops_work`: turning the switch off is announced as stopping running
  and waiting work (`runtime-control-page.tsx:109`); the process cancels only
  the outer tasks (`main.py:656`), and the detached operation may still apply its
  result after the process has seen the switch off.
* `export_fence`: an administrator's retry of an export resets its attempts
  (`admin.py:2441`), which are its generation fence: "Keep them monotonic so a
  worker from the prior terminal generation cannot match a new lease"
  (`platform.py:807`). The run: an export is claimed, the switch cancels it, its
  operation goes on detached, the member asks again, an administrator cancels
  and retries, and the same process claims attempt 1 again; the operation for
  the first request now owns the lease of the second, and the applier would take
  its archive. `StaleLeaseFenced` and `ExportIsCurrent` say exactly how far the
  fence reaches: as long as the counter has not been set back since the token
  was handed out, whatever was cancelled and asked for again.
* `review_replayed`: the handler drops the `input_fingerprint` the service
  computed (`build_issue_comparison.py:188`), so no stored comparison ever
  matches, the reuse at `services.py:2161` never happens, and a comparison of
  unchanged inputs that is built again is stored with its review cleared, against
  the comments at `services.py:934` and `services.py:1254`.
* `two_models`: whether another model is active is read without a lock
  (`admin.py:1245`), so two administrators activate two at once; `lookups.py:414`
  speaks of the single active one.
* `proposal_rewritten`: a recommendation's result replaces its proposal whatever
  its status (`services.py:2488`); `admin.py:2120` says a worker never rewrites
  the row.

### Observations that are not runs

* A challenge has "one-use state" (`platform.py:180`) and its row is CANCELLED so
  that "worker claimers never execute" it (`platform.py:183`). An administrator's retry of a used
  one makes it PENDING: a worker may take it, and cancelling it, by an
  administrator (`admin.py:2485`) or by the switch (`admin.py:2341`), makes it
  redeemable once more while it lives. `RedeemedPerRetry` is what remains: one
  session, and one more per retry.
* A deletion row that was cancelled, by the switch too, or failed stays so when
  the member's data is asked to be deleted (`platform.py:757` changes nothing on
  a conflict): the member stays PENDING_DELETION until an administrator has the
  row tried again. `MarkedHasJob` says that there always is such a row, and
  never one that is already done; that it runs is not promised by the code.
* The demonstration member of the deterministic backend brings votes of revision
  1 without a job (`demo_account.py:199`), so an article can have two votes of
  one revision, and the sample votes alone are never aggregated.
* The fallback claim (`queue.py:958`) hands out a token computed from an
  unlocked SELECT; it is stale if an administrator reopened the row in between.
* Snapshots of five to eight publishers are built and paid for and can never be
  approved: the limit of approval is four (`admin.py:1137`).
* An issue's comparison page reads the article versions in one statement
  (`product.py:766`) and the scores in the next (`product.py:798`): frames and
  scores may be of different versions. The analysis status can say that no
  result is available while the score is still being computed.
* Discovery: an edition of an earlier date may be applied after the next one's
  (`services.py:1134` compares no dates); a retry with other approved publishers
  changes the keys of the requests, and the search is paid again; the daily
  limit of comparisons and the distinct articles of the day are not part of what
  it protects.
* Deterministic backend: simulating an *active* profile demotes it and leaves
  none active, which the durable backend refuses (`admin.py:1701`); a repeated
  request whose first try took effect may be answered 409, since If-Match and
  state are checked before the stored answer; an expired session that was not
  returned blocks new ones; pages of an issue fail on articles without a score;
  a comparison checks the versions of the compared articles only.

## 5. Proofs

Every safety property and every action property the passing runs check is also
a theorem of its specification, for every value of the constants that satisfies
the ASSUMEs. Each component's invariant is a conjunction of named parts, most of
them about one row or one request, because few transactions relate more.

* `JobStoreProofs`: types, then `StoreInv` for any number of
  jobs and workers. `FenceInv`: attempts only grow between two resets, so a token
  handed out since the last one has the current number only if it is of the
  current lease; needed because *owner and attempts match* is not inductive. `FreshInv`: nothing is recorded for a row
  before its insertion. `OnceInv`, `CurrentInv`, `ClosedInv`, `VisibleInv`,
  `RetryableInv`: the stated properties, for rows that do not exist yet too.
  `BudgetInv`: tokens of a generation are at most as many as attempts. The action
  properties on withdrawn cards and live leases need no more than types.
* `RuntimeProofs`: types; `StoreInv`, which the runtime inherits because its
  steps are built from those of the store; `AppliedInv`, an
  operation about to complete its job has its receipt written; `Kept`, without
  database errors a lease is watched by a task of its process, or that process
  is pausing, stopping or down; and the step simulation behind `PromiseTheorem`,
  for every kind of job and every retry.
* `LLMBudgetProofs`: `LockInv` (what a caller read under the lock is what the
  ledger still says), `SubmitInv` (the insertion makes one caller the only one
  to send), `ShareInv` (what ordinary work was granted is part of the ledger, so
  a guard on the ledger bounds it) and finiteness of the sets that are counted.
* `MembersProofs`, signing in: `LifetimeInv` (a challenge keeps its lifetime),
  `BurntInv` (the sessions a challenge opened and the requests that may yet open
  one are no more than the times it was burnt, which its status and its retries
  give), `InsertedInv` (an uncommitted insert holds the unique key), `AccountInv`
  and `HomeInv` (where an identity leads), `DeletingInv` (a deletion in flight is
  of an account that exists). That a completed deletion row means a purged
  member, and a marked member has one that is not, is part of `AccountInv`.
* `MembersProofs`, reading: `OwnInv` (a session is in the hands of one request),
  `UsableInv` (one usable session, and none while another is being begun), `CreditInv` (credits are of returned
  sessions), `PaceInv` (credits times the least time fit in the clock).
* `SettlingProofs`, votes: `RowInv` (types) and `CountInv` (what was counted or
  stored for the current revision is what the votes are). The crawl: `SlotInv`,
  what has passed since the last request and what is still to wait make up the
  interval, and whoever sleeps for a slot holds the limiter's lock and sleeps at
  least that long; `Polite` alone says nothing of a task that is asleep.
  `FoundInv` adds that nothing was found before the seed page was read.
* `ContentProofs`, articles: `RowInv` (types), `StoredInv` (what is kept is of a
  stored version), `GoneInv` (a retired address has no article, version or
  event) and `ScoreInv` (a scored version has exactly one active score and
  assessments behind it). Issues: `ApprovalTheorem` and `MovesTheorem` are action
  properties; every step is shown to keep each approved snapshot as it was or to
  leave it unapproved (`KeepsApproved`), through the copies of an edition of two
  events, and a move to leave its articles somewhere. Administrators:
  `ReceiptInv` (the receipts are the keys that ran, each once) and `ProfileInv`
  (exactly one profile is active, and whatever is or was in force was seeded,
  simulated and approved, or copies an archived one).
* `BackendsProofs`, members: `SampleInv` (the sample sessions were over when they
  were made, so no return can credit them again), `EarnedInv` (a key is in the
  ledger once, its session is a sample or closed and qualifies, its article has a
  ballot, and every article voted on has its key), `RevisionsInv` (revisions of
  an article are bounded, so that there is a next one, and but for the sample
  votes given once, each with its job), `AccountInv`. Administrators:
  `RevisionInv` follows whose values a revision holds, since a rollback copies
  values and a repeated simulation replaces the evidence; `AdviceInv` remembers
  what a review approved. Discovery: `SearchInv` bounds each operation's events
  and articles, its open claim and its next request by what the ledger had left
  when it was read and what others were granted since; `LedgerInv` keeps the
  day's limits, `AnswerInv` that what is replayed is of the kind its phase asks for. Between the
  sizing of an event and its selection the claim counts as if it were spent:
  without that part the invariant is not inductive.
* `ViewsProofs`: `CorpusInv` (rows; an assessment is written once, with the end
  of its job; a score names assessments that are there), `CorpusMoves` (what a
  step never does: change an issue without a new version, approve for another
  version than the present one) and `Told`, what
  each statement of a page, once made, lets the request rely on. `Told` is kept
  by every step of the corpus (`ToldStep`) and extended by every statement that
  comes where the plan puts it (`StatementStep`); `Ordered` is what the plans
  must satisfy, and each of the eleven does (`PlanOrdered`): scores after the
  assessments they are matched with, jobs after rows, snapshots after issues.

Some theorems state properties no run spends its time on: applied results stay
visible, a failed card's job can be retried, a withdrawn card stays withdrawn, a
lease that has not run out is not given to another worker however stale the
claimer's moment, a job reported done was applied, credits are paced, a qualified session stays so. `PROJECT.json` lists the
main ones under `theorems`.

Assumptions are the ASSUMEs of the modules: the relations of the constants that
the constructors enforce, that the no-value constants are not values of their
columns, and that the articles of a corpus and the pages of a topic are finitely
many. `FenceTheorem`, `CurrentTheorem` and `AppliedTheorem` are about every job,
but say in their statement what an administrator's retry takes away: the first
two of tokens and archives from before the counter was set back, the last of
exports that were retried.

Only model-checked: the liveness properties (`JobsSettle`, `AggregatesSettle`,
`CrawlSettles`), which need fairness and ENABLED and are out of the prover's
reach. The five violation runs are counterexamples, with nothing to prove.

## 6. Not modelled

* Feed ranking, clustering, coverage and the scoring formulas: pure functions of
  texts and floating-point weights; TLC has no reals, and over integers only
  their wording would be left. Where their outcome is state (a cluster, a score,
  an eligible article) the models take any outcome.
* The provider, HTML and feed parsing, character sets, address checks,
  cryptography: any answer, or an error.
* The web client; migrations, seeds and scripts run with writers stopped. What
  storage maintenance deletes is part of `IssueEditions` and `Publishing`; which
  articles retention chooses (quotas by topic and age) is any choice.
* Interval buckets of the crawl scheduler; the fallback claim's stale token;
  ideology maps; the public token and expiry of a card; list-only views, paging
  and search.
