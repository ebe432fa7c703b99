------------------------------ MODULE Publishing -----------------------------
(* What becomes of a fetched article: versions of its text, their analyses by *)
(* the model, the scores calculated from them, and its retirement.  Every     *)
(* result is applied in a transaction that first takes the article inventory  *)
(* lock, so applying a result and retiring articles are atomic steps; between *)
(* them workers hold what they read or were answered earlier.                 *)
EXTENDS Naturals, FiniteSets

CONSTANTS
    Urls,       \* canonical URLs
    PageTexts,      \* title and body pairs
    Eligible,   \* those long enough to be analysed
    Crawls,     \* crawl jobs in flight at once
    NoText      \* a page without a body

ASSUME PublishingAssumption == Eligible \subseteq PageTexts /\ NoText \notin PageTexts

\* An analysis is asked for by a crawl, for a member of an event, or by an
\* administrator; a score belongs to the analysis job it follows.
Reasons == {"crawl", "event", "admin"}
JobKeys == [kind : {"analyze", "score"}, url : Urls, text : PageTexts, for : Reasons]
VARIABLES
    article,        \* articles: status, current version, topic membership
    ver,        \* stored versions of each article
    tomb,       \* URLs with a retention tombstone
    crawl,      \* crawl results not applied yet
    job,        \* analysis and score jobs; an orphan's row is deleted
    assess,     \* trusted assessments of each version, by the job they came from
    score,      \* score rows of each version, by the analysis they follow
    event       \* members of the current editions

pubVars == <<article, ver, tomb, crawl, job, assess, score, event>>

NoArticle == [st |-> "none", cur |-> NoText, topic |-> FALSE]
NoCrawl == [url |-> "none", text |-> NoText, curated |-> FALSE]
Unscored == [r \in Reasons |-> "none"]

PubInit ==
    /\ article = [u \in Urls |-> NoArticle]
    /\ ver = [u \in Urls |-> {}]
    /\ tomb = {} /\ event = {}
    /\ crawl = [c \in Crawls |-> NoCrawl]
    /\ job = [k \in JobKeys |-> "none"]
    /\ assess = [u \in Urls |-> [t \in PageTexts |-> {}]]
    /\ score = [u \in Urls |-> [t \in PageTexts |-> Unscored]]

Key(kd, u, t, r) == [kind |-> kd, url |-> u, text |-> t, for |-> r]

\* INSERT ... ON DUPLICATE KEY leaves an existing job of the key alone.
Enqueued(f, k) == IF f[k] = "none" THEN [f EXCEPT ![k] = "pending"] ELSE f

Analysing(u, t) ==
    \E r \in Reasons : job[Key("analyze", u, t, r)] \in {"pending", "asked", "skipped"}

------------------------------------------------------------------------------
(* Crawl results *)

\* A crawl reads a page; a curated one belongs to an edition, whose articles
\* have all passed the eligibility gate.
Fetch(c) ==
    /\ crawl[c] = NoCrawl
    /\ \E u \in Urls, t \in PageTexts \cup {NoText}, cur \in BOOLEAN :
        /\ cur => t \in Eligible
        /\ crawl' = [crawl EXCEPT ![c] = [url |-> u, text |-> t, curated |-> cur]]
    /\ UNCHANGED <<article, ver, tomb, job, assess, score, event>>

SkipIngestion_Never(u) == FALSE

\* A retired URL is not taken in again.
SkipIngestion(u) == u \in tomb

\* A page without a body makes a new article blocked and leaves an old one as
\* it is; a body makes it active and its version current.
Upserted(a, r) ==
    IF r.text = NoText
    THEN IF a.st = "none" THEN [a EXCEPT !.st = "blocked"] ELSE a
    ELSE [st |-> "active", cur |-> r.text, topic |-> a.topic \/ ~r.curated]

\* Text that is already assessed, or about to be, is not analysed again.
CrawlAnalysis(u, t) ==
    IF t \in Eligible /\ assess[u][t] = {} /\ ~Analysing(u, t)
    THEN {Enqueued(job, Key("analyze", u, t, "crawl"))}
    ELSE {job}

\* A member of an event is analysed even if its crawl was skipped: the job's
\* key names the day, so another day makes another job.
EventAnalysis(u, t) ==
    LET k == Key("analyze", u, t, "event") IN
    IF assess[u][t] # {} \/ Analysing(u, t) THEN {job}
    ELSE IF job[k] = "over" THEN {job, [job EXCEPT ![k] = "pending"]}
    ELSE {Enqueued(job, k)}

ApplyCrawl(c) ==
    LET r == crawl[c] IN
    /\ r # NoCrawl
    /\ crawl' = [crawl EXCEPT ![c] = NoCrawl]
    /\ IF SkipIngestion(r.url)
       THEN UNCHANGED <<article, ver, job, event>>
       ELSE /\ article' = [article EXCEPT ![r.url] = Upserted(@, r)]
            /\ IF r.text = NoText
               THEN UNCHANGED <<ver, job, event>>
               ELSE /\ ver' = [ver EXCEPT ![r.url] = @ \cup {r.text}]
                    /\ job' \in IF r.curated THEN EventAnalysis(r.url, r.text)
                                ELSE CrawlAnalysis(r.url, r.text)
                    /\ event' = IF r.curated THEN event \cup {r.url} ELSE event
    /\ UNCHANGED <<tomb, assess, score>>

\* The next edition may drop a member.
LeaveEvent(u) ==
    /\ u \in event /\ event' = event \ {u}
    /\ UNCHANGED <<article, ver, tomb, crawl, job, assess, score>>

\* An administrator asks for an analysis of the current version; another
\* request key makes another job.
RequestAnalysis(u) ==
    LET k == Key("analyze", u, article[u].cur, "admin") IN
    /\ article[u].cur # NoText
    /\ job[k] \in {"none", "over"}
    /\ job' = [job EXCEPT ![k] = "pending"]
    /\ UNCHANGED <<article, ver, tomb, crawl, assess, score, event>>

------------------------------------------------------------------------------
(* Analysis and score jobs *)

StepOf(k, s) ==
    /\ job' = [job EXCEPT ![k] = s]
    /\ UNCHANGED <<article, ver, tomb, crawl, assess, score, event>>

\* The handler does not pay for a version that is no longer current, not
\* public, too short, or already assessed.
NothingToAsk(k) ==
    \/ article[k.url].cur # k.text \/ article[k.url].st # "active"
    \/ k.text \notin Eligible
    \/ assess[k.url][k.text] # {}

Analyze(k) ==
    /\ k.kind = "analyze" /\ job[k] = "pending"
    /\ StepOf(k, IF NothingToAsk(k) THEN "skipped" ELSE "asked")

\* Deferred for the day's budget, from day to day, until the fourth.
GiveUpBudget(k) ==
    /\ k.kind = "analyze" /\ job[k] = "pending" /\ ~NothingToAsk(k)
    /\ StepOf(k, "over")

ApplyAnalysis(k) ==
    /\ k.kind = "analyze" /\ job[k] \in {"asked", "skipped"}
    /\ IF job[k] = "skipped"
       THEN job' = [job EXCEPT ![k] = "over"] /\ UNCHANGED assess
       ELSE /\ assess' = [assess EXCEPT ![k.url][k.text] = @ \cup {k.for}]
            /\ job' = [Enqueued(job, [k EXCEPT !.kind = "score"]) EXCEPT ![k] = "over"]
    /\ UNCHANGED <<article, ver, tomb, crawl, score, event>>

\* calculate_score reads the version's trusted assessments.
Calculate(k) ==
    /\ k.kind = "score" /\ job[k] = "pending" /\ assess[k.url][k.text] # {}
    /\ StepOf(k, "asked")

Demoted_Kept(f) == f

Demoted(f) == [r \in Reasons |-> IF f[r] = "active" THEN "superseded" ELSE f[r]]

\* The new score is promoted and the others demoted in one transaction.
ApplyScore(k) ==
    /\ k.kind = "score" /\ job[k] = "asked"
    /\ k.text \in ver[k.url]
    /\ score' = [score EXCEPT ![k.url][k.text] = [Demoted(@) EXCEPT ![k.for] = "active"]]
    /\ job' = [job EXCEPT ![k] = "over"]
    /\ UNCHANGED <<article, ver, tomb, crawl, assess, event>>

\* A retryable failure or a crash puts the job back; otherwise it has failed.
Fail(k) ==
    /\ job[k] \in {"asked", "skipped"}
    /\ \E s \in {"pending", "over"} : StepOf(k, s)

------------------------------------------------------------------------------
(* Retention and maintenance *)

\* Rows of a deleted article or version; a job being run loses its row too.
JobsWithout(u, ts) ==
    [k \in JobKeys |-> IF k.url # u \/ k.text \notin ts THEN job[k]
                    ELSE IF job[k] \in {"asked", "skipped", "orphan"} THEN "orphan"
                    ELSE "none"]

\* Any article may be the one that has expired or exceeds the inventory.
RetireUrl(u) ==
    /\ article[u].st # "none"
    /\ article' = [article EXCEPT ![u] = NoArticle]
    /\ ver' = [ver EXCEPT ![u] = {}]
    /\ tomb' = tomb \cup {u}
    /\ job' = JobsWithout(u, ver[u])
    /\ assess' = [assess EXCEPT ![u] = [t \in PageTexts |-> {}]]
    /\ score' = [score EXCEPT ![u] = [t \in PageTexts |-> Unscored]]
    /\ event' = event \ {u}
    /\ UNCHANGED crawl

\* "job was removed by retention"
LateResult(k) == job[k] = "orphan" /\ StepOf(k, "none")

\* Storage maintenance runs with the writers stopped: finished jobs, replaced
\* scores and old versions go.
MaintainVersions ==
    /\ \A c \in Crawls : crawl[c] = NoCrawl
    /\ \A k \in JobKeys : job[k] \notin {"asked", "skipped", "orphan"}
    /\ \E u \in Urls : \E old \in SUBSET (ver[u] \ {article[u].cur}) :
        /\ ver' = [ver EXCEPT ![u] = @ \ old]
        /\ assess' = [assess EXCEPT ![u] =
                        [t \in PageTexts |-> IF t \in old THEN {} ELSE @[t]]]
        /\ score' = [v \in Urls |-> [t \in PageTexts |->
                       IF v = u /\ t \in old THEN Unscored
                       ELSE [r \in Reasons |-> IF score[v][t][r] = "superseded"
                                               THEN "none" ELSE score[v][t][r]]]]
        /\ job' = [k \in JobKeys |-> IF job[k] = "over" \/ (k.url = u /\ k.text \in old)
                                  THEN "none" ELSE job[k]]
    /\ UNCHANGED <<article, tomb, crawl, event>>

PubNext ==
    \/ \E c \in Crawls : Fetch(c) \/ ApplyCrawl(c)
    \/ \E u \in Urls : LeaveEvent(u) \/ RequestAnalysis(u) \/ RetireUrl(u)
    \/ \E k \in JobKeys :
        \/ Analyze(k) \/ GiveUpBudget(k) \/ ApplyAnalysis(k)
        \/ Calculate(k) \/ ApplyScore(k) \/ Fail(k) \/ LateResult(k)
    \/ MaintainVersions

PublishSpec == PubInit /\ [][PubNext]_pubVars

------------------------------------------------------------------------------
(* Properties *)

\* A retired article never comes back, whatever was in flight when it went:
\* no crawl result stores it again, no late analysis or score is kept for it.
RetiredStaysGone ==
    \A u \in tomb :
        /\ article[u] = NoArticle /\ ver[u] = {} /\ u \notin event
        /\ \A t \in PageTexts : assess[u][t] = {} /\ score[u][t] = Unscored

\* A version that was ever scored has exactly one active score, calculated
\* from assessments that are still stored: promotions never leave two, and
\* neither replays nor maintenance leave it scoreless.
OneActiveScore ==
    \A u \in Urls, t \in PageTexts :
        score[u][t] # Unscored =>
            /\ Cardinality({r \in Reasons : score[u][t][r] = "active"}) = 1
            /\ t \in ver[u] /\ assess[u][t] # {}
==============================================================================
