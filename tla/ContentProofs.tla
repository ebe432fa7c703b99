--------------------------- MODULE ContentProofs -----------------------------
(***************************************************************************)
(* The safety properties of Publishing, proved for every number of articles, *)
(* of texts and of crawls in flight; of IssueEditions, for every number of *)
(* issues, articles, texts and revisions and every limit; and of           *)
(* Administration, for every number of keys, tries and profiles.           *)
(***************************************************************************)
EXTENDS Publishing, IssueEditions, Administration, FiniteSetTheorems, TLAPS

ArticleRow == [st: {"none", "blocked", "active"}, cur: PageTexts \cup {NoText}, topic: BOOLEAN]
Fetched == [url: Urls, text: PageTexts \cup {NoText}, curated: BOOLEAN]
JobStatus == {"none", "pending", "asked", "skipped", "orphan", "over"}
Scores == [Reasons -> {"none", "active", "superseded"}]

RowInv ==
  /\ article \in [Urls -> ArticleRow]
  /\ ver \in [Urls -> SUBSET PageTexts]
  /\ tomb \in SUBSET Urls /\ event \in SUBSET Urls
  /\ crawl \in [Crawls -> Fetched \cup {NoCrawl}]
  /\ job \in [JobKeys -> JobStatus]
  /\ assess \in [Urls -> [PageTexts -> SUBSET Reasons]]
  /\ score \in [Urls -> [PageTexts -> Scores]]

\* Nothing is kept for a version that is not stored, and no job will store it:
\* one that still runs has lost its row.
StoredInv ==
  /\ \A u \in Urls : article[u].cur # NoText => article[u].cur \in ver[u]
  /\ \A u \in Urls : \A t \in PageTexts \ ver[u] : assess[u][t] = {} /\ score[u][t] = Unscored
  /\ \A k \in JobKeys : k.text \notin ver[k.url] => job[k] \in {"none", "orphan"}

GoneInv == \A u \in tomb : article[u] = NoArticle /\ ver[u] = {} /\ u \notin event

\* One score of a version is active, and the others are not.
Exclusive(f) == \E r \in Reasons : \A q \in Reasons : f[q] = "active" <=> q = r

\* A score that is about to be stored has assessments behind it.
ScoreInv ==
  /\ \A k \in JobKeys :
       k.kind = "score" /\ job[k] = "asked" => assess[k.url][k.text] # {}
  /\ \A u \in Urls, t \in PageTexts :
       score[u][t] # Unscored => Exclusive(score[u][t]) /\ assess[u][t] # {}

PubInv == RowInv /\ StoredInv /\ GoneInv /\ ScoreInv

LEMMA KeyType == \A k \in JobKeys :
  /\ k.url \in Urls /\ k.text \in PageTexts /\ k.for \in Reasons
  /\ k = [kind |-> k.kind, url |-> k.url, text |-> k.text, for |-> k.for]
BY DEF JobKeys

LEMMA UnscoredType == Unscored \in Scores
BY DEF Unscored, Scores

LEMMA PubInitial == PubInit => PubInv
<1> SUFFICES ASSUME PubInit PROVE PubInv
  OBVIOUS
<1>1. RowInv
  <2>1. NoArticle \in ArticleRow
    BY DEF NoArticle, ArticleRow
  <2> QED BY <2>1, UnscoredType DEF PubInit, RowInv, JobStatus
<1>2. StoredInv /\ GoneInv /\ ScoreInv
  BY KeyType DEF PubInit, StoredInv, GoneInv, ScoreInv, NoArticle
<1> QED BY <1>1, <1>2 DEF PubInv

\* A job takes another status, which it may have only if its version is there.
LEMMA JobStep ==
  ASSUME PubInv, NEW k \in JobKeys, NEW s \in JobStatus,
         k.text \in ver[k.url] \/ s \in {"none", "orphan"},
         k.kind = "score" /\ s = "asked" => assess[k.url][k.text] # {},
         StepOf(k, s)
  PROVE  PubInv'
<1>1. /\ job' \in [JobKeys -> JobStatus]
      /\ \A i \in JobKeys : job'[i] = IF i = k THEN s ELSE job[i]
      /\ UNCHANGED <<article, ver, tomb, crawl, assess, score, event>>
  BY DEF StepOf, PubInv, RowInv
<1>2. RowInv'
  BY <1>1 DEF PubInv, RowInv
<1>3. StoredInv' /\ GoneInv'
  BY <1>1 DEF PubInv, StoredInv, GoneInv
<1>4. ScoreInv'
  BY <1>1 DEF PubInv, ScoreInv
<1> QED BY <1>2, <1>3, <1>4 DEF PubInv

\* Jobs of stored versions are submitted; what is scored stays.
LEMMA SubmitStep ==
  ASSUME PubInv,
         article' \in [Urls -> ArticleRow], ver' \in [Urls -> SUBSET PageTexts],
         event' \in SUBSET Urls, crawl' \in [Crawls -> Fetched \cup {NoCrawl}],
         job' \in [JobKeys -> JobStatus],
         \A k \in JobKeys : \/ job'[k] = job[k]
                            \/ job'[k] # "asked" /\ k.text \in ver'[k.url],
         \A u \in Urls : ver[u] \subseteq ver'[u],
         \A u \in Urls : article'[u].cur # NoText => article'[u].cur \in ver'[u],
         \A u \in tomb : article'[u] = NoArticle /\ ver'[u] = {} /\ u \notin event',
         UNCHANGED <<tomb, assess, score>>
  PROVE  PubInv'
<1>1. RowInv'
  BY DEF PubInv, RowInv
<1>2. StoredInv'
  <2>1. \A k \in JobKeys : k.text \notin ver'[k.url] => job'[k] \in {"none", "orphan"}
    BY KeyType DEF PubInv, StoredInv
  <2> QED BY <2>1 DEF PubInv, StoredInv
<1>3. GoneInv'
  BY DEF GoneInv
<1>4. ScoreInv'
  BY DEF PubInv, ScoreInv
<1> QED BY <1>1, <1>2, <1>3, <1>4 DEF PubInv

(* -------------------------------- crawling -------------------------------- *)

\* What an enqueued job adds.
LEMMA EnqueuedType ==
  ASSUME NEW f \in [JobKeys -> JobStatus], NEW k \in JobKeys
  PROVE  /\ Enqueued(f, k) \in [JobKeys -> JobStatus]
         /\ \A i \in JobKeys : Enqueued(f, k)[i] = f[i] \/ (i = k /\ Enqueued(f, k)[i] = "pending")
BY DEF Enqueued, JobStatus

LEMMA AnalysisJobs ==
  ASSUME job \in [JobKeys -> JobStatus], NEW u \in Urls, NEW t \in PageTexts,
         NEW f \in CrawlAnalysis(u, t) \cup EventAnalysis(u, t)
  PROVE  /\ f \in [JobKeys -> JobStatus]
         /\ \A i \in JobKeys : \/ f[i] = job[i]
                               \/ i.url = u /\ i.text = t /\ f[i] = "pending"
<1> DEFINE K(r) == Key("analyze", u, t, r)
<1>1. \A r \in Reasons : K(r) \in JobKeys /\ K(r).url = u /\ K(r).text = t
  BY DEF Key, JobKeys
<1>2. "crawl" \in Reasons /\ "event" \in Reasons
  BY DEF Reasons
<1>3. \/ f = job \/ f = Enqueued(job, K("crawl")) \/ f = Enqueued(job, K("event"))
      \/ f = [job EXCEPT ![K("event")] = "pending"]
  BY DEF CrawlAnalysis, EventAnalysis
<1> HIDE DEF K
<1>4. CASE f = [job EXCEPT ![K("event")] = "pending"]
  BY <1>1, <1>2, <1>4 DEF JobStatus
<1>5. CASE f = Enqueued(job, K("crawl")) \/ f = Enqueued(job, K("event"))
  BY <1>1, <1>2, <1>5, EnqueuedType
<1> QED BY <1>3, <1>4, <1>5

LEMMA ApplyCrawlStep ==
  ASSUME PubInv, NEW c \in Crawls, ApplyCrawl(c) PROVE PubInv'
<1> DEFINE r == crawl[c]
<1>1. r \in Fetched
  BY DEF ApplyCrawl, PubInv, RowInv
<1>2. r.url \in Urls /\ r.text \in PageTexts \cup {NoText} /\ r.curated \in BOOLEAN
  BY <1>1 DEF Fetched
<1>3. crawl' \in [Crawls -> Fetched \cup {NoCrawl}]
  BY DEF ApplyCrawl, PubInv, RowInv
<1>4. UNCHANGED <<tomb, assess, score>>
  BY DEF ApplyCrawl
<1> HIDE DEF r
<1>5. CASE r.url \in tomb
  <2>1. UNCHANGED <<article, ver, job, event>>
    BY <1>5 DEF ApplyCrawl, SkipIngestion, r
  <2> QED BY <1>3, <1>4, <2>1 DEF PubInv, RowInv, StoredInv, GoneInv, ScoreInv
<1>6. CASE r.url \notin tomb /\ r.text = NoText
  <2>1. /\ article' = [article EXCEPT ![r.url] = Upserted(article[r.url], r)]
        /\ UNCHANGED <<ver, job, event>>
    BY <1>6 DEF ApplyCrawl, SkipIngestion, r
  <2>2. article[r.url] \in ArticleRow
    BY <1>2 DEF PubInv, RowInv
  <2>3. /\ Upserted(article[r.url], r) \in ArticleRow
        /\ Upserted(article[r.url], r).cur = article[r.url].cur
    BY <1>6, <2>2 DEF Upserted, ArticleRow
  <2>4. /\ article' \in [Urls -> ArticleRow]
        /\ \A u \in Urls : article'[u].cur = article[u].cur
        /\ \A u \in Urls : u # r.url => article'[u] = article[u]
    BY <1>2, <2>1, <2>3 DEF PubInv, RowInv
  <2> QED BY <1>3, <1>4, <1>6, <2>1, <2>4, SubmitStep DEF PubInv, RowInv, StoredInv, GoneInv
<1>7. CASE r.url \notin tomb /\ r.text # NoText
  <2>1. /\ article' = [article EXCEPT ![r.url] = Upserted(article[r.url], r)]
        /\ ver' = [ver EXCEPT ![r.url] = ver[r.url] \cup {r.text}]
        /\ job' \in CrawlAnalysis(r.url, r.text) \cup EventAnalysis(r.url, r.text)
        /\ event' = event \/ event' = event \cup {r.url}
    BY <1>7 DEF ApplyCrawl, SkipIngestion, r
  <2>2. r.text \in PageTexts
    BY <1>2, <1>7
  <2>3. article[r.url] \in ArticleRow
    BY <1>2 DEF PubInv, RowInv
  <2>4. /\ Upserted(article[r.url], r) \in ArticleRow
        /\ Upserted(article[r.url], r).cur = r.text
    BY <1>2, <1>7, <2>2, <2>3 DEF Upserted, ArticleRow
  <2>5. /\ article' \in [Urls -> ArticleRow]
        /\ article'[r.url].cur = r.text
        /\ \A u \in Urls : u # r.url => article'[u] = article[u]
    BY <1>2, <2>1, <2>4 DEF PubInv, RowInv
  <2>6. /\ ver' \in [Urls -> SUBSET PageTexts]
        /\ ver'[r.url] = ver[r.url] \cup {r.text}
        /\ \A u \in Urls : u # r.url => ver'[u] = ver[u]
    BY <1>2, <2>1, <2>2 DEF PubInv, RowInv
  <2>7. /\ job' \in [JobKeys -> JobStatus]
        /\ \A i \in JobKeys : \/ job'[i] = job[i]
                              \/ i.url = r.url /\ i.text = r.text /\ job'[i] = "pending"
    BY <1>2, <2>1, <2>2, AnalysisJobs DEF PubInv, RowInv
  <2>8. \A i \in JobKeys : job'[i] = job[i] \/ (job'[i] # "asked" /\ i.text \in ver'[i.url])
    BY <2>6, <2>7
  <2>9. \A u \in Urls : /\ ver[u] \subseteq ver'[u]
                        /\ article'[u].cur # NoText => article'[u].cur \in ver'[u]
    BY <2>5, <2>6 DEF PubInv, StoredInv
  <2>10. event' \in SUBSET Urls
         /\ \A u \in tomb : article'[u] = NoArticle /\ ver'[u] = {} /\ u \notin event'
    BY <1>2, <1>7, <2>1, <2>5, <2>6 DEF PubInv, RowInv, GoneInv
  <2> QED BY <1>3, <1>4, <2>5, <2>6, <2>7, <2>8, <2>9, <2>10, SubmitStep
<1> QED BY <1>5, <1>6, <1>7

LEMMA RequestStep ==
  ASSUME PubInv, NEW u \in Urls, RequestAnalysis(u) PROVE PubInv'
<1> DEFINE k == Key("analyze", u, article[u].cur, "admin")
<1>1. article[u].cur \in PageTexts /\ article[u].cur \in ver[u]
  BY DEF RequestAnalysis, PubInv, RowInv, ArticleRow, StoredInv
<1>2. k \in JobKeys /\ k.kind = "analyze" /\ k.url = u /\ k.text = article[u].cur
  BY <1>1 DEF Key, JobKeys, Reasons
<1>3. StepOf(k, "pending")
  BY DEF RequestAnalysis, StepOf
<1> HIDE DEF k
<1> QED BY <1>1, <1>2, <1>3, JobStep DEF JobStatus

LEMMA OutsideSteps ==
  ASSUME PubInv,
         \/ \E c \in Crawls : Fetch(c)
         \/ \E u \in Urls : LeaveEvent(u)
         \/ UNCHANGED pubVars
  PROVE  PubInv'
<1>1. /\ UNCHANGED <<article, ver, tomb, job, assess, score>>
      /\ event' \subseteq event
  BY DEF Fetch, LeaveEvent, pubVars
<1>2. crawl' \in [Crawls -> Fetched \cup {NoCrawl}]
  BY DEF Fetch, LeaveEvent, pubVars, PubInv, RowInv, Fetched
<1> QED BY <1>1, <1>2 DEF PubInv, RowInv, StoredInv, GoneInv, ScoreInv

(* --------------------------- analyses and scores --------------------------- *)

\* A job that is neither absent nor an orphan is of a stored version.
LEMMA StoredVersion ==
  ASSUME PubInv, NEW k \in JobKeys, job[k] \notin {"none", "orphan"}
  PROVE  k.text \in ver[k.url]
BY DEF PubInv, StoredInv

LEMMA JobSteps ==
  ASSUME PubInv, NEW k \in JobKeys,
         Analyze(k) \/ GiveUpBudget(k) \/ Calculate(k) \/ Fail(k) \/ LateResult(k)
  PROVE  PubInv'
<1>1. CASE Analyze(k)
  BY <1>1, JobStep, StoredVersion DEF Analyze, JobStatus
<1>2. CASE GiveUpBudget(k)
  BY <1>2, JobStep, StoredVersion DEF GiveUpBudget, JobStatus
<1>3. CASE Calculate(k)
  BY <1>3, JobStep, StoredVersion DEF Calculate, JobStatus
<1>4. CASE Fail(k)
  BY <1>4, JobStep, StoredVersion DEF Fail, JobStatus
<1>5. CASE LateResult(k)
  BY <1>5, JobStep DEF LateResult, JobStatus
<1> QED BY <1>1, <1>2, <1>3, <1>4, <1>5

LEMMA ApplyAnalysisStep ==
  ASSUME PubInv, NEW k \in JobKeys, ApplyAnalysis(k) PROVE PubInv'
<1>1. /\ k.url \in Urls /\ k.text \in PageTexts /\ k.for \in Reasons
      /\ k.text \in ver[k.url]
  BY KeyType, StoredVersion DEF ApplyAnalysis
<1>2. CASE job[k] = "skipped"
  <2>1. StepOf(k, "over")
    BY <1>2 DEF ApplyAnalysis, StepOf
  <2> QED BY <1>1, <2>1, JobStep DEF JobStatus
<1>3. CASE job[k] # "skipped"
  <2> DEFINE next == [k EXCEPT !.kind = "score"]
             queued == Enqueued(job, next)
  <2>1. next \in JobKeys /\ next.url = k.url /\ next.text = k.text
    BY DEF JobKeys
  <2> HIDE DEF next
  <2>2. /\ queued \in [JobKeys -> JobStatus]
        /\ \A i \in JobKeys : queued[i] = job[i] \/ (i = next /\ queued[i] = "pending")
    BY <2>1, EnqueuedType DEF PubInv, RowInv
  <2>3. /\ assess' = [assess EXCEPT ![k.url][k.text] = assess[k.url][k.text] \cup {k.for}]
        /\ job' = [queued EXCEPT ![k] = "over"]
        /\ UNCHANGED <<article, ver, tomb, crawl, score, event>>
    BY <1>3 DEF ApplyAnalysis, next
  <2> HIDE DEF queued
  <2>4. /\ assess' \in [Urls -> [PageTexts -> SUBSET Reasons]]
        /\ \A u \in Urls, t \in PageTexts : assess[u][t] \subseteq assess'[u][t]
        /\ \A u \in Urls, t \in PageTexts : u # k.url \/ t # k.text => assess'[u][t] = assess[u][t]
    BY <1>1, <2>3 DEF PubInv, RowInv
  <2>5. /\ job' \in [JobKeys -> JobStatus]
        /\ \A i \in JobKeys : \/ job'[i] = job[i]
                              \/ i.url = k.url /\ i.text = k.text /\ job'[i] \in {"pending", "over"}
    BY <2>1, <2>2, <2>3 DEF JobStatus
  <2>6. RowInv'
    BY <2>3, <2>4, <2>5 DEF PubInv, RowInv
  <2>7. StoredInv'
    <3>1. \A u \in Urls : \A t \in PageTexts \ ver[u] : assess'[u][t] = {}
      BY <1>1, <2>4 DEF PubInv, StoredInv
    <3>2. \A i \in JobKeys : i.text \notin ver[i.url] => job'[i] \in {"none", "orphan"}
      BY <1>1, <2>5 DEF PubInv, StoredInv
    <3> QED BY <2>3, <3>1, <3>2 DEF PubInv, StoredInv
  <2>8. GoneInv'
    BY <2>3 DEF PubInv, GoneInv
  <2>9. ScoreInv'
    <3>1. \A i \in JobKeys : i.kind = "score" /\ job'[i] = "asked" => assess'[i.url][i.text] # {}
      BY <2>4, <2>5, KeyType DEF PubInv, ScoreInv
    <3>2. \A u \in Urls, t \in PageTexts :
            score'[u][t] # Unscored => Exclusive(score'[u][t]) /\ assess'[u][t] # {}
      BY <2>3, <2>4 DEF PubInv, ScoreInv
    <3> QED BY <3>1, <3>2 DEF ScoreInv, Exclusive
  <2> QED BY <2>6, <2>7, <2>8, <2>9 DEF PubInv
<1> QED BY <1>2, <1>3

\* Demoting leaves nothing active, so that the new score is alone.
LEMMA Promoted ==
  ASSUME NEW f \in Scores, NEW r \in Reasons
  PROVE  /\ [Demoted(f) EXCEPT ![r] = "active"] \in Scores
         /\ Exclusive([Demoted(f) EXCEPT ![r] = "active"])
<1>1. /\ Demoted(f) \in Scores
      /\ \A q \in Reasons : Demoted(f)[q] # "active"
  BY DEF Demoted, Scores
<1>2. \A q \in Reasons :
        [Demoted(f) EXCEPT ![r] = "active"][q] = IF q = r THEN "active" ELSE Demoted(f)[q]
  BY <1>1 DEF Scores
<1>3. [Demoted(f) EXCEPT ![r] = "active"] \in Scores
  BY <1>1 DEF Scores
<1> QED BY <1>1, <1>2, <1>3 DEF Exclusive

LEMMA ApplyScoreStep ==
  ASSUME PubInv, NEW k \in JobKeys, ApplyScore(k) PROVE PubInv'
<1> DEFINE u == k.url
           t == k.text
           new == [Demoted(score[u][t]) EXCEPT ![k.for] = "active"]
<1>1. /\ u \in Urls /\ t \in PageTexts /\ k.for \in Reasons /\ t \in ver[u]
      /\ assess[u][t] # {}
      /\ score' = [score EXCEPT ![u][t] = new]
      /\ job' = [job EXCEPT ![k] = "over"]
      /\ UNCHANGED <<article, ver, tomb, crawl, assess, event>>
  BY KeyType DEF ApplyScore, PubInv, ScoreInv
<1>2. new \in Scores /\ Exclusive(new)
  BY <1>1, Promoted DEF PubInv, RowInv
<1> HIDE DEF new
<1>3. /\ score' \in [Urls -> [PageTexts -> Scores]]
      /\ score'[u][t] = new
      /\ \A v \in Urls, s \in PageTexts : v # u \/ s # t => score'[v][s] = score[v][s]
  BY <1>1, <1>2 DEF PubInv, RowInv
<1>4. /\ job' \in [JobKeys -> JobStatus]
      /\ \A i \in JobKeys : job'[i] = IF i = k THEN "over" ELSE job[i]
  BY <1>1 DEF PubInv, RowInv, JobStatus
<1>5. RowInv'
  BY <1>1, <1>3, <1>4 DEF PubInv, RowInv
<1>6. StoredInv' /\ GoneInv'
  BY <1>1, <1>3, <1>4 DEF PubInv, StoredInv, GoneInv
<1>7. ScoreInv'
  <2>1. \A v \in Urls, s \in PageTexts :
          score'[v][s] # Unscored => Exclusive(score'[v][s]) /\ assess'[v][s] # {}
    BY <1>1, <1>2, <1>3 DEF PubInv, ScoreInv
  <2>2. \A i \in JobKeys : i.kind = "score" /\ job'[i] = "asked" => assess'[i.url][i.text] # {}
    BY <1>1, <1>4 DEF PubInv, ScoreInv
  <2> QED BY <2>1, <2>2 DEF ScoreInv, Exclusive
<1> QED BY <1>5, <1>6, <1>7 DEF PubInv

(* ------------------------ retention and maintenance ------------------------ *)

LEMMA RetireStep ==
  ASSUME PubInv, NEW u \in Urls, RetireUrl(u) PROVE PubInv'
<1>1. /\ article' \in [Urls -> ArticleRow] /\ ver' \in [Urls -> SUBSET PageTexts]
      /\ article'[u] = NoArticle /\ ver'[u] = {}
      /\ \A v \in Urls : v # u => article'[v] = article[v] /\ ver'[v] = ver[v]
      /\ tomb' = tomb \cup {u} /\ event' = event \ {u} /\ crawl' = crawl
  BY DEF RetireUrl, PubInv, RowInv, NoArticle, ArticleRow
<1>2. /\ assess' \in [Urls -> [PageTexts -> SUBSET Reasons]]
      /\ \A t \in PageTexts : assess'[u][t] = {}
      /\ \A v \in Urls : v # u => assess'[v] = assess[v]
  BY DEF RetireUrl, PubInv, RowInv
<1>3. /\ score' \in [Urls -> [PageTexts -> Scores]]
      /\ \A t \in PageTexts : score'[u][t] = Unscored
      /\ \A v \in Urls : v # u => score'[v] = score[v]
  BY UnscoredType DEF RetireUrl, PubInv, RowInv
<1>4. /\ job' \in [JobKeys -> JobStatus]
      /\ \A k \in JobKeys : IF k.url = u THEN job'[k] \in {"none", "orphan"}
                                         ELSE job'[k] = job[k]
  BY DEF RetireUrl, JobsWithout, PubInv, RowInv, StoredInv, JobStatus
<1>5. RowInv'
  BY <1>1, <1>2, <1>3, <1>4 DEF PubInv, RowInv
<1>6. StoredInv'
  <2>1. \A v \in Urls : article'[v].cur # NoText => article'[v].cur \in ver'[v]
    BY <1>1 DEF PubInv, StoredInv, NoArticle
  <2>2. \A v \in Urls : \A t \in PageTexts \ ver'[v] : assess'[v][t] = {} /\ score'[v][t] = Unscored
    BY <1>1, <1>2, <1>3 DEF PubInv, StoredInv
  <2>3. \A k \in JobKeys : k.text \notin ver'[k.url] => job'[k] \in {"none", "orphan"}
    BY <1>1, <1>4, KeyType DEF PubInv, StoredInv
  <2> QED BY <2>1, <2>2, <2>3 DEF StoredInv, Unscored
<1>7. GoneInv'
  BY <1>1 DEF PubInv, RowInv, GoneInv, NoArticle
<1>8. ScoreInv'
  <2>1. \A k \in JobKeys : k.kind = "score" /\ job'[k] = "asked" => assess'[k.url][k.text] # {}
    BY <1>2, <1>4, KeyType DEF PubInv, ScoreInv
  <2>2. \A v \in Urls, t \in PageTexts :
          score'[v][t] # Unscored => Exclusive(score'[v][t]) /\ assess'[v][t] # {}
    BY <1>2, <1>3 DEF PubInv, ScoreInv
  <2> QED BY <2>1, <2>2 DEF ScoreInv, Exclusive, Unscored
<1> QED BY <1>5, <1>6, <1>7, <1>8 DEF PubInv

\* Maintenance drops the scores that were replaced.
KeptScore(f) == [r \in Reasons |-> IF f[r] = "superseded" THEN "none" ELSE f[r]]

LEMMA KeptScores ==
  ASSUME NEW f \in Scores
  PROVE  /\ KeptScore(f) \in Scores
         /\ f = Unscored => KeptScore(f) = Unscored
         /\ Exclusive(f) => Exclusive(KeptScore(f))
BY DEF KeptScore, Scores, Unscored, Exclusive

LEMMA MaintainStep ==
  ASSUME PubInv, MaintainVersions PROVE PubInv'
<1>0. PICK u \in Urls : \E old \in SUBSET (ver[u] \ {article[u].cur}) :
        /\ ver' = [ver EXCEPT ![u] = @ \ old]
        /\ assess' = [assess EXCEPT ![u] = [t \in PageTexts |-> IF t \in old THEN {} ELSE @[t]]]
        /\ score' = [v \in Urls |-> [t \in PageTexts |->
                       IF v = u /\ t \in old THEN Unscored ELSE KeptScore(score[v][t])]]
        /\ job' = [k \in JobKeys |-> IF job[k] = "over" \/ (k.url = u /\ k.text \in old)
                                     THEN "none" ELSE job[k]]
  BY Zenon DEF MaintainVersions, KeptScore
<1>1. PICK old \in SUBSET (ver[u] \ {article[u].cur}) :
        /\ ver' = [ver EXCEPT ![u] = ver[u] \ old]
        /\ assess' = [assess EXCEPT ![u] = [t \in PageTexts |->
                                              IF t \in old THEN {} ELSE assess[u][t]]]
        /\ score' = [v \in Urls |-> [t \in PageTexts |->
                       IF v = u /\ t \in old THEN Unscored ELSE KeptScore(score[v][t])]]
        /\ job' = [k \in JobKeys |-> IF job[k] = "over" \/ (k.url = u /\ k.text \in old)
                                     THEN "none" ELSE job[k]]
  BY <1>0
<1>2. UNCHANGED <<article, tomb, crawl, event>>
  BY DEF MaintainVersions
<1> DEFINE Dropped(v, t) == v = u /\ t \in old
<1>3. /\ ver' \in [Urls -> SUBSET PageTexts]
      /\ \A v \in Urls, t \in PageTexts : t \in ver'[v] <=> t \in ver[v] /\ ~Dropped(v, t)
  BY <1>1 DEF PubInv, RowInv
<1>4. /\ assess' \in [Urls -> [PageTexts -> SUBSET Reasons]]
      /\ \A v \in Urls, t \in PageTexts :
           assess'[v][t] = IF Dropped(v, t) THEN {} ELSE assess[v][t]
  BY <1>1 DEF PubInv, RowInv
<1>5. /\ score' \in [Urls -> [PageTexts -> Scores]]
      /\ \A v \in Urls, t \in PageTexts :
           score'[v][t] = IF Dropped(v, t) THEN Unscored ELSE KeptScore(score[v][t])
  <2>1. \A v \in Urls, t \in PageTexts : KeptScore(score[v][t]) \in Scores
    BY KeptScores DEF PubInv, RowInv
  <2> QED BY <1>1, <2>1, UnscoredType
<1>6. /\ job' \in [JobKeys -> JobStatus]
      /\ \A k \in JobKeys : job'[k] = job[k] \/ job'[k] = "none"
      /\ \A k \in JobKeys : Dropped(k.url, k.text) => job'[k] = "none"
  BY <1>1 DEF PubInv, RowInv, JobStatus
<1>7. \A v \in Urls : article[v].cur # NoText => article[v].cur \in PageTexts
                                                 /\ ~Dropped(v, article[v].cur)
  BY <1>1 DEF PubInv, RowInv, ArticleRow
<1> HIDE DEF Dropped
<1>8. RowInv'
  BY <1>2, <1>3, <1>4, <1>5, <1>6 DEF PubInv, RowInv
<1>9. StoredInv'
  <2>1. \A v \in Urls : article'[v].cur # NoText => article'[v].cur \in ver'[v]
    BY <1>2, <1>3, <1>7 DEF PubInv, StoredInv
  <2>2. \A v \in Urls : \A t \in PageTexts \ ver'[v] : assess'[v][t] = {} /\ score'[v][t] = Unscored
    BY <1>3, <1>4, <1>5, KeptScores DEF PubInv, RowInv, StoredInv
  <2>3. \A k \in JobKeys : k.text \notin ver'[k.url] => job'[k] \in {"none", "orphan"}
    BY <1>3, <1>6, KeyType DEF PubInv, StoredInv
  <2> QED BY <2>1, <2>2, <2>3 DEF StoredInv, Unscored
<1>10. GoneInv'
  <2>1. \A v \in tomb : ver'[v] \subseteq ver[v]
    BY <1>3 DEF PubInv, RowInv
  <2> QED BY <1>2, <2>1 DEF PubInv, GoneInv
<1>11. ScoreInv'
  <2>1. \A k \in JobKeys : k.kind = "score" /\ job'[k] = "asked" => assess'[k.url][k.text] # {}
    BY <1>4, <1>6, KeyType DEF PubInv, ScoreInv
  <2>2. ASSUME NEW v \in Urls, NEW t \in PageTexts, score'[v][t] # Unscored
        PROVE  Exclusive(score'[v][t]) /\ assess'[v][t] # {}
    <3>1. ~Dropped(v, t) /\ score'[v][t] = KeptScore(score[v][t]) /\ score[v][t] \in Scores
      BY <1>5, <2>2 DEF PubInv, RowInv
    <3>2. score[v][t] # Unscored
      BY <2>2, <3>1, KeptScores
    <3>3. Exclusive(score[v][t]) /\ assess[v][t] # {}
      BY <3>2 DEF PubInv, ScoreInv
    <3> QED BY <1>4, <3>1, <3>3, KeptScores
  <2> QED BY <2>1, <2>2 DEF ScoreInv, Exclusive, Unscored
<1> QED BY <1>8, <1>9, <1>10, <1>11 DEF PubInv

LEMMA PubStep == PubInv /\ [PubNext]_pubVars => PubInv'
BY OutsideSteps, ApplyCrawlStep, RequestStep, RetireStep, JobSteps, ApplyAnalysisStep,
   ApplyScoreStep, MaintainStep DEF PubNext

(* ------------------------------- theorems --------------------------------- *)

\* An article is stored at a version it has, a deleted one leaves nothing
\* behind, and of the scores of a version at most one is active, with an
\* assessment behind it.
THEOREM PubInvariant == PublishSpec => []PubInv
BY PubInitial, PubStep, PTL DEF PublishSpec

\* A retired article never comes back, whatever was in flight when it went.
THEOREM RetiredTheorem == PublishSpec => []RetiredStaysGone
<1>1. PubInv => RetiredStaysGone
  BY DEF PubInv, RowInv, StoredInv, GoneInv, RetiredStaysGone
<1> QED BY <1>1, PubInvariant, PTL

\* A version that was ever scored has exactly one active score.
THEOREM ScoreTheorem == PublishSpec => []OneActiveScore
<1>1. PubInv => OneActiveScore
  <2> SUFFICES ASSUME PubInv, NEW u \in Urls, NEW t \in PageTexts, score[u][t] # Unscored
               PROVE  /\ Cardinality({r \in Reasons : score[u][t][r] = "active"}) = 1
                      /\ t \in ver[u] /\ assess[u][t] # {}
    BY DEF OneActiveScore
  <2>1. t \in ver[u] /\ assess[u][t] # {} /\ Exclusive(score[u][t])
    BY DEF PubInv, StoredInv, ScoreInv
  <2>2. PICK r \in Reasons : \A q \in Reasons : score[u][t][q] = "active" <=> q = r
    BY <2>1 DEF Exclusive
  <2>3. {q \in Reasons : score[u][t][q] = "active"} = {r}
    BY <2>2
  <2> QED BY <2>1, <2>3, FS_Singleton
<1> QED BY <1>1, PubInvariant, PTL

(* --------------------- issues and their comparisons ------------------------ *)

IssueRow == [st: IssueStatus \cup {"none"}, mem: SUBSET Arts, ver: Nat]
Move == [op: {"merge", "split"}, from: Issues, to: Issues, arts: SUBSET Arts]

\* A table of snapshots; what they hold plays no part.
Snapshots(sn) ==
  /\ DOMAIN sn = Issues
  /\ \A i \in Issues : DOMAIN sn[i] = IssueVersions
  /\ \A i \in Issues, v \in IssueVersions : DOMAIN sn[i][v] = {"st", "in", "rev", "fp"}

EditionRows ==
  /\ issue \in [Issues -> IssueRow]
  /\ DOMAIN art = Arts
  /\ ops \subseteq Move /\ \A o \in ops : o.from # o.to
  /\ Snapshots(snap)

\* An approved snapshot of the second table is in the first one as it is.
KeepsApproved(sn, new) ==
  \A i \in Issues, v \in IssueVersions : new[i][v].rev => new[i][v] = sn[i][v]

LEMMA EditionInitial == EditionInit => EditionRows
BY EditionsAssumption DEF EditionInit, EditionRows, IssueRow, Move, Snapshots, NoIssue, NoSnap

\* Reusing a stored comparison copies it without its approval.
LEMMA ReusedKeeps ==
  ASSUME NEW is, NEW ar, NEW sn, NEW as, Snapshots(sn)
  PROVE  Snapshots(Reused(is, ar, sn, as)) /\ KeepsApproved(sn, Reused(is, ar, sn, as))
<1> DEFINE new == Reused(is, ar, sn, as)
<1>1. ASSUME NEW i \in Issues
      PROVE  \/ new[i] = sn[i]
             \/ \E v, w : new[i] = Copied(sn[i], v, w)
  BY DEF Reused
<1>2. DOMAIN new = Issues
  BY DEF Reused
<1> HIDE DEF new
<1>3. ASSUME NEW i \in Issues, NEW v \in IssueVersions
      PROVE  /\ DOMAIN new[i] = IssueVersions
             /\ \/ new[i][v] = sn[i][v]
                \/ DOMAIN new[i][v] = {"st", "in", "rev", "fp"} /\ new[i][v].rev = FALSE
  <2>1. CASE new[i] = sn[i]
    BY <2>1 DEF Snapshots
  <2>2. CASE new[i] # sn[i]
    <3>1. PICK u, w : new[i] = Copied(sn[i], u, w)
      BY <1>1, <2>2
    <3> QED BY <3>1 DEF Copied, Fresh, Snapshots
  <2> QED BY <2>1, <2>2
<1>4. Snapshots(new)
  <2>1. ASSUME NEW i \in Issues, NEW v \in IssueVersions
        PROVE  DOMAIN sn[i][v] = {"st", "in", "rev", "fp"}
    BY DEF Snapshots
  <2>2. ASSUME NEW i \in Issues PROVE DOMAIN new[i] = IssueVersions
    BY <1>1, <2>1 DEF Snapshots, Copied
  <2> QED BY <1>2, <1>3, <2>1, <2>2 DEF Snapshots
<1>5. KeepsApproved(sn, new)
  BY <1>3 DEF KeepsApproved
<1> QED BY <1>4, <1>5 DEF new

LEMMA StoredKeeps ==
  ASSUME Snapshots(snap), NEW i, NEW v, NEW r, snap' = [snap EXCEPT ![i] = Stored(@, v, r)]
  PROVE  /\ Snapshots(snap)'
         /\ \A k \in Issues, w \in IssueVersions : snap'[k][w].rev => snap'[k][w].in = snap[k][w].in
<1>1. ASSUME NEW w \in IssueVersions, i \in Issues
      PROVE  /\ DOMAIN Stored(snap[i], v, r)[w] = {"st", "in", "rev", "fp"}
             /\ Stored(snap[i], v, r)[w].rev => Stored(snap[i], v, r)[w].in = snap[i][w].in
  BY <1>1 DEF Stored, Fresh, Snapshots
<1>2. DOMAIN Stored(snap[i], v, r) = IssueVersions
  BY DEF Stored
<1> HIDE DEF Stored
<1>3. \A k \in Issues : k # i => snap'[k] = snap[k]
  BY DEF Snapshots
<1>4. i \in Issues => snap'[i] = Stored(snap[i], v, r)
  BY DEF Snapshots
<1> QED BY <1>1, <1>2, <1>3, <1>4 DEF Snapshots

\* What taking a candidate into the edition keeps.
EditionType(e) == e.issue \in [Issues -> IssueRow] /\ Snapshots(e.snap)

LEMMA TakeKeeps ==
  ASSUME NEW e, EditionType(e), NEW c \in Candidates
  PROVE  EditionType(Take(e, c)) /\ KeepsApproved(e.snap, Take(e, c).snap)
<1> DEFINE articles == {a \in OnePerPublisher(c.arts \ e.seen) : art[a].ok}
           old == e.issue[c.id]
           row == [st |-> "active", mem |-> articles,
                   ver |-> IF old.st = "none" THEN 1 ELSE old.ver + 1]
           is == [e.issue EXCEPT ![c.id] = row]
           new == Reused(is, art, e.snap, First(articles))
<1>1. CASE Take(e, c) = e
  BY <1>1 DEF EditionType, KeepsApproved
<1>2. CASE Take(e, c) # e
  <2>1. Take(e, c).issue = is /\ Take(e, c).snap = new
    BY <1>2 DEF Take
  <2>2. c.id \in Issues /\ articles \subseteq Arts
    BY EditionsAssumption DEF Candidates, OnePerPublisher
  <2>3. row \in IssueRow
    <3>1. old.ver \in Nat
      BY <2>2 DEF EditionType, IssueRow
    <3>2. (IF old.st = "none" THEN 1 ELSE old.ver + 1) \in Nat
      BY <3>1
    <3> HIDE DEF articles
    <3> QED BY <2>2, <3>2 DEF IssueRow, IssueStatus
  <2>4. is \in [Issues -> IssueRow]
    BY <2>2, <2>3 DEF EditionType
  <2> QED BY <2>1, <2>4, ReusedKeeps DEF EditionType
<1> QED BY <1>1, <1>2

LEMMA PublishedStep ==
  ASSUME NEW e, EditionType(e), Published(e), EditionRows
  PROVE  EditionRows' /\ KeepsApproved(e.snap, snap') /\ UNCHANGED ops
<1>1. PICK kept \in Kept(e) :
        /\ issue' = Closed(e.issue, e.ids \cup kept)
        /\ snap' = Reused(e.issue, art, e.snap, UNION {First(PublicOf(e, i)) : i \in kept})
        /\ UNCHANGED <<art, ops>>
  BY DEF Published
<1>2. issue' \in [Issues -> IssueRow]
  <2>1. ASSUME NEW i \in Issues
        PROVE  e.issue[i] \in IssueRow /\ [e.issue[i] EXCEPT !.st = "archived"] \in IssueRow
    BY DEF EditionType, IssueRow, IssueStatus
  <2> QED BY <1>1, <2>1 DEF Closed
<1> QED BY <1>1, <1>2, ReusedKeeps DEF EditionType, EditionRows

LEMMA PublishStep ==
  ASSUME EditionRows, NEW c \in Candidates, NEW d \in Candidates, Publish(c) \/ PublishTwo(c, d)
  PROVE  EditionRows' /\ KeepsApproved(snap, snap') /\ UNCHANGED ops
<1> DEFINE one == Take(NewEdition, c)
           two == Take(one, d)
<1>1. EditionType(NewEdition) /\ NewEdition.snap = snap
  BY DEF EditionRows, EditionType, NewEdition
<1>2. EditionType(one) /\ KeepsApproved(snap, one.snap)
  BY <1>1, TakeKeeps
<1> HIDE DEF one
<1>3. EditionType(two) /\ KeepsApproved(one.snap, two.snap)
  BY <1>2, TakeKeeps
<1>4. KeepsApproved(snap, two.snap)
  BY <1>2, <1>3 DEF KeepsApproved
<1> HIDE DEF two
<1>5. CASE Published(one)
  BY <1>2, <1>5, PublishedStep DEF KeepsApproved
<1>6. CASE Published(two)
  BY <1>3, <1>4, <1>6, PublishedStep DEF KeepsApproved
<1> QED BY <1>5, <1>6 DEF Publish, PublishTwo, one, two

LEMMA ArticleSteps ==
  ASSUME EditionRows, NEW a \in Arts, Analyzed(a) \/ Crawled(a) \/ Withdraw(a) \/ Retire(a)
  PROVE  EditionRows' /\ KeepsApproved(snap, snap')
<1>1. CASE Analyzed(a)
  BY <1>1, ReusedKeeps DEF Analyzed, EditionRows
<1>2. CASE UNCHANGED <<issue, snap, ops>> /\ DOMAIN art' = DOMAIN art
  BY <1>2 DEF EditionRows, KeepsApproved, Snapshots
<1>3. CASE Retire(a)
  <2>1. ASSUME NEW i \in Issues PROVE issue'[i] \in IssueRow
    <3>1. issue[i] \in IssueRow
      BY DEF EditionRows
    <3>2. [issue[i] EXCEPT !.mem = @ \ {a},
                           !.st = IF issue[i].mem = {a} THEN "archived" ELSE @] \in IssueRow
      BY <3>1 DEF IssueRow, IssueStatus
    <3> QED BY <1>3, <3>1, <3>2 DEF Retire
  <2>2. issue' \in [Issues -> IssueRow]
    BY <1>3, <2>1 DEF Retire
  <2>3. Snapshots(snap)' /\ KeepsApproved(snap, snap')
    BY <1>3 DEF Retire, EditionRows, Snapshots, KeepsApproved, NoSnap
  <2>4. ops' \subseteq Move /\ \A o \in ops' : o.from # o.to
    BY <1>3 DEF Retire, EditionRows
  <2>5. DOMAIN art' = Arts
    BY <1>3 DEF Retire, EditionRows
  <2> QED BY <2>2, <2>3, <2>4, <2>5 DEF EditionRows
<1> QED BY <1>1, <1>2, <1>3 DEF Crawled, Withdraw

LEMMA ComparisonSteps ==
  ASSUME EditionRows,
         \/ \E j \in cmp : Build(j) \/ Defer(j) \/ ApplyComparison(j)
         \/ \E i \in Issues : Review(i)
         \/ MaintainSnapshots
  PROVE  /\ EditionRows' /\ UNCHANGED <<issue, ops>>
         /\ \A k \in Issues, w \in IssueVersions : snap'[k][w].rev => snap'[k][w].in = snap[k][w].in
<1>1. CASE UNCHANGED <<issue, art, snap, ops>>
  BY <1>1 DEF EditionRows, Snapshots
<1>2. ASSUME NEW j \in cmp, ApplyComparison(j)
      PROVE  /\ EditionRows' /\ UNCHANGED <<issue, ops>>
             /\ \A k \in Issues, w \in IssueVersions :
                  snap'[k][w].rev => snap'[k][w].in = snap[k][w].in
  <2>1. \/ snap' = snap
        \/ snap' = [snap EXCEPT ![j.issue] = Stored(@, issue[j.issue].ver, Reported(j))]
    BY <1>2 DEF ApplyComparison
  <2> QED BY <1>1, <1>2, <2>1, StoredKeeps DEF ApplyComparison, EditionRows
<1>3. ASSUME NEW i \in Issues, Review(i)
      PROVE  /\ EditionRows' /\ UNCHANGED <<issue, ops>>
             /\ \A k \in Issues, w \in IssueVersions : snap'[k][w].in = snap[k][w].in
  BY <1>3 DEF Review, EditionRows, Snapshots
<1>4. CASE MaintainSnapshots
  BY <1>4 DEF MaintainSnapshots, EditionRows, Snapshots, NoSnap
<1> QED BY <1>1, <1>2, <1>3, <1>4 DEF Build, Defer

LEMMA IssueSteps ==
  ASSUME EditionRows, NEW i \in Issues,
         \/ PatchIssue(i)
         \/ \E as \in SUBSET Arts : Cluster(i, as)
         \/ \E j \in Issues : RequestMerge(i, j) \/ \E a \in Arts : RequestSplit(i, j, a)
  PROVE  EditionRows' /\ KeepsApproved(snap, snap') /\ ops \subseteq ops'
<1>1. issue \in [Issues -> IssueRow] /\ issue[i] \in IssueRow
  BY DEF EditionRows
<1>2. UNCHANGED <<art, snap>> =>
        Snapshots(snap)' /\ KeepsApproved(snap, snap') /\ DOMAIN art' = Arts
  BY DEF EditionRows, Snapshots, KeepsApproved
<1>3. CASE PatchIssue(i)
  <2>1. PICK s \in IssueStatus : issue' = [issue EXCEPT ![i].st = s, ![i].ver = @ + 1]
    BY <1>3 DEF PatchIssue
  <2>2. [issue[i] EXCEPT !.st = s, !.ver = @ + 1] \in IssueRow
    <3>1. issue[i].ver + 1 \in Nat
      BY <1>1 DEF IssueRow
    <3> QED BY <1>1, <3>1 DEF IssueRow
  <2>3. issue' = [issue EXCEPT ![i] = [issue[i] EXCEPT !.st = s, !.ver = @ + 1]]
    BY <1>1, <2>1 DEF IssueRow
  <2>4. issue' \in [Issues -> IssueRow]
    BY <1>1, <2>2, <2>3
  <2> QED BY <1>2, <1>3, <2>4 DEF PatchIssue, EditionRows
<1>4. ASSUME NEW as \in SUBSET Arts, Cluster(i, as)
      PROVE  EditionRows' /\ KeepsApproved(snap, snap') /\ ops \subseteq ops'
  <2>1. PICK st \in IssueStatus, ver2 \in {issue[i].ver, issue[i].ver + 1} :
          /\ issue' = [issue EXCEPT ![i].st = st, ![i].mem = @ \cup as, ![i].ver = ver2]
          /\ snap' = Reused(issue', art, snap, First(as)) /\ UNCHANGED <<art, ops>>
    BY <1>1, <1>4 DEF Cluster, IssueStatus, IssueRow
  <2>2. [issue[i] EXCEPT !.st = st, !.mem = @ \cup as, !.ver = ver2] \in IssueRow
    <3>1. ver2 \in Nat
      BY <1>1, <2>1 DEF IssueRow
    <3> QED BY <1>1, <3>1 DEF IssueRow
  <2>3. issue' = [issue EXCEPT ![i] =
                    [issue[i] EXCEPT !.st = st, !.mem = @ \cup as, !.ver = ver2]]
    BY <1>1, <2>1 DEF IssueRow
  <2>4. issue' \in [Issues -> IssueRow]
    BY <1>1, <2>2, <2>3
  <2> QED BY <2>1, <2>4, ReusedKeeps DEF EditionRows
<1>5. ASSUME NEW j \in Issues, RequestMerge(i, j)
      PROVE  EditionRows' /\ KeepsApproved(snap, snap') /\ ops \subseteq ops'
  <2>1. issue[j] \in IssueRow
    BY <1>1
  <2>2. [issue[j] EXCEPT !.st = IF @ = "none" THEN "candidate" ELSE @] \in IssueRow
    BY <2>1 DEF IssueRow, IssueStatus
  <2>3. issue' \in [Issues -> IssueRow]
    BY <1>1, <1>5, <2>2 DEF RequestMerge
  <2> DEFINE new == [op |-> "merge", from |-> i, to |-> j, arts |-> {}]
  <2>4. new \in Move /\ new.from # new.to /\ ops' = ops \cup {new}
    BY <1>5 DEF Move, RequestMerge
  <2> HIDE DEF new
  <2>5. ops' \subseteq Move /\ (\A m \in ops' : m.from # m.to) /\ ops \subseteq ops'
    BY <2>4 DEF EditionRows
  <2>6. UNCHANGED <<art, snap>>
    BY <1>5 DEF RequestMerge
  <2> QED BY <1>2, <2>3, <2>5, <2>6 DEF EditionRows
<1>6. ASSUME NEW j \in Issues, NEW a \in Arts, RequestSplit(i, j, a)
      PROVE  EditionRows' /\ KeepsApproved(snap, snap') /\ ops \subseteq ops'
  <2>1. [op |-> "split", from |-> i, to |-> j, arts |-> {a}] \in Move /\ i # j
    BY <1>6 DEF Move, RequestSplit
  <2>2. ops' \subseteq Move /\ (\A m \in ops' : m.from # m.to) /\ ops \subseteq ops'
    BY <1>6, <2>1 DEF RequestSplit, EditionRows
  <2>3. UNCHANGED <<issue, art, snap>>
    BY <1>6 DEF RequestSplit
  <2> QED BY <1>1, <1>2, <2>2, <2>3 DEF EditionRows
<1> QED BY <1>3, <1>4, <1>5, <1>6

LEMMA MoveSteps ==
  ASSUME EditionRows, NEW o \in ops, ApplyMerge(o) \/ ApplySplit(o)
  PROVE  /\ EditionRows' /\ KeepsApproved(snap, snap')
         /\ \A a \in Arts : (\E i \in Issues : a \in issue[i].mem)
                           => \E i \in Issues : a \in issue'[i].mem
<1> DEFINE f == o.from
           t == o.to
<1>1. /\ issue \in [Issues -> IssueRow] /\ f \in Issues /\ t \in Issues /\ o.arts \subseteq Arts
      /\ ops' \subseteq Move /\ issue[f] \in IssueRow /\ issue[t] \in IssueRow
      /\ f # t /\ \A m \in ops' : m.from # m.to
  BY DEF EditionRows, Move, ApplyMerge, ApplySplit
<1>2. Snapshots(snap)' /\ KeepsApproved(snap, snap') /\ UNCHANGED art
  <2>1. PICK is, as : snap' = Reused(is, art, snap, as)
    BY DEF ApplyMerge, ApplySplit, Recompared
  <2> QED BY <2>1, ReusedKeeps DEF EditionRows, ApplyMerge, ApplySplit, Recompared
<1>3. CASE ApplyMerge(o)
  <2> DEFINE moved == issue[f].mem
             up == IF issue[f].st = "merged" THEN issue[f].ver ELSE issue[f].ver + 1
             one == [issue EXCEPT ![f].mem = {}, ![f].st = "merged", ![f].ver = up]
  <2>1. issue' = [one EXCEPT ![t].mem = @ \cup moved, ![t].ver = @ + 1]
    <3>1. issue' = [issue EXCEPT ![f].mem = {}, ![f].st = "merged", ![f].ver = up,
                                 ![t].mem = issue[t].mem \cup moved, ![t].ver = issue[t].ver + 1]
      BY <1>3 DEF ApplyMerge, Recompared
    <3>2. one[t] = issue[t]
      BY <1>1
    <3> QED BY <1>1, <3>1, <3>2
  <2>2. moved \subseteq Arts /\ up \in Nat
    BY <1>1 DEF IssueRow
  <2> HIDE DEF up
  <2>3. one = [issue EXCEPT ![f] = [issue[f] EXCEPT !.mem = {}, !.st = "merged", !.ver = up]]
    BY <1>1 DEF IssueRow
  <2>4. /\ one \in [Issues -> IssueRow]
        /\ \A i \in Issues : i # f => one[i] = issue[i]
    <3>1. [issue[f] EXCEPT !.mem = {}, !.st = "merged", !.ver = up] \in IssueRow
      BY <1>1, <2>2 DEF IssueRow, IssueStatus
    <3> QED BY <1>1, <2>3, <3>1
  <2> HIDE DEF one
  <2>5. one[t] \in IssueRow
    BY <1>1, <2>4
  <2>6. [one[t] EXCEPT !.mem = @ \cup moved, !.ver = @ + 1] \in IssueRow
    <3>1. one[t].ver + 1 \in Nat
      BY <2>5 DEF IssueRow
    <3> HIDE DEF moved
    <3> QED BY <2>2, <2>5, <3>1 DEF IssueRow
  <2>7. /\ issue' = [one EXCEPT ![t] = [one[t] EXCEPT !.mem = @ \cup moved, !.ver = @ + 1]]
        /\ [one[t] EXCEPT !.mem = @ \cup moved, !.ver = @ + 1].mem = one[t].mem \cup moved
    BY <1>1, <2>1, <2>4, <2>5 DEF IssueRow
  <2>8. issue' \in [Issues -> IssueRow] /\ issue'[t].mem = one[t].mem \cup moved
        /\ \A i \in Issues : i # t => issue'[i] = one[i]
    BY <1>1, <2>4, <2>6, <2>7
  <2>9. ASSUME NEW a \in Arts, NEW i \in Issues, a \in issue[i].mem
        PROVE  \E k \in Issues : a \in issue'[k].mem
    <3>1. CASE i = f
      BY <1>1, <2>8, <2>9, <3>1
    <3>2. CASE i # f /\ i = t
      BY <1>1, <2>4, <2>8, <2>9, <3>2
    <3>3. CASE i # f /\ i # t
      BY <1>1, <2>4, <2>8, <2>9, <3>3
    <3> QED BY <3>1, <3>2, <3>3
  <2> QED BY <1>1, <1>2, <2>8, <2>9 DEF EditionRows
<1>4. CASE ApplySplit(o)
  <2> DEFINE rest == issue[f].mem \ o.arts
             gone == o.arts \cap issue[f].mem
             one == [issue EXCEPT ![f].mem = @ \ o.arts, ![f].ver = @ + 1]
  <2>1. issue' = [one EXCEPT ![t].st = IF @ = "none" THEN "candidate" ELSE @,
                             ![t].mem = @ \cup gone]
    <3>1. issue' = [issue EXCEPT ![f].mem = rest, ![f].ver = issue[f].ver + 1,
                      ![t].st = IF issue[t].st = "none" THEN "candidate" ELSE issue[t].st,
                      ![t].mem = issue[t].mem \cup gone]
      BY <1>4 DEF ApplySplit, Recompared, SplitOff
    <3>2. one[t] = issue[t]
      BY <1>1
    <3> QED BY <1>1, <3>1, <3>2
  <2>2. one = [issue EXCEPT ![f] = [issue[f] EXCEPT !.mem = @ \ o.arts, !.ver = @ + 1]]
    BY <1>1 DEF IssueRow
  <2>3. [issue[f] EXCEPT !.mem = @ \ o.arts, !.ver = @ + 1] \in IssueRow
    <3>1. issue[f].ver + 1 \in Nat
      BY <1>1 DEF IssueRow
    <3> QED BY <1>1, <3>1 DEF IssueRow
  <2>4. /\ one \in [Issues -> IssueRow] /\ one[f].mem = rest
        /\ \A i \in Issues : i # f => one[i] = issue[i]
    BY <1>1, <2>2, <2>3 DEF IssueRow
  <2> HIDE DEF one
  <2>5. one[t] \in IssueRow
    BY <1>1, <2>4
  <2>6. issue' = [one EXCEPT ![t] = [one[t] EXCEPT !.st = IF @ = "none" THEN "candidate" ELSE @,
                                                   !.mem = @ \cup gone]]
    BY <1>1, <2>1, <2>4, <2>5 DEF IssueRow
  <2>7. [one[t] EXCEPT !.st = IF @ = "none" THEN "candidate" ELSE @, !.mem = @ \cup gone]
          \in IssueRow
    BY <1>1, <2>5 DEF IssueRow, IssueStatus
  <2>8. /\ issue' \in [Issues -> IssueRow] /\ issue'[t].mem = one[t].mem \cup gone
        /\ \A i \in Issues : i # t => issue'[i] = one[i]
    BY <1>1, <2>4, <2>5, <2>6, <2>7 DEF IssueRow
  <2>9. ASSUME NEW a \in Arts, NEW i \in Issues, a \in issue[i].mem
        PROVE  \E k \in Issues : a \in issue'[k].mem
    <3>1. CASE i = f /\ a \in o.arts
      BY <1>1, <2>8, <2>9, <3>1
    <3>2. CASE a \in one[i].mem
      BY <1>1, <2>8, <3>2
    <3> QED BY <2>4, <2>9, <3>1, <3>2
  <2> QED BY <1>1, <1>2, <2>8, <2>9 DEF EditionRows
<1> QED BY <1>3, <1>4

LEMMA EditionRowsStep == EditionRows /\ [EditionNext]_editionVars => EditionRows'
<1>1. EditionRows /\ UNCHANGED editionVars => EditionRows'
  BY DEF editionVars, EditionRows, Snapshots
<1> QED BY <1>1, ArticleSteps, ComparisonSteps, IssueSteps, MoveSteps, PublishStep DEF EditionNext

\* Issues, snapshots and queued moves are rows of their kinds, and a move is
\* between two issues.
THEOREM EditionInvariant == EditionSpec => []EditionRows
BY EditionInitial, EditionRowsStep, PTL DEF EditionSpec

\* An approval is of the texts it was given for, whatever is stored, copied,
\* republished or maintained around it.
THEOREM ApprovalTheorem == EditionSpec => ApprovalIsOfInputs
<1>1. ASSUME EditionRows, EditionNext, NEW i \in Issues, NEW v \in IssueVersions, snap'[i][v].rev
      PROVE  snap[i][v].in = snap'[i][v].in
  <2>1. KeepsApproved(snap, snap') => snap[i][v].in = snap'[i][v].in
    BY <1>1 DEF KeepsApproved
  <2> QED BY <1>1, <2>1, ArticleSteps, ComparisonSteps, IssueSteps, MoveSteps, PublishStep
             DEF EditionNext
<1>2. EditionRows /\ [EditionNext]_editionVars =>
        [\A i \in Issues, v \in IssueVersions :
           snap'[i][v].rev => snap[i][v].in = snap'[i][v].in]_editionVars
  BY <1>1
<1> QED BY <1>2, EditionInvariant, PTL DEF EditionSpec, ApprovalIsOfInputs

\* Merges and splits move articles and lose none, whatever happened to the
\* issues since they were asked for.
THEOREM MovesTheorem == EditionSpec => MovesLoseNothing
<1>1. ASSUME EditionRows, EditionNext, NEW o \in ops \ ops', NEW a \in Arts,
             \E i \in Issues : a \in issue[i].mem, art'[a].text # 0
      PROVE  \E i \in Issues : a \in issue'[i].mem
  <2>1. ASSUME NEW b \in Arts, Retire(b) PROVE \E i \in Issues : a \in issue'[i].mem
    <3>1. a # b
      BY <1>1, <2>1 DEF Retire, NoArt, EditionRows
    <3>2. PICK i \in Issues : a \in issue[i].mem
      BY <1>1
    <3>3. issue[i] \in IssueRow
      BY <1>1 DEF EditionRows
    <3>4. issue'[i].mem = issue[i].mem \/ issue'[i].mem = issue[i].mem \ {b}
      BY <2>1, <3>3 DEF Retire, IssueRow
    <3> QED BY <3>1, <3>2, <3>4
  <2>2. ASSUME NEW b \in Arts PROVE ~(Analyzed(b) \/ Crawled(b) \/ Withdraw(b))
    BY <1>1 DEF Analyzed, Crawled, Withdraw
  <2>3. ~(\E j \in cmp : Build(j) \/ Defer(j) \/ ApplyComparison(j))
        /\ ~(\E i \in Issues : Review(i)) /\ ~MaintainSnapshots
    BY <1>1, ComparisonSteps
  <2>4. ASSUME NEW i \in Issues
        PROVE  /\ ~PatchIssue(i) /\ ~\E as \in SUBSET Arts : Cluster(i, as)
               /\ ~\E j \in Issues : RequestMerge(i, j) \/ \E b \in Arts : RequestSplit(i, j, b)
    BY <1>1, IssueSteps
  <2>5. ASSUME NEW c \in Candidates PROVE ~Publish(c) /\ ~\E d \in Candidates : PublishTwo(c, d)
    BY <1>1, PublishStep
  <2> QED BY <1>1, <2>1, <2>2, <2>3, <2>4, <2>5, MoveSteps DEF EditionNext
<1>2. EditionRows /\ [EditionNext]_editionVars =>
        [\A o \in ops \ ops' : \A a \in Arts :
           (\E i \in Issues : a \in issue[i].mem) /\ art'[a].text # 0
             => \E i \in Issues : a \in issue'[i].mem]_editionVars
  BY <1>1
<1> QED BY <1>2, EditionInvariant, PTL DEF EditionSpec, MovesLoseNothing

(* -------------------- administrators' changes to profiles ------------------ *)

RevRow == [st: {"draft", "simulation", "active", "archived"},
           w: Profiles \cup {Seeded}, based: Nat]
AdminRequest == [st: {"idle"}]
                  \cup [st: {"begun", "checked"}, body: Bodies, key: Keys]

AdminRows ==
  /\ reqs \in [Requests -> AdminRequest]
  /\ rev \in Seq(RevRow) /\ Len(rev) <= MaxRevision
  /\ DOMAIN rec = Recommendations
  /\ \A x \in Recommendations : DOMAIN rec[x] = {"st", "base", "prop", "total"}
  /\ DOMAIN sims = Revisions

\* What has a receipt took effect once, and what has none never did.
ReceiptInv == DOMAIN ran = DOMAIN receipts /\ \A x \in DOMAIN ran : ran[x] = 1

Vetted(v) ==
  \/ v = 1
  \/ rec[v].st = "APPROVED" /\ Passed(v)
  \/ LET t == rev[v].based IN
     t \in DOMAIN rev /\ rev[t].st = "archived" /\ rev[t].w = rev[v].w

ProfileInv ==
  /\ \E v \in DOMAIN rev : \A u \in DOMAIN rev : rev[u].st = "active" <=> u = v
  /\ \A v \in DOMAIN rev : rev[v].st \in {"active", "archived"} => Vetted(v)

AdminInv == AdminRows /\ ReceiptInv /\ ProfileInv

LEMMA AdminInitial == Init => AdminInv
<1> SUFFICES ASSUME Init PROVE AdminInv
  OBVIOUS
<1>1. rev = <<[st |-> "active", w |-> Seeded, based |-> 0]>>
  BY DEF Init
<1>2. rev \in Seq(RevRow) /\ DOMAIN rev = {1} /\ rev[1].st = "active" /\ Len(rev) <= MaxRevision
  BY <1>1, AdministrationAssumption DEF RevRow
<1>3. AdminRows
  BY <1>2 DEF Init, AdminRows, AdminRequest, Idle, NoRec
<1>4. ReceiptInv
  BY DEF Init, ReceiptInv, NoReceipts
<1>5. ProfileInv
  BY <1>2 DEF ProfileInv, Vetted
<1> QED BY <1>3, <1>4, <1>5 DEF AdminInv

\* What vets a revision is never taken away: approvals and verdicts of stored
\* simulations stay, rows keep their weights, and archived ones stay archived.
LEMMA VettedStays ==
  ASSUME AdminInv,
         \A x \in Recommendations : rec[x].st = "APPROVED" => rec'[x].st = "APPROVED",
         \A v \in Revisions : sims[v] \subseteq sims'[v],
         DOMAIN rev \subseteq DOMAIN rev',
         \A v \in DOMAIN rev : /\ rev'[v].w = rev[v].w /\ rev'[v].based = rev[v].based
                               /\ rev[v].st = "archived" => rev'[v].st = "archived",
         NEW v \in DOMAIN rev, Vetted(v)
  PROVE  Vetted(v)'
<1>1. DOMAIN rev \subseteq Revisions
  BY AdministrationAssumption DEF AdminInv, AdminRows, Revisions
<1>2. v \in Recommendations
  BY <1>1 DEF Recommendations
<1>3. CASE v = 1
  BY <1>3 DEF Vetted
<1>4. CASE rec[v].st = "APPROVED" /\ Passed(v)
  BY <1>1, <1>2, <1>4 DEF Vetted, Passed
<1>5. CASE LET t == rev[v].based IN
           t \in DOMAIN rev /\ rev[t].st = "archived" /\ rev[t].w = rev[v].w
  <2> DEFINE t == rev[v].based
  <2>1. t \in DOMAIN rev' /\ rev'[t].st = "archived" /\ rev'[t].w = rev'[v].w /\ rev'[v].based = t
    BY <1>5
  <2> QED BY <2>1 DEF Vetted
<1> QED BY <1>3, <1>4, <1>5 DEF Vetted

\* The profiles are not touched, and no approval or verdict is lost.
LEMMA SameProfiles ==
  ASSUME AdminInv, UNCHANGED rev,
         \A x \in Recommendations : rec[x].st = "APPROVED" => rec'[x].st = "APPROVED",
         \A v \in Revisions : sims[v] \subseteq sims'[v]
  PROVE  ProfileInv'
<1>1. ASSUME NEW v \in DOMAIN rev, Vetted(v) PROVE Vetted(v)'
  BY <1>1, VettedStays
<1> QED BY <1>1 DEF AdminInv, ProfileInv

LEMMA PublishWeightStep ==
  ASSUME AdminInv, NEW b, PublishWeight(b)
  PROVE  /\ rev' \in Seq(RevRow) /\ Len(rev') <= MaxRevision
         /\ ProfileInv'
<1> DEFINE v == b.on
<1>1. /\ rev \in Seq(RevRow) /\ v \in DOMAIN rev /\ Passed(v) /\ rec[v].st = "APPROVED"
      /\ rev[v].st \in {"draft", "simulation"}
      /\ rev' = [x \in DOMAIN rev |->
                  IF x = v THEN [rev[x] EXCEPT !.st = "active"]
                  ELSE IF rev[x].st = "active" THEN [rev[x] EXCEPT !.st = "archived"] ELSE rev[x]]
      /\ UNCHANGED <<rec, sims>>
  BY DEF PublishWeight, AdminInv, AdminRows
<1>2. \A x \in DOMAIN rev : rev[x] \in RevRow
  BY <1>1
<1>3. \A x \in DOMAIN rev :
        /\ rev'[x] \in RevRow /\ rev'[x].w = rev[x].w /\ rev'[x].based = rev[x].based
        /\ rev[x].st = "archived" => rev'[x].st = "archived"
        /\ rev'[x].st = "active" <=> x = v
        /\ rev'[x].st = "archived" => rev[x].st \in {"active", "archived"}
  BY <1>1, <1>2 DEF RevRow
<1>4. DOMAIN rev = 1..Len(rev) /\ Len(rev) \in Nat
  BY <1>1
<1>5. rev' \in Seq(RevRow) /\ Len(rev') = Len(rev) /\ DOMAIN rev' = DOMAIN rev
  BY <1>1, <1>3, <1>4
<1>6. ASSUME NEW x \in DOMAIN rev, Vetted(x) PROVE Vetted(x)'
  BY <1>1, <1>3, <1>5, <1>6, VettedStays
<1>7. Vetted(v)'
  BY <1>1 DEF Vetted, Passed
<1>8. ASSUME NEW x \in DOMAIN rev', rev'[x].st \in {"active", "archived"} PROVE Vetted(x)'
  BY <1>3, <1>5, <1>6, <1>7, <1>8 DEF AdminInv, ProfileInv
<1>9. ProfileInv'
  BY <1>1, <1>3, <1>5, <1>8 DEF ProfileInv
<1> QED BY <1>5, <1>9 DEF AdminInv, AdminRows

\* A revision is added, the others keep their status or are archived.
LEMMA AppendStep ==
  ASSUME AdminInv, NEW row \in RevRow, NEW old, Len(rev) < MaxRevision,
         DOMAIN old = DOMAIN rev, old \in Seq(RevRow),
         \A v \in DOMAIN rev : /\ old[v].w = rev[v].w /\ old[v].based = rev[v].based
                               /\ rev[v].st = "archived" => old[v].st = "archived",
         rev' = Append(old, row), UNCHANGED <<rec, sims>>
  PROVE  /\ rev' \in Seq(RevRow) /\ Len(rev') <= MaxRevision
         /\ DOMAIN rev' = DOMAIN rev \cup {Len(rev) + 1} /\ Len(rev) + 1 \notin DOMAIN rev
         /\ rev'[Len(rev) + 1] = row
         /\ \A v \in DOMAIN rev : rev'[v] = old[v]
         /\ \A v \in DOMAIN rev : Vetted(v) => Vetted(v)'
<1>1. rev \in Seq(RevRow) /\ Len(rev) \in Nat /\ DOMAIN rev = 1..Len(rev) /\ MaxRevision \in Nat
  BY AdministrationAssumption DEF AdminInv, AdminRows
<1>2. Len(old) = Len(rev)
  BY <1>1
<1>3. /\ rev' \in Seq(RevRow) /\ Len(rev') <= MaxRevision
      /\ DOMAIN rev' = DOMAIN rev \cup {Len(rev) + 1} /\ Len(rev) + 1 \notin DOMAIN rev
      /\ rev'[Len(rev) + 1] = row
      /\ \A v \in DOMAIN rev : rev'[v] = old[v]
  BY <1>1, <1>2
<1> QED BY <1>3, VettedStays

LEMMA CreateWeightStep ==
  ASSUME AdminInv, NEW b \in Bodies, CreateWeight(b)
  PROVE  /\ rev' \in Seq(RevRow) /\ Len(rev') <= MaxRevision
         /\ ProfileInv'
<1> DEFINE row == [st |-> "draft", w |-> b.arg, based |-> 0]
<1>1. row \in RevRow
  BY DEF CreateWeight, Bodies, RevRow
<1>2. /\ rev' \in Seq(RevRow) /\ Len(rev') <= MaxRevision
      /\ DOMAIN rev' = DOMAIN rev \cup {Len(rev) + 1} /\ Len(rev) + 1 \notin DOMAIN rev
      /\ rev'[Len(rev) + 1] = row
      /\ \A v \in DOMAIN rev : rev'[v] = rev[v]
      /\ \A v \in DOMAIN rev : Vetted(v) => Vetted(v)'
  BY <1>1, AppendStep DEF CreateWeight, AdminInv, AdminRows
<1>3. ProfileInv'
  BY <1>2 DEF AdminInv, ProfileInv
<1> QED BY <1>2, <1>3

LEMMA RollbackWeightStep ==
  ASSUME AdminInv, NEW b, RollbackWeight(b)
  PROVE  /\ rev' \in Seq(RevRow) /\ Len(rev') <= MaxRevision
         /\ ProfileInv'
<1> DEFINE row == [st |-> "active", w |-> rev[b.arg].w, based |-> b.arg]
           old == [rev EXCEPT ![b.on].st = "archived"]
<1>1. /\ {b.on, b.arg} \subseteq DOMAIN rev /\ rev[b.on].st = "active" /\ rev[b.arg].st = "archived"
      /\ rev \in Seq(RevRow) /\ DOMAIN rev = 1..Len(rev) /\ Len(rev) \in Nat
      /\ rev' = Append(old, row) /\ Len(rev) < MaxRevision /\ UNCHANGED <<rec, sims>>
  BY DEF RollbackWeight, RollbackTarget, AdminInv, AdminRows
<1>2. \A v \in DOMAIN rev : rev[v] \in RevRow
  BY <1>1
<1>3. row \in RevRow /\ [rev[b.on] EXCEPT !.st = "archived"] \in RevRow
  <2>1. b.arg \in Nat /\ rev[b.arg] \in RevRow /\ rev[b.on] \in RevRow
    BY <1>1, <1>2
  <2>2. rev[b.arg].w \in Profiles \cup {Seeded}
    BY <2>1 DEF RevRow
  <2> QED BY <2>1, <2>2 DEF RevRow
<1>4. old \in Seq(RevRow) /\ DOMAIN old = DOMAIN rev
  BY <1>1, <1>2, <1>3
<1>5. \A v \in DOMAIN rev :
        /\ old[v].w = rev[v].w /\ old[v].based = rev[v].based
        /\ rev[v].st = "archived" => old[v].st = "archived"
        /\ v # b.on => old[v] = rev[v]
        /\ old[b.on].st = "archived"
  BY <1>1, <1>2 DEF RevRow
<1> HIDE DEF row, old
<1>6. PICK n \in Nat :
      /\ rev' \in Seq(RevRow) /\ Len(rev') <= MaxRevision
      /\ DOMAIN rev' = DOMAIN rev \cup {n} /\ n \notin DOMAIN rev
      /\ rev'[n] = row
      /\ \A v \in DOMAIN rev : rev'[v] = old[v]
      /\ \A v \in DOMAIN rev : Vetted(v) => Vetted(v)'
  <2>1. Len(rev) + 1 \in Nat
    BY <1>1
  <2>2. /\ rev' \in Seq(RevRow) /\ Len(rev') <= MaxRevision
        /\ DOMAIN rev' = DOMAIN rev \cup {Len(rev) + 1} /\ Len(rev) + 1 \notin DOMAIN rev
        /\ rev'[Len(rev) + 1] = row
        /\ \A v \in DOMAIN rev : rev'[v] = old[v]
        /\ \A v \in DOMAIN rev : Vetted(v) => Vetted(v)'
    BY <1>1, <1>3, <1>4, <1>5, AppendStep
  <2> QED BY <2>1, <2>2
<1> USE DEF row, old
<1>7. Vetted(n)'
  <2>1. /\ b.arg \in DOMAIN rev' /\ b.arg # b.on /\ rev'[b.arg] = rev[b.arg]
        /\ rev'[n].based = b.arg /\ rev'[n].w = rev[b.arg].w
    BY <1>1, <1>5, <1>6
  <2> QED BY <1>1, <2>1 DEF Vetted
<1>8. ASSUME NEW v \in DOMAIN rev, rev'[v].st \in {"active", "archived"} PROVE Vetted(v)'
  <2>1. rev[v].st \in {"active", "archived"}
    BY <1>1, <1>5, <1>6, <1>8
  <2> QED BY <1>6, <2>1 DEF AdminInv, ProfileInv
<1>9. \A v \in DOMAIN rev : rev'[v].st # "active"
  BY <1>1, <1>5, <1>6 DEF AdminInv, ProfileInv
<1>10. ProfileInv'
  BY <1>6, <1>7, <1>8, <1>9 DEF ProfileInv
<1> QED BY <1>6, <1>10

LEMMA SimulateWeightStep ==
  ASSUME AdminInv, NEW b, SimulateWeight(b)
  PROVE  /\ rev' \in Seq(RevRow) /\ Len(rev') <= MaxRevision
         /\ ProfileInv'
<1> DEFINE v == b.on
<1>1. /\ rev \in Seq(RevRow) /\ v \in DOMAIN rev /\ rev[v].st \in {"draft", "simulation"}
      /\ rev' = [rev EXCEPT ![v].st = "simulation"] /\ UNCHANGED sims
  BY DEF SimulateWeight, AdminInv, AdminRows
<1>2. \A x \in DOMAIN rev : rev[x] \in RevRow
  BY <1>1
<1>3. /\ rev' \in Seq(RevRow) /\ DOMAIN rev' = DOMAIN rev /\ Len(rev') = Len(rev)
      /\ \A x \in DOMAIN rev : /\ rev'[x].w = rev[x].w /\ rev'[x].based = rev[x].based
                               /\ x # v => rev'[x] = rev[x]
      /\ rev'[v].st = "simulation"
  <2>1. [rev[v] EXCEPT !.st = "simulation"] \in RevRow
    BY <1>1, <1>2 DEF RevRow
  <2>2. rev' \in Seq(RevRow) /\ DOMAIN rev' = DOMAIN rev /\ Len(rev') = Len(rev)
    BY <1>1, <2>1
  <2>3. \A x \in DOMAIN rev : rev'[x] = IF x = v THEN [rev[v] EXCEPT !.st = "simulation"]
                                     ELSE rev[x]
    BY <1>1
  <2> QED BY <1>1, <1>2, <2>2, <2>3 DEF RevRow
<1>4. \A x \in Recommendations : rec[x].st = "APPROVED" => rec'[x].st = "APPROVED"
  BY DEF SimulateWeight, AdminInv, AdminRows
<1>5. ASSUME NEW x \in DOMAIN rev, Vetted(x) PROVE Vetted(x)'
  BY <1>1, <1>3, <1>4, <1>5, VettedStays
<1>6. ASSUME NEW x \in DOMAIN rev', rev'[x].st \in {"active", "archived"} PROVE Vetted(x)'
  BY <1>1, <1>3, <1>5, <1>6 DEF AdminInv, ProfileInv
<1>7. PICK u \in DOMAIN rev : \A x \in DOMAIN rev : rev[x].st = "active" <=> x = u
  BY DEF AdminInv, ProfileInv
<1>8. \A x \in DOMAIN rev' : rev'[x].st = "active" <=> x = u
  BY <1>1, <1>3, <1>7
<1>9. ProfileInv'
  <2>1. \E z \in DOMAIN rev' : \A x \in DOMAIN rev' : rev'[x].st = "active" <=> x = z
    BY <1>3, <1>7, <1>8
  <2>2. \A x \in DOMAIN rev' : rev'[x].st \in {"active", "archived"} => Vetted(x)'
    BY <1>6
  <2> QED BY <2>1, <2>2 DEF ProfileInv
<1> QED BY <1>3, <1>9 DEF AdminInv, AdminRows

\* What an operation does to the tables.
LEMMA PerformStep ==
  ASSUME AdminInv, NEW b \in Bodies, Perform(b)
  PROVE  /\ rev' \in Seq(RevRow) /\ Len(rev') <= MaxRevision
         /\ DOMAIN rec' = Recommendations /\ DOMAIN sims' = Revisions
         /\ \A x \in Recommendations : DOMAIN rec'[x] = {"st", "base", "prop", "total"}
         /\ ProfileInv'
<1>1. /\ DOMAIN rec' = Recommendations /\ sims' = sims
      /\ \A x \in Recommendations : /\ DOMAIN rec'[x] = {"st", "base", "prop", "total"}
                                    /\ rec[x].st = "APPROVED" => rec'[x].st = "APPROVED"
  BY DEF Perform, CreateModel, UpdateModel, CreateSource, UpdateSource, EnqueueCrawl,
         CreateWeight, SimulateWeight, PublishWeight, RollbackWeight,
         GenerateRecommendation, ReviewRecommendation, UpdateAutopilot, AdminInv, AdminRows
<1>2. CASE CreateWeight(b)
  BY <1>1, <1>2, CreateWeightStep DEF AdminInv, AdminRows
<1>3. CASE SimulateWeight(b)
  BY <1>1, <1>3, SimulateWeightStep DEF AdminInv, AdminRows
<1>4. CASE PublishWeight(b)
  BY <1>1, <1>4, PublishWeightStep DEF AdminInv, AdminRows
<1>5. CASE RollbackWeight(b)
  BY <1>1, <1>5, RollbackWeightStep DEF AdminInv, AdminRows
<1>6. CASE UNCHANGED rev
  BY <1>1, <1>6, SameProfiles DEF AdminInv, AdminRows
<1> QED
  BY <1>2, <1>3, <1>4, <1>5, <1>6
     DEF Perform, CreateModel, UpdateModel, CreateSource, UpdateSource, EnqueueCrawl,
         GenerateRecommendation, ReviewRecommendation, UpdateAutopilot

LEMMA CommitStep ==
  ASSUME AdminInv, NEW r \in Requests, Commit(r)
  PROVE  AdminInv'
<1>1. reqs[r] \in AdminRequest /\ Idle \in AdminRequest
  BY DEF AdminInv, AdminRows, AdminRequest, Idle
<1>2. reqs[r].body \in Bodies /\ Perform(reqs[r].body)
  BY <1>1 DEF Commit, Ready, AdminRequest
<1>3. reqs' \in [Requests -> AdminRequest]
  BY <1>1 DEF Commit, AdminInv, AdminRows
<1>4. AdminRows' /\ ProfileInv'
  BY <1>2, <1>3, PerformStep DEF AdminRows
<1>5. ReceiptInv'
  BY DEF Commit, AdminInv, ReceiptInv, Extended, Times
<1> QED BY <1>4, <1>5 DEF AdminInv

LEMMA AdminStep == AdminInv /\ [Next]_vars => AdminInv'
<1> SUFFICES ASSUME AdminInv, [Next]_vars PROVE AdminInv'
  OBVIOUS
<1>1. ASSUME UNCHANGED <<tables, receipts, ran>>, reqs' \in [Requests -> AdminRequest]
      PROVE  AdminInv'
  <2>1. ProfileInv'
    BY <1>1, SameProfiles DEF tables
  <2> QED BY <1>1, <2>1 DEF tables, AdminInv, AdminRows, ReceiptInv
<1>2. ASSUME NEW r \in Requests, NEW b \in Bodies, NEW k \in Keys, Begin(r, b, k)
      PROVE  AdminInv'
  BY <1>1, <1>2 DEF Begin, AdminInv, AdminRows, AdminRequest
<1>3. ASSUME NEW r \in Requests, CheckModel(r) PROVE AdminInv'
  <2>1. reqs[r] \in AdminRequest /\ reqs[r].st = "begun"
    BY <1>3 DEF CheckModel, AdminInv, AdminRows
  <2>2. [reqs[r] EXCEPT !.st = "checked"] \in AdminRequest
    BY <2>1 DEF AdminRequest
  <2> QED BY <1>1, <1>3, <2>2 DEF CheckModel, AdminInv, AdminRows
<1>4. ASSUME NEW r \in Requests, Commit(r) PROVE AdminInv'
  BY <1>4, CommitStep
<1>5. ASSUME NEW r \in Requests, RollBack(r) PROVE AdminInv'
  BY <1>1, <1>5 DEF RollBack, AdminInv, AdminRows, AdminRequest, Idle
<1>6. ASSUME UNCHANGED <<rev, receipts, reqs, ran>>,
             \A x \in Recommendations : rec[x].st = "APPROVED" => rec'[x].st = "APPROVED",
             \A v \in Revisions : sims[v] \subseteq sims'[v],
             DOMAIN rec' = Recommendations, DOMAIN sims' = Revisions,
             \A x \in Recommendations : DOMAIN rec'[x] = {"st", "base", "prop", "total"}
      PROVE  AdminInv'
  BY <1>6, SameProfiles DEF AdminInv, AdminRows, ReceiptInv
<1>7. ASSUME NEW j \in jobs, RunSimulation(j) \/ ApplySimulation(j) PROVE AdminInv'
  BY <1>6, <1>7 DEF RunSimulation, ApplySimulation, AdminInv, AdminRows
<1>8. ASSUME NEW j \in jobs, NEW d \in Evidence, ApplyRecommendation(j, d) PROVE AdminInv'
  <2>1. PICK p : rec' = [rec EXCEPT ![j.on].prop = p.prop, ![j.on].total = p.total]
    BY <1>8 DEF ApplyRecommendation
  <2>2. /\ DOMAIN rec' = Recommendations
        /\ \A x \in Recommendations : DOMAIN rec'[x] = {"st", "base", "prop", "total"}
                                      /\ rec'[x].st = rec[x].st
    BY <2>1 DEF AdminInv, AdminRows
  <2> QED BY <1>6, <1>8, <2>2 DEF ApplyRecommendation, AdminInv, AdminRows
<1>9. CASE UNCHANGED vars
  BY <1>1, <1>9 DEF vars, AdminInv, AdminRows
<1> QED BY <1>2, <1>3, <1>4, <1>5, <1>7, <1>8, <1>9 DEF Next

\* A key has one receipt in its scope, which is of its one effect; one profile
\* is active, and it and those before it were vetted or are copies of such.
THEOREM AdminInvariant == AdminSpec => []AdminInv
BY AdminInitial, AdminStep, PTL DEF AdminSpec

\* An idempotency key takes effect at most once in its scope, however many
\* tries of it are between their lookup and their commit.
THEOREM EffectTheorem == AdminSpec => []EffectOncePerKey
<1>1. AdminInv => EffectOncePerKey
  BY DEF AdminInv, ReceiptInv, EffectOncePerKey
<1> QED BY <1>1, AdminInvariant, PTL

\* One profile is active, and every one that ever was had been approved and
\* simulated, or is a copy of such a one.
THEOREM ActiveIsVettedTheorem == AdminSpec => []ActiveIsVetted
<1>1. ASSUME AdminInv PROVE ActiveIsVetted
  <2>1. PICK v \in DOMAIN rev : \A u \in DOMAIN rev : rev[u].st = "active" <=> u = v
    BY <1>1 DEF AdminInv, ProfileInv
  <2>2. {u \in DOMAIN rev : rev[u].st = "active"} = {v}
    BY <2>1
  <2>3. Cardinality({u \in DOMAIN rev : rev[u].st = "active"}) = 1
    BY <2>2, FS_Singleton
  <2>4. 0 \notin DOMAIN rev
    BY <1>1 DEF AdminInv, AdminRows
  <2> QED BY <1>1, <2>3, <2>4 DEF AdminInv, ProfileInv, Vetted, ActiveIsVetted
<1> QED BY <1>1, AdminInvariant, PTL
==============================================================================
