----------------------------- MODULE SourceCrawl -----------------------------
(* One crawl job of the worker: the seed request of a source, the further     *)
(* pages it links, the article pages fetched side by side, and the result     *)
(* handed to the applier.  Every request goes through the fetch service:      *)
(* redirect hops, retries with back-off, one rate limit for the source.       *)
(* The sites are free: any answer may come to any request.  Article texts are *)
(* reduced to three qualities: unseen, short (a link or summary), rich.       *)
EXTENDS Naturals, FiniteSets

CONSTANTS
    Articles,        \* canonical URLs the source may mention
    Old,             \* those published more than seven days ago
    Configs,         \* source configurations
    Interval,        \* min_interval_seconds of the source's rate limit
    MaxRetries, MaxRedirects, BackoffMax,
    MaxPages, MaxFetches, Concurrency,
    None

ASSUME CrawlAssumption ==
    /\ Old \subseteq Articles /\ None \notin Articles \cup {"main"}
    /\ {Interval, MaxRetries, MaxRedirects, BackoffMax} \subseteq Nat
    /\ {MaxPages, MaxFetches, Concurrency} \subseteq Nat \ {0}

Tasks == {"main"} \cup Articles

VARIABLES
    cfg,        \* the source row merged with its adapter configuration
    phase,      \* how far the handler has come
    task,       \* the requests of the fetch service
    lock,       \* holder of the source's rate-limit lock
    rateIn,     \* time until _rate_next of the source
    since,      \* time since the last request was sent, counted to Interval
    cands,      \* candidates by canonical URL, with the quality of their text
    next,       \* the next-page reference of the page read last
    pages, lost,\* pages read; how pagination failed ("no", "soft", "hard")
    plan,       \* article pages scheduled to be fetched
    outcome,    \* what the handler returned
    saved       \* the articles handed to the applier

fetchVars == <<task, lock, rateIn, since>>
planVars == <<cfg, cands, next, pages, lost, plan, outcome, saved>>
vars == <<fetchVars, planVars, phase>>

Idle == [st |-> "idle", retries |-> 0, hops |-> 0, timer |-> 0]
Fresh == [Idle EXCEPT !.st = "hop"]
Over == {"ok", "soft", "hard"}

Candidates == [Articles -> 0..2]
Mentioned(f) == {a \in Articles : f[a] > 0}
Rich(f) == {a \in Articles : f[a] = 2}

Init ==
    /\ cfg \in Configs /\ phase = "start"
    /\ task = [t \in Tasks |-> Idle]
    /\ lock = None /\ rateIn = 0 /\ since = Interval
    /\ cands = [a \in Articles |-> 0]
    /\ next = "none" /\ pages = 0 /\ lost = "no" /\ plan = {}
    /\ outcome = "none" /\ saved = {}

------------------------------------------------------------------------------
(* The fetch service *)

\* One more attempt after a back-off, exponential or the server's Retry-After,
\* in either case at most BackoffMax; or a transient failure for good.
Again(t) ==
    \/ /\ task[t].retries < MaxRetries
       /\ \E d \in 0..BackoffMax :
            task' = [task EXCEPT ![t].st = "backoff", ![t].timer = d,
                                 ![t].retries = @ + 1]
    \/ /\ task[t].retries = MaxRetries
       /\ task' = [task EXCEPT ![t].st = "soft"]

GiveUp(t) == task' = [task EXCEPT ![t].st = "hard"]

\* Validate the target of a hop: a public address, a refused one, or no answer.
Validate(t) ==
    /\ task[t].st = "hop"
    /\ \/ task' = [task EXCEPT ![t].st = "queued"]
       \/ GiveUp(t)
       \/ Again(t)
    /\ UNCHANGED <<lock, rateIn, since>>

Sent(t) ==
    /\ task' = [task EXCEPT ![t].st = "sent", ![t].timer = 0]
    /\ rateIn' = Interval /\ since' = 0 /\ lock' = None

\* _acquire_rate_limit sleeps with the source's lock held.
Acquire_Unlocked(t) ==
    /\ task[t].st = "queued"
    /\ IF rateIn = 0 THEN Sent(t)
       ELSE /\ task' = [task EXCEPT ![t].st = "slot", ![t].timer = rateIn]
            /\ UNCHANGED <<lock, rateIn, since>>

Acquire(t) ==
    /\ task[t].st = "queued" /\ lock = None
    /\ IF rateIn = 0 THEN Sent(t)
       ELSE /\ task' = [task EXCEPT ![t].st = "slot", ![t].timer = rateIn]
            /\ lock' = t
            /\ UNCHANGED <<rateIn, since>>

Slot(t) == task[t].st = "slot" /\ task[t].timer = 0 /\ Sent(t)

Wake(t) ==
    /\ task[t].st = "backoff" /\ task[t].timer = 0
    /\ task' = [task EXCEPT ![t].st = "hop"]
    /\ UNCHANGED <<lock, rateIn, since>>

Redirect_Unbounded(t) == task' = [task EXCEPT ![t].st = "hop"]

\* A redirect is followed by the service itself, one validated hop at a time.
Redirect(t) ==
    IF task[t].hops < MaxRedirects
    THEN task' = [task EXCEPT ![t].st = "hop", ![t].hops = @ + 1]
    ELSE GiveUp(t)

\* A 2xx page, a redirect, a refusal (4xx, oversized body, bad location), or a
\* transient failure (408, 425, 429, 5xx, timeout, transport error).
Answer(t) ==
    /\ task[t].st = "sent"
    /\ \/ task' = [task EXCEPT ![t].st = "ok"]
       \/ Redirect(t)
       \/ GiveUp(t)
       \/ Again(t)
    /\ UNCHANGED <<lock, rateIn, since>>

Fetch ==
    /\ \E t \in Tasks : Validate(t) \/ Acquire(t) \/ Slot(t) \/ Wake(t) \/ Answer(t)
    /\ UNCHANGED <<planVars, phase>>

Tick ==
    /\ rateIn > 0 \/ \E t \in Tasks : task[t].timer > 0
    /\ task' = [t \in Tasks |->
                  IF task[t].timer = 0 THEN task[t]
                  ELSE [task[t] EXCEPT !.timer = @ - 1]]
    /\ rateIn' = IF rateIn = 0 THEN 0 ELSE rateIn - 1
    /\ since' = IF since = Interval THEN since ELSE since + 1
    /\ UNCHANGED <<lock, planVars, phase>>

Request(t) == task' = [task EXCEPT ![t] = Fresh] /\ UNCHANGED <<lock, rateIn, since>>

------------------------------------------------------------------------------
(* The handler *)

Return(o, s) == phase' = "done" /\ outcome' = o /\ saved' = s
Failing(soft) == Return(IF soft THEN "retry" ELSE "failed", {})

\* A CRAWLER source needs approved policy, robots and terms before any request.
Begin ==
    /\ phase = "start"
    /\ \/ /\ cfg.type = "CRAWLER" /\ ~cfg.approved
          /\ Failing(FALSE) /\ UNCHANGED fetchVars
       \/ /\ cfg.type # "CRAWLER" \/ cfg.approved
          /\ phase' = "seed" /\ Request("main") /\ UNCHANGED <<outcome, saved>>
    /\ UNCHANGED <<cfg, cands, next, pages, lost, plan>>

\* Duplicates by canonical URL keep the better text.
Merged(f, g) == [a \in Articles |-> IF f[a] >= g[a] THEN f[a] ELSE g[a]]

\* A feed lists any number of entries; an HTML page is one article, with or
\* without a text, or the links of an index.
FeedPage == Candidates
HtmlPage ==
    {f \in Candidates : Cardinality(Mentioned(f)) = 1 \/ (Mentioned(f) # {} /\ Rich(f) = {})}

\* What a page parses to: candidates (invalid entries of a response are left
\* out one by one) and a reference to a next page that is absent, malformed or
\* foreign, already seen, or new.
Reads ==
    \E page \in IF cfg.type = "CRAWLER" THEN HtmlPage ELSE FeedPage,
       ref \in {"none", "bad", "seen", "new"} :
        /\ cands' = Merged(cands, page)
        /\ next' = IF cfg.type = "CRAWLER" THEN "none" ELSE ref
        /\ pages' = pages + 1

Seed ==
    /\ phase = "seed" /\ task["main"].st \in Over
    /\ \/ /\ task["main"].st # "ok"
          /\ Failing(task["main"].st = "soft") /\ UNCHANGED <<cands, next, pages>>
       \/ /\ task["main"].st = "ok"       \* SOURCE_PARSE_FAILED
          /\ Failing(FALSE) /\ UNCHANGED <<cands, next, pages>>
       \/ /\ task["main"].st = "ok" /\ Reads
          /\ phase' = "pages" /\ UNCHANGED <<outcome, saved>>
    /\ UNCHANGED <<fetchVars, cfg, lost, plan>>

LimitReached == cfg.limit > 0 /\ Cardinality(Mentioned(cands)) >= cfg.limit
CanTurn == lost = "no" /\ pages < MaxPages /\ ~LimitReached /\ next = "new"

TurnPage ==
    /\ phase = "pages" /\ CanTurn
    /\ phase' = "page" /\ Request("main") /\ UNCHANGED planVars

Page ==
    /\ phase = "page" /\ task["main"].st \in Over
    /\ \/ /\ task["main"].st = "ok" /\ Reads /\ UNCHANGED lost
       \/ /\ lost' = IF task["main"].st = "soft" THEN "soft" ELSE "hard"
          /\ UNCHANGED <<cands, next, pages>>
    /\ phase' = "pages"
    /\ UNCHANGED <<fetchVars, cfg, plan, outcome, saved>>

\* A reference that is malformed or leaves the allowed hosts counts as a page
\* failure; one seen before only ends the loop.
BadReference == lost = "no" /\ pages < MaxPages /\ ~LimitReached /\ next = "bad"

EndPages_Strict ==
    /\ phase = "pages" /\ ~CanTurn
    /\ IF lost # "no" \/ BadReference
       THEN Failing(lost = "soft")
       ELSE phase' = "choose" /\ UNCHANGED <<outcome, saved>>
    /\ UNCHANGED <<fetchVars, cfg, cands, next, pages, lost, plan>>

EndPages ==
    /\ phase = "pages" /\ ~CanTurn
    /\ IF Mentioned(cands) = {} /\ (lost # "no" \/ BadReference)
       THEN Failing(lost = "soft")
       ELSE phase' = "choose" /\ UNCHANGED <<outcome, saved>>
    /\ UNCHANGED <<fetchVars, cfg, cands, next, pages, lost, plan>>

\* At most n of a set; which ones depends on the order of the feed.
AtMost(S, n) ==
    IF n = 0 \/ Cardinality(S) <= n THEN {S}
    ELSE {T \in SUBSET S : Cardinality(T) = n}

\* The text of the feed itself does not count where hydration is required.
Hydrated == cfg.hydrate /\ cfg.require
Fetched == cfg.hydrate \/ cfg.type = "CRAWLER"

\* The links of the seed page, followed when it is an index or has no text.
Links ==
    IF cfg.type = "CRAWLER" /\ (cfg.index \/ Rich(cands) = {})
    THEN SUBSET Articles ELSE {{}}

\* Select what to fetch.  A scheduled feed drops expired entries first.  A feed
\* whose articles are hydrated needs the crawler's approvals; a crawler adds
\* the links of an index page and fetches those without a text.
Choose ==
    /\ phase = "choose"
    /\ \E kept \in AtMost(Mentioned(cands) \ (IF cfg.scheduled THEN Old ELSE {}),
                          cfg.limit),
          links \in Links :
        LET some == Merged([a \in Articles |-> IF a \notin kept THEN 0
                                               ELSE IF Hydrated THEN 1 ELSE cands[a]],
                           [a \in Articles |-> IF a \in links THEN 1 ELSE 0])
        IN
        /\ cands' = some
        /\ \/ /\ cfg.hydrate /\ ~cfg.approved
              /\ Failing(FALSE) /\ UNCHANGED plan
           \/ /\ ~cfg.hydrate \/ cfg.approved
              /\ plan' \in
                   IF ~Fetched THEN {{}}
                   ELSE AtMost((Mentioned(some) \ Rich(some)) \ cfg.foreign, MaxFetches)
              /\ phase' = "children" /\ UNCHANGED <<outcome, saved>>
    /\ UNCHANGED <<fetchVars, cfg, next, pages, lost>>

Running == {a \in Articles : task[a].st \notin {"idle"} \cup Over}

\* A semaphore bounds the article pages fetched at once.
Child(a) ==
    /\ phase = "children" /\ a \in plan /\ task[a].st = "idle"
    /\ Cardinality(Running) < Concurrency
    /\ Request(a) /\ UNCHANGED <<planVars, phase>>

\* The texts that survive: of a crawler those with a body, of a feed that
\* requires hydration the hydrated ones, otherwise every entry.
Surviving(f) == IF cfg.type = "CRAWLER" \/ Hydrated THEN Rich(f) ELSE Mentioned(f)

\* gather: a fetched page yields a text or turns out to be empty.
Gather ==
    /\ phase = "children" /\ \A a \in plan : task[a].st \in Over
    /\ \E got \in SUBSET {a \in plan : task[a].st = "ok"} :
        LET some == [a \in Articles |-> IF a \in got THEN 2 ELSE cands[a]]
            texts == Surviving(some)
            soft == \E a \in plan : task[a].st = "soft"
        IN
        /\ cands' = some
        /\ IF texts = {}
           THEN IF plan # {} \/ (Hydrated /\ Mentioned(some) # {}) THEN Failing(soft)
                ELSE IF cfg.empty THEN Return("saved", {}) ELSE Failing(FALSE)
           ELSE \E kept \in AtMost(texts, cfg.limit) : Return("saved", kept \ Old)
    /\ UNCHANGED <<fetchVars, cfg, next, pages, lost, plan>>

Next ==
    \/ Fetch \/ Tick
    \/ Begin \/ Seed \/ TurnPage \/ Page \/ EndPages \/ Choose
    \/ \E a \in Articles : Child(a)
    \/ Gather

CrawlSpec == Init /\ [][Next]_vars

\* The event loop keeps running the job, and every request is answered or
\* times out.
FairCrawlSpec == CrawlSpec /\ WF_vars(Next)

------------------------------------------------------------------------------
(* Properties *)

\* Requests of one crawl, pages, retries, redirect hops and article pages
\* fetched side by side, are never closer together than the source's rate
\* limit allows (_acquire_rate_limit).
Polite ==
    [][\A t \in Tasks :
         (task'[t].st = "sent" /\ task[t].st # "sent") => since = Interval]_vars

\* An article already found with all the crawl needs of it is not thrown away
\* because a later page or another article page failed: a crawl fails only
\* when it holds nothing usable ("partial success" of _fetch_additional_pages,
\* _fetch_discovered_articles and _hydrate_rss_articles).
FoundIsKept ==
    (outcome \in {"retry", "failed"} /\ (cfg.hydrate => cfg.approved))
        => Surviving(cands) = {}

\* Every crawl ends, whatever the sites answer: redirect loops, page cycles and
\* endless transient failures included.
CrawlEnds == <>(phase = "done")
==============================================================================
