------------------------------- MODULE Discovery -------------------------------
(* The day's search for events: the scheduler's one job per date, the phases   *)
(* of its paid requests, the pages fetched between them, and what is selected. *)
(*                                                                             *)
(* Several operations may be at it: one that lost its lease goes on when an    *)
(* administrator has the failed job tried again.  Other paid work of the day   *)
(* is authorized at any moment.  The approved publishers, part of the keys of  *)
(* the requests, stay the same.                                                *)
EXTENDS Integers, FiniteSetsExt

CONSTANTS
    Topics,         \* candidates, by their order after diversification
    PagesAbout,     \* pages that the search about each finds
    PublisherOf,    \* of each page
    Operations,     \* attempts at the job
    Enough,         \* 3: publishers of an event
    PerEvent,       \* 8: articles of an event
    EditionSize,    \* 5: events of an edition
    Floor,          \* 30: requests that discovery leaves for analyses
    Submissions, ArticleSlots,  \* the day's limits
    Others          \* bound: requests of other work

ASSUME DiscoveryAssumption ==
    /\ Topics \subseteq Nat /\ Enough \in Nat \ {0}
    /\ {PerEvent, EditionSize, Floor, Submissions, ArticleSlots, Others} \subseteq Nat
    /\ \A t \in Topics : IsFiniteSet(PagesAbout[t])

VARIABLES
    date,           \* KST date; the job is of date 1
    daily,          \* its job
    spent,          \* llm_daily_usage of the date
    asked,          \* llm_requests of the job's phases
    search,         \* each operation
    others,         \* observed: requests of other work, on all dates
    elsewhere       \* observed: what others were granted since it began

discoveryVars == <<date, daily, spent, asked, search, others, elsewhere>>

Phases == {<<"topics", 0>>} \cup {"sources", "selection"} \X Topics
Nothing == [requests |-> 0, articles |-> 0, comparisons |-> 0]
Unsearched == [at |-> "idle", sent |-> FALSE, left |-> {}, topic |-> 0, pages |-> {},
               limit |-> 0, events |-> {}, pending |-> 0]
Unasked == [state |-> "NONE", answer |-> {}, evidence |-> {}]

DiscoveryInit ==
    /\ date = 1 /\ daily = "none" /\ spent = Nothing /\ others = 0
    /\ asked = [f \in Phases |-> Unasked]
    /\ search = [o \in Operations |-> Unsearched]
    /\ elsewhere = [o \in Operations |-> Nothing]

PublishersOf(S) == {PublisherOf[x] : x \in S}
Varied(S) == Cardinality(PublishersOf(S)) >= Enough

-----------------------------------------------------------------------------
(* The job                                                                     *)

JobMoves(from, to) == daily = from /\ daily' = to

\* Its selection is the applier's now, or lost with it.
Ended == [Unsearched EXCEPT !.at = "over"]
Searching(o) == search[o].at \notin {"idle", "over"}

GoesOn(o, next) ==
    /\ search' = [search EXCEPT ![o] = next]
    /\ elsewhere' = IF next = Ended THEN [elsewhere EXCEPT ![o] = Nothing] ELSE elsewhere

\* tick inserts the date's job unless there is one, of whatever status.
DailyTick ==
    /\ date = 1 /\ JobMoves("none", "pending")
    /\ UNCHANGED <<date, spent, asked, search, others, elsewhere>>

\* It has one attempt.  A run date that is over is refused.
BeginDiscovery(o) ==
    /\ search[o] = Unsearched /\ JobMoves("pending", "leased")
    /\ GoesOn(o, IF date = 1 THEN [Unsearched EXCEPT !.at = "topics"] ELSE Ended)
    /\ UNCHANGED <<date, spent, asked, others>>

\* Reaped, failed or cancelled, only an administrator opens it again; an
\* operation that is at it goes on.
RetryDaily ==
    /\ JobMoves("leased", "pending")
    /\ UNCHANGED <<date, spent, asked, search, others, elsewhere>>

CrashSearch(o) ==
    /\ Searching(o) /\ GoesOn(o, Ended)
    /\ UNCHANGED <<date, daily, spent, asked, others>>

-----------------------------------------------------------------------------
(* The day's ledger                                                            *)

\* The analyses and the comparison of every event selected.
Protected(s) == s.pending + Cardinality(s.events)

\* Mutant: the articles already selected are forgotten.
Capacity_Fresh(s) ==
    Max({0, Min({ArticleSlots - spent.articles,
                 Submissions - spent.requests - Protected(s) - 2})})

\* discovery_article_capacity: read without a lock.
Capacity(s) ==
    Max({0, Min({ArticleSlots - spent.articles - s.pending,
                 Submissions - spent.requests - Protected(s) - 2})})

\* What a phase asks to leave free.
Needed(s) ==
    CASE s.at = "topics" -> 0
      [] s.at = "sources" -> Protected(s)
      [] s.at = "selection" ->
           Protected(s) + Min({Cardinality(PublishersOf(s.pages)), s.limit}) + 1

RoomLeft(need) ==
    LET usual == Min({Floor, (Submissions * 3) \div 5}) - spent.articles - spent.comparisons IN
    spent.requests + 1 + Max({0, usual, need}) <= Submissions

\* One request more, seen by every operation but the one that makes it.
Charge(by, articles, comparisons) ==
    /\ spent' = [requests |-> spent.requests + 1, articles |-> spent.articles + articles,
                 comparisons |-> spent.comparisons + comparisons]
    /\ elsewhere' = [o \in Operations |->
         IF o \notin by /\ Searching(o)
         THEN [elsewhere[o] EXCEPT !.requests = @ + 1, !.articles = @ + articles]
         ELSE elsewhere[o]]

\* Analyses and comparisons of the feed and of events.
SpendElsewhere(analyses) ==
    /\ spent.requests < Submissions
    /\ analyses = 1 => spent.articles < ArticleSlots
    /\ others < Others /\ others' = others + 1
    /\ Charge({}, analyses, 1 - analyses)
    /\ UNCHANGED <<date, daily, asked, search>>

NextDate ==
    /\ date = 1 /\ date' = 2
    /\ spent' = Nothing /\ elsewhere' = [o \in Operations |-> Nothing]
    /\ UNCHANGED <<daily, asked, search, others>>

-----------------------------------------------------------------------------
(* A paid phase: authorized once a day, its answer stored and replayed         *)

Asking(s) == s.at \in {"topics", "sources", "selection"}
PhaseOf(s) == <<s.at, IF s.at = "topics" THEN 0 ELSE s.topic>>

Authorize(o) ==
    LET s == search[o] IN
    /\ Asking(s) /\ ~s.sent /\ asked[PhaseOf(s)].state = "NONE"
    /\ RoomLeft(Needed(s))
    /\ Charge({o}, 0, 0)
    /\ asked' = [asked EXCEPT ![PhaseOf(s)].state = "SUBMITTED"]
    /\ search' = [search EXCEPT ![o].sent = TRUE]
    /\ UNCHANGED <<date, daily, others>>

\* What an answer may hold: candidates, pages (all, since any may then fail to
\* be fetched), or which pages are of the event, one for each publisher; none of
\* them when it is no controversy.
Replies(s) ==
    CASE s.at = "topics" -> SUBSET Topics
      [] s.at = "sources" -> {PagesAbout[s.topic]}
      [] s.at = "selection" ->
           {S \in SUBSET s.pages : Cardinality(PublishersOf(S)) = Cardinality(S)}

\* The page of an earlier event is not used again; what is left must still be
\* varied.
Selected(s, S) ==
    LET kept == S \ UNION {e.pages : e \in s.events} IN
    IF Varied(S) /\ Varied(kept)
    THEN [s EXCEPT !.events = @ \cup {[topic |-> s.topic, pages |-> kept]},
                   !.pending = @ + Cardinality(kept)]
    ELSE s

\* What may follow an answer: some pages are fetched; the selection is cut to
\* the capacity found before.
Continued(s, answer) ==
    CASE s.at = "topics" -> {[s EXCEPT !.at = "look", !.left = answer]}
      [] s.at = "sources" ->
           {IF Varied(S) THEN [s EXCEPT !.at = "size", !.pages = S]
                         ELSE [s EXCEPT !.at = "look"] : S \in SUBSET answer}
      [] s.at = "selection" ->
           {[Selected(s, S) EXCEPT !.at = "look", !.pages = {}, !.limit = 0] :
              S \in {T \in SUBSET answer : Cardinality(T) <= s.limit}}

Evidence(s) == IF s.at = "selection" THEN s.pages ELSE {}

\* Answered, and stored in a transaction of its own.
Answered(o) ==
    LET s == search[o] IN
    /\ s.sent
    /\ \E r \in Replies(s) :
         /\ asked' = [asked EXCEPT ![PhaseOf(s)] =
                        [state |-> "SUCCEEDED", answer |-> r, evidence |-> Evidence(s)]]
         /\ \E next \in Continued([s EXCEPT !.sent = FALSE], r) : GoesOn(o, next)
    /\ UNCHANGED <<date, daily, spent, others>>

\* A stored answer is used again, a selection only for the pages it was made of.
Replayed(o) ==
    LET s == search[o]
        was == asked[PhaseOf(s)] IN
    /\ Asking(s) /\ ~s.sent /\ was.state = "SUCCEEDED" /\ was.evidence = Evidence(s)
    /\ \E next \in Continued(s, was.answer) : GoesOn(o, next)
    /\ UNCHANGED <<date, daily, spent, asked, others>>

\* No room, or not the money: the edition ends with what it has.
Refused(o) ==
    LET s == search[o] IN
    /\ Asking(s) /\ ~s.sent /\ asked[PhaseOf(s)].state = "NONE"
    /\ GoesOn(o, Ended)
    /\ UNCHANGED <<date, daily, spent, asked, others>>

\* The answer is lost or of no use, or another operation has it or lost it, or
\* it is of other pages, or of other contents: another candidate, never another
\* payment.
Suppressed(o) ==
    LET s == search[o]
        was == asked[PhaseOf(s)] IN
    /\ Asking(s)
    /\ \/ s.sent \/ was.state = "SUBMITTED"
       \/ was.state = "SUCCEEDED" /\ s.at = "selection"
    /\ GoesOn(o, IF s.at = "topics" THEN Ended
                 ELSE [s EXCEPT !.at = "look", !.sent = FALSE, !.pages = {}, !.limit = 0])
    /\ UNCHANGED <<date, daily, spent, asked, others>>

-----------------------------------------------------------------------------
(* Candidate by candidate                                                      *)

NextTopic(o) ==
    LET s == search[o] IN
    /\ s.at = "look"
    /\ GoesOn(o,
         IF s.left = {} \/ Cardinality(s.events) >= EditionSize \/ Capacity(s) < Enough
         THEN Ended
         ELSE [s EXCEPT !.at = "sources", !.topic = Min(s.left), !.left = @ \ {Min(s.left)}])
    /\ UNCHANGED <<date, daily, spent, asked, others>>

\* Once the pages are there, their number is cut to what can be analysed.
SizeEvent(o) ==
    LET s == search[o]
        limit == Min({PerEvent, Capacity(s)}) IN
    /\ s.at = "size"
    /\ GoesOn(o, IF limit < Enough THEN Ended
                 ELSE [s EXCEPT !.at = "selection", !.limit = limit])
    /\ UNCHANGED <<date, daily, spent, asked, others>>

DiscoveryNext ==
    \/ \E o \in Operations :
         \/ BeginDiscovery(o) \/ CrashSearch(o)
         \/ Authorize(o) \/ Answered(o) \/ Replayed(o) \/ Refused(o) \/ Suppressed(o)
         \/ NextTopic(o) \/ SizeEvent(o)
    \/ DailyTick \/ RetryDaily
    \/ \E n \in {0, 1} : SpendElsewhere(n)
    \/ NextDate

DiscoverySpec == DiscoveryInit /\ [][DiscoveryNext]_discoveryVars

-----------------------------------------------------------------------------
\* Discovery never spends the room that its own selection needs: what other
\* work was granted since it began put aside, each article selected still has
\* its analysis, and each event its comparison, whatever was read without a
\* lock, replayed from an earlier attempt, or charged by another one.
EditionAffordable ==
    \A o \in Operations :
        LET events == search[o].events
            work   == Cardinality(UNION {e.pages : e \in events}) IN
        events # {} =>
            /\ work + spent.articles <= ArticleSlots + elsewhere[o].articles
            /\ work + Cardinality(events) + spent.requests <= Submissions + elsewhere[o].requests
================================================================================
