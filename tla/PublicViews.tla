----------------------------- MODULE PublicViews -----------------------------
(***************************************************************************)
(* What the public pages show while the corpus changes under them.          *)
(*                                                                         *)
(* A page of the durable backend is put together from several statements,   *)
(* one after the other and each with what is committed by then (READ        *)
(* COMMITTED): the public issues, the rows, the assessments, the scores.    *)
(* Workers and administrators commit in between.  The deterministic backend *)
(* answers in one step from its own state, and only administrators and time *)
(* change that.                                                            *)
(***************************************************************************)
EXTENDS Integers, Sequences, FiniteSets

CONSTANTS
  Story,         \* articles
  Topic,         \* issues, by number: identifiers are ordered
  SourceOf,      \* the source of an article, which is its publisher here
  MinSources,    \* MIN_PUBLIC_ISSUE_SOURCES
  MaxVersion     \* bound on the versions of an article and of an issue

ASSUME ViewsAssumption ==
  /\ Topic \subseteq Nat /\ MinSources \in Nat /\ MaxVersion \in Nat \ {0}
  /\ IsFiniteSet(Story)

VARIABLES
  durable,     \* which backend this is
  story,       \* articles with their source's approval: active, recent, approved, version
  topic,       \* curated issues: open, version, members
  judged,      \* per article and version: no assessment, an untrusted or a trusted one
  scored,      \* the assessment the ACTIVE score names, or none
  work,        \* per article and version: its analyze job, the open one or else the latest
  snapshots,   \* comparisons: issue, its version, the articles' versions, reviewed
  modelOn,     \* the comparing model's alias is ACTIVE
  page,        \* the request: its name, the statements left, what the others returned
  answer,      \* what the last request was answered
  seen         \* observed: what has been true since the request began

corpus == <<story, topic, judged, scored, work, snapshots, modelOn>>
viewVars == <<durable, corpus, page, answer, seen>>

Judgement == {"none", "untrusted", "trusted"}
JobStates == {"NONE", "PENDING", "DEFERRED", "LEASED", "SUCCEEDED", "SKIPPED", "FAILED",
              "CANCELLED"}
Unread == "unread"
Statements == {"members", "topics", "rows", "versions", "judged", "scored", "snapshots",
               "model", "work"}
Idle == [name |-> "none", left |-> <<>>, held |-> [s \in Statements |-> Unread]]

-----------------------------------------------------------------------------
(* What is public.                                                          *)

Live(x) == x.active /\ x.recent /\ x.approved

\* _public_issue_memberships: the live members of every open issue that has
\* live members of enough publishers; none for the others.
PublicIssues ==
  [i \in Topic |->
     LET live == {a \in topic[i].members : Live(story[a])} IN
     IF topic[i].open /\ Cardinality({SourceOf[a] : a \in live}) >= MinSources
     THEN live ELSE {}]

\* is_trusted_assessment, score_matches_trusted_assessments: a version is ready
\* when its active score names a trusted assessment.
Matches(j, s, a, v) == j[<<a, v>>] = "trusted" /\ s[<<a, v>>] = "trusted"

CurrentReady(a) == Matches(judged, scored, a, story[a].version)

-----------------------------------------------------------------------------
(* The durable pages: the statements of each, in order, and what it makes   *)
(* of them.  h is what the statements returned.                             *)

Item(i, a, v, r) == [issue |-> i, story |-> a, version |-> v, ready |-> r]
Ready(h, a, v) == Matches(h["judged"], h["scored"], a, v)
ShownItem(h, i, a) == Item(i, a, h["rows"][a].version, Ready(h, a, h["rows"][a].version))

PublicPairs(members) == {p \in Topic \X Story : p[2] \in members[p[1]]}

\* article_rows: an article in two issues is listed under the last of them.
ArticlesPlan == <<"members", "rows", "judged", "scored">>
ArticleRows(h) ==
  {ShownItem(h, p[1], p[2]) :
     p \in {q \in PublicPairs(h["members"]) :
              /\ Live(h["rows"][q[2]])
              /\ \A i \in Topic : q[2] \in h["members"][i] => i <= q[1]}}

\* Mutant: the feed trusts the rows it selected before.
FeedCandidates_RowsOnly(h) ==
  {x \in {ShownItem(h, i, a) : i \in Topic, a \in Story} : x.ready /\ Live(h["rows"][x.story])}

\* feed_items: ready articles that are still in a public issue.
FeedPlan == <<"rows", "members", "judged", "scored">>
FeedCandidates(h) ==
  {x \in {ShownItem(h, p[1], p[2]) : p \in PublicPairs(h["members"])} :
     x.ready /\ Live(h["rows"][x.story])}

\* rank_feed orders them and keeps one per issue, each article once.
FeedItems(h) ==
  {S \in SUBSET FeedCandidates(h) :
     /\ \A x, y \in S : x.issue = y.issue \/ x.story = y.story => x = y
     /\ S = {} => FeedCandidates(h) = {}}

\* list_issue_rows: the issues with their articles.  issue_view makes that list,
\* reads the assessments and scores again, and then the articles' versions: the
\* scores it adds are those it read last, of the versions it read after them.
IssuesPlan == <<"members", "topics", "rows", "judged", "scored">>
IssueRows(h) ==
  {ShownItem(h, p[1], p[2]) :
     p \in {q \in PublicPairs(h["members"]) : h["topics"][q[1]].open /\ Live(h["rows"][q[2]])}}

IssuePlan ==
  <<"members", "topics", "rows", "judged", "scored", "judged", "scored", "versions">>
IssueView(h) ==
  {[x EXCEPT !.version = h["versions"][x.story].version,
             !.ready = Ready(h, x.story, h["versions"][x.story].version)] : x \in IssueRows(h)}

\* issue_article_rows
IssueArticlesPlan == <<"topics", "members", "rows", "judged", "scored">>
IssueArticleRows(h) == IssueRows(h)

\* _article_context, article_view, assessment_view and current_score
ArticlePlan == ArticlesPlan
ArticleContext(h) ==
  {p \in PublicPairs(h["members"]) : Live(h["rows"][p[2]])}
ArticleView(h) == {ShownItem(h, p[1], p[2]) : p \in ArticleContext(h)}
AssessmentView(h) ==
  {ShownItem(h, p[1], p[2]) : p \in {q \in ArticleContext(h) :
     h["judged"][<<q[2], h["rows"][q[2]].version>>] = "trusted"}}
CurrentScore(h) == {x \in ArticleView(h) : x.ready}

\* score_history, which the timelines of articles and sources are made of:
\* every version with a ready score.
ScoreHistory(h) ==
  {x \in {Item(i, a, v, Ready(h, a, v)) : i \in Topic, a \in Story, v \in 1 .. MaxVersion} :
     x.ready /\ <<x.issue, x.story>> \in ArticleContext(h)}

\* source_summary and visualization_rows take their articles before they know
\* which are public, of whatever state.
PointsPlan == FeedPlan
VisualizationRows(h) ==
  {x \in {ShownItem(h, p[1], p[2]) : p \in PublicPairs(h["members"])} : x.ready}
SourceSummary(h) == VisualizationRows(h)

-----------------------------------------------------------------------------
(* issue_comparison_view                                                    *)

ComparisonPlan ==
  <<"topics", "members", "snapshots", "rows", "versions", "judged", "scored", "model">>

\* The reviewed comparison of the version of the issue that was read first.
Selected(h, i) ==
  {s \in h["snapshots"] : s.issue = i /\ s.version = h["topics"][i].version /\ s.reviewed}

MembersNow(h, i) == {a \in h["members"][i] : Live(h["rows"][a])}

\* Mutant: whether the snapshot is of the current versions is not checked.
Comparable_AnyVersion(h, s) == TRUE

\* Every article of the snapshot is still a member at the version it was
\* compared at.
Comparable(h, s) ==
  \A a \in DOMAIN s.versions :
    a \in MembersNow(h, s.issue) /\ h["rows"][a].version = s.versions[a]

\* The articles asked for, with the scores of what is current one statement
\* after the versions were compared.
Compared(h, s, S) ==
  {Item(s.issue, a, h["versions"][a].version, Ready(h, a, h["versions"][a].version)) : a \in S}

ComparisonView(h) ==
  {[snapshot |-> s, items |-> Compared(h, s, S)] :
     s \in {x \in h["snapshots"] :
              /\ h["members"][x.issue] # {} /\ h["topics"][x.issue].open
              /\ x \in Selected(h, x.issue) /\ Comparable(h, x) /\ h["model"]},
     S \in {T \in SUBSET Story : Cardinality(T) >= 2}}

\* Only articles of the comparison that are analysed; otherwise it is refused.
Served(h) ==
  {c \in ComparisonView(h) : \A x \in c.items : x.ready /\ x.story \in DOMAIN c.snapshot.versions}

-----------------------------------------------------------------------------
(* The status of an analysis                                                *)

\* What the text of a version gives for a reason when no job does.  Texts are not
\* told apart: any of the three.
TextReasons ==
  {"SOURCE_CONTENT_UNAVAILABLE", "CONTENT_NOT_ELIGIBLE", "NOT_SELECTED_FOR_DAILY_ANALYSIS"}

\* _readiness_from_jobs: a job that waits for the next day's budget is DEFERRED,
\* one whose text was not worth a request is SKIPPED; a cancelled one may have
\* failed before.
Readiness(job) ==
  CASE job = "LEASED" -> {"ANALYSIS_RUNNING"}
    [] job = "PENDING" -> {"QUEUED_FOR_ANALYSIS"}
    [] job = "DEFERRED" -> {"DAILY_SELECTION_DEFERRED"}
    [] job = "SKIPPED" -> {"CONTENT_NOT_ELIGIBLE"}
    [] job \in {"SUCCEEDED", "FAILED"} -> {"ANALYSIS_RESULT_UNAVAILABLE"}
    [] job = "CANCELLED" -> {"ANALYSIS_RESULT_UNAVAILABLE"} \cup TextReasons
    [] job = "NONE" -> TextReasons

Reasons(ready, job) == IF ready THEN {"ANALYSIS_AVAILABLE"} ELSE Readiness(job)

\* _persisted_article_readiness: the jobs are looked at after the article was
\* found not to be ready.  Every reason the answer may give is in it.
StatusPlan == <<"members", "rows", "judged", "scored", "work">>
ArticleStatus(h) ==
  UNION {[story: {x.story}, version: {x.version},
          reason: Reasons(x.ready, h["work"][<<x.story, x.version>>])] : x \in ArticleView(h)}

\* get_analysis_status: an event is available when all its articles are ready.
EventStatus(h) ==
  {x \in IssueRows(h) : \A y \in IssueRows(h) : y.issue = x.issue => y.ready}

-----------------------------------------------------------------------------
(* The deterministic backend's pages, each from one state.                  *)

\* A score is looked up for the article; no page asks whom it is by.
HasScore(a) == \E v \in 1 .. story[a].version : scored[<<a, v>>] # "none"
LocalItem(i, a) == Item(i, a, story[a].version, HasScore(a))
LocalPublic == PublicPairs(PublicIssues)        \* _public_memory_issues
LocalScored == {p \in LocalPublic : HasScore(p[2])}
LocalItems(P) == {LocalItem(p[1], p[2]) : p \in P}

\* One scored article per issue, no two in a row of one source.
LocalFeed ==
  {LocalItems(P) : P \in
     {Q \in SUBSET LocalScored : \A p, q \in Q : p[1] = q[1] \/ p[2] = q[2] => p = q}}

LocalIssues == LocalItems(LocalPublic)
LocalIssue == LocalItems(LocalScored)           \* its distribution
\* Fails as a whole when one of the issue's articles has no score.
LocalIssueArticles ==
  LocalItems({p \in LocalPublic : \A a \in PublicIssues[p[1]] : HasScore(a)})
LocalArticles == LocalItems(LocalPublic)
LocalArticle == LocalItems(LocalPublic)
LocalAssessments ==
  LocalItems({p \in LocalPublic : \E v \in 1 .. story[p[2]].version : judged[<<p[2], v>>] = "trusted"})
LocalScore == LocalItems(LocalScored)
LocalHistory == LocalItems(LocalScored)
LocalCompare ==
  {LocalItems(P) : P \in {Q \in SUBSET LocalScored : Cardinality(Q) \in 2 .. 4}}
LocalSource == LocalItems(LocalScored)
LocalPoints == LocalItems(LocalScored)
LocalTimeline == LocalItems(LocalScored)

\* The versions of the compared articles are looked at, not of all the
\* snapshot's, and not whether its model is still active.
LocalComparison ==
  {[snapshot |-> s, items |-> LocalItems({<<s.issue, a>> : a \in S})] :
     s \in {x \in snapshots : x.reviewed /\ x.version = topic[x.issue].version},
     S \in SUBSET Story}

LocalServed ==
  {c \in LocalComparison :
     /\ Cardinality(c.items) >= 2
     /\ \A x \in c.items : /\ x.story \in PublicIssues[x.issue] \cap DOMAIN c.snapshot.versions
                           /\ c.snapshot.versions[x.story] = x.version
                           /\ judged[<<x.story, x.version>>] = "trusted" /\ HasScore(x.story)}

\* _memory_article_readiness
LocalStatus ==
  UNION {[story: {p[2]}, version: {story[p[2]].version},
          reason: Reasons(CurrentReady(p[2]), work[<<p[2], story[p[2]].version>>])] :
            p \in LocalPublic}

-----------------------------------------------------------------------------
(* Requests.  An answer says what kind of page it is and what it showed.    *)

Plan ==
  [feed |-> FeedPlan, articles |-> ArticlesPlan, issues |-> IssuesPlan, issue |-> IssuePlan,
   event |-> IssuesPlan, issue_articles |-> IssueArticlesPlan, article |-> ArticlePlan,
   history |-> ArticlePlan, points |-> PointsPlan, comparison |-> ComparisonPlan,
   status |-> StatusPlan]

Pages == DOMAIN Plan

Answers(name, h) ==
  CASE name = "feed" -> FeedItems(h)
    [] name = "articles" -> {ArticleRows(h)}
    [] name = "issues" -> {IssueRows(h)}
    [] name = "event" -> {EventStatus(h)}
    [] name = "history" -> {ScoreHistory(h)}
    [] name = "issue" -> {IssueView(h)}
    [] name = "issue_articles" -> {IssueArticleRows(h)}
    [] name = "article" -> {ArticleView(h), AssessmentView(h), CurrentScore(h)}
    [] name = "points" -> {VisualizationRows(h), SourceSummary(h)}
    [] name = "comparison" -> Served(h)
    [] name = "status" -> {ArticleStatus(h)}

LocalAnswers(name) ==
  CASE name = "feed" -> LocalFeed
    [] name = "articles" -> {LocalArticles}
    [] name = "issues" -> {LocalIssues}
    [] name = "event" -> {LocalIssueArticles}
    [] name = "history" -> {LocalHistory, LocalTimeline}
    [] name = "issue" -> {LocalIssue}
    [] name = "issue_articles" -> {LocalIssueArticles}
    [] name = "article" -> {LocalArticle, LocalAssessments, LocalScore}
    [] name = "points" -> {LocalPoints, LocalSource} \cup LocalCompare
    [] name = "comparison" -> LocalServed
    [] name = "status" -> {LocalStatus}

NoAnswer == [page |-> "none", shown |-> {}]
NothingSeen == [public |-> {}, current |-> {}, ready |-> {}, jobs |-> {}, editions |-> {}]

\* An issue of enough live articles of different publishers.
Covered(i) ==
  \E S \in SUBSET topic[i].members :
    /\ Cardinality(S) >= MinSources /\ \A a \in S : Live(story[a])
    /\ \A a, b \in S : SourceOf[a] = SourceOf[b] => a = b

\* What is true in a state, of everything a page may claim.
Truth ==
  [public |-> {p \in Topic \X Story : /\ topic[p[1]].open /\ Covered(p[1])
                                     /\ p[2] \in topic[p[1]].members /\ Live(story[p[2]])},
   current |-> {<<a, story[a].version>> : a \in Story},
   ready |-> {p \in Story \X (1 .. MaxVersion) : Matches(judged, scored, p[1], p[2])},
   jobs |-> {<<a, v, work[<<a, v>>]>> : a \in Story, v \in 1 .. MaxVersion},
   editions |-> {s \in snapshots : s.reviewed /\ topic[s.issue].open
                                   /\ topic[s.issue].version = s.version}]

Both(s, t) == [k \in DOMAIN s |-> s[k] \cup t[k]]

\* Every step that changes the corpus is observed by the request under way; an
\* earlier answer is of no interest then.
Observed ==
  IF page = Idle THEN seen' = NothingSeen /\ answer' = NoAnswer
  ELSE seen' = Both(seen, Truth') /\ UNCHANGED answer

BeginPage(name) ==
  /\ durable /\ page = Idle
  /\ page' = [name |-> name, left |-> Plan[name], held |-> Idle.held]
  /\ answer' = NoAnswer /\ seen' = Truth
  /\ UNCHANGED <<durable, corpus>>

Now(s) ==
  CASE s = "members" -> PublicIssues
    [] s = "topics" -> topic
    [] s \in {"rows", "versions"} -> story
    [] s = "judged" -> judged
    [] s = "scored" -> scored
    [] s = "snapshots" -> snapshots
    [] s = "model" -> modelOn
    [] s = "work" -> work

\* One statement; the last one is followed by the answer, or by a refusal when
\* there is none.
Read ==
  LET h == [page.held EXCEPT ![Head(page.left)] = Now(Head(page.left))] IN
  /\ page # Idle
  /\ \/ /\ Len(page.left) > 1
        /\ page' = [page EXCEPT !.left = Tail(page.left), !.held = h] /\ UNCHANGED answer
     \/ /\ Len(page.left) = 1
        /\ page' = Idle
        /\ answer' \in {[page |-> page.name, shown |-> x] : x \in Answers(page.name, h)}
                         \cup (IF Answers(page.name, h) = {} THEN {NoAnswer} ELSE {})
  /\ UNCHANGED <<durable, corpus, seen>>

LocalServe(name) ==
  /\ ~durable
  /\ answer' \in {[page |-> name, shown |-> x] : x \in LocalAnswers(name)}
  /\ seen' = Truth
  /\ UNCHANGED <<durable, corpus, page>>

-----------------------------------------------------------------------------
(* Everything else that happens.                                            *)

Unchanged == UNCHANGED <<durable, page>>

\* A week passes since publication.
AgeOut(a) ==
  /\ story[a].recent
  /\ story' = [story EXCEPT ![a].recent = FALSE]
  /\ Unchanged /\ UNCHANGED <<topic, judged, scored, work, snapshots, modelOn>> /\ Observed

\* update_source: every article of the source loses its approval or has it back.
PatchSource(source, approved) ==
  /\ story' = [a \in Story |-> IF SourceOf[a] = source THEN [story[a] EXCEPT !.approved = approved]
                                                     ELSE story[a]]
  /\ story' # story
  /\ Unchanged /\ UNCHANGED <<topic, judged, scored, work, snapshots, modelOn>> /\ Observed

\* patch_issue
PatchTopic(i, open) ==
  /\ topic[i].version < MaxVersion /\ topic[i].open # open
  /\ topic' = [topic EXCEPT ![i].open = open, ![i].version = @ + 1]
  /\ Unchanged /\ UNCHANGED <<story, judged, scored, work, snapshots, modelOn>> /\ Observed

\* update_model_alias
PatchModel ==
  /\ modelOn' = ~modelOn
  /\ Unchanged /\ UNCHANGED <<story, topic, judged, scored, work, snapshots>> /\ Observed

\* review_issue_comparison: of the present version of the issue and its articles.
Review(s) ==
  /\ s \in snapshots /\ ~s.reviewed /\ topic[s.issue].version = s.version
  /\ \A a \in DOMAIN s.versions : story[a].version = s.versions[a]
  /\ snapshots' = (snapshots \ {s}) \cup {[s EXCEPT !.reviewed = TRUE]}
  /\ Unchanged /\ UNCHANGED <<story, topic, judged, scored, work, modelOn>> /\ Observed

\* The workers' results: an article taken down, a new version, an assessment, a
\* score, another membership, a comparison.
TakeDown(a) ==
  /\ durable /\ story[a].active
  /\ story' = [story EXCEPT ![a].active = FALSE]
  /\ Unchanged /\ UNCHANGED <<topic, judged, scored, work, snapshots, modelOn>> /\ Observed

Rewrite(a) ==
  /\ durable /\ story[a].version < MaxVersion
  /\ story' = [story EXCEPT ![a].version = @ + 1]
  /\ Unchanged /\ UNCHANGED <<topic, judged, scored, work, snapshots, modelOn>> /\ Observed

\* What may become of an analyze job that does not end in an assessment: queued,
\* leased, given back, put off for a day (as another row), skipped for its text,
\* failed, cancelled, and opened again by an administrator.
JobMoves ==
  ({"NONE", "DEFERRED", "LEASED", "FAILED", "CANCELLED"} \X {"PENDING"})
    \cup ({"PENDING"} \X {"LEASED", "CANCELLED"})
    \cup {<<"DEFERRED", "CANCELLED">>}
    \cup ({"LEASED"} \X {"DEFERRED", "SKIPPED", "FAILED", "CANCELLED"})

\* Of any version there has been.  A job also succeeds without an assessment,
\* when its request was suppressed or could not be put off any longer.
Analyze(a, v, next, judgement) ==
  /\ durable /\ v <= story[a].version
  /\ \/ <<work[<<a, v>>], next>> \in JobMoves /\ judgement = judged[<<a, v>>]
     \/ work[<<a, v>>] = "LEASED" /\ next = "SUCCEEDED"
  /\ work' = [work EXCEPT ![<<a, v>>] = next]
  /\ judged' = [judged EXCEPT ![<<a, v>>] = judgement]
  /\ Unchanged /\ UNCHANGED <<story, topic, scored, snapshots, modelOn>> /\ Observed

Score(a, v) ==
  /\ durable /\ judged[<<a, v>>] # "none" /\ scored[<<a, v>>] # judged[<<a, v>>]
  /\ scored' = [scored EXCEPT ![<<a, v>>] = judged[<<a, v>>]]
  /\ Unchanged /\ UNCHANGED <<story, topic, judged, work, snapshots, modelOn>> /\ Observed

Regroup(i, members) ==
  /\ durable /\ topic[i].version < MaxVersion /\ members # topic[i].members
  /\ topic' = [topic EXCEPT ![i].members = members, ![i].version = @ + 1]
  /\ Unchanged /\ UNCHANGED <<story, judged, scored, work, snapshots, modelOn>> /\ Observed

Compare(i) ==
  LET members == {a \in topic[i].members : Live(story[a]) /\ CurrentReady(a)}
      s == [issue |-> i, version |-> topic[i].version, reviewed |-> FALSE,
            versions |-> [a \in members |-> story[a].version]] IN
  /\ durable /\ topic[i].open /\ Cardinality(members) >= 2
  /\ {s, [s EXCEPT !.reviewed = TRUE]} \cap snapshots = {}
  /\ snapshots' = snapshots \cup {s}
  /\ Unchanged /\ UNCHANGED <<story, topic, judged, scored, work, modelOn>> /\ Observed

CorpusStep ==
  \/ \E a \in Story :
       \/ AgeOut(a) \/ TakeDown(a) \/ Rewrite(a)
       \/ \E v \in 1 .. MaxVersion :
            \/ Score(a, v)
            \/ \E next \in JobStates, j \in Judgement : Analyze(a, v, next, j)
       \/ \E approved \in BOOLEAN : PatchSource(SourceOf[a], approved)
  \/ \E i \in Topic : \/ \E open \in BOOLEAN : PatchTopic(i, open)
                       \/ \E S \in SUBSET Story : Regroup(i, S)
                       \/ Compare(i)
  \/ PatchModel
  \/ \E s \in snapshots : Review(s)

ViewStep == (\E name \in Pages : BeginPage(name) \/ LocalServe(name)) \/ Read

\* The first day's corpus: every issue holds every article, whose analyses are
\* at any one stage; once they are scored the issues have been compared and that
\* was reviewed.  The deterministic backend starts with all of it.
ViewsInit ==
  /\ durable \in BOOLEAN
  /\ story = [a \in Story |-> [active |-> TRUE, recent |-> TRUE, approved |-> TRUE, version |-> 1]]
  /\ topic = [i \in Topic |-> [open |-> TRUE, version |-> 1, members |-> Story]]
  /\ \E stage \in {"NONE", "PENDING", "LEASED", "SUCCEEDED"}, done \in BOOLEAN :
       /\ ~durable => done
       /\ done => stage = "SUCCEEDED"
       /\ work = [p \in Story \X (1 .. MaxVersion) |-> IF p[2] = 1 THEN stage ELSE "NONE"]
       /\ judged = [p \in Story \X (1 .. MaxVersion) |->
                      IF p[2] = 1 /\ stage = "SUCCEEDED" THEN "trusted" ELSE "none"]
       /\ scored = IF done THEN judged ELSE [p \in Story \X (1 .. MaxVersion) |-> "none"]
       /\ snapshots = IF done THEN {[issue |-> i, version |-> 1, reviewed |-> TRUE,
                                    versions |-> [a \in Story |-> 1]] : i \in Topic} ELSE {}
  /\ modelOn = TRUE
  /\ page = Idle /\ answer = NoAnswer /\ seen = NothingSeen

ViewsSpec == ViewsInit /\ [][CorpusStep \/ ViewStep]_viewVars

-----------------------------------------------------------------------------
(* Properties                                                               *)

\* Everything an answer shows was so at some moment since the request began: an
\* article under an issue was a public member of it, the version was the
\* current one (a history may show earlier ones), what is shown with a
\* coordinate had a score from a trusted assessment, and the reason given for
\* there being no analysis was that of a job of the version; whatever was
\* committed between the statements.
ShownWasTrue ==
  answer.page \notin {"none", "comparison"} =>
    \A x \in answer.shown :
      IF answer.page = "status"
      THEN /\ <<x.story, x.version>> \in seen.current
           /\ \/ x.reason = "ANALYSIS_AVAILABLE" /\ <<x.story, x.version>> \in seen.ready
              \/ \E j \in seen.jobs :
                   j[1] = x.story /\ j[2] = x.version /\ x.reason \in Readiness(j[3])
      ELSE /\ <<x.issue, x.story>> \in seen.public
           /\ answer.page # "history" => <<x.story, x.version>> \in seen.current
           /\ x.ready => <<x.story, x.version>> \in seen.ready

\* A comparison is served only of public articles, every article that was
\* compared (of the deterministic backend: every one that is shown) at the
\* version the reviewer approved it at, while that review was of the issue's
\* version.
ComparisonWasReviewed ==
  answer.page = "comparison" =>
    LET s == answer.shown.snapshot IN
    /\ s \in seen.editions
    /\ \A x \in answer.shown.items : <<x.story, x.version>> \in seen.ready
    /\ \A a \in IF durable THEN DOMAIN s.versions ELSE {x.story : x \in answer.shown.items} :
         <<s.issue, a>> \in seen.public /\ <<a, s.versions[a]>> \in seen.current
=============================================================================
