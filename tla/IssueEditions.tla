----------------------------- MODULE IssueEditions ---------------------------
(* Issues, the daily edition, and the comparisons of their articles.  Every   *)
(* result is applied under the article inventory lock, so an edition, a merge *)
(* or a comparison is stored in one step; between steps workers build         *)
(* comparisons from what they were given, articles change, and administrators *)
(* edit, merge and split issues and approve comparisons.                      *)
EXTENDS Naturals, FiniteSets

CONSTANTS
    Issues, Daily,          \* issues; those whose key begins "daily-issue:"
    Arts, Publisher,        \* article ids (numbers); who published each
    Texts,                  \* versions an article's text may have
    Quorum,                 \* publishers an event needs: 3
    MaxEdition,             \* events of an edition: 5
    MaxCohort,              \* articles compared: 8
    MaxReviewed,            \* articles of a comparison that can be approved: 4
    MaxIssueVersion              \* bound on an issue's version

ASSUME EditionsAssumption ==
    /\ Daily \subseteq Issues /\ Arts \subseteq Nat /\ Texts \subseteq Nat \ {0}
    /\ 0 < Quorum /\ Quorum <= MaxCohort

IssueVersions == 1..MaxIssueVersion
\* (A closed issue is as an archived one.)
IssueStatus == {"candidate", "active", "archived", "merged"}

VARIABLES
    issue,      \* status, members and version
    art,        \* each article's current text (0: no article), and whether it is public
    snap,       \* comparison snapshots, by issue and version
    cmp,        \* comparison jobs
    ops         \* queued merges and splits

editionVars == <<issue, art, snap, cmp, ops>>

NoIssue == [st |-> "none", mem |-> {}, ver |-> 1]
NoArt == [text |-> 0, ok |-> FALSE]
NoSnap == [st |-> "none", in |-> {}, rev |-> FALSE, fp |-> FALSE]

EditionInit ==
    /\ issue = [i \in Issues |-> NoIssue]
    /\ art = [a \in Arts |-> NoArt]
    /\ snap = [i \in Issues |-> [v \in IssueVersions |-> NoSnap]]
    /\ cmp = {} /\ ops = {}

------------------------------------------------------------------------------
(* The comparison of an issue *)

Publishers(as) == {Publisher[a] : a \in as}

First(as) == {a \in as : \A b \in as : a <= b}

\* One article per publisher, the oldest identifier first.
OnePerPublisher(as) ==
    {a \in as : \A b \in as : Publisher[b] = Publisher[a] => a <= b}

\* What is compared: public articles of an active daily event, with their
\* current texts.  (The code stops at MaxCohort articles.)
Cohort(is, ar, i) ==
    LET public == {a \in is[i].mem : ar[a].ok}
        chosen == OnePerPublisher(public) IN
    IF is[i].st = "active" /\ i \in Daily /\ Cardinality(chosen) >= Quorum
    THEN {<<a, ar[a].text>> : a \in {b \in chosen :
              Cardinality({c \in chosen : c < b}) < MaxCohort}}
    ELSE {}

CohortNow(i) == Cohort(issue, art, i)

Fresh(r) == [st |-> "succeeded", in |-> r.in, rev |-> FALSE, fp |-> r.fp]

\* Data is copied to the new revision, editorial approval is not.
Copied(s, v, w) == [s EXCEPT ![v] = Fresh(s[w])]

\* The events that have one of the articles as a member are compared again.  A
\* stored snapshot of the same inputs is reused, the latest one first: if it
\* belongs to an earlier revision it is copied.
Affected(is, ar, as) == {i \in Issues : as \cap is[i].mem # {} /\ Cohort(is, ar, i) # {}}
Matching(is, ar, sn, i) ==
    {v \in IssueVersions :
        sn[i][v].st # "none" /\ sn[i][v].fp /\ sn[i][v].in = Cohort(is, ar, i)}
Latest(vs) == CHOOSE v \in vs : \A w \in vs : w <= v

Reused(is, ar, sn, as) ==
    [i \in Issues |->
        LET m == Matching(is, ar, sn, i) IN
        IF i \notin Affected(is, ar, as) \/ m = {} THEN sn[i]
        ELSE IF Latest(m) = is[i].ver /\ sn[i][is[i].ver].st = "succeeded" THEN sn[i]
        ELSE Copied(sn[i], is[i].ver, Latest(m))]

\* A job's key names the inputs: one that is already there, in any state, is
\* not enqueued again.
Asked(is, ar, sn, jobs, as) ==
    jobs \cup {[issue |-> i, in |-> Cohort(is, ar, i), st |-> "pending", late |-> FALSE] :
               i \in {j \in Affected(is, ar, as) :
                        /\ Matching(is, ar, sn, j) = {}
                        /\ \A job \in jobs : job.issue = j /\ ~job.late
                                              => job.in # Cohort(is, ar, j)}}

\* After an analysis is stored.
Analyzed(a) ==
    /\ art[a].text # 0
    /\ snap' = Reused(issue, art, snap, {a})
    /\ cmp' = Asked(issue, art, snap, cmp, {a})
    /\ UNCHANGED <<issue, art, ops>>

Became(j, s) == (cmp \ {j}) \cup {[j EXCEPT !.st = s]}

\* The worker pays only for inputs that are still the cohort; a comparison may
\* also fail for good.
Build(j) ==
    /\ j.st = "pending"
    /\ cmp' \in {Became(j, "over")}
               \cup (IF CohortNow(j.issue) = j.in THEN {Became(j, "built")} ELSE {})
    /\ UNCHANGED <<issue, art, snap, ops>>

\* Over the day's budget: another job, with a key of its own, for tomorrow.
Defer(j) ==
    /\ j.st = "pending" /\ ~j.late /\ CohortNow(j.issue) = j.in
    /\ cmp' = Became(j, "over") \cup {[j EXCEPT !.late = TRUE]}
    /\ UNCHANGED <<issue, art, snap, ops>>

\* The comparison service answers with the fingerprint of its inputs and the
\* identity of the model; the handler's result names its fields one by one, and
\* these two are not among them.
Reported(j) == [in |-> j.in, fp |-> FALSE]

Stored_KeepsReview(s, v, r) ==
    [w \in IssueVersions |->
        IF w = v THEN [Fresh(r) EXCEPT !.rev = s[v].rev]
        ELSE IF s[w].st = "succeeded" THEN [s[w] EXCEPT !.st = "superseded"]
        ELSE s[w]]

\* Under the current revision, not reviewed; those of other revisions are
\* superseded.
Stored(s, v, r) ==
    [w \in IssueVersions |->
        IF w = v THEN Fresh(r)
        ELSE IF s[w].st = "succeeded" THEN [s[w] EXCEPT !.st = "superseded"]
        ELSE s[w]]

\* A result for inputs that changed while it was built is dropped, and one
\* whose fingerprint is already stored leaves the snapshot alone.
ApplyComparison(j) ==
    LET i == j.issue
        v == issue[i].ver
        r == Reported(j)
        replay == r.fp /\ snap[i][v].st = "succeeded" /\ snap[i][v].fp /\ snap[i][v].in = r.in IN
    /\ j.st = "built" /\ cmp' = Became(j, "over")
    /\ snap' = IF CohortNow(i) # r.in \/ replay THEN snap
               ELSE [snap EXCEPT ![i] = Stored(@, v, r)]
    /\ UNCHANGED <<issue, art, ops>>

\* What the approval of a comparison requires beyond its being current.
Approvable(i, s) ==
    /\ 2 <= Cardinality(s.in) /\ Cardinality(s.in) <= MaxReviewed
    /\ \A p \in s.in : p[1] \in issue[i].mem /\ art[p[1]].text = p[2]

Review(i) ==
    LET v == issue[i].ver IN
    /\ snap[i][v].st = "succeeded" /\ ~snap[i][v].rev
    /\ Approvable(i, snap[i][v])
    /\ snap' = [snap EXCEPT ![i][v].rev = TRUE]
    /\ UNCHANGED <<issue, art, cmp, ops>>

\* Storage maintenance runs with the writers stopped: finished jobs go, and
\* the snapshots that no longer show anything.
MaintainSnapshots ==
    /\ \A j \in cmp : j.st # "built"
    /\ \E j \in cmp : j.st = "over"
    /\ cmp' = {j \in cmp : j.st # "over"}
    /\ snap' = [i \in Issues |-> [v \in IssueVersions |->
                  IF /\ v = issue[i].ver /\ snap[i][v].st = "succeeded"
                     /\ issue[i].st \notin {"archived", "merged"}
                  THEN snap[i][v] ELSE NoSnap]]
    /\ UNCHANGED <<issue, art, ops>>

------------------------------------------------------------------------------
(* Articles *)

\* A crawl stores a new or changed text.
Crawled(a) ==
    /\ \E t \in Texts \ {art[a].text} : art' = [art EXCEPT ![a] = [text |-> t, ok |-> TRUE]]
    /\ UNCHANGED <<issue, snap, cmp, ops>>

\* An article is no longer public: blocked, seven days old, or its source
\* disabled.
Withdraw(a) ==
    /\ art[a].ok /\ art' = [art EXCEPT ![a].ok = FALSE]
    /\ UNCHANGED <<issue, snap, cmp, ops>>

\* Retention deletes the article, the jobs and snapshots that mention it, and
\* archives an issue left without members.
Retire(a) ==
    /\ art[a].text # 0
    /\ art' = [art EXCEPT ![a] = NoArt]
    /\ issue' = [i \in Issues |->
                   IF a \notin issue[i].mem THEN issue[i]
                   ELSE [issue[i] EXCEPT !.mem = @ \ {a},
                                         !.st = IF issue[i].mem = {a} THEN "archived" ELSE @]]
    /\ snap' = [i \in Issues |-> [v \in IssueVersions |->
                  IF a \in issue[i].mem /\ \/ \E p \in snap[i][v].in : p[1] = a
                                           \/ issue[i].mem = {a}
                  THEN NoSnap ELSE snap[i][v]]]
    /\ cmp' = {j \in cmp : \A p \in j.in : p[1] # a}
    /\ ops' = {o \in ops : a \notin o.arts}

------------------------------------------------------------------------------
(* The edition *)

\* One candidate event of the discovery's result, against the edition so far:
\* articles another event has taken do not count, nor does a second candidate
\* with the same key.
Take(e, c) ==
    LET articles == {a \in OnePerPublisher(c.arts \ e.seen) : art[a].ok}
        old == e.issue[c.id]
        is == [e.issue EXCEPT ![c.id] =
                 [st |-> "active", mem |-> articles,
                  ver |-> IF old.st = "none" THEN 1 ELSE old.ver + 1]]
        first == First(articles) IN
    IF \/ Cardinality(e.ids) >= MaxEdition
       \/ Cardinality(articles) < Quorum
       \/ c.id \in e.ids
    THEN e
    ELSE [issue |-> is, ids |-> e.ids \cup {c.id}, seen |-> e.seen \cup articles,
          snap |-> Reused(is, art, e.snap, first), cmp |-> Asked(is, art, e.snap, e.cmp, first)]

\* The events of earlier editions that still have enough public articles.
PublicOf(e, i) == {a \in e.issue[i].mem : art[a].ok}
Keepable(e) ==
    {i \in Daily \ e.ids : /\ e.issue[i].st = "active"
                           /\ Cardinality(Publishers(PublicOf(e, i))) >= Quorum}

\* As many of them as there are places left over; which ones depends on their
\* topics.  Their versions and reviews are left as they are.
Kept(e) ==
    {kept \in SUBSET Keepable(e) :
        LET room == MaxEdition - Cardinality(e.ids) IN
        Cardinality(kept) = IF Cardinality(Keepable(e)) <= room
                            THEN Cardinality(Keepable(e)) ELSE room}

\* The other events of earlier editions are archived.
Closed(is, ids) ==
    [i \in Issues |-> IF i \in Daily \ ids /\ is[i].st = "active"
                      THEN [is[i] EXCEPT !.st = "archived"] ELSE is[i]]

\* Nothing of earlier editions is touched unless this one has an event at all.
Published(e) ==
    /\ e.ids # {}
    /\ \E kept \in Kept(e) :
        LET first == UNION {First(PublicOf(e, i)) : i \in kept} IN
        /\ issue' = Closed(e.issue, e.ids \cup kept)
        /\ snap' = Reused(e.issue, art, e.snap, first)
        /\ cmp' = Asked(e.issue, art, e.snap, e.cmp, first)
    /\ UNCHANGED <<art, ops>>

\* The result of a discovery, of one candidate or two.  (The curated crawl of
\* its articles is Crawled; the candidates are in the order that varies the
\* topics.)
NewEdition == [issue |-> issue, ids |-> {}, seen |-> {}, snap |-> snap, cmp |-> cmp]
Publish(c) ==
    /\ issue[c.id].ver < MaxIssueVersion
    /\ Published(Take(NewEdition, c))
PublishTwo(c, d) ==
    /\ issue[c.id].ver < MaxIssueVersion /\ issue[d.id].ver < MaxIssueVersion
    /\ Published(Take(Take(NewEdition, c), d))

\* A keyword cluster becomes an ordinary issue or grows one; it never touches
\* an event of an edition.
Cluster(i, as) ==
    LET old == issue[i]
        st == IF old.st = "active" \/ Cardinality(Publishers(as)) >= Quorum THEN "active"
              ELSE "candidate"
        changed == old.st # "none" /\ (~(as \subseteq old.mem) \/ st # old.st)
        is == [issue EXCEPT ![i].st = st, ![i].mem = @ \cup as,
                            ![i].ver = IF changed THEN @ + 1 ELSE @] IN
    /\ i \notin Daily /\ Cardinality(Publishers(as)) >= 2
    /\ \A a \in as : art[a].text # 0
    /\ changed => old.ver < MaxIssueVersion
    /\ issue' = is
    /\ snap' = Reused(is, art, snap, First(as)) /\ cmp' = Asked(is, art, snap, cmp, First(as))
    /\ UNCHANGED <<art, ops>>

------------------------------------------------------------------------------
(* Administrators *)

\* PATCH with If-Match: any status, and a new version.
PatchIssue(i) ==
    /\ issue[i].st # "none" /\ issue[i].ver < MaxIssueVersion
    /\ \E s \in IssueStatus : issue' = [issue EXCEPT ![i].st = s, ![i].ver = @ + 1]
    /\ UNCHANGED <<art, snap, cmp, ops>>

\* A missing target is created with the request.
RequestMerge(i, j) ==
    /\ i # j /\ issue[i].st # "none"
    /\ issue' = [issue EXCEPT ![j].st = IF @ = "none" THEN "candidate" ELSE @]
    /\ ops' = ops \cup {[op |-> "merge", from |-> i, to |-> j, arts |-> {}]}
    /\ UNCHANGED <<art, snap, cmp>>

\* The articles of a split must belong to the issue when it is asked for; each
\* moves to an issue of its own (here: one article).
RequestSplit(i, j, a) ==
    /\ i # j /\ j \notin Daily /\ a \in issue[i].mem
    /\ ops' = ops \cup {[op |-> "split", from |-> i, to |-> j, arts |-> {a}]}
    /\ UNCHANGED <<issue, art, snap, cmp>>

\* After issues changed, the events of these articles are compared.
Recompared(is, as) ==
    /\ issue' = is
    /\ snap' = Reused(is, art, snap, as)
    /\ cmp' = Asked(is, art, snap, cmp, as)
    /\ UNCHANGED art

ApplyMerge(o) ==
    LET moved == issue[o.from].mem IN
    /\ o.op = "merge" /\ ops' = ops \ {o}
    /\ issue[o.from].ver < MaxIssueVersion /\ issue[o.to].ver < MaxIssueVersion
    /\ Recompared([issue EXCEPT
           ![o.from].mem = {}, ![o.from].st = "merged",
           ![o.from].ver = IF issue[o.from].st = "merged" THEN @ ELSE @ + 1,
           ![o.to].mem = @ \cup moved, ![o.to].ver = @ + 1],
         First(issue[o.to].mem \cup moved))

SplitOff_Uncopied(o) ==
    [issue EXCEPT ![o.from].mem = @ \ o.arts, ![o.from].ver = @ + 1,
                  ![o.to].st = IF @ = "none" THEN "candidate" ELSE @,
                  ![o.to].mem = @ \cup (o.arts \cap (issue[o.from].mem \ o.arts))]

\* Only articles the issue still has are moved.
SplitOff(o) ==
    [issue EXCEPT ![o.from].mem = @ \ o.arts, ![o.from].ver = @ + 1,
                  ![o.to].st = IF @ = "none" THEN "candidate" ELSE @,
                  ![o.to].mem = @ \cup (o.arts \cap issue[o.from].mem)]

ApplySplit(o) ==
    /\ o.op = "split" /\ ops' = ops \ {o}
    /\ issue[o.from].ver < MaxIssueVersion
    /\ Recompared(SplitOff(o), o.arts \cup First(SplitOff(o)[o.from].mem))

Candidates == [id : Daily, arts : {as \in SUBSET Arts : Cardinality(as) >= Quorum}]

EditionNext ==
    \/ \E a \in Arts : Analyzed(a) \/ Crawled(a) \/ Withdraw(a) \/ Retire(a)
    \/ \E j \in cmp : Build(j) \/ Defer(j) \/ ApplyComparison(j)
    \/ \E i \in Issues : Review(i) \/ PatchIssue(i)
    \/ \E i \in Issues, as \in SUBSET Arts : Cluster(i, as)
    \/ \E c \in Candidates : Publish(c) \/ \E d \in Candidates : PublishTwo(c, d)
    \/ /\ ops = {}
       /\ \E i, j \in Issues : RequestMerge(i, j) \/ \E a \in Arts : RequestSplit(i, j, a)
    \/ \E o \in ops : ApplyMerge(o) \/ ApplySplit(o)
    \/ MaintainSnapshots

EditionSpec == EditionInit /\ [][EditionNext]_editionVars

------------------------------------------------------------------------------
(* Properties *)

\* An approval belongs to the texts it was given for: it never passes to
\* another comparison, stored over the approved one by a rebuild, a copy or a
\* new revision.
ApprovalIsOfInputs ==
    [][\A i \in Issues, v \in IssueVersions :
         snap'[i][v].rev => snap[i][v].in = snap'[i][v].in]_editionVars

\* "Preserve human review on duplicate/cache replay": the approval of an event
\* whose revision and inputs have not changed is not lost.
ReviewSurvivesReplay ==
    [][\A i \in Issues :
         LET v == issue[i].ver IN
         snap[i][v].rev /\ issue'[i].ver = v /\ Cohort(issue', art', i) = snap[i][v].in
           => snap'[i][v].rev]_editionVars

\* Applying a merge or a split moves articles and never loses one, whatever
\* other merges, splits and editions did since it was asked for.
MovesLoseNothing ==
    [][\A o \in ops \ ops' : \A a \in Arts :
         (\E i \in Issues : a \in issue[i].mem) /\ art'[a].text # 0
           => \E i \in Issues : a \in issue'[i].mem]_editionVars

==============================================================================
