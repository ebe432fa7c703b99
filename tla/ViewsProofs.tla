----------------------------- MODULE ViewsProofs -----------------------------
(***************************************************************************)
(* The safety properties of PublicViews, proved for every number of        *)
(* articles, issues and versions: what a page shows was so at some moment  *)
(* since it was asked for, and a comparison was reviewed.                  *)
(***************************************************************************)
EXTENDS PublicViews, FiniteSetTheorems, TLAPS

(* ----------------------------- the corpus ------------------------------ *)

Version == 1 .. MaxVersion
Analysis == Story \X Version
StoryRow == [active: BOOLEAN, recent: BOOLEAN, approved: BOOLEAN, version: Version]
TopicRow == [open: BOOLEAN, version: Version, members: SUBSET Story]

VersionMap == UNION {[S -> Version] : S \in SUBSET Story}
Snapshot == [issue: Topic, version: Version, reviewed: BOOLEAN, versions: VersionMap]

CorpusTypes ==
  /\ story \in [Story -> StoryRow] /\ topic \in [Topic -> TopicRow]
  /\ judged \in [Analysis -> Judgement] /\ scored \in [Analysis -> Judgement]
  /\ work \in [Analysis -> JobStates]
  /\ snapshots \subseteq Snapshot

\* An assessment is written once, with the end of its job.
JudgedOnce ==
  \A p \in Analysis : work[p] # "SUCCEEDED" => judged[p] = "none"

\* A score names assessments that are there.
ScoredLater ==
  \A p \in Analysis : scored[p] = "trusted" => judged[p] = "trusted"

\* The deterministic backend has no workers.
LocalCorpus ==
  ~durable =>
    /\ page = Idle
    /\ \A a \in Story : /\ story[a].version = 1
                        /\ judged[<<a, 1>>] = "trusted" /\ scored[<<a, 1>>] = "trusted"

CorpusInv == CorpusTypes /\ JudgedOnce /\ ScoredLater /\ LocalCorpus

\* What no step of workers, administrators or time ever does to the corpus.
CorpusMoves ==
  /\ \A i \in Topic : topic'[i] # topic[i] => topic'[i].version > topic[i].version
  /\ \A s \in snapshots' : s.reviewed => s \in snapshots \/ topic'[s.issue].version = s.version

LEMMA OneIsVersion == 1 \in Version
BY ViewsAssumption DEF Version

LEMMA CorpusInitial == ViewsInit => CorpusInv
<1> SUFFICES ASSUME ViewsInit PROVE CorpusInv
  OBVIOUS
<1>1. PICK stage \in {"NONE", "PENDING", "LEASED", "SUCCEEDED"}, done \in BOOLEAN :
        /\ ~durable => done
        /\ done => stage = "SUCCEEDED"
        /\ work = [p \in Analysis |-> IF p[2] = 1 THEN stage ELSE "NONE"]
        /\ judged = [p \in Analysis |-> IF p[2] = 1 /\ stage = "SUCCEEDED" THEN "trusted"
                                        ELSE "none"]
        /\ scored = IF done THEN judged ELSE [p \in Analysis |-> "none"]
        /\ snapshots = IF done THEN {[issue |-> i, version |-> 1, reviewed |-> TRUE,
                                     versions |-> [a \in Story |-> 1]] : i \in Topic} ELSE {}
  BY Zenon DEF ViewsInit, Analysis, Version
<1>2. story \in [Story -> StoryRow]
  BY OneIsVersion DEF ViewsInit, StoryRow
<1>3. topic \in [Topic -> TopicRow]
  BY OneIsVersion DEF ViewsInit, TopicRow
<1>4. work \in [Analysis -> JobStates] /\ judged \in [Analysis -> Judgement]
  BY <1>1 DEF JobStates, Judgement
<1>5. scored \in [Analysis -> Judgement]
  BY <1>1, <1>4 DEF Judgement
<1>6. snapshots \subseteq Snapshot
  <2>1. [a \in Story |-> 1] \in VersionMap
    <3>1. [a \in Story |-> 1] \in [Story -> Version] /\ Story \in SUBSET Story
      BY OneIsVersion
    <3> QED BY <3>1 DEF VersionMap
  <2>2. PICK versions \in VersionMap : versions = [a \in Story |-> 1]
    BY <2>1
  <2>3. \A i \in Topic :
          [issue |-> i, version |-> 1, reviewed |-> TRUE, versions |-> versions] \in Snapshot
    BY OneIsVersion DEF Snapshot
  <2>4. CASE done
    <3>1. snapshots = {[issue |-> i, version |-> 1, reviewed |-> TRUE,
                        versions |-> versions] : i \in Topic}
      BY <1>1, <2>2, <2>4, Zenon
    <3> QED BY <2>3, <3>1
  <2>5. CASE ~done
    BY <1>1, <2>5
  <2> QED BY <2>4, <2>5
<1>7. JudgedOnce /\ ScoredLater
  BY <1>1 DEF JudgedOnce, ScoredLater
<1>8. LocalCorpus
  <2> SUFFICES ASSUME ~durable, NEW a \in Story
               PROVE  /\ page = Idle /\ story[a].version = 1
                      /\ judged[<<a, 1>>] = "trusted" /\ scored[<<a, 1>>] = "trusted"
    BY DEF LocalCorpus, ViewsInit
  <2>1. <<a, 1>> \in Analysis
    BY OneIsVersion DEF Analysis
  <2>2. judged[<<a, 1>>] = "trusted" /\ scored = judged
    BY <1>1, <2>1
  <2>3. page = Idle /\ story[a].version = 1
    BY DEF ViewsInit
  <2> QED BY <2>2, <2>3
<1> QED BY <1>2, <1>3, <1>4, <1>5, <1>6, <1>7, <1>8 DEF CorpusInv, CorpusTypes

LEMMA StoryStep ==
  ASSUME CorpusInv, NEW rows \in [Story -> StoryRow], story' = rows,
         ~durable => \A a \in Story : rows[a].version = story[a].version,
         UNCHANGED <<durable, page, topic, judged, scored, work, snapshots, modelOn>>
  PROVE  CorpusInv' /\ CorpusMoves
<1>1. CorpusTypes'
  BY DEF CorpusInv, CorpusTypes
<1>2. JudgedOnce' /\ ScoredLater' /\ LocalCorpus'
  BY DEF CorpusInv, JudgedOnce, ScoredLater, LocalCorpus
<1>3. CorpusMoves
  BY DEF CorpusMoves
<1> QED BY <1>1, <1>2, <1>3 DEF CorpusInv

LEMMA TopicStep ==
  ASSUME CorpusInv, NEW i \in Topic, NEW row \in TopicRow, row.version = topic[i].version + 1,
         topic' = [topic EXCEPT ![i] = row],
         UNCHANGED <<durable, page, story, judged, scored, work, snapshots, modelOn>>
  PROVE  CorpusInv' /\ CorpusMoves
<1>0. topic \in [Topic -> TopicRow]
  BY DEF CorpusInv, CorpusTypes
<1>1. CorpusTypes'
  BY DEF CorpusInv, CorpusTypes
<1>2. JudgedOnce' /\ ScoredLater' /\ LocalCorpus'
  BY DEF CorpusInv, JudgedOnce, ScoredLater, LocalCorpus
<1>3. ASSUME NEW j \in Topic, topic'[j] # topic[j] PROVE topic'[j].version > topic[j].version
  <2>1. j = i /\ topic'[j] = row
    BY <1>0, <1>3
  <2>2. topic[i].version \in Nat
    BY <1>0 DEF TopicRow, Version
  <2> QED BY <2>1, <2>2
<1>4. CorpusMoves
  BY <1>3 DEF CorpusMoves
<1> QED BY <1>1, <1>2, <1>4 DEF CorpusInv

LEMMA SnapshotsStep ==
  ASSUME CorpusInv, \A s \in snapshots' : s \in snapshots \/
           (s \in Snapshot /\ (s.reviewed => topic[s.issue].version = s.version)),
         UNCHANGED <<durable, page, story, topic, judged, scored, work, modelOn>>
  PROVE  CorpusInv' /\ CorpusMoves
<1>1. CorpusTypes'
  BY DEF CorpusInv, CorpusTypes
<1>2. JudgedOnce' /\ ScoredLater' /\ LocalCorpus'
  BY DEF CorpusInv, JudgedOnce, ScoredLater, LocalCorpus
<1>3. CorpusMoves
  BY DEF CorpusMoves
<1> QED BY <1>1, <1>2, <1>3 DEF CorpusInv

LEMMA AnalyzeStep ==
  ASSUME CorpusInv, NEW a \in Story, NEW v \in Version, NEW next \in JobStates,
         NEW judgement \in Judgement, Analyze(a, v, next, judgement)
  PROVE  CorpusInv' /\ CorpusMoves
<1> DEFINE p == <<a, v>>
<1>1. CorpusTypes /\ p \in Analysis
  BY DEF CorpusInv, Analysis
<1>2. /\ work' = [work EXCEPT ![p] = next] /\ judged' = [judged EXCEPT ![p] = judgement]
      /\ UNCHANGED <<durable, page, story, topic, scored, snapshots, modelOn>> /\ durable
  BY DEF Analyze, Unchanged
<1>3. work[p] # "SUCCEEDED" /\ (next = "SUCCEEDED" \/ judgement = judged[p])
  BY DEF Analyze, JobMoves
<1>4. judged[p] = "none" /\ scored[p] # "trusted"
  BY <1>1, <1>3 DEF CorpusInv, JudgedOnce, ScoredLater
<1> HIDE DEF p
<1>5. work' \in [Analysis -> JobStates] /\ judged' \in [Analysis -> Judgement]
  BY <1>1, <1>2 DEF CorpusTypes
<1>6. /\ work'[p] = next /\ judged'[p] = judgement
      /\ \A q \in Analysis : q # p => work'[q] = work[q] /\ judged'[q] = judged[q]
  BY <1>1, <1>2 DEF CorpusTypes
<1>7. CorpusTypes'
  BY <1>1, <1>2, <1>5 DEF CorpusTypes
<1>8. JudgedOnce'
  BY <1>3, <1>4, <1>6 DEF CorpusInv, JudgedOnce
<1>9. ScoredLater'
  BY <1>2, <1>4, <1>6 DEF CorpusInv, ScoredLater
<1>10. LocalCorpus'
  BY <1>2 DEF LocalCorpus
<1>11. CorpusMoves
  BY <1>2 DEF CorpusMoves
<1> QED BY <1>7, <1>8, <1>9, <1>10, <1>11 DEF CorpusInv

LEMMA ScoreStep ==
  ASSUME CorpusInv, NEW a \in Story, NEW v \in Version, Score(a, v)
  PROVE  CorpusInv' /\ CorpusMoves
<1>1. /\ scored' = [scored EXCEPT ![<<a, v>>] = judged[<<a, v>>]] /\ durable
      /\ UNCHANGED <<durable, page, story, topic, judged, work, snapshots, modelOn>>
  BY DEF Score, Unchanged
<1>2. <<a, v>> \in Analysis
  BY DEF Analysis
<1>3. CorpusTypes'
  BY <1>1, <1>2 DEF CorpusInv, CorpusTypes
<1>4. JudgedOnce' /\ ScoredLater' /\ LocalCorpus'
  BY <1>1 DEF CorpusInv, JudgedOnce, ScoredLater, LocalCorpus
<1>5. CorpusMoves
  BY <1>1 DEF CorpusMoves
<1> QED BY <1>3, <1>4, <1>5 DEF CorpusInv

LEMMA CorpusStepKeeps ==
  ASSUME CorpusInv, CorpusStep
  PROVE  CorpusInv' /\ CorpusMoves /\ Observed /\ Unchanged
<1>0. /\ story \in [Story -> StoryRow] /\ topic \in [Topic -> TopicRow]
      /\ snapshots \subseteq Snapshot
  BY DEF CorpusInv, CorpusTypes
<1>1. ASSUME NEW a \in Story, AgeOut(a) \/ TakeDown(a) PROVE CorpusInv' /\ CorpusMoves
  <2>1. PICK row \in StoryRow : story' = [story EXCEPT ![a] = row] /\ row.version = story[a].version
    <3>1. CASE AgeOut(a)
      <4>1. /\ [story[a] EXCEPT !.recent = FALSE] \in StoryRow
            /\ [story[a] EXCEPT !.recent = FALSE].version = story[a].version
        BY <1>0 DEF StoryRow
      <4> QED BY <3>1, <4>1 DEF AgeOut
    <3>2. CASE TakeDown(a)
      <4>1. /\ [story[a] EXCEPT !.active = FALSE] \in StoryRow
            /\ [story[a] EXCEPT !.active = FALSE].version = story[a].version
        BY <1>0 DEF StoryRow
      <4> QED BY <3>2, <4>1 DEF TakeDown
    <3> QED BY <1>1, <3>1, <3>2
  <2> DEFINE rows == [story EXCEPT ![a] = row]
  <2>2. rows \in [Story -> StoryRow] /\ \A b \in Story : rows[b].version = story[b].version
    BY <1>0, <2>1
  <2>3. UNCHANGED <<durable, page, topic, judged, scored, work, snapshots, modelOn>>
    BY <1>1 DEF AgeOut, TakeDown, Unchanged
  <2> HIDE DEF rows
  <2> QED BY <2>1, <2>2, <2>3, StoryStep DEF rows
<1>2. ASSUME NEW source, NEW approved \in BOOLEAN, PatchSource(source, approved)
      PROVE  CorpusInv' /\ CorpusMoves
  <2> DEFINE rows == [a \in Story |->
                       IF SourceOf[a] = source THEN [story[a] EXCEPT !.approved = approved]
                                               ELSE story[a]]
  <2>1. \A b \in Story : rows[b] \in StoryRow /\ rows[b].version = story[b].version
    BY <1>0 DEF StoryRow
  <2>2. rows \in [Story -> StoryRow] /\ story' = rows
    BY <1>2, <2>1 DEF PatchSource
  <2>3. UNCHANGED <<durable, page, topic, judged, scored, work, snapshots, modelOn>>
    BY <1>2 DEF PatchSource, Unchanged
  <2> HIDE DEF rows
  <2> QED BY <2>1, <2>2, <2>3, StoryStep
<1>3. ASSUME NEW a \in Story, Rewrite(a) PROVE CorpusInv' /\ CorpusMoves
  <2> DEFINE rows == [story EXCEPT ![a].version = @ + 1]
  <2>1. story[a].version + 1 \in Version
    BY <1>0, <1>3, ViewsAssumption DEF Rewrite, StoryRow, Version
  <2>2. rows \in [Story -> StoryRow]
    <3>1. PICK n \in Version : n = story[a].version + 1
      BY <2>1
    <3>2. rows = [story EXCEPT ![a].version = n]
      BY <3>1
    <3> HIDE DEF rows
    <3> QED BY <1>0, <3>2 DEF StoryRow
  <2>3. /\ UNCHANGED <<durable, page, topic, judged, scored, work, snapshots, modelOn>>
        /\ durable /\ story' = rows
    BY <1>3 DEF Rewrite, Unchanged
  <2> HIDE DEF rows
  <2> QED BY <2>2, <2>3, StoryStep
<1>4. ASSUME NEW i \in Topic, NEW open \in BOOLEAN, PatchTopic(i, open)
      PROVE  CorpusInv' /\ CorpusMoves
  <2>1. PICK n \in Version : n = topic[i].version + 1
    BY <1>0, <1>4, ViewsAssumption DEF PatchTopic, TopicRow, Version
  <2> DEFINE row == [topic[i] EXCEPT !.open = open, !.version = n]
  <2>2. row \in TopicRow /\ row.version = n
    BY <1>0 DEF TopicRow
  <2>3. topic' = [topic EXCEPT ![i] = row]
    <3>1. topic' = [topic EXCEPT ![i].open = open, ![i].version = n]
      BY <1>4, <2>1, Zenon DEF PatchTopic
    <3> QED BY <1>0, <3>1
  <2>4. UNCHANGED <<durable, page, story, judged, scored, work, snapshots, modelOn>>
    BY <1>4 DEF PatchTopic, Unchanged
  <2> HIDE DEF row
  <2> QED BY <2>1, <2>2, <2>3, <2>4, TopicStep
<1>5. ASSUME NEW i \in Topic, NEW S \in SUBSET Story, Regroup(i, S)
      PROVE  CorpusInv' /\ CorpusMoves
  <2>1. PICK n \in Version : n = topic[i].version + 1
    BY <1>0, <1>5, ViewsAssumption DEF Regroup, TopicRow, Version
  <2> DEFINE row == [topic[i] EXCEPT !.members = S, !.version = n]
  <2>2. row \in TopicRow /\ row.version = n
    BY <1>0 DEF TopicRow
  <2>3. topic' = [topic EXCEPT ![i] = row]
    <3>1. topic' = [topic EXCEPT ![i].members = S, ![i].version = n]
      BY <1>5, <2>1, Zenon DEF Regroup
    <3> QED BY <1>0, <3>1
  <2>4. UNCHANGED <<durable, page, story, judged, scored, work, snapshots, modelOn>>
    BY <1>5 DEF Regroup, Unchanged
  <2> HIDE DEF row
  <2> QED BY <2>1, <2>2, <2>3, <2>4, TopicStep
<1>6. ASSUME NEW s \in snapshots, Review(s) PROVE CorpusInv' /\ CorpusMoves
  <2> DEFINE t == [s EXCEPT !.reviewed = TRUE]
  <2>1. t \in Snapshot /\ t.issue = s.issue /\ t.version = s.version
    <3>1. s \in Snapshot
      BY <1>0
    <3> QED BY <3>1 DEF Snapshot
  <2>2. /\ snapshots' = (snapshots \ {s}) \cup {t} /\ topic[s.issue].version = s.version
        /\ UNCHANGED <<durable, page, story, topic, judged, scored, work, modelOn>>
    BY <1>6 DEF Review, Unchanged
  <2> HIDE DEF t
  <2>3. \A x \in snapshots' : x \in snapshots \/
           (x \in Snapshot /\ (x.reviewed => topic[x.issue].version = x.version))
    BY <2>1, <2>2
  <2> QED BY <2>2, <2>3, SnapshotsStep
<1>7. ASSUME NEW i \in Topic, Compare(i) PROVE CorpusInv' /\ CorpusMoves
  <2> DEFINE members == {a \in topic[i].members : Live(story[a]) /\ CurrentReady(a)}
             s == [issue |-> i, version |-> topic[i].version, reviewed |-> FALSE,
                   versions |-> [a \in members |-> story[a].version]]
  <2>1. snapshots' = snapshots \cup {s}
    BY <1>7 DEF Compare
  <2>2. s \in Snapshot /\ ~s.reviewed
    <3>1. members \in SUBSET Story
      BY <1>0 DEF TopicRow
    <3>2. [a \in members |-> story[a].version] \in [members -> Version]
      <4> HIDE DEF members
      <4> QED BY <1>0, <3>1 DEF StoryRow
    <3>3. topic[i].version \in Version
      BY <1>0 DEF TopicRow
    <3> HIDE DEF members
    <3> QED BY <3>1, <3>2, <3>3 DEF Snapshot, VersionMap
  <2>3. UNCHANGED <<durable, page, story, topic, judged, scored, work, modelOn>>
    BY <1>7 DEF Compare, Unchanged
  <2> HIDE DEF s
  <2> QED BY <2>1, <2>2, <2>3, SnapshotsStep
<1>8. ASSUME PatchModel PROVE CorpusInv' /\ CorpusMoves
  <2>1. UNCHANGED <<durable, page, story, topic, judged, scored, work, snapshots>>
    BY <1>8 DEF PatchModel, Unchanged
  <2>2. CorpusTypes' /\ JudgedOnce' /\ ScoredLater' /\ LocalCorpus'
    BY <2>1 DEF CorpusInv, CorpusTypes, JudgedOnce, ScoredLater, LocalCorpus
  <2>3. CorpusMoves
    BY <2>1 DEF CorpusMoves
  <2> QED BY <2>2, <2>3 DEF CorpusInv
<1>9. ASSUME NEW a \in Story, NEW v \in Version, Score(a, v) PROVE CorpusInv' /\ CorpusMoves
  BY <1>9, ScoreStep
<1>10. ASSUME NEW a \in Story, NEW v \in Version, NEW next \in JobStates, NEW j \in Judgement,
              Analyze(a, v, next, j)
       PROVE  CorpusInv' /\ CorpusMoves
  BY <1>10, AnalyzeStep
<1>11. CorpusInv' /\ CorpusMoves
  BY <1>1, <1>2, <1>3, <1>4, <1>5, <1>6, <1>7, <1>8, <1>9, <1>10 DEF CorpusStep, Version
<1>12. Observed /\ Unchanged
  BY DEF CorpusStep, AgeOut, TakeDown, Rewrite, Score, Analyze, PatchSource, PatchTopic,
         Regroup, Compare, PatchModel, Review
<1> QED BY <1>11, <1>12

(* ------------------------ what has been true --------------------------- *)

IsSeen(s) == DOMAIN s = {"public", "current", "ready", "jobs", "editions"}

Within(s, t) ==
  /\ s.public \subseteq t.public /\ s.current \subseteq t.current
  /\ s.ready \subseteq t.ready /\ s.jobs \subseteq t.jobs
  /\ s.editions \subseteq t.editions

LEMMA BothHolds ==
  ASSUME NEW s, NEW t, IsSeen(s), IsSeen(t)
  PROVE  IsSeen(Both(s, t)) /\ Within(s, Both(s, t)) /\ Within(t, Both(s, t))
<1>1. /\ DOMAIN Both(s, t) = DOMAIN s
      /\ \A k \in DOMAIN s : Both(s, t)[k] = s[k] \cup t[k]
  BY DEF Both
<1>2. \A k \in {"public", "current", "ready", "jobs", "editions"} :
        s[k] \subseteq Both(s, t)[k] /\ t[k] \subseteq Both(s, t)[k]
  BY <1>1 DEF IsSeen
<1> QED BY <1>1, <1>2 DEF IsSeen, Within

LEMMA TruthIsSeen == IsSeen(Truth) /\ IsSeen(NothingSeen)
BY DEF Truth, NothingSeen, IsSeen

\* The publishers of a public issue are counted; one article of each of them
\* covers it.
LEMMA PublicIsTrue ==
  ASSUME CorpusTypes, NEW i \in Topic, NEW a \in PublicIssues[i]
  PROVE  a \in Story /\ <<i, a>> \in Truth.public /\ topic[i].open
<1> DEFINE live == {b \in topic[i].members : Live(story[b])}
           sources == {SourceOf[b] : b \in live}
           first == [c \in sources |-> CHOOSE b \in live : SourceOf[b] = c]
           S == {first[c] : c \in sources}
           f == [b \in S |-> SourceOf[b]]
<1>1. /\ topic[i].open /\ Cardinality(sources) >= MinSources /\ a \in live
  BY Zenon DEF PublicIssues
<1>2. topic[i].members \in SUBSET Story /\ live \in SUBSET Story
  BY DEF CorpusTypes, TopicRow
<1>3. \A c \in sources : first[c] \in live /\ SourceOf[first[c]] = c
  OBVIOUS
<1> HIDE DEF first, live
<1>4. S \in SUBSET live
  BY <1>3
<1>5. \A b, d \in S : SourceOf[b] = SourceOf[d] => b = d
  BY <1>3
<1>6. f \in Surjection(S, sources)
  BY <1>3 DEF Surjection
<1>7. IsFiniteSet(S)
  BY <1>2, <1>4, FS_Subset, ViewsAssumption
<1>8. Cardinality(S) \in Nat /\ Cardinality(sources) \in Nat /\ Cardinality(sources) <= Cardinality(S)
  <2> HIDE DEF S, sources, f
  <2> QED BY <1>6, <1>7, FS_Surjection, FS_CardinalityType
<1>9. Covered(i)
  <2>1. S \in SUBSET topic[i].members /\ \A b \in S : Live(story[b])
    BY <1>4 DEF live
  <2>2. Cardinality(S) >= MinSources
    BY <1>1, <1>8, ViewsAssumption
  <2> HIDE DEF S
  <2> QED BY <1>5, <2>1, <2>2 DEF Covered
<1>10. a \in topic[i].members /\ Live(story[a]) /\ a \in Story
  BY <1>1, <1>2 DEF live
<1> QED BY <1>1, <1>9, <1>10 DEF Truth

(* ------------------------ what a request holds ------------------------- *)

MembersTold(h) ==
  \A i \in Topic, a \in Story : a \in h["members"][i] => <<i, a>> \in seen.public

RowsTold(rows) ==
  \A a \in Story : rows[a].version \in Version /\ <<a, rows[a].version>> \in seen.current

\* What is scored was assessed before: ready at the moment of the statement.
ScoredTold(h) ==
  \A a \in Story, v \in Version : h["scored"][<<a, v>>] = "trusted" => <<a, v>> \in seen.ready

WorkTold(h) ==
  \A a \in Story, v \in Version : <<a, v, h["work"][<<a, v>>]>> \in seen.jobs

\* A review of the version of an issue that was read.
ReviewOf(h, s) ==
  s.reviewed /\ h["topics"][s.issue].open /\ h["topics"][s.issue].version = s.version

TopicsTold(h) ==
  /\ \A i \in Topic :
       /\ h["topics"][i].version \in Version
       /\ topic[i] # h["topics"][i] => topic[i].version > h["topics"][i].version
  /\ \A s \in snapshots : ReviewOf(h, s) => s \in seen.editions

SnapshotsTold(h) ==
  \A s \in h["snapshots"] : s \in Snapshot /\ (ReviewOf(h, s) => s \in seen.editions)

\* D is the set of statements made.
Told(D, h) ==
  /\ "members" \in D => MembersTold(h)
  /\ "rows" \in D => RowsTold(h["rows"])
  /\ "versions" \in D => RowsTold(h["versions"])
  /\ "scored" \in D => ScoredTold(h)
  /\ "work" \in D => WorkTold(h)
  /\ "topics" \in D => TopicsTold(h)
  /\ "topics" \in D /\ "snapshots" \in D => SnapshotsTold(h)

\* A step of the corpus takes nothing from what was read, and what it changes is
\* observed.
LEMMA ToldStep ==
  ASSUME CorpusInv, CorpusInv', CorpusMoves, NEW D, NEW h, Told(D, h),
         IsSeen(seen), IsSeen(seen'), Within(seen, seen'), Within(Truth', seen')
  PROVE  Told(D, h)'
<1>1. /\ seen.public \subseteq seen'.public /\ seen.current \subseteq seen'.current
      /\ seen.ready \subseteq seen'.ready /\ seen.jobs \subseteq seen'.jobs
      /\ seen.editions \subseteq seen'.editions
  BY DEF Within
<1>2. "members" \in D => MembersTold(h)'
  BY <1>1 DEF Told, MembersTold
<1>3. "rows" \in D => RowsTold(h["rows"])'
  BY <1>1 DEF Told, RowsTold
<1>4. "versions" \in D => RowsTold(h["versions"])'
  BY <1>1 DEF Told, RowsTold
<1>5. "scored" \in D => ScoredTold(h)'
  BY <1>1 DEF Told, ScoredTold
<1>6. "work" \in D => WorkTold(h)'
  BY <1>1 DEF Told, WorkTold
<1>9. ASSUME "topics" \in D PROVE TopicsTold(h)'
  <2>1. TopicsTold(h)
    BY <1>9 DEF Told
  <2>2. ASSUME NEW i \in Topic, topic'[i] # h["topics"][i]
        PROVE  topic'[i].version > h["topics"][i].version
    <3>1. CASE topic[i] = h["topics"][i]
      BY <2>2, <3>1 DEF CorpusMoves
    <3>2. CASE topic[i] # h["topics"][i]
      <4>1. topic[i].version > h["topics"][i].version
        BY <2>1, <3>2 DEF TopicsTold
      <4>2. topic'[i] = topic[i] \/ topic'[i].version > topic[i].version
        BY DEF CorpusMoves
      <4>3. /\ h["topics"][i].version \in Nat /\ topic[i].version \in Nat
            /\ topic'[i].version \in Nat
        BY <2>1 DEF TopicsTold, CorpusInv, CorpusTypes, TopicRow, Version
      <4> QED BY <4>1, <4>2, <4>3
    <3> QED BY <3>1, <3>2
  <2>3. ASSUME NEW s \in snapshots', ReviewOf(h, s) PROVE s \in seen'.editions
    <3>1. CASE s \in snapshots
      BY <1>1, <2>1, <2>3, <3>1 DEF TopicsTold
    <3>2. CASE s \notin snapshots
      <4>1. s \in Snapshot /\ s.issue \in Topic /\ s.reviewed
        BY <2>3 DEF CorpusInv, CorpusTypes, Snapshot, ReviewOf
      <4>2. topic'[s.issue].version = s.version
        BY <3>2, <4>1 DEF CorpusMoves
      <4>3. h["topics"][s.issue].version = s.version /\ h["topics"][s.issue].open
        BY <2>3 DEF ReviewOf
      <4>4. topic'[s.issue].version \in Nat
        BY <4>1 DEF CorpusInv, CorpusTypes, TopicRow, Version
      <4>5. topic'[s.issue] = h["topics"][s.issue]
        BY <2>2, <4>1, <4>2, <4>3, <4>4
      <4>6. s \in Truth'.editions
        BY <4>1, <4>2, <4>3, <4>5 DEF Truth
      <4> QED BY <4>6 DEF Within
    <3> QED BY <3>1, <3>2
  <2> QED BY <2>1, <2>2, <2>3 DEF TopicsTold, ReviewOf
<1>10. "topics" \in D /\ "snapshots" \in D => SnapshotsTold(h)'
  BY <1>1 DEF Told, SnapshotsTold, ReviewOf
<1> QED BY <1>2, <1>3, <1>4, <1>5, <1>6, <1>9, <1>10 DEF Told

(* ------------------------------ statements ----------------------------- *)

\* What of a plan must come before what.
Ordered(plan) ==
  \A m \in 1 .. Len(plan) :
    /\ plan[m] \in Statements
    /\ plan[m] = "topics" => \A j \in 1 .. m - 1 : plan[j] # "snapshots"
    /\ plan[m] = "snapshots" => \E j \in 1 .. m - 1 : plan[j] = "topics"

DoneBefore(plan, m) == {plan[j] : j \in 1 .. m - 1}

\* One statement: what it returns is true now, and the order is right.
LEMMA StatementStep ==
  ASSUME CorpusInv, Within(Truth, seen), NEW plan, Ordered(plan), NEW m \in 1 .. Len(plan),
         NEW was, DOMAIN was = Statements, Told(DoneBefore(plan, m), was), Len(plan) \in Nat,
         NEW h, h = [was EXCEPT ![plan[m]] = Now(plan[m])]
  PROVE  DOMAIN h = Statements /\ Told(DoneBefore(plan, m + 1), h)
<1> DEFINE s == plan[m]
           D == DoneBefore(plan, m)
           E == DoneBefore(plan, m + 1)
<1>1. E = D \cup {s}
  <2>1. 1 .. (m + 1) - 1 = (1 .. m - 1) \cup {m}
    OBVIOUS
  <2> QED BY <2>1 DEF DoneBefore
<1>2. /\ s \in Statements
      /\ s = "topics" => "snapshots" \notin D
      /\ s = "snapshots" => "topics" \in D
  BY DEF Ordered, DoneBefore
<1> HIDE DEF s, D, E
<1>3. /\ DOMAIN h = Statements /\ h[s] = Now(s)
      /\ \A x \in Statements : x # s => h[x] = was[x]
  BY <1>2 DEF s
<1>4. Told(D, was)
  BY DEF D
<1>5. CorpusTypes
  BY DEF CorpusInv
<1>6. ASSUME "members" \in E PROVE MembersTold(h)
  <2>1. CASE s = "members"
    <3>1. h["members"] = PublicIssues
      BY <1>3, <2>1 DEF Now
    <3> QED BY <1>5, <3>1, PublicIsTrue DEF MembersTold, Within
  <2>2. CASE s # "members"
    <3>1. h["members"] = was["members"] /\ "members" \in D
      BY <1>1, <1>3, <1>6, <2>2 DEF Statements
    <3> QED BY <1>4, <3>1 DEF Told, MembersTold
  <2> QED BY <2>1, <2>2
<1>7. RowsTold(story)
  <2>1. \A a \in Story : story[a].version \in Version /\ <<a, story[a].version>> \in Truth.current
    BY <1>5 DEF CorpusTypes, StoryRow, Truth
  <2> QED BY <2>1 DEF RowsTold, Within
<1>8. ASSUME "rows" \in E PROVE RowsTold(h["rows"])
  <2>1. CASE s = "rows"
    BY <1>3, <1>7, <2>1 DEF Now
  <2>2. CASE s # "rows"
    <3>1. h["rows"] = was["rows"] /\ "rows" \in D
      BY <1>1, <1>3, <1>8, <2>2 DEF Statements
    <3> QED BY <1>4, <3>1 DEF Told
  <2> QED BY <2>1, <2>2
<1>9. ASSUME "versions" \in E PROVE RowsTold(h["versions"])
  <2>1. CASE s = "versions"
    BY <1>3, <1>7, <2>1 DEF Now
  <2>2. CASE s # "versions"
    <3>1. h["versions"] = was["versions"] /\ "versions" \in D
      BY <1>1, <1>3, <1>9, <2>2 DEF Statements
    <3> QED BY <1>4, <3>1 DEF Told
  <2> QED BY <2>1, <2>2
<1>10. ASSUME "scored" \in E PROVE ScoredTold(h)
  <2>1. CASE s = "scored"
    <3>1. h["scored"] = scored
      BY <1>3, <2>1 DEF Now
    <3>2. ASSUME NEW a \in Story, NEW v \in Version, scored[<<a, v>>] = "trusted"
          PROVE  <<a, v>> \in Truth.ready
      <4>1. <<a, v>> \in Analysis
        BY DEF Analysis
      <4>2. judged[<<a, v>>] = "trusted"
        BY <3>2, <4>1 DEF CorpusInv, ScoredLater
      <4> QED BY <3>2, <4>2 DEF Truth, Matches, Version
    <3> QED BY <3>1, <3>2 DEF ScoredTold, Within
  <2>2. CASE s # "scored"
    <3>1. h["scored"] = was["scored"] /\ "scored" \in D
      BY <1>1, <1>3, <1>10, <2>2 DEF Statements
    <3> QED BY <1>4, <3>1 DEF Told, ScoredTold
  <2> QED BY <2>1, <2>2
<1>11. ASSUME "work" \in E PROVE WorkTold(h)
  <2>1. CASE s = "work"
    <3>1. h["work"] = work
      BY <1>3, <2>1 DEF Now
    <3>2. \A a \in Story, v \in Version : <<a, v, work[<<a, v>>]>> \in Truth.jobs
      BY DEF Truth, Version
    <3> QED BY <3>1, <3>2 DEF WorkTold, Within
  <2>2. CASE s # "work"
    <3>1. h["work"] = was["work"] /\ "work" \in D
      BY <1>1, <1>3, <1>11, <2>2 DEF Statements
    <3> QED BY <1>4, <3>1 DEF Told, WorkTold
  <2> QED BY <2>1, <2>2
<1>13. ASSUME "topics" \in E PROVE TopicsTold(h)
  <2>1. CASE s = "topics"
    <3>1. h["topics"] = topic
      BY <1>3, <2>1 DEF Now
    <3>2. \A i \in Topic : topic[i].version \in Version
      BY <1>5 DEF CorpusTypes, TopicRow
    <3>3. ASSUME NEW x \in snapshots, ReviewOf(h, x) PROVE x \in Truth.editions
      BY <3>1, <3>3 DEF ReviewOf, Truth
    <3> QED BY <3>1, <3>2, <3>3 DEF TopicsTold, Within
  <2>2. CASE s # "topics"
    <3>1. h["topics"] = was["topics"] /\ "topics" \in D
      BY <1>1, <1>3, <1>13, <2>2 DEF Statements
    <3> QED BY <1>4, <3>1 DEF Told, TopicsTold, ReviewOf
  <2> QED BY <2>1, <2>2
<1>14. ASSUME "topics" \in E, "snapshots" \in E PROVE SnapshotsTold(h)
  <2>1. CASE s = "snapshots"
    <3>1. h["snapshots"] = snapshots /\ TopicsTold(h)
      BY <1>3, <1>13, <1>14, <2>1 DEF Now
    <3> QED BY <1>5, <3>1 DEF SnapshotsTold, TopicsTold, CorpusTypes
  <2>2. CASE s # "snapshots"
    <3>1. "snapshots" \in D /\ s # "topics"
      BY <1>1, <1>2, <1>14, <2>2
    <3>2. h["topics"] = was["topics"] /\ h["snapshots"] = was["snapshots"] /\ "topics" \in D
      BY <1>1, <1>3, <1>14, <2>2, <3>1 DEF Statements
    <3> QED BY <1>4, <3>1, <3>2 DEF Told, SnapshotsTold, ReviewOf
  <2> QED BY <2>1, <2>2
<1>15. Told(E, h)
  BY <1>6, <1>8, <1>9, <1>10, <1>11, <1>13, <1>14 DEF Told
<1> QED BY <1>3, <1>15 DEF E

LEMMA PlansOrdered ==
  /\ Ordered(ArticlesPlan) /\ Ordered(FeedPlan) /\ Ordered(IssuesPlan)
  /\ Ordered(IssueArticlesPlan) /\ Ordered(ComparisonPlan)
  /\ Ordered(IssuePlan) /\ Ordered(StatusPlan)
<1>1. Ordered(ArticlesPlan)
  BY DEF Ordered, ArticlesPlan, Statements
<1>2. Ordered(FeedPlan)
  BY DEF Ordered, FeedPlan, Statements
<1>3. Ordered(IssuesPlan)
  BY DEF Ordered, IssuesPlan, Statements
<1>4. Ordered(IssueArticlesPlan)
  BY DEF Ordered, IssueArticlesPlan, Statements
<1>5. Ordered(ComparisonPlan)
  BY DEF Ordered, ComparisonPlan, Statements
<1>6. Ordered(IssuePlan)
  BY DEF Ordered, IssuePlan, Statements
<1>7. Ordered(StatusPlan)
  BY DEF Ordered, StatusPlan, Statements
<1> QED BY <1>1, <1>2, <1>3, <1>4, <1>5, <1>6, <1>7

LEMMA PlanOrdered ==
  ASSUME NEW name \in Pages
  PROVE  Ordered(Plan[name]) /\ Len(Plan[name]) \in Nat /\ Plan[name] \in Seq(Statements)
<1>1. /\ Pages = {"feed", "articles", "issues", "issue", "event", "issue_articles", "article",
                "history", "points", "comparison", "status"}
      /\ Plan[name] \in {FeedPlan, ArticlesPlan, IssuesPlan, IssuePlan, IssueArticlesPlan,
                         ArticlePlan, PointsPlan, ComparisonPlan, StatusPlan}
  BY DEF Pages, Plan
<1>2. ArticlePlan = ArticlesPlan /\ PointsPlan = FeedPlan
  BY DEF ArticlePlan, PointsPlan
<1>3. /\ FeedPlan \in Seq(Statements) /\ ArticlesPlan \in Seq(Statements)
      /\ IssuesPlan \in Seq(Statements) /\ IssueArticlesPlan \in Seq(Statements)
      /\ ComparisonPlan \in Seq(Statements)
  BY DEF FeedPlan, ArticlesPlan, IssuesPlan, IssueArticlesPlan, ComparisonPlan, Statements
<1>4. IssuePlan \in Seq(Statements) /\ StatusPlan \in Seq(Statements)
  BY DEF IssuePlan, StatusPlan, Statements
<1>5. Plan[name] \in Seq(Statements) /\ Ordered(Plan[name])
  BY <1>1, <1>2, <1>3, <1>4, PlansOrdered
<1> QED BY <1>5

\* What has been read when an answer is made.
Made(plan) == {plan[j] : j \in 1 .. Len(plan)}

LEMMA PlansMade ==
  /\ \A plan \in {FeedPlan, ArticlesPlan, IssuesPlan, IssueArticlesPlan, IssuePlan,
                  ComparisonPlan, StatusPlan} :
       {"members", "rows", "judged", "scored"} \subseteq Made(plan)
  /\ "versions" \in Made(IssuePlan) /\ "work" \in Made(StatusPlan)
  /\ {"versions", "topics", "snapshots"} \subseteq Made(ComparisonPlan)
<1>1. /\ FeedPlan[1] = "rows" /\ FeedPlan[2] = "members" /\ FeedPlan[3] = "judged"
      /\ FeedPlan[4] = "scored" /\ Len(FeedPlan) = 4
  BY DEF FeedPlan
<1>2. /\ ArticlesPlan[1] = "members" /\ ArticlesPlan[2] = "rows" /\ ArticlesPlan[3] = "judged"
      /\ ArticlesPlan[4] = "scored" /\ Len(ArticlesPlan) = 4
  BY DEF ArticlesPlan
<1>3. /\ IssuesPlan[1] = "members" /\ IssuesPlan[3] = "rows" /\ IssuesPlan[4] = "judged"
      /\ IssuesPlan[5] = "scored" /\ Len(IssuesPlan) = 5
  BY DEF IssuesPlan
<1>4. /\ IssueArticlesPlan[2] = "members" /\ IssueArticlesPlan[3] = "rows"
      /\ IssueArticlesPlan[4] = "judged" /\ IssueArticlesPlan[5] = "scored"
      /\ Len(IssueArticlesPlan) = 5
  BY DEF IssueArticlesPlan
<1>5. /\ IssuePlan[1] = "members" /\ IssuePlan[3] = "rows" /\ IssuePlan[4] = "judged"
      /\ IssuePlan[5] = "scored" /\ IssuePlan[8] = "versions" /\ Len(IssuePlan) = 8
  BY DEF IssuePlan
<1>6. /\ StatusPlan[1] = "members" /\ StatusPlan[2] = "rows" /\ StatusPlan[3] = "judged"
      /\ StatusPlan[4] = "scored" /\ StatusPlan[5] = "work" /\ Len(StatusPlan) = 5
  BY DEF StatusPlan
<1>7. /\ ComparisonPlan[1] = "topics" /\ ComparisonPlan[2] = "members"
      /\ ComparisonPlan[3] = "snapshots" /\ ComparisonPlan[4] = "rows"
      /\ ComparisonPlan[5] = "versions" /\ ComparisonPlan[6] = "judged"
      /\ ComparisonPlan[7] = "scored" /\ Len(ComparisonPlan) = 8
  BY DEF ComparisonPlan
<1>8. ASSUME NEW plan, NEW j \in Nat, j >= 1, Len(plan) \in Nat, j <= Len(plan)
      PROVE  plan[j] \in Made(plan)
  BY <1>8 DEF Made
<1>9. {"members", "rows", "judged", "scored"} \subseteq Made(FeedPlan)
  BY <1>1, <1>8
<1>10. {"members", "rows", "judged", "scored"} \subseteq Made(ArticlesPlan)
  BY <1>2, <1>8
<1>11. {"members", "rows", "judged", "scored"} \subseteq Made(IssuesPlan)
  BY <1>3, <1>8
<1>12. {"members", "rows", "judged", "scored"} \subseteq Made(IssueArticlesPlan)
  BY <1>4, <1>8
<1>13. {"members", "rows", "judged", "scored", "versions"} \subseteq Made(IssuePlan)
  <2>1. ASSUME NEW j \in {1, 3, 4, 5, 8} PROVE IssuePlan[j] \in Made(IssuePlan)
    <3>1. Len(IssuePlan) = 8
      BY <1>5, Zenon
    <3>2. j \in 1 .. Len(IssuePlan)
      BY <3>1
    <3> QED BY <3>2, Zenon DEF Made
  <2>2. /\ IssuePlan[1] \in Made(IssuePlan) /\ IssuePlan[3] \in Made(IssuePlan)
        /\ IssuePlan[4] \in Made(IssuePlan) /\ IssuePlan[5] \in Made(IssuePlan)
        /\ IssuePlan[8] \in Made(IssuePlan)
    BY <2>1
  <2> QED BY <1>5, <2>2, Zenon
<1>14. {"members", "rows", "judged", "scored", "work"} \subseteq Made(StatusPlan)
  BY <1>6, <1>8
<1>15. {"members", "rows", "judged", "scored"} \subseteq Made(ComparisonPlan)
  <2>1. ComparisonPlan[2] \in Made(ComparisonPlan) /\ ComparisonPlan[4] \in Made(ComparisonPlan)
    BY <1>7, <1>8
  <2>2. ComparisonPlan[6] \in Made(ComparisonPlan) /\ ComparisonPlan[7] \in Made(ComparisonPlan)
    BY <1>7, <1>8
  <2> QED BY <1>7, <2>1, <2>2
<1>16. {"versions", "topics", "snapshots"} \subseteq Made(ComparisonPlan)
  BY <1>7, <1>8
<1> QED BY <1>9, <1>10, <1>11, <1>12, <1>13, <1>14, <1>15, <1>16

LEMMA PlanRead ==
  ASSUME NEW name \in Pages, NEW h, Told(Made(Plan[name]), h)
  PROVE  /\ MembersTold(h) /\ RowsTold(h["rows"]) /\ ScoredTold(h)
         /\ name = "issue" => RowsTold(h["versions"])
         /\ name = "status" => WorkTold(h)
         /\ name = "comparison" => RowsTold(h["versions"]) /\ SnapshotsTold(h)
<1>1. Plan[name] \in {FeedPlan, ArticlesPlan, IssuesPlan, IssueArticlesPlan, IssuePlan,
                     ComparisonPlan, StatusPlan}
  BY DEF Pages, Plan, ArticlePlan, PointsPlan
<1>2. /\ name = "issue" => Plan[name] = IssuePlan
      /\ name = "status" => Plan[name] = StatusPlan
      /\ name = "comparison" => Plan[name] = ComparisonPlan
  BY DEF Plan
<1>3. /\ {"members", "rows", "judged", "scored"} \subseteq Made(Plan[name])
      /\ name = "issue" => "versions" \in Made(Plan[name])
      /\ name = "status" => "work" \in Made(Plan[name])
      /\ name = "comparison" =>
           {"versions", "topics", "snapshots"} \subseteq Made(Plan[name])
  BY <1>1, <1>2, PlansMade
<1> QED BY <1>3 DEF Told

(* ------------------------------- answers ------------------------------- *)

ItemFits(x, t) ==
  /\ <<x.issue, x.story>> \in t.public /\ <<x.story, x.version>> \in t.current
  /\ x.ready => <<x.story, x.version>> \in t.ready

HistoryFits(x, t) ==
  <<x.issue, x.story>> \in t.public /\ (x.ready => <<x.story, x.version>> \in t.ready)

StatusFits(x, t) ==
  /\ <<x.story, x.version>> \in t.current
  /\ \/ x.reason = "ANALYSIS_AVAILABLE" /\ <<x.story, x.version>> \in t.ready
     \/ \E j \in t.jobs : j[1] = x.story /\ j[2] = x.version /\ x.reason \in Readiness(j[3])

ComparisonFits(c, t) ==
  /\ c.snapshot \in t.editions
  /\ \A x \in c.items : <<x.story, x.version>> \in t.ready
  /\ \A a \in IF durable THEN DOMAIN c.snapshot.versions ELSE {x.story : x \in c.items} :
       <<c.snapshot.issue, a>> \in t.public /\ <<a, c.snapshot.versions[a]>> \in t.current

\* An answer that shows nothing but what is in t.
Fits(name, shown, t) ==
  /\ name = "comparison" => ComparisonFits(shown, t)
  /\ name = "status" => \A x \in shown : StatusFits(x, t)
  /\ name = "history" => \A x \in shown : HistoryFits(x, t)
  /\ name \notin {"comparison", "status", "history"} => \A x \in shown : ItemFits(x, t)

LEMMA ShownItemFits ==
  ASSUME NEW h, MembersTold(h), RowsTold(h["rows"]), ScoredTold(h),
         NEW p \in PublicPairs(h["members"]), NEW x, x = ShownItem(h, p[1], p[2])
  PROVE  /\ ItemFits(x, seen) /\ x.story = p[2] /\ x.issue = p[1]
         /\ p[1] \in Topic /\ p[2] \in Story
         /\ <<x.issue, x.story>> \in seen.public
<1>1. p[1] \in Topic /\ p[2] \in Story /\ p[2] \in h["members"][p[1]]
  BY DEF PublicPairs
<1>2. /\ x.issue = p[1] /\ x.story = p[2] /\ x.version = h["rows"][p[2]].version
      /\ x.ready = Ready(h, p[2], h["rows"][p[2]].version)
  BY DEF ShownItem, Item
<1>3. <<p[1], p[2]>> \in seen.public
  BY <1>1 DEF MembersTold
<1>4. /\ h["rows"][p[2]].version \in Version
      /\ <<p[2], h["rows"][p[2]].version>> \in seen.current
  BY <1>1 DEF RowsTold
<1>5. Ready(h, p[2], h["rows"][p[2]].version) => <<p[2], h["rows"][p[2]].version>> \in seen.ready
  BY <1>1, <1>4 DEF ScoredTold, Ready, Matches
<1> QED BY <1>1, <1>2, <1>3, <1>4, <1>5 DEF ItemFits

LEMMA RowsFit ==
  ASSUME NEW h, MembersTold(h), RowsTold(h["rows"]), ScoredTold(h)
  PROVE  /\ \A x \in ArticleRows(h) : ItemFits(x, seen)
         /\ \A x \in FeedCandidates(h) : ItemFits(x, seen)
         /\ \A x \in IssueRows(h) : ItemFits(x, seen)
         /\ \A x \in ArticleView(h) : ItemFits(x, seen)
         /\ \A x \in AssessmentView(h) : ItemFits(x, seen)
         /\ \A x \in VisualizationRows(h) : ItemFits(x, seen)
<1> DEFINE All == {ShownItem(h, p[1], p[2]) : p \in PublicPairs(h["members"])}
<1>1. \A x \in All : ItemFits(x, seen)
  BY ShownItemFits
<1>2. ArticleRows(h) \subseteq All
  BY DEF ArticleRows
<1>3. FeedCandidates(h) \subseteq All
  BY DEF FeedCandidates
<1>4. IssueRows(h) \subseteq All
  BY DEF IssueRows
<1>5. ArticleView(h) \subseteq All
  BY DEF ArticleView, ArticleContext
<1>6. AssessmentView(h) \subseteq All
  BY DEF AssessmentView, ArticleContext
<1>7. VisualizationRows(h) \subseteq All
  BY DEF VisualizationRows
<1> HIDE DEF All
<1> QED BY <1>1, <1>2, <1>3, <1>4, <1>5, <1>6, <1>7

\* The scores of an issue's page are of the versions read last.
LEMMA IssueFits ==
  ASSUME NEW h, MembersTold(h), RowsTold(h["rows"]), ScoredTold(h), RowsTold(h["versions"]),
         NEW y \in IssueView(h)
  PROVE  ItemFits(y, seen)
<1>1. PICK x \in IssueRows(h) :
        y = [x EXCEPT !.version = h["versions"][x.story].version,
                      !.ready = Ready(h, x.story, h["versions"][x.story].version)]
  BY DEF IssueView
<1>2. PICK p \in PublicPairs(h["members"]) : x = ShownItem(h, p[1], p[2])
  BY DEF IssueRows
<1>3. /\ x.story = p[2] /\ x.issue = p[1] /\ p[2] \in Story
      /\ <<x.issue, x.story>> \in seen.public
  BY <1>2, ShownItemFits
<1>4. PICK v \in Version : /\ v = h["versions"][p[2]].version
                           /\ <<p[2], v>> \in seen.current
  BY <1>3 DEF RowsTold
<1>5. PICK r \in BOOLEAN : r = Ready(h, p[2], v)
  BY DEF Ready, Matches
<1>6. PICK w, q : x = [issue |-> p[1], story |-> p[2], version |-> w, ready |-> q]
  BY <1>2 DEF ShownItem, Item
<1>7. y = [x EXCEPT !.version = v, !.ready = r]
  BY <1>1, <1>3, <1>4, <1>5
<1>8. y.issue = p[1] /\ y.story = p[2] /\ y.version = v /\ y.ready = r
  BY <1>6, <1>7
<1>9. r => <<p[2], v>> \in seen.ready
  BY <1>3, <1>5 DEF ScoredTold, Ready, Matches
<1> QED BY <1>3, <1>4, <1>8, <1>9 DEF ItemFits

LEMMA HistoryFit ==
  ASSUME NEW h, MembersTold(h), ScoredTold(h), NEW x \in ScoreHistory(h)
  PROVE  HistoryFits(x, seen)
<1>1. /\ x.ready /\ <<x.issue, x.story>> \in ArticleContext(h)
      /\ \E i \in Topic, a \in Story, v \in 1 .. MaxVersion : x = Item(i, a, v, Ready(h, a, v))
  BY DEF ScoreHistory
<1>2. PICK i \in Topic, a \in Story, v \in 1 .. MaxVersion : x = Item(i, a, v, Ready(h, a, v))
  BY <1>1
<1>3. x.issue = i /\ x.story = a /\ x.version = v /\ x.ready = Ready(h, a, v)
  BY <1>2 DEF Item
<1>4. <<i, a>> \in seen.public
  BY <1>1, <1>3 DEF ArticleContext, PublicPairs, MembersTold
<1>5. <<a, v>> \in seen.ready
  BY <1>1, <1>3 DEF ScoredTold, Ready, Matches, Version
<1> QED BY <1>3, <1>4, <1>5 DEF HistoryFits

LEMMA StatusFit ==
  ASSUME NEW h, MembersTold(h), RowsTold(h["rows"]), ScoredTold(h), WorkTold(h),
         NEW y \in ArticleStatus(h)
  PROVE  StatusFits(y, seen)
<1>1. PICK x \in ArticleView(h) :
        y \in [story: {x.story}, version: {x.version},
               reason: Reasons(x.ready, h["work"][<<x.story, x.version>>])]
  BY DEF ArticleStatus
<1>2. PICK p \in PublicPairs(h["members"]) : x = ShownItem(h, p[1], p[2])
  BY DEF ArticleView, ArticleContext
<1>3. /\ ItemFits(x, seen) /\ x.story = p[2] /\ p[2] \in Story
  BY <1>2, ShownItemFits
<1>4. x.version = h["rows"][p[2]].version /\ x.version \in Version
  BY <1>2, <1>3 DEF ShownItem, Item, RowsTold
<1>5. /\ y.story = x.story /\ y.version = x.version
      /\ y.reason \in Reasons(x.ready, h["work"][<<x.story, x.version>>])
  BY <1>1
<1>6. <<y.story, y.version>> \in seen.current
  BY <1>3, <1>5 DEF ItemFits
<1>7. CASE x.ready
  <2>1. y.reason = "ANALYSIS_AVAILABLE"
    BY <1>5, <1>7 DEF Reasons
  <2> QED BY <1>3, <1>5, <1>6, <1>7, <2>1 DEF ItemFits, StatusFits
<1>8. CASE ~x.ready
  <2>1. y.reason \in Readiness(h["work"][<<x.story, x.version>>])
    BY <1>5, <1>8 DEF Reasons
  <2> DEFINE j == <<p[2], x.version, h["work"][<<x.story, x.version>>]>>
  <2>2. j \in seen.jobs
    BY <1>3, <1>4 DEF WorkTold
  <2>3. j[1] = y.story /\ j[2] = y.version /\ y.reason \in Readiness(j[3])
    BY <1>3, <1>5, <2>1
  <2> HIDE DEF j
  <2> QED BY <1>6, <2>2, <2>3 DEF StatusFits
<1> QED BY <1>7, <1>8

LEMMA ServedFits ==
  ASSUME NEW h, durable, MembersTold(h), RowsTold(h["rows"]), ScoredTold(h),
         RowsTold(h["versions"]), SnapshotsTold(h), NEW c \in Served(h)
  PROVE  ComparisonFits(c, seen)
<1>1. /\ c \in ComparisonView(h)
      /\ \A x \in c.items : x.ready /\ x.story \in DOMAIN c.snapshot.versions
  BY DEF Served
<1>2. PICK s \in h["snapshots"], S \in SUBSET Story :
        /\ h["topics"][s.issue].open /\ s \in Selected(h, s.issue) /\ Comparable(h, s)
        /\ c = [snapshot |-> s, items |-> Compared(h, s, S)]
  BY <1>1 DEF ComparisonView
<1>3. c.snapshot = s /\ c.items = Compared(h, s, S)
  BY <1>2
<1>4. s \in Snapshot /\ s.issue \in Topic /\ DOMAIN s.versions \subseteq Story
  <2>1. s \in Snapshot
    BY DEF SnapshotsTold
  <2>2. s.issue \in Topic /\ s.versions \in VersionMap
    BY <2>1 DEF Snapshot
  <2> QED BY <2>1, <2>2 DEF VersionMap
<1>5. ReviewOf(h, s)
  BY <1>2 DEF Selected, ReviewOf
<1>6. s \in seen.editions
  BY <1>5 DEF SnapshotsTold
<1>7. ASSUME NEW x \in c.items PROVE <<x.story, x.version>> \in seen.ready
  <2>1. PICK a \in S : x = Item(s.issue, a, h["versions"][a].version,
                                Ready(h, a, h["versions"][a].version))
    BY <1>3 DEF Compared
  <2>2. /\ x.story = a /\ x.version = h["versions"][a].version
        /\ x.ready = Ready(h, a, h["versions"][a].version)
    BY <2>1 DEF Item
  <2>3. h["versions"][a].version \in Version
    BY DEF RowsTold
  <2>4. x.ready
    BY <1>1
  <2> QED BY <2>2, <2>3, <2>4 DEF ScoredTold, Ready, Matches
<1>8. ASSUME NEW a \in DOMAIN s.versions
      PROVE  <<s.issue, a>> \in seen.public /\ <<a, s.versions[a]>> \in seen.current
  <2>1. /\ a \in Story /\ a \in h["members"][s.issue]
        /\ h["rows"][a].version = s.versions[a]
    BY <1>2, <1>4 DEF Comparable, MembersNow
  <2> QED BY <1>4, <2>1 DEF MembersTold, RowsTold
<1> QED BY <1>3, <1>6, <1>7, <1>8 DEF ComparisonFits

LEMMA AnswerFits ==
  ASSUME NEW name \in Pages, NEW h, durable, Told(Made(Plan[name]), h),
         NEW shown \in Answers(name, h)
  PROVE  Fits(name, shown, seen)
<1>1. /\ MembersTold(h) /\ RowsTold(h["rows"]) /\ ScoredTold(h)
      /\ name = "issue" => RowsTold(h["versions"])
      /\ name = "status" => WorkTold(h)
      /\ name = "comparison" => RowsTold(h["versions"]) /\ SnapshotsTold(h)
  BY PlanRead
<1>2. CASE name = "comparison"
  <2>1. shown \in Served(h)
    BY <1>2 DEF Answers
  <2> QED BY <1>1, <1>2, <2>1, ServedFits DEF Fits
<1>3. CASE name = "status"
  <2>1. shown = ArticleStatus(h)
    BY <1>3 DEF Answers
  <2> QED BY <1>1, <1>3, <2>1, StatusFit DEF Fits
<1>4. CASE name = "history"
  <2>1. shown = ScoreHistory(h)
    BY <1>4 DEF Answers
  <2> QED BY <1>1, <1>4, <2>1, HistoryFit DEF Fits
<1>5. CASE name = "issue"
  <2>1. shown = IssueView(h)
    BY <1>5 DEF Answers
  <2> QED BY <1>1, <1>5, <2>1, IssueFits DEF Fits
<1>6. CASE name \in {"feed", "articles", "issues", "event", "issue_articles", "article", "points"}
  <2>1. ASSUME NEW x \in shown
        PROVE  \/ x \in ArticleRows(h) \/ x \in FeedCandidates(h) \/ x \in IssueRows(h)
               \/ x \in ArticleView(h) \/ x \in AssessmentView(h) \/ x \in VisualizationRows(h)
    <3>1. CASE name = "feed"
      BY <3>1 DEF Answers, FeedItems
    <3>2. CASE name = "articles"
      BY <3>2 DEF Answers
    <3>3. CASE name = "issues"
      BY <3>3 DEF Answers
    <3>4. CASE name = "event"
      BY <3>4 DEF Answers, EventStatus
    <3>5. CASE name = "issue_articles"
      BY <3>5 DEF Answers, IssueArticleRows
    <3>6. CASE name = "article"
      BY <3>6 DEF Answers, CurrentScore
    <3>7. CASE name = "points"
      BY <3>7 DEF Answers, SourceSummary
    <3> QED BY <1>6, <3>1, <3>2, <3>3, <3>4, <3>5, <3>6, <3>7
  <2>2. \A x \in shown : ItemFits(x, seen)
    BY <1>1, <2>1, RowsFit
  <2> QED BY <1>6, <2>2 DEF Fits
<1> QED BY <1>2, <1>3, <1>4, <1>5, <1>6 DEF Pages, Plan

\* The deterministic backend's corpus is all of one version, and scored.
LEMMA LocalItemFits ==
  ASSUME CorpusInv, ~durable, NEW p \in LocalPublic
  PROVE  /\ ItemFits(LocalItem(p[1], p[2]), Truth) /\ CurrentReady(p[2])
         /\ p[1] \in Topic /\ p[2] \in Story /\ p[2] \in PublicIssues[p[1]]
<1> DEFINE i == p[1]
           a == p[2]
           x == LocalItem(i, a)
<1>1. i \in Topic /\ a \in Story /\ a \in PublicIssues[i]
  BY DEF LocalPublic, PublicPairs
<1>2. <<i, a>> \in Truth.public
  BY <1>1, PublicIsTrue DEF CorpusInv
<1>3. story[a].version = 1 /\ judged[<<a, 1>>] = "trusted" /\ scored[<<a, 1>>] = "trusted"
  BY <1>1 DEF CorpusInv, LocalCorpus
<1>4. x.issue = i /\ x.story = a /\ x.version = story[a].version
  BY DEF LocalItem, Item
<1>5. <<a, story[a].version>> \in Truth.current
  BY <1>1 DEF Truth
<1>6. <<a, story[a].version>> \in Truth.ready
  BY <1>1, <1>3, OneIsVersion DEF Truth, Matches, Version
<1>7. CurrentReady(a)
  BY <1>3 DEF CurrentReady, Matches
<1> HIDE DEF x
<1> QED BY <1>1, <1>2, <1>4, <1>5, <1>6, <1>7 DEF ItemFits, x

LEMMA LocalStatusFits ==
  ASSUME CorpusInv, ~durable, NEW x \in LocalStatus
  PROVE  StatusFits(x, Truth)
<1>1. PICK p \in LocalPublic :
        x \in [story: {p[2]}, version: {story[p[2]].version},
               reason: Reasons(CurrentReady(p[2]), work[<<p[2], story[p[2]].version>>])]
  BY DEF LocalStatus
<1>2. CurrentReady(p[2]) /\ p[2] \in Story
  BY LocalItemFits
<1>3. x.story = p[2] /\ x.version = story[p[2]].version /\ x.reason = "ANALYSIS_AVAILABLE"
  BY <1>1, <1>2 DEF Reasons
<1>4. story[p[2]].version \in 1 .. MaxVersion
  BY <1>2 DEF CorpusInv, CorpusTypes, StoryRow, Version
<1>5. <<p[2], story[p[2]].version>> \in Truth.ready
  BY <1>2, <1>4 DEF Truth, CurrentReady
<1>6. <<p[2], story[p[2]].version>> \in Truth.current
  BY <1>2 DEF Truth
<1> QED BY <1>3, <1>5, <1>6 DEF StatusFits

LEMMA LocalServedFits ==
  ASSUME CorpusInv, ~durable, NEW c \in LocalServed
  PROVE  ComparisonFits(c, Truth)
<1>1. PICK s \in snapshots, S \in SUBSET Story :
        /\ s.reviewed /\ s.version = topic[s.issue].version
        /\ c = [snapshot |-> s, items |-> LocalItems({<<s.issue, a>> : a \in S})]
  BY DEF LocalServed, LocalComparison
<1>2. c.snapshot = s /\ c.items = LocalItems({<<s.issue, a>> : a \in S})
  BY <1>1
<1>3. /\ Cardinality(c.items) >= 2
      /\ \A x \in c.items : /\ x.story \in PublicIssues[x.issue] /\ x.story \in DOMAIN s.versions
                            /\ s.versions[x.story] = x.version
  BY <1>2 DEF LocalServed
<1>4. s.issue \in Topic
  BY DEF CorpusInv, CorpusTypes, Snapshot
<1>5. ASSUME NEW x \in c.items
      PROVE  /\ x.issue = s.issue /\ ItemFits(x, Truth) /\ x.ready
             /\ x.story \in PublicIssues[s.issue] /\ topic[s.issue].open
  <2>1. PICK a \in S : x = LocalItem(s.issue, a)
    BY <1>2 DEF LocalItems
  <2>2. x.issue = s.issue /\ x.story = a
    BY <2>1 DEF LocalItem, Item
  <2>3. a \in PublicIssues[s.issue]
    BY <1>3, <2>2
  <2>4. <<s.issue, a>> \in LocalPublic
    BY <1>4, <2>3 DEF LocalPublic, PublicPairs
  <2>5. ItemFits(x, Truth)
    BY <2>1, <2>4, LocalItemFits
  <2>6. topic[s.issue].open
    BY <1>4, <2>3, PublicIsTrue DEF CorpusInv
  <2>7. x.ready
    <3>1. story[a].version = 1 /\ scored[<<a, 1>>] = "trusted"
      BY DEF CorpusInv, LocalCorpus
    <3>2. HasScore(a)
      BY <3>1 DEF HasScore
    <3> QED BY <2>1, <3>2 DEF LocalItem, Item
  <2> QED BY <2>2, <2>3, <2>5, <2>6, <2>7
<1>6. c.items # {}
  BY <1>3, FS_EmptySet
<1>7. s \in Truth.editions
  <2>1. topic[s.issue].open
    BY <1>5, <1>6
  <2>2. Truth.editions = {x \in snapshots : x.reviewed /\ topic[x.issue].open
                                            /\ topic[x.issue].version = x.version}
    BY DEF Truth
  <2> QED BY <1>1, <2>1, <2>2
<1>8. \A x \in c.items : <<x.story, x.version>> \in Truth.ready
  BY <1>5 DEF ItemFits
<1>9. ASSUME NEW x \in c.items
      PROVE  /\ <<s.issue, x.story>> \in Truth.public
             /\ <<x.story, s.versions[x.story]>> \in Truth.current
  BY <1>3, <1>5 DEF ItemFits
<1> QED BY <1>2, <1>7, <1>8, <1>9 DEF ComparisonFits

LEMMA LocalAnswerFits ==
  ASSUME CorpusInv, ~durable, NEW name \in Pages, NEW shown \in LocalAnswers(name)
  PROVE  Fits(name, shown, Truth)
<1>1. CASE name = "comparison"
  <2>1. shown \in LocalServed
    BY <1>1 DEF LocalAnswers
  <2> QED BY <1>1, <2>1, LocalServedFits DEF Fits
<1>2. CASE name = "status"
  <2>1. shown = LocalStatus
    BY <1>2 DEF LocalAnswers
  <2> QED BY <1>2, <2>1, LocalStatusFits DEF Fits
<1>3. CASE name \notin {"comparison", "status"}
  <2>1. LocalScored \subseteq LocalPublic
    BY DEF LocalScored
  <2>2. \E P \in SUBSET LocalPublic : shown = LocalItems(P)
    <3>1. CASE name = "feed"
      BY <2>1, <3>1 DEF LocalAnswers, LocalFeed
    <3>2. CASE name = "articles"
      BY <3>2 DEF LocalAnswers, LocalArticles
    <3>3. CASE name = "issues"
      BY <3>3 DEF LocalAnswers, LocalIssues
    <3>4. CASE name = "event"
      BY <3>4 DEF LocalAnswers, LocalIssueArticles
    <3>5. CASE name = "issue_articles"
      BY <3>5 DEF LocalAnswers, LocalIssueArticles
    <3>6. CASE name = "history"
      BY <2>1, <3>6 DEF LocalAnswers, LocalHistory, LocalTimeline
    <3>7. CASE name = "issue"
      BY <2>1, <3>7 DEF LocalAnswers, LocalIssue
    <3>8. CASE name = "article"
      BY <2>1, <3>8 DEF LocalAnswers, LocalArticle, LocalAssessments, LocalScore
    <3>9. CASE name = "points"
      BY <2>1, <3>9 DEF LocalAnswers, LocalPoints, LocalSource, LocalCompare
    <3> QED BY <1>3, <3>1, <3>2, <3>3, <3>4, <3>5, <3>6, <3>7, <3>8, <3>9 DEF Pages, Plan
  <2>3. PICK P \in SUBSET LocalPublic : shown = LocalItems(P)
    BY <2>2
  <2>4. \A x \in shown : ItemFits(x, Truth)
    BY <2>3, LocalItemFits DEF LocalItems
  <2>5. \A x \in shown : HistoryFits(x, Truth)
    BY <2>4 DEF ItemFits, HistoryFits
  <2> QED BY <1>3, <2>4, <2>5 DEF Fits
<1> QED BY <1>1, <1>2, <1>3

(* ------------------------------ requests ------------------------------- *)

\* The request is that of a page, and has yet to make the end of its plan.
Underway(p) ==
  /\ p = [name |-> p.name, left |-> p.left, held |-> p.held]
  /\ p.name \in Pages /\ DOMAIN p.held = Statements
  /\ \E m \in 1 .. Len(Plan[p.name]) :
       /\ p.left \in Seq(Statements) /\ Len(p.left) = Len(Plan[p.name]) - m + 1
       /\ \A i \in 1 .. Len(p.left) : p.left[i] = Plan[p.name][m + i - 1]
       /\ Told(DoneBefore(Plan[p.name], m), p.held)

PageInv ==
  /\ IsSeen(seen)
  /\ page # Idle => durable /\ answer = NoAnswer /\ Within(Truth, seen) /\ Underway(page)

AnswerInv ==
  answer # NoAnswer =>
    /\ answer.page \in Pages /\ Fits(answer.page, answer.shown, seen)

ViewsInv == CorpusInv /\ PageInv /\ AnswerInv

LEMMA ViewsInitial == ViewsInit => ViewsInv
BY CorpusInitial, TruthIsSeen DEF ViewsInit, ViewsInv, PageInv, AnswerInv

LEMMA CorpusStepInv ==
  ASSUME ViewsInv, CorpusStep
  PROVE  ViewsInv'
<1>1. CorpusInv' /\ CorpusMoves /\ Observed /\ UNCHANGED <<durable, page>>
  BY CorpusStepKeeps DEF ViewsInv, Unchanged
<1>2. CASE page = Idle
  BY <1>1, <1>2, TruthIsSeen DEF Observed, ViewsInv, PageInv, AnswerInv
<1>3. CASE page # Idle
  <2>1. seen' = Both(seen, Truth') /\ UNCHANGED answer
    BY <1>1, <1>3 DEF Observed
  <2>2. IsSeen(Truth')
    BY DEF Truth, IsSeen
  <2>3. IsSeen(seen') /\ Within(seen, seen') /\ Within(Truth', seen')
    BY <2>1, <2>2, BothHolds DEF ViewsInv, PageInv
  <2>4. PICK p : p = page
    OBVIOUS
  <2>5. Underway(p)'
    <3>1. PICK m \in 1 .. Len(Plan[p.name]) :
            /\ p.left \in Seq(Statements) /\ Len(p.left) = Len(Plan[p.name]) - m + 1
            /\ \A i \in 1 .. Len(p.left) : p.left[i] = Plan[p.name][m + i - 1]
            /\ Told(DoneBefore(Plan[p.name], m), p.held)
      BY <1>3, <2>4 DEF ViewsInv, PageInv, Underway
    <3>2. PICK D, h : D = DoneBefore(Plan[p.name], m) /\ h = p.held
      OBVIOUS
    <3>3. Told(D, h)'
      BY <1>1, <2>3, <3>1, <3>2, ToldStep DEF ViewsInv, PageInv
    <3>4. /\ p.name \in Pages /\ DOMAIN p.held = Statements
          /\ p = [name |-> p.name, left |-> p.left, held |-> p.held]
      BY <1>3, <2>4 DEF ViewsInv, PageInv, Underway
    <3>5. Told(DoneBefore(Plan[p.name], m), p.held)'
      BY <3>2, <3>3
    <3> QED BY <3>1, <3>4, <3>5 DEF Underway
  <2>6. Underway(page)'
    BY <1>1, <2>4, <2>5
  <2>7. PageInv'
    BY <1>1, <1>3, <2>1, <2>3, <2>6 DEF ViewsInv, PageInv
  <2>8. AnswerInv'
    BY <1>3, <2>1 DEF ViewsInv, PageInv, AnswerInv
  <2> QED BY <1>1, <2>7, <2>8 DEF ViewsInv
<1> QED BY <1>2, <1>3

\* The corpus stands still.
LEMMA CorpusStill ==
  ASSUME CorpusInv, UNCHANGED <<durable, corpus>>, ~durable => page' = Idle
  PROVE  CorpusInv' /\ Truth' = Truth
<1>1. UNCHANGED <<durable, story, topic, judged, scored, work, snapshots, modelOn>>
  BY DEF corpus
<1>2. CorpusTypes' /\ JudgedOnce' /\ ScoredLater' /\ LocalCorpus'
  BY <1>1 DEF CorpusInv, CorpusTypes, JudgedOnce, ScoredLater, LocalCorpus
<1>3. Truth' = Truth
  BY <1>1 DEF Truth, Covered
<1> QED BY <1>2, <1>3 DEF CorpusInv

LEMMA ToldStill ==
  ASSUME UNCHANGED <<corpus, seen>>, NEW D, NEW h, Told(D, h)
  PROVE  Told(D, h)'
<1>1. UNCHANGED <<story, topic, judged, scored, work, snapshots, modelOn, seen>>
  BY DEF corpus
<1> QED BY <1>1 DEF Told, MembersTold, RowsTold, ScoredTold, WorkTold, TopicsTold,
                    SnapshotsTold

LEMMA FitsStill ==
  ASSUME UNCHANGED durable, NEW name, NEW shown, NEW t
  PROVE  Fits(name, shown, t)' <=> Fits(name, shown, t)
BY DEF Fits, ComparisonFits, StatusFits, HistoryFits, ItemFits

LEMMA PlanLength == \A name \in Pages : Len(Plan[name]) >= 1
<1>1. /\ Len(FeedPlan) = 4 /\ Len(ArticlesPlan) = 4 /\ Len(IssuesPlan) = 5
      /\ Len(IssueArticlesPlan) = 5 /\ Len(IssuePlan) = 8 /\ Len(StatusPlan) = 5
      /\ Len(ComparisonPlan) = 8
  BY DEF FeedPlan, ArticlesPlan, IssuesPlan, IssueArticlesPlan, IssuePlan, StatusPlan,
         ComparisonPlan
<1>2. ASSUME NEW name \in Pages
      PROVE  Plan[name] \in {FeedPlan, ArticlesPlan, IssuesPlan, IssueArticlesPlan, IssuePlan,
                            ComparisonPlan, StatusPlan}
  BY DEF Pages, Plan, ArticlePlan, PointsPlan
<1>3. ASSUME NEW name \in Pages PROVE Len(Plan[name]) >= 1
  <2>1. PICK plan : plan = Plan[name]
    OBVIOUS
  <2>2. plan \in {FeedPlan, ArticlesPlan, IssuesPlan, IssueArticlesPlan, IssuePlan,
                 ComparisonPlan, StatusPlan}
    BY <1>2, <2>1
  <2>3. Len(plan) = 4 \/ Len(plan) = 5 \/ Len(plan) = 8
    BY <1>1, <2>2, Zenon
  <2>4. Len(plan) >= 1
    BY <2>3
  <2> QED BY <2>1, <2>4
<1> QED BY <1>3

LEMMA BeginPageInv ==
  ASSUME ViewsInv, NEW name \in Pages, BeginPage(name)
  PROVE  ViewsInv'
<1>1. /\ durable /\ page' = [name |-> name, left |-> Plan[name], held |-> Idle.held]
      /\ answer' = NoAnswer /\ seen' = Truth /\ UNCHANGED <<durable, corpus>>
  BY DEF BeginPage
<1>2. CorpusInv' /\ Truth' = Truth
  BY <1>1, CorpusStill DEF ViewsInv
<1>3. IsSeen(seen') /\ Within(Truth', seen')
  BY <1>1, <1>2, TruthIsSeen DEF Within
<1>4. PICK plan : plan = Plan[name]
  OBVIOUS
<1>5. PICK h : h = Idle.held
  OBVIOUS
<1>6. PICK p : p = [name |-> name, left |-> plan, held |-> h]
  OBVIOUS
<1>7. page' = p /\ p.name = name /\ p.left = plan /\ p.held = h
  BY <1>1, <1>4, <1>5, <1>6
<1>8. plan \in Seq(Statements) /\ Len(plan) \in Nat /\ Len(plan) >= 1
  BY <1>4, PlanOrdered, PlanLength
<1>9. DOMAIN h = Statements
  BY <1>5 DEF Idle
<1>10. Told(DoneBefore(plan, 1), h)'
  BY DEF DoneBefore, Told
<1>11. Underway(p)'
  <2>1. 1 \in 1 .. Len(plan) /\ Len(plan) = Len(plan) - 1 + 1
    BY <1>8
  <2>2. \A i \in 1 .. Len(plan) : plan[i] = plan[1 + i - 1]
    BY <1>8
  <2> QED BY <1>4, <1>6, <1>7, <1>8, <1>9, <1>10, <2>1, <2>2 DEF Underway
<1>12. PageInv'
  BY <1>1, <1>3, <1>7, <1>11 DEF PageInv
<1>13. AnswerInv'
  BY <1>1 DEF AnswerInv
<1> QED BY <1>2, <1>12, <1>13 DEF ViewsInv

LEMMA ReadInv ==
  ASSUME ViewsInv, Read
  PROVE  ViewsInv'
<1>1. page # Idle /\ UNCHANGED <<durable, corpus, seen>>
  BY DEF Read
<1>2. /\ durable /\ answer = NoAnswer /\ IsSeen(seen) /\ Within(Truth, seen) /\ Underway(page)
      /\ CorpusInv
  BY <1>1 DEF ViewsInv, PageInv
<1>3. CorpusInv' /\ Truth' = Truth
  BY <1>1, <1>2, CorpusStill
<1>4. PICK name, left, was : name = page.name /\ left = page.left /\ was = page.held
  OBVIOUS
<1>5. PICK plan : plan = Plan[name]
  OBVIOUS
<1>51. /\ page = [name |-> name, left |-> left, held |-> was]
       /\ name \in Pages /\ DOMAIN was = Statements /\ left \in Seq(Statements)
  BY <1>2, <1>4 DEF Underway
<1>6. PICK m \in 1 .. Len(plan) :
        /\ Len(left) = Len(plan) - m + 1
        /\ \A i \in 1 .. Len(left) : left[i] = plan[m + i - 1]
        /\ Told(DoneBefore(plan, m), was)
  BY <1>2, <1>4, <1>5 DEF Underway
<1>7. Ordered(plan) /\ Len(plan) \in Nat /\ plan \in Seq(Statements)
  BY <1>5, <1>51, PlanOrdered
<1>8. Head(left) = plan[m] /\ Len(left) \in Nat /\ Len(left) >= 1
  <2>1. Len(left) >= 1 /\ 1 \in 1 .. Len(left) /\ m + 1 - 1 = m
    BY <1>6, <1>7
  <2>2. left[1] = plan[m]
    BY <1>6, <2>1
  <2> QED BY <1>51, <2>1, <2>2
<1>9. PICK h : h = [was EXCEPT ![plan[m]] = Now(plan[m])]
  OBVIOUS
<1>10. DOMAIN h = Statements /\ Told(DoneBefore(plan, m + 1), h)
  BY <1>2, <1>51, <1>6, <1>7, <1>9, StatementStep
<1>11. h = [page.held EXCEPT ![Head(page.left)] = Now(Head(page.left))]
  BY <1>4, <1>8, <1>9
<1>12. CASE Len(left) > 1
  <2>1. page' = [page EXCEPT !.left = Tail(left), !.held = h] /\ UNCHANGED answer
    <3>1. ~(Len(page.left) = 1)
      <4>1. ~(Len(left) = 1)
        BY <1>8, <1>12
      <4> QED BY <1>4, <4>1, Zenon
    <3> QED BY <1>4, <1>11, <3>1, Zenon DEF Read
  <2>2. PICK rest : rest = Tail(left)
    OBVIOUS
  <2>3. PICK q : q = [name |-> name, left |-> rest, held |-> h]
    OBVIOUS
  <2>4. page' = q
    <3>1. page' = [[name |-> name, left |-> left, held |-> was]
                     EXCEPT !.left = rest, !.held = h]
      BY <1>51, <2>1, <2>2, Zenon
    <3>2. [[name |-> name, left |-> left, held |-> was] EXCEPT !.left = rest]
            = [name |-> name, left |-> rest, held |-> was]
      OBVIOUS
    <3>3. [[name |-> name, left |-> rest, held |-> was] EXCEPT !.held = h]
            = [name |-> name, left |-> rest, held |-> h]
      OBVIOUS
    <3> QED BY <2>3, <3>1, <3>2, <3>3, Zenon
  <2>5. /\ rest \in Seq(Statements) /\ Len(rest) = Len(left) - 1
        /\ \A i \in 1 .. Len(rest) : rest[i] = left[i + 1]
    BY <1>12, <1>51, <2>2
  <2>6. q.name = name /\ q.left = rest /\ q.held = h
    BY <2>3
  <2>7. Told(DoneBefore(plan, m + 1), h)'
    <3>1. PICK D : D = DoneBefore(plan, m + 1)
      OBVIOUS
    <3>2. Told(D, h)'
      BY <1>1, <1>10, <3>1, ToldStill
    <3> QED BY <3>1, <3>2
  <2>8. /\ m + 1 \in 1 .. Len(plan) /\ Len(rest) = Len(plan) - (m + 1) + 1
        /\ \A i \in 1 .. Len(rest) : rest[i] = plan[(m + 1) + i - 1]
    <3>1. m + 1 \in 1 .. Len(plan) /\ Len(rest) = Len(plan) - (m + 1) + 1
      BY <1>6, <1>7, <1>8, <1>12, <2>5
    <3>2. ASSUME NEW i \in 1 .. Len(rest) PROVE rest[i] = plan[(m + 1) + i - 1]
      <4>1. i + 1 \in 1 .. Len(left) /\ m + (i + 1) - 1 = (m + 1) + i - 1
        BY <1>8, <2>5
      <4>2. left[i + 1] = plan[m + (i + 1) - 1]
        BY <1>6, <4>1
      <4> QED BY <2>5, <4>1, <4>2
    <3> QED BY <3>1, <3>2
  <2>9. Underway(q)'
    BY <1>5, <1>51, <1>10, <2>3, <2>5, <2>6, <2>7, <2>8 DEF Underway
  <2>10. Underway(page)'
    BY <2>4, <2>9
  <2>11. PageInv'
    BY <1>1, <1>2, <1>3, <2>1, <2>10 DEF PageInv
  <2>12. AnswerInv'
    BY <1>2, <2>1 DEF AnswerInv
  <2> QED BY <1>3, <2>11, <2>12 DEF ViewsInv
<1>13. CASE Len(left) = 1
  <2>1. /\ page' = Idle
        /\ answer' \in {[page |-> name, shown |-> x] : x \in Answers(name, h)} \cup {NoAnswer}
    <3>1. PICK S : S = Answers(name, h)
      OBVIOUS
    <3>2. /\ page' = Idle
          /\ answer' \in {[page |-> name, shown |-> x] : x \in S}
                          \cup (IF S = {} THEN {NoAnswer} ELSE {})
      <4>1. ~(Len(page.left) > 1)
        BY <1>4, <1>13
      <4> QED BY <1>4, <1>11, <3>1, <4>1, Zenon DEF Read
    <3> QED BY <3>1, <3>2
  <2>2. DoneBefore(plan, m + 1) = Made(plan)
    <3>1. m = Len(plan)
      <4>1. Len(plan) - m + 1 = 1
        BY <1>6, <1>13, Zenon
      <4>2. m \in Int
        BY <1>7
      <4> QED BY <1>7, <4>1, <4>2
    <3>2. (m + 1) - 1 = Len(plan)
      BY <1>7, <3>1
    <3> QED BY <3>2 DEF DoneBefore, Made
  <2>3. ASSUME answer' # NoAnswer
        PROVE  answer'.page \in Pages /\ Fits(answer'.page, answer'.shown, seen)
    <3>1. PICK x \in Answers(name, h) : answer' = [page |-> name, shown |-> x]
      BY <2>1, <2>3
    <3>2. Fits(name, x, seen)
      BY <1>2, <1>5, <1>51, <1>10, <2>2, AnswerFits
    <3>3. answer'.page = name /\ answer'.shown = x
      BY <3>1
    <3> QED BY <1>51, <3>2, <3>3
  <2>4. AnswerInv'
    <3>1. PICK name1, shown1, t1 : name1 = answer'.page /\ shown1 = answer'.shown /\ t1 = seen
      OBVIOUS
    <3>2. answer' # NoAnswer => Fits(name1, shown1, t1)
      BY <2>3, <3>1
    <3>3. answer' # NoAnswer => Fits(name1, shown1, t1)'
      BY <1>1, <3>2, FitsStill
    <3> QED BY <1>1, <2>3, <3>1, <3>3 DEF AnswerInv
  <2>5. PageInv'
    BY <1>1, <1>2, <2>1 DEF PageInv
  <2> QED BY <1>3, <2>4, <2>5 DEF ViewsInv
<1> QED BY <1>8, <1>12, <1>13

LEMMA LocalServeInv ==
  ASSUME ViewsInv, NEW name \in Pages, LocalServe(name)
  PROVE  ViewsInv'
<1>1. /\ ~durable /\ seen' = Truth /\ UNCHANGED <<durable, corpus, page>> /\ CorpusInv
      /\ answer' \in {[page |-> name, shown |-> x] : x \in LocalAnswers(name)}
  BY DEF LocalServe, ViewsInv
<1>2. page = Idle
  BY <1>1 DEF CorpusInv, LocalCorpus
<1>3. CorpusInv' /\ Truth' = Truth
  BY <1>1, <1>2, CorpusStill
<1>4. PageInv'
  BY <1>1, <1>2, TruthIsSeen DEF PageInv
<1>5. PICK x \in LocalAnswers(name) : answer' = [page |-> name, shown |-> x]
  BY <1>1
<1>6. PICK t : t = Truth
  OBVIOUS
<1>7. Fits(name, x, t)
  BY <1>1, <1>6, LocalAnswerFits
<1>8. Fits(name, x, t)'
  BY <1>1, <1>7, FitsStill
<1>9. AnswerInv'
  <2>1. Fits(name, x, seen)'
    BY <1>1, <1>6, <1>8
  <2>2. (answer.page = name /\ answer.shown = x)'
    BY <1>5
  <2> QED BY <2>1, <2>2 DEF AnswerInv
<1> QED BY <1>3, <1>4, <1>9 DEF ViewsInv

LEMMA ViewsStill ==
  ASSUME ViewsInv, UNCHANGED viewVars
  PROVE  ViewsInv'
<1>1. UNCHANGED <<durable, corpus, page, answer, seen>>
  BY DEF viewVars
<1>2. CorpusInv' /\ Truth' = Truth
  BY <1>1, CorpusStill DEF ViewsInv, CorpusInv, LocalCorpus
<1>3. UNCHANGED <<story, topic, judged, scored, work, snapshots, modelOn>>
  BY <1>1 DEF corpus
<1>4. ASSUME Underway(page) PROVE Underway(page)'
  <2>1. PICK p : p = page
    OBVIOUS
  <2>2. PICK m \in 1 .. Len(Plan[p.name]) :
          /\ p.left \in Seq(Statements) /\ Len(p.left) = Len(Plan[p.name]) - m + 1
          /\ \A i \in 1 .. Len(p.left) : p.left[i] = Plan[p.name][m + i - 1]
          /\ Told(DoneBefore(Plan[p.name], m), p.held)
    BY <1>4, <2>1 DEF Underway
  <2>3. PICK D, h : D = DoneBefore(Plan[p.name], m) /\ h = p.held
    OBVIOUS
  <2>4. Told(D, h)'
    BY <1>1, <2>2, <2>3, ToldStill
  <2>5. /\ p.name \in Pages /\ DOMAIN p.held = Statements
        /\ p = [name |-> p.name, left |-> p.left, held |-> p.held]
    BY <1>4, <2>1 DEF Underway
  <2>6. Told(DoneBefore(Plan[p.name], m), p.held)'
    BY <2>3, <2>4
  <2>7. Underway(p)'
    BY <2>2, <2>5, <2>6 DEF Underway
  <2> QED BY <1>1, <2>1, <2>7
<1>5. PageInv'
  BY <1>1, <1>2, <1>4 DEF ViewsInv, PageInv
<1>6. AnswerInv'
  BY <1>1 DEF ViewsInv, AnswerInv, Fits, ComparisonFits
<1> QED BY <1>2, <1>5, <1>6 DEF ViewsInv

LEMMA ViewsStep ==
  ASSUME ViewsInv, [CorpusStep \/ ViewStep]_viewVars
  PROVE  ViewsInv'
<1>1. CASE CorpusStep
  BY <1>1, CorpusStepInv
<1>2. CASE ViewStep
  <2>1. ASSUME NEW name \in Pages, BeginPage(name) PROVE ViewsInv'
    BY <2>1, BeginPageInv
  <2>2. ASSUME NEW name \in Pages, LocalServe(name) PROVE ViewsInv'
    BY <2>2, LocalServeInv
  <2>3. CASE Read
    BY <2>3, ReadInv
  <2> QED BY <1>2, <2>1, <2>2, <2>3 DEF ViewStep
<1>3. CASE UNCHANGED viewVars
  BY <1>3, ViewsStill
<1> QED BY <1>1, <1>2, <1>3

\* In every state the corpus is well-formed, an assessment is there only once
\* its job has ended, a request under way has made the beginning of its page's
\* plan and holds nothing that was not so since it began, and an answer shows
\* nothing else.
THEOREM ViewsInvariant == ViewsSpec => []ViewsInv
<1>1. ViewsInit => ViewsInv
  BY ViewsInitial
<1>2. ViewsInv /\ [CorpusStep \/ ViewStep]_viewVars => ViewsInv'
  BY ViewsStep
<1> QED BY <1>1, <1>2, PTL DEF ViewsSpec

\* Everything a page shows was so at some moment since it was asked for: each
\* page's own order of statements is what makes it true, whatever is committed
\* between them.
THEOREM ShownTheorem == ViewsSpec => []ShownWasTrue
<1>1. ViewsInv => ShownWasTrue
  <2> SUFFICES ASSUME ViewsInv, answer.page \notin {"none", "comparison"}
               PROVE  \A x \in answer.shown :
                        IF answer.page = "status" THEN StatusFits(x, seen)
                        ELSE /\ <<x.issue, x.story>> \in seen.public
                             /\ answer.page # "history" =>
                                  <<x.story, x.version>> \in seen.current
                             /\ x.ready => <<x.story, x.version>> \in seen.ready
    BY DEF ShownWasTrue, StatusFits
  <2>1. answer # NoAnswer
    BY DEF NoAnswer
  <2>2. Fits(answer.page, answer.shown, seen)
    BY <2>1 DEF ViewsInv, AnswerInv
  <2> QED BY <2>2 DEF Fits, ItemFits, HistoryFits
<1> QED BY <1>1, ViewsInvariant, PTL

\* A comparison is served only at the versions a reviewer approved, of public
\* articles, while the review was of the issue's version.
THEOREM ComparisonTheorem == ViewsSpec => []ComparisonWasReviewed
<1>1. ViewsInv => ComparisonWasReviewed
  <2> SUFFICES ASSUME ViewsInv, answer.page = "comparison"
               PROVE  ComparisonFits(answer.shown, seen)
    BY DEF ComparisonWasReviewed, ComparisonFits
  <2>1. answer # NoAnswer
    BY DEF NoAnswer
  <2> QED BY <2>1 DEF ViewsInv, AnswerInv, Fits
<1> QED BY <1>1, ViewsInvariant, PTL
=============================================================================
