------------------------------ MODULE MCSettling ------------------------------
(* Small instances of Voting and SourceCrawl for TLC; a behaviour is of one   *)
(* of them.  The sources: a crawler of an index page, a feed with hydrated    *)
(* articles, a feed whose texts must be hydrated, unapproved ones, an API.    *)
EXTENDS Voting, SourceCrawl

CONSTANTS a1, a2

VARIABLE about

Source == [type |-> "RSS", approved |-> TRUE, hydrate |-> FALSE, require |-> FALSE,
           scheduled |-> FALSE, index |-> FALSE, empty |-> FALSE, limit |-> 0,
           foreign |-> {}]

MCConfigs ==
    { [Source EXCEPT !.type = "CRAWLER", !.index = TRUE],
      [Source EXCEPT !.type = "CRAWLER", !.approved = FALSE],
      [Source EXCEPT !.hydrate = TRUE, !.scheduled = TRUE, !.limit = 1],
      [Source EXCEPT !.hydrate = TRUE, !.require = TRUE, !.foreign = {a2}],
      [Source EXCEPT !.hydrate = TRUE, !.approved = FALSE],
      [Source EXCEPT !.type = "API", !.empty = TRUE] }

MCInit ==
    /\ VoteInit /\ Init /\ about \in {"votes", "crawl"}
    /\ about = "votes" => cfg = [Source EXCEPT !.type = "API", !.empty = TRUE]
\* Bound: one of the voters does not ask for deletion.
Stays == \E u \in Voter : member[u] = "ACTIVE"

MCNext ==
    /\ UNCHANGED about
    /\ \/ about = "votes" /\ VoteNext /\ Stays' /\ UNCHANGED vars
       \/ about = "crawl" /\ Next /\ UNCHANGED voteVars

\* Workers poll for votes to count and finish what they claimed; the event loop
\* keeps running the crawl, whose requests are answered or time out.
MCSpec == /\ MCInit /\ [][MCNext]_<<vars, voteVars, about>>
          /\ VoteFairness /\ WF_vars(about = "crawl" /\ Next)

\* Every crawl ends (CrawlEnds).
CrawlSettles == about = "crawl" => CrawlEnds
==============================================================================
