------------------------------ MODULE NewsSearch ------------------------------
(***************************************************************************)
(* The news search of IntegratedResearchPipeline.collect: GDELT, then      *)
(* NewsAPI, by research slots that share one GdeltNewsDiscovery            *)
(* (discovery/gdelt.py) and one NewsApiDiscovery (discovery/newsapi.py).   *)
(* The first spaces the requests of all slots behind a lock, the second    *)
(* keeps the numbers of the search that is under way in last_stats.        *)
(***************************************************************************)
EXTENDS Integers, Sequences, FiniteSets, SequencesExt

CONSTANTS
  ResearchSlots, \* research slots
  Answers,       \* articles a provider may answer: sequences of [url, host, usable]
  Queries,       \* queries of a search
  PerQuery,      \* articles kept of a query
  PerHost,       \* articles kept of a host
  MaxResults,    \* articles kept of a search
  Interval,      \* ticks between requests to GDELT
  LastTick       \* bound on the clock

ASSUME NewsSearchAssumption ==
  /\ Queries \in Nat \ {0} /\ MaxResults \in Nat \ {0}
  /\ Interval \in Nat /\ LastTick \in Nat

VARIABLES
  search,    \* the news search of each slot
  admitted,  \* when requests to GDELT left the lock, oldest first
  lastStats, \* NewsApiDiscovery.last_stats
  now

newsVars == <<search, admitted, lastStats, now>>

NoSearch == [at |-> "idle", query |-> 1, tries |-> 0, found |-> <<>>, news |-> <<>>,
             failed |-> FALSE, wake |-> 0, logged |-> <<>>]

NoStats == [received |-> 0, kept |-> 0]

\* A line of the crawl log, with the numbers that its text quotes.
Line(status, stats) == [status |-> status, stats |-> stats]

NewsInit ==
  /\ search = [s \in ResearchSlots |-> NoSearch]
  /\ admitted = <<>>
  /\ lastStats = NoStats
  /\ now = 0

Becomes(s, state) == search' = [search EXCEPT ![s] = state]

-----------------------------------------------------------------------------
(* One answer *)

Urls(articles) == {articles[i].url : i \in DOMAIN articles}

\* Usable articles, once each, as many as were asked for.
Articles(answer) ==
  LET once == FoldLeft(LAMBDA kept, a : IF a.usable /\ a.url \notin Urls(kept)
                                        THEN Append(kept, a) ELSE kept, <<>>, answer)
  IN  SubSeq(once, 1, IF PerQuery < Len(once) THEN PerQuery ELSE Len(once))

\* Articles new to the search, up to PerHost of a host and MaxResults in all.
MergedInto(found, articles) ==
  FoldLeft(LAMBDA kept, a :
             IF \/ Len(kept) >= MaxResults \/ a.url \in Urls(kept)
                \/ Len(SelectSeq(kept, LAMBDA k : k.host = a.host)) >= PerHost
             THEN kept ELSE Append(kept, a),
           found, articles)

\* The next query, or the end of a search at the last one or when it is full.
AfterQuery(state, next, end) ==
  IF state.query = Queries \/ Len(state.found) >= MaxResults THEN [state EXCEPT !.at = end]
  ELSE [state EXCEPT !.at = next, !.query = @ + 1, !.tries = 0]

-----------------------------------------------------------------------------
(* GdeltNewsDiscovery *)

StartSearch(s) ==
  /\ search[s].at = "idle"
  /\ Becomes(s, [NoSearch EXCEPT !.at = "gate"])
  /\ UNCHANGED <<admitted, lastStats, now>>

\* Mutant: the lock is not held while its owner sleeps.
GateIsAlwaysFree == TRUE

GateIsFree == \A s \in ResearchSlots : search[s].at # "asleep"

\* _request: the rest of the interval is slept with the lock held.
EnterGate(s) ==
  /\ search[s].at = "gate" /\ GateIsFree
  /\ Becomes(s, [search[s] EXCEPT !.at = "asleep",
       !.wake = IF admitted # <<>> /\ Last(admitted) + Interval > now
                THEN Last(admitted) + Interval ELSE now])
  /\ UNCHANGED <<admitted, lastStats, now>>

LeaveGate(s) ==
  /\ search[s].at = "asleep" /\ now >= search[s].wake
  /\ admitted' = Append(admitted, now)
  /\ Becomes(s, [search[s] EXCEPT !.at = "gdelt", !.wake = 0])
  /\ UNCHANGED <<lastStats, now>>

GdeltAnswers(s, answer) ==
  /\ search[s].at = "gdelt"
  /\ Becomes(s, AfterQuery([search[s] EXCEPT !.found = MergedInto(@, Articles(answer))],
                           "gate", "found"))
  /\ UNCHANGED <<admitted, lastStats, now>>

\* A rate limit is retried once and then ends the search; any other error skips the query.
GdeltFails(s, limited) ==
  /\ search[s].at = "gdelt"
  /\ LET failed == [search[s] EXCEPT !.failed = TRUE] IN
     Becomes(s, IF limited /\ search[s].tries = 0
                THEN [search[s] EXCEPT !.at = "gate", !.tries = 1]
                ELSE IF limited THEN [failed EXCEPT !.at = "found"]
                ELSE AfterQuery(failed, "gate", "found"))
  /\ UNCHANGED <<admitted, lastStats, now>>

-----------------------------------------------------------------------------
(* collect: what GDELT found, or a partial error when nothing was found after an error *)

GdeltLogged(s) ==
  IF search[s].found = <<>> /\ search[s].failed
  THEN <<Line("gdelt error", NoStats)>> ELSE <<Line("gdelt ok", NoStats)>>

\* NewsAPI is searched next when it is configured.
SearchOn(s, configured) ==
  /\ search[s].at = "found"
  /\ LET news == [search[s] EXCEPT !.news = search[s].found, !.found = <<>>, !.failed = FALSE,
                    !.query = 1, !.tries = 0, !.logged = GdeltLogged(s)]
     IN  IF configured
         THEN /\ lastStats' = NoStats
              /\ Becomes(s, [news EXCEPT !.at = "newsapi"])
         ELSE /\ Becomes(s, [news EXCEPT !.at = "done", !.logged = Append(@, Line("newsapi skipped", NoStats))])
              /\ UNCHANGED lastStats
  /\ UNCHANGED <<admitted, now>>

-----------------------------------------------------------------------------
(* NewsApiDiscovery *)

\* The numbers go to whatever search has reset last_stats last.
NewsApiAnswers(s, answer) ==
  /\ search[s].at = "newsapi"
  /\ Becomes(s, AfterQuery([search[s] EXCEPT !.found = MergedInto(@, Articles(answer))],
                           "newsapi", "kept"))
  /\ lastStats' = [lastStats EXCEPT !.received = @ + Len(answer)]
  /\ UNCHANGED <<admitted, now>>

\* A rate limit is retried once, at once; any error ends the search.
NewsApiFails(s, limited) ==
  /\ search[s].at = "newsapi"
  /\ Becomes(s, IF limited /\ search[s].tries = 0 THEN [search[s] EXCEPT !.tries = 1]
                ELSE [search[s] EXCEPT !.at = "kept", !.failed = TRUE])
  /\ UNCHANGED <<admitted, lastStats, now>>

\* Nothing found after an error is the error; else what is kept is counted.
NewsApiEnds(s) ==
  /\ search[s].at = "kept"
  /\ IF search[s].found = <<>> /\ search[s].failed
     THEN /\ Becomes(s, [search[s] EXCEPT !.at = "done", !.logged = Append(@, Line("newsapi error", NoStats))])
          /\ UNCHANGED lastStats
     ELSE /\ Becomes(s, [search[s] EXCEPT !.at = "merge"])
          /\ lastStats' = [lastStats EXCEPT !.kept = Len(search[s].found)]
  /\ UNCHANGED <<admitted, now>>

\* collect adds what GDELT did not find, and logs last_stats as it is by now.
MergeNews(s) ==
  /\ search[s].at = "merge"
  /\ Becomes(s, [search[s] EXCEPT !.at = "done", !.found = <<>>,
       !.news = @ \o SelectSeq(search[s].found, LAMBDA a : a.url \notin Urls(search[s].news)),
       !.logged = Append(@, Line("newsapi ok", lastStats))])
  /\ UNCHANGED <<admitted, lastStats, now>>

NewsTick ==
  /\ now < LastTick /\ now' = now + 1
  /\ UNCHANGED <<search, admitted, lastStats>>

NewsNext ==
  \/ \E s \in ResearchSlots :
       \/ StartSearch(s) \/ EnterGate(s) \/ LeaveGate(s)
       \/ \E answer \in Answers : GdeltAnswers(s, answer) \/ NewsApiAnswers(s, answer)
       \/ \E limited \in BOOLEAN : GdeltFails(s, limited) \/ NewsApiFails(s, limited)
       \/ \E configured \in BOOLEAN : SearchOn(s, configured)
       \/ NewsApiEnds(s) \/ MergeNews(s)
  \/ NewsTick

NewsSpec == NewsInit /\ [][NewsNext]_newsVars

-----------------------------------------------------------------------------
(* Properties *)

\* gdelt.py: requests of all slots, retries too, leave the lock an interval apart.
RequestsAreSpaced ==
  \A i \in 1..(Len(admitted) - 1) : admitted[i + 1] - admitted[i] >= Interval
=============================================================================
