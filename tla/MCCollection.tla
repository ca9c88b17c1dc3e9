----------------------------- MODULE MCCollection -----------------------------
(***************************************************************************)
(* Instances of the collector, of the fetching of one address, of the news *)
(* search and of the documents' rows, which meet only in an answer, for    *)
(* one run of TLC: a behaviour is one of the component that part names,    *)
(* while the others stay in an initial state.                              *)
(***************************************************************************)
EXTENDS Collector, Fetching, NewsSearch, SourceRetention

VARIABLE part

-----------------------------------------------------------------------------
(* A small web: redirects into a page and in circles, a page whose text changes from    *)
(* one fetch to the next, one content at two addresses, a page with a malformed link,    *)
(* and links that are unsafe, foreign, unknown or missing.                              *)

Link(as, rank) == [as |-> as, samehost |-> TRUE, rank |-> rank]
Page(content, links) ==
  [is |-> "page", content |-> content, links |-> links, malformed |-> content = "bad"]
To(address) == [is |-> "redirect", to |-> address]

HomeLinks == {Link("TEAM", 1), Link("jobs", 2), Link("ftp", 3),
              [as |-> "out", samehost |-> FALSE, rank |-> 1], Link("x", 0), Link("gone", 4)}

SmallWeb ==
  [a \in {"/", "www", "news", "out", "loop", "bad", "team", "jobs"} |->
     CASE a = "/" -> {Page("home", HomeLinks), Page("home today", HomeLinks)}
       [] a = "www" -> {To("/")}
       [] a = "news" -> {Page("home", {Link("jobs", 1)})}
       [] a = "out" -> {Page("story", {}), To("loop")}
       [] a = "loop" -> {To("loop")}
       [] a = "bad" -> {Page("bad", {Link("jobs", 1)})}
       [] a = "team" -> {Page("team", {Link("www", 1)})}
       [] OTHER -> {Page("jobs", {})}]

SmallCanonical ==
  [a \in DOMAIN SmallWeb \union {"TEAM", "ftp", "x", "gone"} |->
     IF a = "TEAM" THEN "team" ELSE IF a = "ftp" THEN "unsafe" ELSE a]

Own(as) == [as |-> as, own |-> TRUE]
Foreign(as) == [as |-> as, own |-> FALSE]

SmallTargets ==
  {<<Own("bad"), Foreign("out")>>,
   <<Own("/"), Own("www"), Foreign("news")>>,
   <<Own("www"), Own("out"), Own("team"), Own("jobs"), Own("/")>>,
   <<Own("loop"), Foreign("ftp"), Foreign("out")>>,
   <<Own("www"), Own("/"), Own("/")>>}

-----------------------------------------------------------------------------
(* News: an article answered twice, one that is unusable, and two of one host *)

Article(url, host, usable) == [url |-> url, host |-> host, usable |-> usable]

SmallNews ==
  {<<>>,
   <<Article("x", "h", TRUE), Article("x", "h", TRUE), Article("y", "h", TRUE),
     Article("z", "k", FALSE)>>,
   <<Article("z", "k", TRUE), Article("x", "h", TRUE)>>}

-----------------------------------------------------------------------------
\* Callers, contents and collecting slots are interchangeable: nothing chooses among them.
Interchangeable == Permutations(Callers) \union Permutations(Docs) \union Permutations(Collectors)

\* The collector has no targets when it is not the subject.
CollectorRests == /\ crawl = [at |-> "none", visits |-> 0, total |-> 0, unfetched |-> {}]
                  /\ collected = <<>> /\ wave = [targets |-> <<>>]

CollectionInit ==
  /\ part \in {"collector", "fetching", "news", "retention"}
  /\ FetchingInit /\ NewsInit /\ Init
  /\ IF part = "collector" THEN CollectorInit ELSE CollectorRests

CollectionNext ==
  /\ UNCHANGED part
  /\ \/ part = "collector" /\ CollectorNext /\ UNCHANGED <<fetchingVars, newsVars, vars>>
     \/ part = "fetching" /\ FetchingNext /\ UNCHANGED <<collectorVars, newsVars, vars>>
     \/ part = "news" /\ NewsNext /\ UNCHANGED <<collectorVars, fetchingVars, vars>>
     \/ part = "retention" /\ Next /\ UNCHANGED <<collectorVars, fetchingVars, newsVars>>

CollectionSpec ==
  CollectionInit /\ [][CollectionNext]_<<collectorVars, fetchingVars, newsVars, vars, part>>
=============================================================================
