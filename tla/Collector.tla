------------------------------- MODULE Collector -------------------------------
(***************************************************************************)
(* PublicSourceCollector.collect (collection/collector.py): the pages of a  *)
(* company within a page budget, one after the other or in waves of        *)
(* parallel fetches, with the first-party links that are planned from the  *)
(* pages themselves (collection/planning.py).                              *)
(*                                                                         *)
(* A target is an address as it was written and whether it must belong to  *)
(* the company.  Web gives what a canonical address may answer: pages with *)
(* their content and links, and redirects.  Every fetch is answered anew,  *)
(* or lost: whatever ends in a CollectionFailure is a lost fetch.          *)
(***************************************************************************)
EXTENDS Integers, Sequences, FiniteSets, SequencesExt

CONSTANTS
  Web,          \* sets of answers: a function on canonical addresses
  Canonical,    \* canonical_url: a function on addresses as written, "unsafe" if refused
  OwnAddresses, \* canonical addresses inside the company's domains
  TargetLists,  \* targets a collection may start with
  MaxPages,     \* page budget
  MaxRedirects,
  Threads,      \* numbers of fetches at a time, 1 for the sequential collector
  WaveLinks     \* links planned from one page by the parallel collector

\* Addresses are written in ways that canonical_url knows; a page has finitely many links.
Targets == [as : DOMAIN Canonical, own : BOOLEAN]

ASSUME CollectorAssumption ==
  /\ MaxPages \in Nat \ {0} /\ MaxRedirects \in Nat /\ WaveLinks \in Nat
  /\ Threads \subseteq Nat \ {0} /\ TargetLists \subseteq Seq(Targets)
  /\ \A address \in DOMAIN Web : \A answer \in Web[address] :
       /\ answer.is \in {"page", "redirect"}
       /\ answer.is = "redirect" => answer.to \in DOMAIN Canonical
       /\ answer.is = "page" =>
            /\ IsFiniteSet(answer.links)
            /\ \A link \in answer.links : link.as \in DOMAIN Canonical /\ link.rank \in Nat

VARIABLES
  crawl,     \* targets pending, addresses seen, what is counted and logged
  collected, \* the documents: address, content and the place of their target
  wave       \* fetches of the current wave, and their results as they come in

collectorVars == <<crawl, collected, wave>>

UpTo(s, n) == SubSeq(s, 1, IF n < Len(s) THEN n ELSE Len(s))
Contents(docs) == {docs[i].content : i \in DOMAIN docs}

-----------------------------------------------------------------------------
(* collection/planning.py *)

\* Links of the same host that some classifier knows, best rank first, once each; a page
\* with a malformed address in a link gives none.
InRankOrder(links) ==
  CHOOSE order \in [1..Cardinality(links) -> links] :
    \A i, j \in DOMAIN order :
      i < j => order[i].rank <= order[j].rank /\ order[i] # order[j]

Planned(page, limit) ==
  LET order == InRankOrder({link \in page.links : link.samehost /\ link.rank > 0})
  IN  IF page.malformed THEN <<>>
      ELSE UpTo([i \in DOMAIN order |-> [as |-> order[i].as, own |-> TRUE]], limit)

-----------------------------------------------------------------------------
(* One target *)

Lost == [is |-> "lost"]
NoPage == [is |-> "none"]

\* What one fetch of an address may get.
MayGet(address) == {Lost} \union IF address \in DOMAIN Web THEN Web[address] ELSE {}

\* Where a redirect chain stands when hop n has got an answer.
Answered(at, answer, n) ==
  LET asked == [at EXCEPT !.chain = @ \union {at.address}] IN
  IF answer.is = "page" THEN [asked EXCEPT !.is = "page", !.page = answer]
  ELSE IF answer.is = "lost" \/ n = MaxRedirects \/ Canonical[answer.to] = "unsafe"
  THEN [asked EXCEPT !.is = "error"]
  ELSE [asked EXCEPT !.address = Canonical[answer.to]]

\* One round of the loop over a redirect chain, and where it may lead: fetch holds the
\* target and the addresses that are not fetched again.
Hop(fetch, at, n) ==
  LET address == at.address IN
  IF at.is # "going" THEN {at}
  ELSE IF (fetch.target.own /\ address \notin OwnAddresses) \/ address \in at.chain
  THEN {[at EXCEPT !.is = "error"]}
  ELSE IF address \in fetch.seen THEN {[at EXCEPT !.is = "skipped"]}
  ELSE {Answered(at, answer, n) : answer \in MayGet(address)}

Hops(fetch, ats, n) == UNION {Hop(fetch, at, n) : at \in ats}

\* How the chain of a target may end, where, on which page, and what was asked for.
Followed(fetch) ==
  FoldLeft(LAMBDA ats, n : Hops(fetch, ats, n),
           {[is |-> "going", address |-> Canonical[fetch.target.as], chain |-> {}, page |-> NoPage]},
           [n \in 1..(MaxRedirects + 1) |-> n - 1])

\* A page is stored unless its content is there already.
Stored(docs, result, place) ==
  IF result.is # "page" \/ result.page.content \in Contents(docs) THEN docs
  ELSE Append(docs, [address |-> result.address, content |-> result.page.content, from |-> place])

\* What the attempts of a followed target name.
Attempted(result) == result.chain \union {result.address}

-----------------------------------------------------------------------------
CollectorInit ==
  \E targets \in TargetLists, threads \in Threads :
    LET cut == threads = 1 /\ Len(targets) > MaxPages
        over == IF cut THEN {targets[i].as : i \in (MaxPages + 1)..Len(targets)} ELSE {} IN
    /\ crawl = [threads |-> threads,
                pending |-> IF cut THEN UpTo(targets, MaxPages) ELSE targets,
                asked |-> {targets[i].as : i \in DOMAIN targets},
                total |-> IF threads > 1 THEN 0 ELSE IF cut THEN MaxPages ELSE Len(targets),
                visits |-> 0, seen |-> {},
                logged |-> over, unfetched |-> over, at |-> "next"]
    /\ collected = <<>>
    /\ wave = [targets |-> <<>>, back |-> <<>>]

-----------------------------------------------------------------------------
(* One after the other *)

\* What the budget leaves for links that are planned.
FreeSlots == MaxPages - crawl.total

\* A target that was followed: the links of an own page go to the end of the list.  The
\* parser's error on a malformed link is not caught here and ends the call.
Visit(target, result) ==
  LET own == result.is = "page" /\ target.own
      links == IF own THEN Planned(result.page, FreeSlots) ELSE <<>>
      raises == own /\ FreeSlots > 0 /\ result.page.malformed
  IN  /\ crawl' = [crawl EXCEPT
           !.pending = Tail(@) \o links, !.total = @ + Len(links), !.visits = @ + 1,
           !.asked = @ \union {links[i].as : i \in DOMAIN links},
           !.seen = IF result.is = "error" THEN @ ELSE @ \union result.chain,
           !.logged = @ \union Attempted(result), !.at = IF raises THEN "raised" ELSE @]
      /\ collected' = Stored(collected, result, crawl.visits + 1)

\* The next target: an address that fails the checks is an error, one that was seen is
\* skipped.
CollectNext ==
  /\ crawl.threads = 1 /\ crawl.at = "next" /\ crawl.pending # <<>>
  /\ LET target == Head(crawl.pending)
         address == Canonical[target.as]
     IN  IF address = "unsafe" \/ address \in crawl.seen
         THEN /\ crawl' = [crawl EXCEPT !.pending = Tail(@), !.logged = @ \union {target.as, address}]
              /\ UNCHANGED collected
         ELSE \E result \in Followed([target |-> target, seen |-> crawl.seen]) :
                Visit(target, result)
  /\ UNCHANGED wave

-----------------------------------------------------------------------------
(* In waves *)

\* Mutant: a wave is as wide as there are threads.
Width == crawl.threads

WaveWidth == IF MaxPages - crawl.total < crawl.threads THEN MaxPages - crawl.total
             ELSE crawl.threads

\* Targets are taken from the list until the wave is full: an unsafe address is an
\* error, a scheduled one is skipped.
Take(s, target) ==
  LET address == Canonical[target.as] IN
  IF Len(s.wave) = WaveWidth THEN [s EXCEPT !.pending = Append(@, target)]
  ELSE IF address = "unsafe" \/ address \in s.seen
  THEN [s EXCEPT !.logged = @ \union {target.as, address}]
  ELSE [s EXCEPT !.wave = Append(@, target), !.seen = @ \union {address}]

Taken == FoldLeft(Take, [wave |-> <<>>, pending |-> <<>>, seen |-> crawl.seen,
                         logged |-> crawl.logged], crawl.pending)

TakeWave ==
  /\ crawl.threads > 1 /\ crawl.at = "next" /\ crawl.pending # <<>> /\ crawl.total < MaxPages
  /\ wave' = [targets |-> Taken.wave, back |-> <<>>]
  /\ crawl' = [crawl EXCEPT !.pending = Taken.pending, !.seen = Taken.seen,
       !.logged = Taken.logged, !.total = @ + Len(Taken.wave), !.at = "fetching"]
  /\ UNCHANGED collected

\* A worker follows a target on its own; nothing is shared with the others.
Fetched(i) ==
  /\ crawl.at = "fetching" /\ i \in DOMAIN wave.targets
  /\ \A k \in DOMAIN wave.back : wave.back[k].of # i
  /\ \E result \in Followed([target |-> wave.targets[i], seen |-> {}]) :
       wave' = [wave EXCEPT !.back = Append(@, [of |-> i, result |-> result])]
  /\ UNCHANGED <<crawl, collected>>

\* Mutant: results are merged as they come in.
AsTheyCome == wave.back

\* pool.map gives the results in the order of the wave.
InWaveOrder ==
  [i \in DOMAIN wave.targets |->
     wave.back[CHOOSE k \in DOMAIN wave.back : wave.back[k].of = i]]

\* Documents, links and attempts of one result are merged.
Merge(s, b) ==
  LET links == IF b.result.is = "page" /\ wave.targets[b.of].own
               THEN Planned(b.result.page, WaveLinks) ELSE <<>>
  IN  [docs |-> Stored(s.docs, b.result, crawl.visits + b.of),
       pending |-> s.pending \o links,
       asked |-> s.asked \union {links[i].as : i \in DOMAIN links},
       seen |-> IF b.result.is = "page" THEN s.seen \union {b.result.address} ELSE s.seen,
       logged |-> s.logged \union Attempted(b.result)]

Merged == FoldLeft(Merge, [docs |-> collected, pending |-> crawl.pending,
                     asked |-> crawl.asked, seen |-> crawl.seen, logged |-> crawl.logged], InWaveOrder)

\* The wave is complete.
MergeWave ==
  /\ crawl.at = "fetching"
  /\ \A i \in DOMAIN wave.targets : \E k \in DOMAIN wave.back : wave.back[k].of = i
  /\ collected' = Merged.docs
  /\ crawl' = [crawl EXCEPT !.pending = Merged.pending, !.asked = Merged.asked,
       !.seen = Merged.seen, !.logged = Merged.logged, !.visits = @ + Len(wave.targets),
       !.at = "next"]
  /\ wave' = [targets |-> <<>>, back |-> <<>>]

\* Mutant: what is left is only looked for among the targets of the call.
LeftOfTargets == {}

\* Targets left over; they are compared as written with canonical addresses, so that one
\* that was fetched under another spelling counts as left over too.
LeftOver == {crawl.pending[i].as : i \in DOMAIN crawl.pending} \ crawl.seen

FinishCollection ==
  /\ crawl.at = "next"
  /\ crawl.pending = <<>> \/ (crawl.threads > 1 /\ crawl.total >= MaxPages)
  /\ crawl' = [crawl EXCEPT !.at = "done", !.unfetched = @ \union LeftOver,
                            !.logged = @ \union LeftOver]
  /\ UNCHANGED <<collected, wave>>

CollectorNext ==
  \/ CollectNext \/ TakeWave
  \/ \E i \in 1..crawl.threads : Fetched(i)
  \/ MergeWave \/ FinishCollection

CollectorSpec == CollectorInit /\ [][CollectorNext]_collectorVars

-----------------------------------------------------------------------------
(* Properties *)

\* collection/models.py: documents never exceed the total.  However many links the
\* pages of a wave plan, a call fetches at most its page budget.
PageBudgetHolds ==
  /\ crawl.visits + Len(wave.targets) <= MaxPages
  /\ Len(collected) <= crawl.total /\ crawl.total <= MaxPages

\* The docstring of _collect_parallel: results are merged in input order for stable
\* deduplication.  The documents stand in the order of their targets, whichever fetch of
\* a wave was fastest, and no content is stored twice, whatever a page answers when it
\* is fetched again.  One after the other, no address is stored twice either.
ResultIsStable ==
  \A i, j \in DOMAIN collected :
    i < j => /\ collected[i].from < collected[j].from
             /\ collected[i].content # collected[j].content
             /\ crawl.threads = 1 => collected[i].address # collected[j].address

\* collection/README.md: deduplication is by fetched URLs and text hash.  Violated: in waves
\* two targets that lead to one page fetch it twice, and it is compared by text alone.
OneDocumentPerAddress ==
  \A i, j \in DOMAIN collected : i # j => collected[i].address # collected[j].address

\* Every target of the call and every planned link ends in the log: fetched, refused,
\* skipped, or reported as over the page limit.  That an address was scheduled or seen
\* is not enough.  What waves report as over the limit has no document, redirects
\* included; only one that was fetched under another spelling does.
NothingIsDroppedSilently ==
  crawl.at = "done" =>
    /\ \A as \in crawl.asked : {as, Canonical[as]} \intersect crawl.logged # {}
    /\ crawl.threads > 1 =>
         \A as \in crawl.unfetched : \A i \in DOMAIN collected : collected[i].address # as
=============================================================================
