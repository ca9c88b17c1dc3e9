--------------------------- MODULE CollectorProofs ---------------------------
(***************************************************************************)
(* The collector, for every web, list of targets, page budget, redirect    *)
(* limit and number of threads: the budget holds, the documents stand in   *)
(* the order of their targets, and every target is logged.  What the loops *)
(* over a redirect chain, a list of targets and a wave compute is proved   *)
(* from the trace of their folds (Folding).                                *)
(***************************************************************************)
EXTENDS Collector, FiniteSetTheorems, TLAPS

-----------------------------------------------------------------------------
(* The inductive invariant *)

\* Addresses as written and canonical ones, and the pages that some address may answer.
Names == DOMAIN Canonical \union {Canonical[as] : as \in DOMAIN Canonical}
Pages == {answer \in UNION {Web[address] : address \in DOMAIN Web} : answer.is = "page"}

\* How a followed chain may end, a result as a worker gives it back, and documents.
Results ==
  {at \in [is : {"error", "skipped", "page"}, address : Names, chain : SUBSET Names,
           page : Pages \union {NoPage}] :
     at.is = "page" => at.page \in Pages}
Returned == [of : Nat, result : Results]
Documents == [address : Names, content : {page.content : page \in Pages}, from : Nat]

CollectorTypeOK ==
  /\ crawl \in [threads : Threads, pending : Seq(Targets), asked : SUBSET DOMAIN Canonical,
                total : Nat, visits : Nat, seen : SUBSET Names, logged : SUBSET Names,
                unfetched : SUBSET Names, at : {"next", "raised", "fetching", "done"}]
  /\ collected \in Seq(Documents)
  /\ wave \in [targets : Seq(Targets), back : Seq(Returned)]

Sequential == crawl.threads = 1

\* One after the other, a target that is counted is visited or pending; in waves, it is
\* visited or in the wave.  A visit stores one document at most.
BudgetKept ==
  /\ Len(collected) <= crawl.visits /\ crawl.total <= MaxPages
  /\ IF Sequential THEN crawl.visits + Len(crawl.pending) <= crawl.total
     ELSE crawl.total = crawl.visits + Len(wave.targets)

\* A result belongs to a target of the wave, and names its canonical address.
WaveIsKept ==
  /\ crawl.at = "fetching" => ~Sequential
  /\ crawl.at # "fetching" => wave.targets = <<>> /\ wave.back = <<>>
  /\ \A k \in DOMAIN wave.back :
       /\ wave.back[k].of \in DOMAIN wave.targets
       /\ Canonical[wave.targets[wave.back[k].of].as] \in Attempted(wave.back[k].result)

\* Documents in the order of the visits they come from, their contents distinct.
Ordered(docs, visits) ==
  /\ \A i \in DOMAIN docs : docs[i].from <= visits
  /\ \A i, j \in DOMAIN docs :
       i < j => docs[i].from < docs[j].from /\ docs[i].content # docs[j].content

\* Documents of addresses that are seen, each of one document; this holds only one after the
\* other, where what is seen is not fetched again.
Apart(docs, seen) ==
  \A i \in DOMAIN docs :
    /\ docs[i].address \in seen
    /\ \A j \in DOMAIN docs : i < j => docs[i].address # docs[j].address

SeenOnce == Sequential => Apart(collected, crawl.seen)

Named(targets) == {targets[i].as : i \in DOMAIN targets}

\* An asked target is still to come or logged; an address is seen only because it is logged
\* or because a target of the wave has it.
Accounted ==
  /\ \A as \in crawl.asked :
       \/ as \in Named(crawl.pending) \union Named(wave.targets)
       \/ {as, Canonical[as]} \intersect crawl.logged # {}
  /\ crawl.seen \subseteq crawl.logged \union {Canonical[as] : as \in Named(wave.targets)}
  /\ crawl.at = "done" => \A as \in crawl.asked : {as, Canonical[as]} \intersect crawl.logged # {}

Addresses(docs) == {docs[i].address : i \in DOMAIN docs}

\* The address of a document is seen, and in waves what is seen is not reported as left over.
Reported ==
  /\ Addresses(collected) \subseteq crawl.seen
  /\ ~Sequential => /\ crawl.at # "done" => crawl.unfetched = {}
                    /\ crawl.unfetched \intersect crawl.seen = {}

CollectorInv ==
  /\ CollectorTypeOK /\ BudgetKept /\ WaveIsKept /\ Ordered(collected, crawl.visits) /\ SeenOnce
  /\ Accounted /\ Reported

-----------------------------------------------------------------------------
(* The loops as folds *)

\* Each instance is the library's fold with the operator of one loop.
HopFold == INSTANCE Folding WITH Op <- Hops, Last <- Max
TakeOf(nothing, s, target) == Take(s, target)
TakeFold == INSTANCE Folding WITH Op <- TakeOf, Last <- Max
MergeOf(nothing, s, b) == Merge(s, b)
MergeFold == INSTANCE Folding WITH Op <- MergeOf, Last <- Max

\* Max is the last of a set of positions, for each of the folds.
LEMMA LastIsMax ==
  ASSUME NEW k \in Nat
  PROVE  HopFold!IsLast(k) /\ TakeFold!IsLast(k) /\ MergeFold!IsLast(k)
  BY HopFold!LastNatural DEF HopFold!IsLast, TakeFold!IsLast, MergeFold!IsLast, Max

-----------------------------------------------------------------------------
(* Links in the order of their ranks *)

\* Finitely many links can be put in the order of their ranks.
LEMMA InRankOrderType ==
  ASSUME NEW S, IsFiniteSet(S), \A link \in S : link.rank \in Nat
  PROVE  InRankOrder(S) \in [1..Cardinality(S) -> S]
<1> DEFINE rank == [link \in S |-> link.rank]
<1>1. rank \in [S -> Int] /\ \A link \in S : rank[link] = link.rank
  OBVIOUS
<1> HIDE DEF rank
<1>2. PICK order : order \in HopFold!Orders(Cardinality(S), S, rank)
  <2>1. Cardinality(S) \in Nat /\ \E f : HopFold!Lists(f, Cardinality(S), S)
    BY FS_CardinalityType
       DEF ExistsBijection, Bijection, Injection, Surjection, IsInjective, HopFold!Lists
  <2> QED BY <1>1, <2>1, HopFold!OrderExists
<1>3. /\ order \in [1..Cardinality(S) -> S]
      /\ \A i, j \in DOMAIN order :
           i < j => order[i].rank <= order[j].rank /\ order[i] # order[j]
  BY <1>1, <1>2 DEF HopFold!Orders
<1> QED
  BY <1>3 DEF InRankOrder

\* A beginning of a sequence.
LEMMA UpToType ==
  ASSUME NEW S, NEW s \in Seq(S), NEW n \in Nat
  PROVE  UpTo(s, n) \in Seq(S) /\ Len(UpTo(s, n)) <= n
  BY DEF UpTo

\* However many links a page has, Planned gives a list of own targets within the limit.
LEMMA PlannedType ==
  ASSUME NEW page \in Pages, NEW limit \in Nat
  PROVE  Planned(page, limit) \in Seq(Targets) /\ Len(Planned(page, limit)) <= limit
<1> DEFINE known == {link \in page.links : link.samehost /\ link.rank > 0}
           order == InRankOrder(known)
           planned == [i \in DOMAIN order |-> [as |-> order[i].as, own |-> TRUE]]
<1>1. /\ IsFiniteSet(known) /\ Cardinality(known) \in Nat
      /\ \A link \in known : link.rank \in Nat /\ link.as \in DOMAIN Canonical
  <2>1. /\ IsFiniteSet(page.links)
        /\ \A link \in page.links : link.as \in DOMAIN Canonical /\ link.rank \in Nat
    BY CollectorAssumption DEF Pages
  <2> QED BY <2>1, FS_Subset, FS_CardinalityType
<1> HIDE DEF known
<1>2. order \in [1..Cardinality(known) -> known]
  BY <1>1, InRankOrderType
<1>3. planned \in Seq(Targets)
  <2> HIDE DEF order
  <2>1. \A i \in 1..Cardinality(known) : [as |-> order[i].as, own |-> TRUE] \in Targets
    BY <1>1, <1>2 DEF Targets
  <2> QED BY <1>1, <1>2, <2>1
<1>4. Planned(page, limit) = IF page.malformed THEN <<>> ELSE UpTo(planned, limit)
  BY DEF Planned, known
<1> HIDE DEF planned
<1>5. UpTo(planned, limit) \in Seq(Targets) /\ Len(UpTo(planned, limit)) <= limit
  BY <1>3, UpToType
<1> QED BY <1>4, <1>5

-----------------------------------------------------------------------------
(* One target *)

Start(fetch) ==
  [is |-> "going", address |-> Canonical[fetch.target.as], chain |-> {}, page |-> NoPage]
HopNumbers == [n \in 1..(MaxRedirects + 1) |-> n - 1]
Underway ==
  [is : {"going", "error", "skipped", "page"}, address : Names, chain : SUBSET Names,
   page : Pages \union {NoPage}]

\* What holds of a redirect chain after any number of hops.
ChainsOf(fetch) ==
  {at \in Underway :
     /\ at.is = "page" => at.page \in Pages /\ at.address \in at.chain \ fetch.seen
     /\ Canonical[fetch.target.as] \in at.chain \union {at.address}}

\* Followed is the fold of Hops over the numbers of the hops.
LEMMA FollowedIsFold ==
  ASSUME NEW fetch
  PROVE Followed(fetch) = HopFold!Folded(fetch, {Start(fetch)}, HopNumbers, MaxRedirects + 1)
<1>1. DOMAIN HopNumbers = 1..(MaxRedirects + 1)
  BY DEF HopNumbers
<1> QED
  BY <1>1 DEF Followed, Start, HopNumbers, FoldLeft, MapThenFoldSet, HopFold!Folded, HopFold!Iterates

\* Whatever an address answers, a chain stays well formed; at the last hop it ends.
LEMMA AnsweredKeepsChain ==
  ASSUME NEW fetch, NEW at \in ChainsOf(fetch), at.address \notin fetch.seen, at.is = "going",
         NEW answer \in MayGet(at.address), NEW n
  PROVE  /\ Answered(at, answer, n) \in ChainsOf(fetch)
         /\ n = MaxRedirects => Answered(at, answer, n).is # "going"
<1> DEFINE chain == at.chain \union {at.address}
<1>1. /\ at \in Underway /\ Canonical[fetch.target.as] \in chain /\ at.page \in Pages \union {NoPage}
      /\ at.address \in Names /\ chain \subseteq Names
  BY DEF ChainsOf, Underway
<1>2. \A is \in {"error", "page", "going"}, address \in Names, page \in Pages \union {NoPage} :
        [is |-> is, address |-> address, chain |-> chain, page |-> page] \in Underway
  BY <1>1 DEF Underway
<1>3. at = [is |-> "going", address |-> at.address, chain |-> at.chain, page |-> at.page]
  BY <1>1 DEF Underway
<1>4. CASE answer.is = "page"
  <2>1. answer \in Pages
    BY <1>4 DEF MayGet, Lost, Pages
  <2>2. Answered(at, answer, n)
          = [is |-> "page", address |-> at.address, chain |-> chain, page |-> answer]
    BY <1>3, <1>4 DEF Answered
  <2> HIDE DEF chain
  <2>3. at.address \in chain
    BY DEF chain
  <2> QED BY <1>1, <1>2, <2>1, <2>2, <2>3 DEF ChainsOf
<1>5. CASE answer.is # "page" /\ (answer.is = "lost" \/ n = MaxRedirects \/ Canonical[answer.to] = "unsafe")
  <2>1. Answered(at, answer, n)
          = [is |-> "error", address |-> at.address, chain |-> chain, page |-> at.page]
    BY <1>3, <1>5 DEF Answered
  <2> HIDE DEF chain
  <2> QED BY <1>1, <1>2, <2>1 DEF ChainsOf
<1>6. CASE /\ answer.is # "page" /\ answer.is # "lost" /\ n # MaxRedirects
           /\ Canonical[answer.to] # "unsafe"
  <2> DEFINE to == Canonical[answer.to]
  <2>1. to \in Names
    BY <1>6, CollectorAssumption DEF MayGet, Lost, Names
  <2>2. Answered(at, answer, n)
          = [is |-> "going", address |-> to, chain |-> chain, page |-> at.page]
    BY <1>3, <1>6 DEF Answered
  <2> HIDE DEF chain, to
  <2> QED BY <1>1, <1>2, <1>6, <2>1, <2>2 DEF ChainsOf
<1> QED BY <1>4, <1>5, <1>6

\* A hop keeps what ChainsOf says, wherever it leads; after the last one no chain goes on.
LEMMA HopKeepsChain ==
  ASSUME NEW fetch, NEW at \in ChainsOf(fetch), NEW n, NEW end \in Hop(fetch, at, n)
  PROVE  end \in ChainsOf(fetch) /\ (n = MaxRedirects => end.is # "going")
<1>1. /\ at \in Underway
      /\ at.is = "page" => at.page \in Pages /\ at.address \in at.chain \ fetch.seen
      /\ Canonical[fetch.target.as] \in at.chain \union {at.address}
  BY DEF ChainsOf
<1>2. CASE at.is # "going"
  BY <1>2 DEF Hop
<1>3. CASE \E is \in {"error", "skipped"} : end = [at EXCEPT !.is = is]
  BY <1>1, <1>3 DEF ChainsOf, Underway
<1>4. CASE /\ at.is = "going" /\ at.address \notin fetch.seen
           /\ \E answer \in MayGet(at.address) : end = Answered(at, answer, n)
  BY <1>4, AnsweredKeepsChain
<1> QED BY <1>2, <1>3, <1>4 DEF Hop

\* A followed chain has ended, and what it asked for begins with the target's own address; a
\* page is that of an address that was asked for and not seen before.
LEMMA FollowedType ==
  ASSUME NEW fetch, fetch.target \in Targets, NEW result \in Followed(fetch)
  PROVE  /\ result \in Results
         /\ Canonical[fetch.target.as] \in Attempted(result)
         /\ result.is = "page" => result.address \in result.chain \ fetch.seen
<1> DEFINE k == MaxRedirects + 1
<1>1. k \in Nat /\ k \in 1..k /\ k - 1 \in 0..k /\ k - 1 = MaxRedirects
  BY CollectorAssumption
<1>2. HopNumbers[k] = MaxRedirects
  BY <1>1 DEF HopNumbers
<1> HIDE DEF k
<1>3. PICK t : /\ t[0] = {Start(fetch)}
               /\ \A i \in 1..k : t[i] = Hops(fetch, t[i - 1], HopNumbers[i])
               /\ HopFold!Folded(fetch, {Start(fetch)}, HopNumbers, k) = t[k]
  BY <1>1, LastIsMax, HopFold!FoldTrace
<1> DEFINE T == {i \in 0..k : t[i] \subseteq ChainsOf(fetch)}
<1>4. 0 \in T
  <2>1. Start(fetch) \in ChainsOf(fetch)
    BY DEF Start, ChainsOf, Underway, Names, Targets
  <2> QED BY <1>1, <1>3, <2>1
<1>5. \A n \in 1..k : n - 1 \in T => n \in T
  BY <1>1, <1>3, HopKeepsChain DEF Hops
<1>6. 0..k \subseteq T
  <2> HIDE DEF T
  <2> QED BY <1>1, <1>4, <1>5, HopFold!SetInduction
<1>7. Followed(fetch) = t[k]
  BY <1>3, FollowedIsFold DEF k
<1>8. t[k] = Hops(fetch, t[k - 1], MaxRedirects) /\ t[k - 1] \subseteq ChainsOf(fetch)
  BY <1>1, <1>2, <1>3, <1>6
<1>9. result.is # "going" /\ result \in ChainsOf(fetch)
  <2>1. PICK at \in ChainsOf(fetch) : result \in Hop(fetch, at, MaxRedirects)
    BY <1>7, <1>8 DEF Hops
  <2> QED BY <2>1, HopKeepsChain
<1> QED BY <1>9 DEF ChainsOf, Underway, Results, Attempted

\* Storing one result: nothing, or one document at the end with a content that is new.
LEMMA StoredGrows ==
  ASSUME NEW docs \in Seq(Documents), NEW result \in Results, NEW place \in Nat
  PROVE  \/ Stored(docs, result, place) = docs
         \/ /\ result.is = "page"
            /\ \E new \in Documents :
                 /\ Stored(docs, result, place) = Append(docs, new)
                 /\ new.from = place /\ new.address = result.address
                 /\ new.content \notin Contents(docs)
<1> DEFINE new == [address |-> result.address, content |-> result.page.content, from |-> place]
<1>1. CASE result.is # "page" \/ result.page.content \in Contents(docs)
  BY <1>1 DEF Stored
<1>2. CASE result.is = "page" /\ result.page.content \notin Contents(docs)
  <2>1. Stored(docs, result, place) = Append(docs, new)
    BY <1>2 DEF Stored
  <2>2. new \in Documents
    BY <1>2 DEF Results, Documents
  <2>3. new.from = place /\ new.address = result.address /\ new.content \notin Contents(docs)
    BY <1>2
  <2> HIDE DEF new
  <2> QED BY <1>2, <2>1, <2>2, <2>3
<1> QED BY <1>1, <1>2

\* A sequence with one more element.
LEMMA AppendedParts ==
  ASSUME NEW docs \in Seq(Documents), NEW new \in Documents
  PROVE  /\ Append(docs, new) \in Seq(Documents)
         /\ Len(Append(docs, new)) = Len(docs) + 1 /\ Len(docs) \in Nat
         /\ \A i \in DOMAIN docs : i \in 1..Len(docs) /\ Append(docs, new)[i] = docs[i]
         /\ Append(docs, new)[Len(docs) + 1] = new
         /\ \A i \in DOMAIN Append(docs, new) : i \in DOMAIN docs \/ i = Len(docs) + 1
  OBVIOUS

\* Storing one result keeps the documents in order.
LEMMA StoredKeepsOrder ==
  ASSUME NEW docs \in Seq(Documents), NEW visits \in Nat, Ordered(docs, visits),
         NEW result \in Results, NEW place \in Nat, visits < place
  PROVE  /\ Stored(docs, result, place) \in Seq(Documents)
         /\ Ordered(Stored(docs, result, place), place)
         /\ Len(Stored(docs, result, place)) <= Len(docs) + 1
<1>0. \A i \in DOMAIN docs : docs[i].from \in Nat
  <2>1. \A i \in DOMAIN docs : docs[i] \in Documents
    OBVIOUS
  <2> QED BY <2>1 DEF Documents
<1>1. CASE Stored(docs, result, place) = docs
  <2>1. \A i \in DOMAIN docs : docs[i].from <= visits => docs[i].from <= place
    BY <1>0
  <2> QED BY <1>1, <2>1 DEF Ordered
<1>2. CASE \E new \in Documents : /\ Stored(docs, result, place) = Append(docs, new)
                                  /\ new.from = place /\ new.content \notin Contents(docs)
  <2>1. PICK new \in Documents : /\ Stored(docs, result, place) = Append(docs, new)
                                 /\ new.from = place /\ new.content \notin Contents(docs)
    BY <1>2
  <2> DEFINE longer == Append(docs, new)
  <2>2. /\ longer \in Seq(Documents) /\ Len(longer) = Len(docs) + 1 /\ Len(docs) \in Nat
        /\ \A i \in DOMAIN docs : i \in 1..Len(docs) /\ longer[i] = docs[i]
        /\ longer[Len(docs) + 1] = new
        /\ \A i \in DOMAIN longer : i \in DOMAIN docs \/ i = Len(docs) + 1
    BY AppendedParts
  <2> HIDE DEF longer
  <2>3. \A i \in DOMAIN docs : /\ docs[i].from <= visits /\ docs[i].from < new.from
                               /\ docs[i].content # new.content
    BY <1>0, <2>1 DEF Ordered, Contents
  <2>4. \A i \in DOMAIN longer : longer[i].from <= place
    BY <1>0, <2>1, <2>2, <2>3
  <2>5. ASSUME NEW i \in DOMAIN longer, NEW j \in DOMAIN longer, i < j
        PROVE  longer[i].from < longer[j].from /\ longer[i].content # longer[j].content
    <3>1. i \in DOMAIN docs
      BY <2>2, <2>5
    <3>2. CASE j \in DOMAIN docs
      BY <2>2, <2>5, <3>1, <3>2 DEF Ordered
    <3>3. CASE j = Len(docs) + 1
      BY <2>2, <2>3, <3>1, <3>3
    <3> QED BY <2>2, <3>2, <3>3
  <2> QED BY <2>1, <2>2, <2>4, <2>5 DEF Ordered, longer
<1> QED BY <1>1, <1>2, StoredGrows

\* Storing the page of an address that was not seen keeps the addresses apart.
LEMMA StoredKeepsApart ==
  ASSUME NEW docs \in Seq(Documents), NEW seen, NEW more, Apart(docs, seen), seen \subseteq more,
         NEW result \in Results, NEW place \in Nat,
         result.is = "page" => result.address \in more /\ result.address \notin seen
  PROVE  Apart(Stored(docs, result, place), more)
<1>1. CASE Stored(docs, result, place) = docs
  BY <1>1 DEF Apart
<1>2. CASE \E new \in Documents : /\ Stored(docs, result, place) = Append(docs, new)
                                  /\ new.address = result.address /\ result.is = "page"
  <2>1. PICK new \in Documents : /\ Stored(docs, result, place) = Append(docs, new)
                                 /\ new.address = result.address /\ result.is = "page"
    BY <1>2
  <2> DEFINE longer == Append(docs, new)
  <2>2. /\ Len(docs) \in Nat
        /\ \A i \in DOMAIN docs : i \in 1..Len(docs) /\ longer[i] = docs[i]
        /\ longer[Len(docs) + 1] = new
        /\ \A i \in DOMAIN longer : i \in DOMAIN docs \/ i = Len(docs) + 1
    BY AppendedParts
  <2> HIDE DEF longer
  <2>3. \A i \in DOMAIN docs : docs[i].address \in more /\ docs[i].address # new.address
    BY <2>1 DEF Apart
  <2>4. \A i \in DOMAIN longer : longer[i].address \in more
    BY <2>1, <2>2, <2>3
  <2>5. ASSUME NEW i \in DOMAIN longer, NEW j \in DOMAIN longer, i < j
        PROVE  longer[i].address # longer[j].address
    <3>1. i \in DOMAIN docs
      BY <2>2, <2>5
    <3>2. CASE j \in DOMAIN docs
      BY <2>2, <2>5, <3>1, <3>2 DEF Apart
    <3>3. CASE j = Len(docs) + 1
      BY <2>2, <2>3, <3>1, <3>3
    <3> QED BY <2>2, <3>2, <3>3
  <2> QED BY <2>1, <2>4, <2>5 DEF Apart, longer
<1> QED BY <1>1, <1>2, StoredGrows

\* Storing a page adds no address but its own.
LEMMA StoredAddresses ==
  ASSUME NEW docs \in Seq(Documents), NEW result \in Results, NEW place \in Nat
  PROVE  Addresses(Stored(docs, result, place))
           \subseteq Addresses(docs) \union (IF result.is = "page" THEN {result.address} ELSE {})
<1>1. CASE Stored(docs, result, place) = docs
  BY <1>1
<1>2. CASE \E new \in Documents : /\ Stored(docs, result, place) = Append(docs, new)
                                  /\ new.address = result.address /\ result.is = "page"
  <2>1. PICK new \in Documents : /\ Stored(docs, result, place) = Append(docs, new)
                                 /\ new.address = result.address /\ result.is = "page"
    BY <1>2
  <2> DEFINE longer == Append(docs, new)
  <2>2. /\ \A i \in DOMAIN docs : longer[i] = docs[i]
        /\ longer[Len(docs) + 1] = new
        /\ \A i \in DOMAIN longer : i \in DOMAIN docs \/ i = Len(docs) + 1
    BY AppendedParts
  <2> HIDE DEF longer
  <2>3. \A i \in DOMAIN longer : longer[i].address \in Addresses(docs) \union {result.address}
    BY <2>1, <2>2 DEF Addresses
  <2> QED BY <2>1, <2>3 DEF Addresses, longer
<1> QED BY <1>1, <1>2, StoredGrows

-----------------------------------------------------------------------------
(* The targets a sequence names *)

\* What concatenation, Append and Tail do to the named targets.
LEMMA NamedParts ==
  ASSUME NEW p \in Seq(Targets), NEW q \in Seq(Targets)
  PROVE  /\ Named(p \o q) = Named(p) \union Named(q) /\ p \o q \in Seq(Targets)
         /\ \A target \in Targets : Named(Append(p, target)) = Named(p) \union {target.as}
         /\ p # <<>> => /\ Head(p) \in Targets /\ Tail(p) \in Seq(Targets)
                        /\ Named(p) = {Head(p).as} \union Named(Tail(p))
         /\ Named(p) \subseteq DOMAIN Canonical /\ Named(<<>>) = {}
<1>1. PICK m \in Nat : m = Len(p) /\ DOMAIN p = 1..m
  OBVIOUS
<1>2. PICK n \in Nat : n = Len(q) /\ DOMAIN q = 1..n
  OBVIOUS
<1>3. Named(p \o q) = Named(p) \union Named(q)
  <2>1. /\ DOMAIN (p \o q) = 1..(m + n)
        /\ \A i \in 1..m : (p \o q)[i] = p[i]
        /\ \A i \in 1..n : (p \o q)[m + i] = q[i]
    BY <1>1, <1>2
  <2>2. ASSUME NEW i \in 1..(m + n) PROVE (p \o q)[i].as \in Named(p) \union Named(q)
    <3>1. CASE i \in 1..m
      BY <1>1, <2>1, <3>1 DEF Named
    <3>2. CASE i \notin 1..m
      <4>1. i - m \in 1..n /\ m + (i - m) = i
        BY <3>2
      <4>2. (p \o q)[i] = q[i - m]
        BY <2>1, <4>1
      <4> QED BY <1>2, <4>1, <4>2 DEF Named
    <3> QED BY <3>1, <3>2
  <2>0. \A i \in 1..(m + n) : (p \o q)[i].as \in Named(p \o q)
    BY <2>1 DEF Named
  <2>3. \A i \in 1..m : p[i].as \in Named(p \o q)
    <3>1. \A i \in 1..m : i \in 1..(m + n)
      OBVIOUS
    <3> QED BY <2>0, <2>1, <3>1
  <2>4. \A i \in 1..n : q[i].as \in Named(p \o q)
    <3>1. \A i \in 1..n : m + i \in 1..(m + n)
      OBVIOUS
    <3> QED BY <2>0, <2>1, <3>1
  <2>5. \A a \in Named(p \o q) : \E i \in 1..(m + n) : a = (p \o q)[i].as
    BY <2>1 DEF Named
  <2>6. Named(p \o q) \subseteq Named(p) \union Named(q)
    BY <2>2, <2>5
  <2>7. \A a \in Named(p) : \E i \in 1..m : a = p[i].as
    BY <1>1 DEF Named
  <2>8. \A a \in Named(q) : \E i \in 1..n : a = q[i].as
    BY <1>2 DEF Named
  <2> QED BY <2>3, <2>4, <2>6, <2>7, <2>8
<1>4. ASSUME NEW target \in Targets
      PROVE  Named(Append(p, target)) = Named(p) \union {target.as}
  <2>1. /\ DOMAIN Append(p, target) = 1..(m + 1) /\ Append(p, target)[m + 1] = target
        /\ \A i \in 1..m : Append(p, target)[i] = p[i]
    BY <1>1
  <2>2. 1..(m + 1) = (1..m) \union {m + 1}
    OBVIOUS
  <2> QED BY <1>1, <2>1, <2>2 DEF Named
<1>5. ASSUME p # <<>>
      PROVE  /\ Head(p) \in Targets /\ Tail(p) \in Seq(Targets)
             /\ Named(p) = {Head(p).as} \union Named(Tail(p))
  <2>1. /\ m > 0 /\ Head(p) = p[1] /\ DOMAIN Tail(p) = 1..(m - 1)
        /\ \A i \in 1..(m - 1) : Tail(p)[i] = p[i + 1]
    BY <1>1, <1>5
  <2>2. ASSUME NEW i \in 1..m PROVE p[i].as \in {Head(p).as} \union Named(Tail(p))
    <3>1. CASE i = 1
      BY <2>1, <3>1
    <3>2. CASE i # 1
      <4>1. i - 1 \in 1..(m - 1) /\ (i - 1) + 1 = i
        BY <3>2
      <4> QED BY <2>1, <4>1 DEF Named
    <3> QED BY <3>1, <3>2
  <2>3. \A i \in 1..(m - 1) : Tail(p)[i].as \in Named(p)
    <3>1. \A i \in 1..(m - 1) : i + 1 \in 1..m
      OBVIOUS
    <3> QED BY <1>1, <2>1, <3>1 DEF Named
  <2>4. Head(p).as \in Named(p)
    BY <1>1, <2>1 DEF Named
  <2>5. Head(p) \in Targets /\ Tail(p) \in Seq(Targets)
    BY <1>5
  <2> QED BY <1>1, <2>1, <2>2, <2>3, <2>4, <2>5 DEF Named
<1>6. Named(p) \subseteq DOMAIN Canonical /\ Named(<<>>) = {}
  <2>1. \A i \in DOMAIN p : p[i] \in Targets
    OBVIOUS
  <2>2. \A i \in DOMAIN p : p[i].as \in DOMAIN Canonical
    BY <2>1 DEF Targets
  <2>3. DOMAIN <<>> = {}
    OBVIOUS
  <2> QED BY <2>2, <2>3 DEF Named
<1>7. p \o q \in Seq(Targets)
  OBVIOUS
<1> QED BY <1>3, <1>4, <1>5, <1>6, <1>7

-----------------------------------------------------------------------------
(* A wave is taken *)

Takes == [wave : Seq(Targets), pending : Seq(Targets), seen : SUBSET Names, logged : SUBSET Names]

\* What holds while targets are taken: the wave stays within its width, and only targets of
\* the wave become seen.
TakesOf(width) ==
  {s \in Takes : /\ Len(s.wave) <= width /\ crawl.logged \subseteq s.logged
                 /\ crawl.seen \subseteq s.seen
                 /\ s.seen \subseteq crawl.seen \union {Canonical[as] : as \in Named(s.wave)}}

\* One target is taken, kept for later or logged; none that was is lost.
LEMMA TakeKeepsTargets ==
  ASSUME NEW s \in TakesOf(WaveWidth), NEW target \in Targets, WaveWidth \in Nat
  PROVE  /\ Take(s, target) \in TakesOf(WaveWidth)
         /\ Named(s.pending) \union Named(s.wave) \union s.logged \union {target.as}
              \subseteq Named(Take(s, target).pending) \union Named(Take(s, target).wave)
                          \union Take(s, target).logged
<1> DEFINE address == Canonical[target.as]
<1>1. /\ s \in Takes /\ Len(s.wave) <= WaveWidth /\ crawl.logged \subseteq s.logged
      /\ crawl.seen \subseteq s.seen
      /\ s.seen \subseteq crawl.seen \union {Canonical[as] : as \in Named(s.wave)}
  BY DEF TakesOf
<1>2. /\ s.wave \in Seq(Targets) /\ s.pending \in Seq(Targets) /\ Len(s.wave) \in Nat
      /\ s.seen \subseteq Names /\ s.logged \subseteq Names
  BY <1>1 DEF Takes
<1>3. target.as \in Names /\ address \in Names
  BY DEF Names, Targets
<1> HIDE DEF address
<1>4. CASE Len(s.wave) = WaveWidth
  <2>1. Take(s, target) = [s EXCEPT !.pending = Append(@, target)]
    BY <1>4 DEF Take
  <2>2. /\ Append(s.pending, target) \in Seq(Targets)
        /\ Named(Append(s.pending, target)) = Named(s.pending) \union {target.as}
    BY <1>2, NamedParts
  <2> QED BY <1>1, <1>2, <2>1, <2>2 DEF Takes, TakesOf
<1>5. CASE Len(s.wave) # WaveWidth /\ (address = "unsafe" \/ address \in s.seen)
  <2>1. Take(s, target) = [s EXCEPT !.logged = @ \union {target.as, address}]
    BY <1>5 DEF Take, address
  <2> QED BY <1>1, <1>2, <1>3, <2>1 DEF Takes, TakesOf
<1>6. CASE Len(s.wave) # WaveWidth /\ ~(address = "unsafe" \/ address \in s.seen)
  <2>1. Take(s, target) = [s EXCEPT !.wave = Append(@, target), !.seen = @ \union {address}]
    BY <1>6 DEF Take, address
  <2>2. /\ Append(s.wave, target) \in Seq(Targets)
        /\ Named(Append(s.wave, target)) = Named(s.wave) \union {target.as}
        /\ Len(Append(s.wave, target)) = Len(s.wave) + 1
    BY <1>2, NamedParts
  <2>3. Len(s.wave) + 1 <= WaveWidth
    BY <1>1, <1>2, <1>6
  <2>4. /\ Take(s, target) \in Takes /\ Take(s, target).wave = Append(s.wave, target)
        /\ Take(s, target).seen = s.seen \union {address}
        /\ Take(s, target).logged = s.logged /\ Take(s, target).pending = s.pending
    BY <1>1, <1>2, <1>3, <2>1, <2>2 DEF Takes
  <2>5. s.seen \union {address}
          \subseteq crawl.seen \union {Canonical[as] : as \in Named(s.wave) \union {target.as}}
    BY <1>1 DEF address
  <2>6. Take(s, target) \in TakesOf(WaveWidth)
    BY <1>1, <2>2, <2>3, <2>4, <2>5 DEF TakesOf
  <2> QED BY <2>2, <2>4, <2>6
<1> QED BY <1>4, <1>5, <1>6

\* The loop over the pending targets keeps what one step keeps.
LEMMA TakenKeepsTargets ==
  ASSUME CollectorInv, crawl.total < MaxPages
  PROVE  /\ Taken \in TakesOf(WaveWidth)
         /\ Named(crawl.pending)
              \subseteq Named(Taken.pending) \union Named(Taken.wave) \union Taken.logged
<1> DEFINE base == [wave |-> <<>>, pending |-> <<>>, seen |-> crawl.seen, logged |-> crawl.logged]
<1>1. /\ crawl.pending \in Seq(Targets) /\ crawl.seen \subseteq Names /\ crawl.logged \subseteq Names
      /\ crawl.threads \in Nat \ {0} /\ crawl.total \in Nat
  BY CollectorAssumption DEF CollectorInv, CollectorTypeOK
<1>2. WaveWidth \in Nat
  BY <1>1, CollectorAssumption DEF WaveWidth
<1>3. PICK k \in Nat : k = Len(crawl.pending) /\ DOMAIN crawl.pending = 1..k
                       /\ \A i \in 1..k : crawl.pending[i] \in Targets
  BY <1>1
<1>4. base \in TakesOf(WaveWidth)
  <2>1. base \in Takes
    BY <1>1 DEF Takes
  <2>2. Len(base.wave) <= WaveWidth
    BY <1>2
  <2> QED BY <2>1, <2>2 DEF TakesOf
<1>5. Taken = TakeFold!Folded(0, base, crawl.pending, k)
  BY <1>3 DEF Taken, FoldLeft, MapThenFoldSet, TakeFold!Folded, TakeFold!Iterates, TakeOf
<1> HIDE DEF base
<1>6. PICK t : /\ t[0] = base
               /\ \A i \in 1..k : t[i] = Take(t[i - 1], crawl.pending[i])
               /\ Taken = t[k]
  <2>1. \E t : /\ t[0] = base
               /\ \A i \in 1..k : t[i] = TakeOf(0, t[i - 1], crawl.pending[i])
               /\ TakeFold!Folded(0, base, crawl.pending, k) = t[k]
    <3>1. TakeFold!IsLast(k)
      BY <1>3, LastIsMax
    <3> QED BY <3>1, TakeFold!FoldTrace
  <2> QED BY <1>5, <2>1 DEF TakeOf
<1> DEFINE Kept(s) == Named(s.pending) \union Named(s.wave) \union s.logged
           T == {i \in 0..k : /\ t[i] \in TakesOf(WaveWidth)
                              /\ \A j \in 1..i : crawl.pending[j].as \in Kept(t[i])}
<1>7. 0 \in T
  BY <1>3, <1>4, <1>6
<1>8. ASSUME NEW n \in 1..k, n - 1 \in T PROVE n \in T
  <2>1. /\ t[n] = Take(t[n - 1], crawl.pending[n]) /\ t[n - 1] \in TakesOf(WaveWidth)
        /\ crawl.pending[n] \in Targets
    BY <1>3, <1>6, <1>8
  <2>2. /\ t[n] \in TakesOf(WaveWidth)
        /\ Kept(t[n - 1]) \union {crawl.pending[n].as} \subseteq Kept(t[n])
    BY <1>2, <2>1, TakeKeepsTargets
  <2>3. \A j \in 1..n : j = n \/ j \in 1..(n - 1)
    OBVIOUS
  <2>4. \A j \in 1..(n - 1) : crawl.pending[j].as \in Kept(t[n - 1])
    BY <1>8
  <2> HIDE DEF Kept
  <2>5. \A j \in 1..n : crawl.pending[j].as \in Kept(t[n])
    BY <2>2, <2>3, <2>4
  <2> QED BY <2>2, <2>5
<1>9. k \in T
  <2> HIDE DEF T
  <2>1. \A n \in 1..k : n - 1 \in T => n \in T
    BY <1>8
  <2>2. 0..k \subseteq T
    BY <1>3, <1>7, <2>1, TakeFold!SetInduction
  <2> QED BY <1>3, <2>2
<1>10. \A as \in Named(crawl.pending) : \E j \in 1..k : as = crawl.pending[j].as
  BY <1>3 DEF Named
<1> QED BY <1>6, <1>9, <1>10

-----------------------------------------------------------------------------
(* A wave is merged *)

Merges ==
  [docs : Seq(Documents), pending : Seq(Targets), asked : SUBSET DOMAIN Canonical,
   seen : SUBSET Names, logged : SUBSET Names]

\* What holds of a merge before the result at place n + 1 of the wave.
MergesTo(n) ==
  {s \in Merges :
     /\ Ordered(s.docs, crawl.visits + n) /\ Len(s.docs) <= Len(collected) + n
     /\ Named(crawl.pending) \subseteq Named(s.pending)
     /\ s.asked \subseteq crawl.asked \union Named(s.pending)
     /\ crawl.logged \subseteq s.logged /\ s.seen \subseteq crawl.seen \union s.logged
     /\ Addresses(s.docs) \subseteq s.seen
     /\ \A j \in 1..n : Canonical[wave.targets[j].as] \in s.logged}

\* Merging the result at the next place.
LEMMA MergeKeepsOrder ==
  ASSUME CollectorInv, NEW n \in Nat, NEW s \in MergesTo(n), NEW b,
         b.of = n + 1, b.result \in Results,
         Canonical[wave.targets[n + 1].as] \in Attempted(b.result)
  PROVE  Merge(s, b) \in MergesTo(n + 1)
<1> DEFINE links == IF b.result.is = "page" /\ wave.targets[b.of].own
                    THEN Planned(b.result.page, WaveLinks) ELSE <<>>
           docs == Stored(s.docs, b.result, crawl.visits + b.of)
           seen == IF b.result.is = "page" THEN s.seen \union {b.result.address} ELSE s.seen
           logged == s.logged \union Attempted(b.result)
<1>1. /\ s \in Merges
      /\ Ordered(s.docs, crawl.visits + n) /\ Len(s.docs) <= Len(collected) + n
      /\ Named(crawl.pending) \subseteq Named(s.pending)
      /\ s.asked \subseteq crawl.asked \union Named(s.pending)
      /\ crawl.logged \subseteq s.logged /\ s.seen \subseteq crawl.seen \union s.logged
      /\ Addresses(s.docs) \subseteq s.seen
      /\ \A j \in 1..n : Canonical[wave.targets[j].as] \in s.logged
  BY DEF MergesTo
<1>2. crawl.visits \in Nat /\ Len(collected) \in Nat
  BY DEF CollectorInv, CollectorTypeOK
<1>3. /\ s.docs \in Seq(Documents) /\ s.pending \in Seq(Targets) /\ s.asked \subseteq DOMAIN Canonical
      /\ s.seen \subseteq Names /\ s.logged \subseteq Names
  BY <1>1 DEF Merges
<1>4. links \in Seq(Targets)
  <2>1. b.result.is = "page" => b.result.page \in Pages
    BY DEF Results
  <2> QED BY <2>1, PlannedType, CollectorAssumption
<1>5. /\ docs \in Seq(Documents) /\ Ordered(docs, crawl.visits + (n + 1))
      /\ Len(docs) <= Len(collected) + (n + 1)
  <2>1. /\ docs \in Seq(Documents) /\ Ordered(docs, crawl.visits + (n + 1))
        /\ Len(docs) <= Len(s.docs) + 1
    BY <1>1, <1>2, <1>3, StoredKeepsOrder
  <2> QED BY <1>1, <1>2, <1>3, <2>1
<1>15. Addresses(docs) \subseteq seen
  <2>1. crawl.visits + b.of \in Nat
    BY <1>2
  <2>2. Addresses(docs)
          \subseteq Addresses(s.docs) \union (IF b.result.is = "page" THEN {b.result.address} ELSE {})
    BY <1>3, <2>1, StoredAddresses
  <2> QED BY <1>1, <2>2
<1> HIDE DEF links, docs
<1>6. /\ Named(s.pending \o links) = Named(s.pending) \union Named(links)
      /\ s.pending \o links \in Seq(Targets) /\ Named(links) \subseteq DOMAIN Canonical
  BY <1>3, <1>4, NamedParts
<1>7. Attempted(b.result) \subseteq Names /\ (b.result.is = "page" => b.result.address \in Names)
  BY DEF Attempted, Results
<1>8. seen \subseteq Names /\ logged \subseteq Names /\ seen \subseteq crawl.seen \union logged
      /\ crawl.logged \subseteq logged
  <2>1. b.result.address \in Attempted(b.result)
    BY DEF Attempted
  <2> QED BY <1>1, <1>3, <1>7, <2>1
<1>9. \A j \in 1..(n + 1) : Canonical[wave.targets[j].as] \in logged
  <2>1. \A j \in 1..(n + 1) : j \in 1..n \/ j = n + 1
    OBVIOUS
  <2> QED BY <1>1, <2>1
<1> HIDE DEF seen, logged
<1> DEFINE new == [docs |-> docs, pending |-> s.pending \o links,
                   asked |-> s.asked \union Named(links), seen |-> seen, logged |-> logged]
<1>10. Merge(s, b) = new
  BY DEF Merge, Named, links, docs, seen, logged
<1>11. new \in Merges
  BY <1>3, <1>5, <1>6, <1>8 DEF Merges
<1>12. new.asked \subseteq crawl.asked \union Named(new.pending)
  BY <1>1, <1>6
<1>13. Named(crawl.pending) \subseteq Named(new.pending)
  BY <1>1, <1>6
<1>14. /\ new.docs = docs /\ new.seen = seen /\ new.logged = logged
  OBVIOUS
<1> HIDE DEF new
<1> QED BY <1>5, <1>8, <1>9, <1>10, <1>11, <1>12, <1>13, <1>14, <1>15 DEF MergesTo

\* Merging all results, in the order of the wave whatever order they came in.
LEMMA MergedKeepsOrder ==
  ASSUME CollectorInv, \A i \in DOMAIN wave.targets : \E k \in DOMAIN wave.back : wave.back[k].of = i
  PROVE  Merged \in MergesTo(Len(wave.targets))
<1> DEFINE base == [docs |-> collected, pending |-> crawl.pending, asked |-> crawl.asked,
                    seen |-> crawl.seen, logged |-> crawl.logged]
<1>1. PICK k \in Nat : k = Len(wave.targets) /\ DOMAIN wave.targets = 1..k
  BY DEF CollectorInv, CollectorTypeOK
<1>2. DOMAIN InWaveOrder = 1..k
  BY <1>1 DEF InWaveOrder
<1>3. ASSUME NEW i \in 1..k
      PROVE  /\ InWaveOrder[i].of = i /\ InWaveOrder[i].result \in Results
             /\ Canonical[wave.targets[i].as] \in Attempted(InWaveOrder[i].result)
  <2>1. PICK r \in DOMAIN wave.back : wave.back[r].of = i /\ InWaveOrder[i] = wave.back[r]
    BY <1>1 DEF InWaveOrder
  <2>2. wave.back \in Seq(Returned)
    BY DEF CollectorInv, CollectorTypeOK, Returned
  <2>3. wave.back[r] \in Returned
    BY <2>1, <2>2
  <2>4. Canonical[wave.targets[i].as] \in Attempted(wave.back[r].result)
    BY <2>1 DEF CollectorInv, WaveIsKept
  <2> QED BY <2>1, <2>3, <2>4 DEF Returned
<1>4. base \in MergesTo(0)
  <2>1. base \in Merges
    BY DEF CollectorInv, CollectorTypeOK, Merges
  <2>2. Ordered(base.docs, crawl.visits + 0) /\ Len(base.docs) <= Len(collected) + 0
    BY DEF CollectorInv, CollectorTypeOK
  <2>3. Addresses(base.docs) \subseteq base.seen
    BY DEF CollectorInv, Reported
  <2> QED BY <2>1, <2>2, <2>3 DEF MergesTo
<1>5. Merged = MergeFold!Folded(0, base, InWaveOrder, k)
  BY <1>2 DEF Merged, FoldLeft, MapThenFoldSet, MergeFold!Folded, MergeFold!Iterates, MergeOf
<1> HIDE DEF base
<1>6. PICK t : /\ t[0] = base
               /\ \A i \in 1..k : t[i] = Merge(t[i - 1], InWaveOrder[i])
               /\ Merged = t[k]
  <2>1. \E t : /\ t[0] = base
               /\ \A i \in 1..k : t[i] = MergeOf(0, t[i - 1], InWaveOrder[i])
               /\ MergeFold!Folded(0, base, InWaveOrder, k) = t[k]
    BY <1>1, LastIsMax, MergeFold!FoldTrace
  <2> QED BY <1>5, <2>1 DEF MergeOf
<1> DEFINE T == {i \in 0..k : t[i] \in MergesTo(i)}
<1>7. 0 \in T
  BY <1>1, <1>4, <1>6
<1>8. ASSUME NEW n \in 1..k, n - 1 \in T PROVE n \in T
  <2>1. t[n] = Merge(t[n - 1], InWaveOrder[n]) /\ t[n - 1] \in MergesTo(n - 1) /\ n - 1 \in Nat
        /\ (n - 1) + 1 = n
    BY <1>1, <1>6, <1>8
  <2>2. t[n] \in MergesTo((n - 1) + 1)
    BY <1>3, <2>1, MergeKeepsOrder
  <2> QED BY <2>1, <2>2
<1>9. k \in T
  <2> HIDE DEF T
  <2>1. \A n \in 1..k : n - 1 \in T => n \in T
    BY <1>8
  <2>2. 0..k \subseteq T
    BY <1>1, <1>7, <2>1, MergeFold!SetInduction
  <2> QED BY <1>1, <2>2
<1> QED BY <1>1, <1>6, <1>9

-----------------------------------------------------------------------------
(* The steps of a collection *)

\* A list that is cut at the budget, and what is cut off.
LEMMA UpToNames ==
  ASSUME NEW s \in Seq(Targets), NEW n \in Nat, n < Len(s)
  PROVE  /\ UpTo(s, n) \in Seq(Targets) /\ Len(UpTo(s, n)) = n
         /\ Named(s) = Named(UpTo(s, n)) \union {s[i].as : i \in (n + 1)..Len(s)}
<1>1. PICK m \in Nat : m = Len(s) /\ DOMAIN s = 1..m /\ n < m
  OBVIOUS
<1>2. /\ UpTo(s, n) \in Seq(Targets) /\ DOMAIN UpTo(s, n) = 1..n /\ Len(UpTo(s, n)) = n
      /\ \A i \in 1..n : UpTo(s, n)[i] = s[i]
  BY DEF UpTo
<1>3. \A i \in 1..m : i \in 1..n \/ i \in (n + 1)..m
  BY <1>1
<1>4. \A i \in 1..n : i \in 1..m
  BY <1>1
<1>5. \A i \in (n + 1)..m : i \in 1..m
  BY <1>1
<1> QED BY <1>1, <1>2, <1>3, <1>4, <1>5 DEF Named

LEMMA CollectorStart == CollectorInit => CollectorInv
<1> SUFFICES ASSUME CollectorInit PROVE CollectorInv
  OBVIOUS
<1>1. PICK targets \in TargetLists, threads \in Threads :
        LET cut == threads = 1 /\ Len(targets) > MaxPages
            over == IF cut THEN {targets[i].as : i \in (MaxPages + 1)..Len(targets)} ELSE {} IN
        crawl = [threads |-> threads,
                 pending |-> IF cut THEN UpTo(targets, MaxPages) ELSE targets,
                 asked |-> {targets[i].as : i \in DOMAIN targets},
                 total |-> IF threads > 1 THEN 0 ELSE IF cut THEN MaxPages ELSE Len(targets),
                 visits |-> 0, seen |-> {},
                 logged |-> over, unfetched |-> over, at |-> "next"]
  BY DEF CollectorInit
<1> DEFINE cut == threads = 1 /\ Len(targets) > MaxPages
           left == {targets[i].as : i \in (MaxPages + 1)..Len(targets)}
<1>2. collected = <<>> /\ wave = [targets |-> <<>>, back |-> <<>>]
  BY DEF CollectorInit
<1>3. /\ targets \in Seq(Targets) /\ Len(targets) \in Nat /\ MaxPages \in Nat /\ threads \in Nat \ {0}
      /\ threads \in Threads
  BY CollectorAssumption
<1>4. cut => /\ UpTo(targets, MaxPages) \in Seq(Targets) /\ Len(UpTo(targets, MaxPages)) = MaxPages
             /\ Named(targets) = Named(UpTo(targets, MaxPages)) \union left
  BY <1>3, UpToNames
<1>5. Named(targets) \subseteq DOMAIN Canonical /\ Named(<<>>) = {}
  BY <1>3, NamedParts
<1>6. /\ crawl.threads = threads /\ crawl.pending = IF cut THEN UpTo(targets, MaxPages) ELSE targets
      /\ crawl.asked = Named(targets) /\ crawl.visits = 0 /\ crawl.seen = {} /\ crawl.at = "next"
      /\ crawl.logged = (IF cut THEN left ELSE {}) /\ crawl.unfetched = crawl.logged
      /\ crawl.total = IF threads > 1 THEN 0 ELSE IF cut THEN MaxPages ELSE Len(targets)
  BY <1>1 DEF Named
<1>7. CollectorTypeOK
  <2>1. left \subseteq Names /\ Named(targets) \subseteq Names
    BY <1>3, <1>4, <1>5 DEF Names, Named, Targets
  <2>2. wave \in [targets : Seq(Targets), back : Seq(Returned)] /\ collected \in Seq(Documents)
    BY <1>2
  <2> HIDE DEF left, cut
  <2>4. crawl \in [threads : Threads, pending : Seq(Targets), asked : SUBSET DOMAIN Canonical,
                total : Nat, visits : Nat, seen : SUBSET Names, logged : SUBSET Names,
                unfetched : SUBSET Names, at : {"next", "raised", "fetching", "done"}]
    BY <1>1, <1>3, <1>4, <1>5, <2>1 DEF Named, cut, left
  <2> QED BY <2>2, <2>4 DEF CollectorTypeOK, Returned
<1> HIDE DEF left, cut
<1>8. BudgetKept
  <2>1. crawl.total <= MaxPages /\ (threads = 1 => Len(crawl.pending) <= crawl.total)
    BY <1>3, <1>4, <1>6 DEF cut
  <2> QED BY <1>2, <1>3, <1>4, <1>6, <2>1 DEF BudgetKept, Sequential, cut
<1>9. WaveIsKept
  BY <1>2, <1>6 DEF WaveIsKept
<1>10. Ordered(collected, crawl.visits) /\ SeenOnce
  BY <1>2 DEF Ordered, SeenOnce, Apart
<1>11. Accounted
  <2>1. Named(targets) \subseteq Named(crawl.pending) \union crawl.logged
    BY <1>4, <1>6
  <2> QED BY <1>2, <1>6, <2>1 DEF Accounted
<1>12. Reported
  <2>1. ~Sequential => crawl.unfetched = {}
    BY <1>6 DEF Sequential, cut
  <2> QED BY <1>2, <2>1 DEF Reported, Addresses
<1> QED BY <1>7, <1>8, <1>9, <1>10, <1>11, <1>12 DEF CollectorInv

LEMMA TakingAWave ==
  ASSUME CollectorInv, TakeWave PROVE CollectorInv'
<1>1. /\ crawl.threads > 1 /\ crawl.at = "next" /\ crawl.total < MaxPages
      /\ wave' = [targets |-> Taken.wave, back |-> <<>>]
      /\ crawl' = [crawl EXCEPT !.pending = Taken.pending, !.seen = Taken.seen,
              !.logged = Taken.logged, !.total = @ + Len(Taken.wave), !.at = "fetching"]
      /\ collected' = collected
  BY DEF TakeWave
<1>2. /\ Taken \in TakesOf(WaveWidth)
      /\ Named(crawl.pending) \subseteq Named(Taken.pending) \union Named(Taken.wave) \union Taken.logged
  BY <1>1, TakenKeepsTargets
<1>3. /\ Taken.wave \in Seq(Targets) /\ Taken.pending \in Seq(Targets)
      /\ Taken.seen \subseteq Names /\ Taken.logged \subseteq Names
      /\ Len(Taken.wave) <= WaveWidth /\ crawl.logged \subseteq Taken.logged
      /\ crawl.seen \subseteq Taken.seen
      /\ Taken.seen \subseteq crawl.seen \union {Canonical[as] : as \in Named(Taken.wave)}
  BY <1>2 DEF TakesOf, Takes
<1>4. CollectorTypeOK /\ MaxPages \in Nat
  BY CollectorAssumption DEF CollectorInv
<1>5. Len(Taken.wave) \in Nat /\ crawl.threads \in Nat /\ crawl.total \in Nat /\ crawl.visits \in Nat
  <2>1. crawl.threads \in Threads /\ crawl.total \in Nat /\ crawl.visits \in Nat
    BY <1>4 DEF CollectorTypeOK
  <2>2. Len(Taken.wave) \in Nat
    BY <1>3
  <2> QED BY <2>1, <2>2, CollectorAssumption
<1>6. Len(Taken.wave) <= MaxPages - crawl.total
  BY <1>3, <1>4, <1>5 DEF WaveWidth
<1>7. wave.targets = <<>> /\ Named(wave.targets) = {} /\ Len(wave.targets) = 0
  <2>1. wave.targets = <<>>
    BY <1>1 DEF CollectorInv, WaveIsKept
  <2> QED BY <1>3, <2>1, NamedParts
<1>8. CollectorTypeOK'
  <2>1. crawl.total + Len(Taken.wave) \in Nat
    BY <1>5
  <2>2. /\ crawl.threads \in Threads /\ crawl.asked \subseteq DOMAIN Canonical
        /\ crawl.unfetched \subseteq Names
        /\ crawl' = [threads |-> crawl.threads, pending |-> Taken.pending, asked |-> crawl.asked,
                    total |-> crawl.total + Len(Taken.wave), visits |-> crawl.visits,
                    seen |-> Taken.seen, logged |-> Taken.logged, unfetched |-> crawl.unfetched,
                    at |-> "fetching"]
    BY <1>1, <1>4 DEF CollectorTypeOK
  <2>3. wave' \in [targets : Seq(Targets), back : Seq(Returned)] /\ collected' \in Seq(Documents)
    BY <1>1, <1>3, <1>4 DEF CollectorTypeOK
  <2> QED BY <1>3, <1>5, <2>1, <2>2, <2>3 DEF CollectorTypeOK
<1>9. /\ wave'.targets = Taken.wave /\ wave'.back = <<>> /\ crawl'.threads = crawl.threads
      /\ crawl'.pending = Taken.pending /\ crawl'.seen = Taken.seen /\ crawl'.logged = Taken.logged
      /\ crawl'.total = crawl.total + Len(Taken.wave) /\ crawl'.at = "fetching"
      /\ crawl'.visits = crawl.visits /\ crawl'.asked = crawl.asked
      /\ crawl'.unfetched = crawl.unfetched
  BY <1>1, <1>4 DEF CollectorTypeOK
<1>10. BudgetKept'
  BY <1>1, <1>4, <1>5, <1>6, <1>7, <1>9 DEF CollectorInv, BudgetKept, Sequential
<1>11. WaveIsKept'
  BY <1>1, <1>5, <1>9 DEF WaveIsKept, Sequential
<1>12. Ordered(collected, crawl.visits)' /\ SeenOnce'
  BY <1>1, <1>5, <1>9 DEF CollectorInv, Ordered, SeenOnce, Sequential
<1>13. Accounted'
  <2>1. /\ \A as \in crawl.asked : \/ as \in Named(crawl.pending)
                                   \/ {as, Canonical[as]} \intersect crawl.logged # {}
        /\ crawl.seen \subseteq crawl.logged
    BY <1>7 DEF CollectorInv, Accounted
  <2>2. \A as \in crawl.asked : \/ as \in Named(Taken.pending) \union Named(Taken.wave)
                                \/ {as, Canonical[as]} \intersect Taken.logged # {}
    BY <1>2, <1>3, <2>1
  <2>3. Taken.seen \subseteq Taken.logged \union {Canonical[as] : as \in Named(Taken.wave)}
    BY <1>3, <2>1
  <2>4. Named(crawl.pending)' = Named(Taken.pending) /\ Named(wave.targets)' = Named(Taken.wave)
    BY <1>9 DEF Named
  <2> QED BY <1>9, <2>2, <2>3, <2>4 DEF Accounted
<1>14. Reported'
  <2>1. crawl.unfetched = {}
    BY <1>1, <1>5 DEF CollectorInv, Reported, Sequential
  <2> QED BY <1>1, <1>3, <1>9, <2>1 DEF CollectorInv, Reported, Addresses
<1> QED BY <1>8, <1>10, <1>11, <1>12, <1>13, <1>14 DEF CollectorInv

LEMMA MergingAWave ==
  ASSUME CollectorInv, MergeWave PROVE CollectorInv'
<1> DEFINE n == Len(wave.targets)
<1>1. /\ crawl.at = "fetching" /\ collected' = Merged.docs
      /\ crawl' = [crawl EXCEPT !.pending = Merged.pending, !.asked = Merged.asked,
              !.seen = Merged.seen, !.logged = Merged.logged, !.visits = @ + n, !.at = "next"]
      /\ wave' = [targets |-> <<>>, back |-> <<>>]
  BY DEF MergeWave
<1>2. Merged \in MergesTo(n)
  BY MergedKeepsOrder DEF MergeWave
<1>3. CollectorTypeOK
  BY DEF CollectorInv
<1>4. n \in Nat /\ crawl.visits \in Nat /\ crawl.total \in Nat /\ Len(collected) \in Nat
      /\ wave.targets \in Seq(Targets)
  BY <1>3 DEF CollectorTypeOK
<1>5. \A as \in Named(wave.targets) : \E j \in 1..n : as = wave.targets[j].as
  <2>1. DOMAIN wave.targets = 1..n
    BY <1>4
  <2> QED BY <2>1 DEF Named
<1> HIDE DEF n
<1>6. /\ Ordered(Merged.docs, crawl.visits + n) /\ Len(Merged.docs) <= Len(collected) + n
      /\ Named(crawl.pending) \subseteq Named(Merged.pending)
      /\ Merged.asked \subseteq crawl.asked \union Named(Merged.pending)
      /\ crawl.logged \subseteq Merged.logged /\ Merged.seen \subseteq crawl.seen \union Merged.logged
      /\ Addresses(Merged.docs) \subseteq Merged.seen
      /\ \A j \in 1..n : Canonical[wave.targets[j].as] \in Merged.logged
      /\ Merged \in Merges
  BY <1>2 DEF MergesTo
<1>7. /\ Merged.docs \in Seq(Documents) /\ Merged.pending \in Seq(Targets)
      /\ Merged.asked \subseteq DOMAIN Canonical
      /\ Merged.seen \subseteq Names /\ Merged.logged \subseteq Names
  BY <1>6 DEF Merges
<1>8. CollectorTypeOK'
  <2>1. crawl.visits + n \in Nat
    BY <1>4
  <2>2. /\ crawl.threads \in Threads /\ crawl.unfetched \subseteq Names
        /\ crawl' = [threads |-> crawl.threads, pending |-> Merged.pending, asked |-> Merged.asked,
                    total |-> crawl.total, visits |-> crawl.visits + n,
                    seen |-> Merged.seen, logged |-> Merged.logged, unfetched |-> crawl.unfetched,
                    at |-> "next"]
    BY <1>1, <1>3 DEF CollectorTypeOK
  <2>3. wave' \in [targets : Seq(Targets), back : Seq(Returned)]
    BY <1>1
  <2> QED BY <1>1, <1>4, <1>7, <2>1, <2>2, <2>3 DEF CollectorTypeOK
<1>9. /\ wave'.targets = <<>> /\ wave'.back = <<>> /\ crawl'.threads = crawl.threads
      /\ crawl'.pending = Merged.pending /\ crawl'.seen = Merged.seen /\ crawl'.logged = Merged.logged
      /\ crawl'.asked = Merged.asked /\ crawl'.at = "next"
      /\ crawl'.visits = crawl.visits + n /\ crawl'.total = crawl.total
      /\ crawl'.unfetched = crawl.unfetched
  BY <1>1, <1>3 DEF CollectorTypeOK
<1>10. ~Sequential
  BY <1>1 DEF CollectorInv, WaveIsKept
<1>11. BudgetKept'
  <2>1. Len(Merged.docs) \in Nat /\ Len(<<>>) = 0
    BY <1>7
  <2> QED BY <1>1, <1>4, <1>6, <1>9, <1>10, <2>1 DEF CollectorInv, BudgetKept, Sequential, n
<1>12. WaveIsKept'
  BY <1>9 DEF WaveIsKept
<1>13. Ordered(collected, crawl.visits)' /\ SeenOnce'
  BY <1>1, <1>6, <1>9, <1>10 DEF Ordered, SeenOnce, Sequential
<1>14. Accounted'
  <2>1. /\ \A as \in crawl.asked : \/ as \in Named(crawl.pending) \union Named(wave.targets)
                                   \/ {as, Canonical[as]} \intersect crawl.logged # {}
        /\ crawl.seen \subseteq crawl.logged \union {Canonical[as] : as \in Named(wave.targets)}
    BY DEF CollectorInv, Accounted
  <2>2. \A as \in Named(wave.targets) : Canonical[as] \in Merged.logged
    BY <1>5, <1>6
  <2>3. \A as \in Merged.asked : \/ as \in Named(Merged.pending)
                                 \/ {as, Canonical[as]} \intersect Merged.logged # {}
    BY <1>6, <2>1, <2>2
  <2>4. Merged.seen \subseteq Merged.logged
    BY <1>6, <2>1, <2>2
  <2>5. Named(crawl.pending)' = Named(Merged.pending)
    BY <1>9 DEF Named
  <2> QED BY <1>9, <2>3, <2>4, <2>5 DEF Accounted
<1>15. Reported'
  <2>1. crawl.unfetched = {}
    BY <1>1, <1>10 DEF CollectorInv, Reported
  <2> QED BY <1>1, <1>6, <1>9, <2>1 DEF Reported, Addresses
<1> QED BY <1>8, <1>11, <1>12, <1>13, <1>14, <1>15 DEF CollectorInv

LEMMA FetchingATarget ==
  ASSUME CollectorInv, NEW i \in 1..crawl.threads, Fetched(i)
  PROVE  CollectorInv'
<1> DEFINE fetch == [target |-> wave.targets[i], seen |-> {}]
<1>0. PICK result \in Followed(fetch) :
        wave' = [wave EXCEPT !.back = Append(@, [of |-> i, result |-> result])]
  BY DEF Fetched
<1> DEFINE answer == [of |-> i, result |-> result]
<1>1. /\ crawl.at = "fetching" /\ i \in DOMAIN wave.targets
      /\ wave' = [wave EXCEPT !.back = Append(@, answer)]
      /\ crawl' = crawl /\ collected' = collected
  BY <1>0 DEF Fetched
<1>2. CollectorTypeOK
  BY DEF CollectorInv
<1>3. wave.targets \in Seq(Targets) /\ wave.back \in Seq(Returned)
  BY <1>2 DEF CollectorTypeOK, Returned
<1>4. wave.targets[i] \in Targets /\ i \in Nat
  BY <1>1, <1>3
<1>5. answer \in Returned /\ answer.of = i /\ Canonical[wave.targets[i].as] \in Attempted(answer.result)
  <2>1. fetch.target = wave.targets[i]
    OBVIOUS
  <2> HIDE DEF fetch
  <2>2. result \in Results /\ Canonical[fetch.target.as] \in Attempted(result)
    BY <1>0, <1>4, <2>1, FollowedType
  <2> QED BY <1>4, <2>1, <2>2 DEF Returned
<1> HIDE DEF answer
<1>6. wave'.targets = wave.targets /\ wave'.back = Append(wave.back, answer)
  BY <1>1, <1>2 DEF CollectorTypeOK
<1>7. wave' \in [targets : Seq(Targets), back : Seq(Returned)]
  <2>1. Append(wave.back, answer) \in Seq(Returned)
    BY <1>3, <1>5
  <2> QED BY <1>1, <1>2, <1>3, <2>1 DEF CollectorTypeOK
<1>8. WaveIsKept'
  <2>1. PICK m \in Nat : m = Len(wave.back) /\ DOMAIN wave.back = 1..m
    BY <1>3
  <2>2. /\ DOMAIN Append(wave.back, answer) = 1..(m + 1)
        /\ Append(wave.back, answer)[m + 1] = answer
        /\ \A k \in 1..m : Append(wave.back, answer)[k] = wave.back[k]
    BY <1>3, <2>1
  <2>3. \A k \in 1..(m + 1) : k \in 1..m \/ k = m + 1
    BY <2>1
  <2>4. \A k \in 1..m : /\ wave.back[k].of \in DOMAIN wave.targets
                        /\ Canonical[wave.targets[wave.back[k].of].as] \in Attempted(wave.back[k].result)
    BY <2>1 DEF CollectorInv, WaveIsKept
  <2>5. \A k \in 1..(m + 1) :
          /\ wave'.back[k].of \in DOMAIN wave.targets
          /\ Canonical[wave.targets[wave'.back[k].of].as] \in Attempted(wave'.back[k].result)
    BY <1>1, <1>5, <1>6, <2>2, <2>3, <2>4
  <2>6. DOMAIN wave'.back = 1..(m + 1)
    BY <1>6, <2>2
  <2>7. ~Sequential'
    BY <1>1 DEF CollectorInv, WaveIsKept, Sequential
  <2>8. crawl'.at = "fetching"
    BY <1>1
  <2> QED BY <1>6, <2>5, <2>6, <2>7, <2>8 DEF WaveIsKept, Attempted
<1>9. /\ CollectorTypeOK' /\ BudgetKept' /\ Ordered(collected, crawl.visits)' /\ SeenOnce'
      /\ Accounted' /\ Reported'
  <2>1. CollectorTypeOK'
    BY <1>1, <1>2, <1>7 DEF CollectorTypeOK, Returned
  <2>2. Named(wave.targets)' = Named(wave.targets) /\ Named(crawl.pending)' = Named(crawl.pending)
    BY <1>1, <1>6 DEF Named
  <2> QED BY <1>1, <1>6, <2>1, <2>2
          DEF CollectorInv, BudgetKept, Sequential, Ordered, SeenOnce, Apart, Accounted, Reported,
              Addresses
<1> QED BY <1>8, <1>9 DEF CollectorInv

LEMMA CollectingATarget ==
  ASSUME CollectorInv, CollectNext PROVE CollectorInv'
<1> DEFINE target == Head(crawl.pending)
           address == Canonical[target.as]
           skip == address = "unsafe" \/ address \in crawl.seen
           fetch == [target |-> target, seen |-> crawl.seen]
           skipped == [crawl EXCEPT !.pending = Tail(@), !.logged = @ \union {target.as, address}]
<1>1. /\ crawl.threads = 1 /\ crawl.at = "next" /\ crawl.pending # <<>> /\ wave' = wave
      /\ IF skip THEN crawl' = skipped /\ collected' = collected
         ELSE \E result \in Followed(fetch) : Visit(target, result)
  BY DEF CollectNext
<1>2. CollectorTypeOK /\ MaxPages \in Nat
  BY CollectorAssumption DEF CollectorInv
<1>3. /\ crawl.pending \in Seq(Targets) /\ crawl.visits \in Nat /\ crawl.total \in Nat
      /\ crawl.asked \subseteq DOMAIN Canonical /\ crawl.seen \subseteq Names
      /\ crawl.logged \subseteq Names /\ collected \in Seq(Documents) /\ crawl.total <= MaxPages
      /\ crawl.unfetched \subseteq Names /\ crawl.threads \in Threads /\ Len(collected) <= crawl.visits
      /\ crawl.visits + Len(crawl.pending) <= crawl.total
  BY <1>1, <1>2 DEF CollectorTypeOK, CollectorInv, BudgetKept, Sequential
<1>4. /\ target \in Targets /\ Tail(crawl.pending) \in Seq(Targets)
      /\ Named(crawl.pending) = {target.as} \union Named(Tail(crawl.pending))
  BY <1>1, <1>3, NamedParts
<1>5. Len(Tail(crawl.pending)) = Len(crawl.pending) - 1 /\ Len(crawl.pending) \in Nat
  BY <1>1, <1>3
<1>6. wave.targets = <<>> /\ wave.back = <<>> /\ Named(<<>>) = {} /\ crawl.at # "fetching"
  BY <1>1, <1>3, NamedParts DEF CollectorInv, WaveIsKept
<1>7. /\ \A as \in crawl.asked : \/ as \in {target.as} \union Named(Tail(crawl.pending))
                                 \/ {as, Canonical[as]} \intersect crawl.logged # {}
      /\ crawl.seen \subseteq crawl.logged
  BY <1>4, <1>6 DEF CollectorInv, Accounted
<1>8. target.as \in Names /\ address \in Names
  BY <1>4 DEF Targets, Names
<1>9. CASE skip
  <2> HIDE DEF skip, address
  <2>1. crawl' = skipped /\ collected' = collected /\ wave' = wave
    BY <1>1, <1>9
  <2>2. crawl' = [threads |-> crawl.threads, pending |-> Tail(crawl.pending), asked |-> crawl.asked,
                  total |-> crawl.total, visits |-> crawl.visits, seen |-> crawl.seen,
                  logged |-> crawl.logged \union {target.as, address}, unfetched |-> crawl.unfetched,
                  at |-> crawl.at]
    BY <1>2, <2>1 DEF CollectorTypeOK
  <2> HIDE DEF target
  <2>3. CollectorTypeOK'
    <3>1. crawl.logged \union {target.as, address} \subseteq Names
      BY <1>3, <1>8
    <3>2. crawl' \in [threads : Threads, pending : Seq(Targets), asked : SUBSET DOMAIN Canonical,
                total : Nat, visits : Nat, seen : SUBSET Names, logged : SUBSET Names,
                unfetched : SUBSET Names, at : {"next", "raised", "fetching", "done"}]
      BY <1>1, <1>3, <1>4, <2>2, <3>1
    <3> QED BY <1>2, <2>1, <3>2 DEF CollectorTypeOK, Returned
  <2>4. BudgetKept' /\ WaveIsKept' /\ Ordered(collected, crawl.visits)' /\ SeenOnce'
    BY <1>1, <1>3, <1>5, <1>6, <2>1, <2>2
    DEF CollectorInv, BudgetKept, WaveIsKept, Ordered, SeenOnce, Apart, Sequential
  <2>5. Accounted'
    <3>0. crawl'.pending = Tail(crawl.pending) /\ wave'.targets = <<>>
      BY <1>6, <2>1, <2>2
    <3>1. Named(crawl.pending)' = Named(Tail(crawl.pending)) /\ Named(wave.targets)' = Named(<<>>)
      BY <3>0 DEF Named
    <3>2. \A as \in crawl.asked :
            \/ as \in Named(Tail(crawl.pending))
            \/ {as, Canonical[as]} \intersect (crawl.logged \union {target.as, address}) # {}
      BY <1>7
    <3>3. crawl.seen \subseteq crawl.logged \union {target.as, address} /\ crawl'.at # "done"
      BY <1>1, <1>7, <2>2
    <3>4. Named(wave.targets)' = {}
      BY <1>6, <3>1
    <3> QED BY <2>2, <3>1, <3>2, <3>3, <3>4 DEF Accounted
  <2>6. Reported'
    BY <1>1, <2>1, <2>2 DEF CollectorInv, Reported, Addresses, Sequential
  <2> QED BY <2>3, <2>4, <2>5, <2>6 DEF CollectorInv
<1>10. CASE ~skip
  <2> HIDE DEF skip, address
  <2>0. PICK result \in Followed(fetch) : Visit(target, result)
    BY <1>1, <1>10
  <2> DEFINE own == result.is = "page" /\ target.own
             links == IF own THEN Planned(result.page, FreeSlots) ELSE <<>>
             raises == own /\ FreeSlots > 0 /\ result.page.malformed
             visited == [crawl EXCEPT
                   !.pending = Tail(@) \o links, !.total = @ + Len(links), !.visits = @ + 1,
                   !.asked = @ \union Named(links),
                   !.seen = IF result.is = "error" THEN @ ELSE @ \union result.chain,
                   !.logged = @ \union Attempted(result), !.at = IF raises THEN "raised" ELSE @]
             docs == Stored(collected, result, crawl.visits + 1)
  <2>1. crawl' = visited /\ collected' = docs /\ wave' = wave
    BY <1>1, <2>0 DEF Visit, Named
  <2>2. fetch.target = target /\ fetch.seen = crawl.seen
    OBVIOUS
  <2> HIDE DEF fetch
  <2>3. /\ result \in Results /\ address \in Attempted(result)
        /\ result.is = "page" => result.address \in result.chain \ crawl.seen
    BY <1>4, <2>0, <2>2, FollowedType DEF address
  <2>4. FreeSlots \in Nat /\ FreeSlots = MaxPages - crawl.total
    BY <1>2, <1>3 DEF FreeSlots
  <2>5. links \in Seq(Targets) /\ Len(links) <= FreeSlots /\ Len(links) \in Nat
    <3>1. result.is = "page" => result.page \in Pages
      BY <2>3 DEF Results
    <3>2. CASE own
      BY <2>4, <3>1, <3>2, PlannedType
    <3>3. CASE ~own
      BY <2>4, <3>3
    <3> QED BY <3>2, <3>3
  <2>6. /\ docs \in Seq(Documents) /\ Ordered(docs, crawl.visits + 1)
        /\ Len(docs) <= Len(collected) + 1 /\ Len(docs) \in Nat
    <3>1. Ordered(collected, crawl.visits)
      BY DEF CollectorInv
    <3>2. crawl.visits + 1 \in Nat /\ crawl.visits < crawl.visits + 1
      BY <1>3
    <3>3. /\ docs \in Seq(Documents) /\ Ordered(docs, crawl.visits + 1)
          /\ Len(docs) <= Len(collected) + 1
      BY <1>3, <2>3, <3>1, <3>2, StoredKeepsOrder
    <3> QED BY <3>3
  <2>7. result.chain \subseteq Attempted(result) /\ Attempted(result) \subseteq Names
    BY <2>3 DEF Results, Attempted
  <2> DEFINE seen == IF result.is = "error" THEN crawl.seen ELSE crawl.seen \union result.chain
             at == IF raises THEN "raised" ELSE crawl.at
  <2>8. crawl' = [threads |-> crawl.threads, pending |-> Tail(crawl.pending) \o links,
                  asked |-> crawl.asked \union Named(links),
                  total |-> crawl.total + Len(links), visits |-> crawl.visits + 1, seen |-> seen,
                  logged |-> crawl.logged \union Attempted(result), unfetched |-> crawl.unfetched,
                  at |-> at]
    <3> HIDE DEF links, target, raises
    <3> QED BY <1>2, <2>1 DEF CollectorTypeOK
  <2>9. Apart(docs, seen)
    <3>1. Apart(collected, crawl.seen)
      BY <1>1 DEF CollectorInv, SeenOnce, Sequential
    <3>2. /\ crawl.seen \subseteq seen
          /\ result.is = "page" => result.address \in seen /\ result.address \notin crawl.seen
      BY <2>3
    <3> HIDE DEF seen
    <3>3. crawl.visits + 1 \in Nat
      BY <1>3
    <3> QED BY <1>3, <2>3, <3>1, <3>2, <3>3, StoredKeepsApart
  <2>10. at \in {"next", "raised"} /\ seen \subseteq crawl.seen \union Attempted(result)
    BY <1>1, <2>7
  <2> HIDE DEF target, links, docs, seen, at
  <2>11. /\ Tail(crawl.pending) \o links \in Seq(Targets) /\ Named(links) \subseteq DOMAIN Canonical
         /\ Named(Tail(crawl.pending) \o links) = Named(Tail(crawl.pending)) \union Named(links)
         /\ Len(Tail(crawl.pending) \o links) = Len(Tail(crawl.pending)) + Len(links)
    <3> DEFINE rest == Tail(crawl.pending)
    <3>1. rest \in Seq(Targets)
      BY <1>4
    <3> HIDE DEF rest
    <3>2. /\ rest \o links \in Seq(Targets) /\ Named(links) \subseteq DOMAIN Canonical
          /\ Named(rest \o links) = Named(rest) \union Named(links)
      BY <2>5, <3>1, NamedParts
    <3>3. Len(rest \o links) = Len(rest) + Len(links)
      BY <2>5, <3>1
    <3> QED BY <3>2, <3>3 DEF rest
  <2>12. CollectorTypeOK'
    <3>1. crawl.total + Len(links) \in Nat /\ crawl.visits + 1 \in Nat
      BY <1>3, <2>5
    <3>2. seen \subseteq Names /\ crawl.logged \union Attempted(result) \subseteq Names
      BY <1>3, <2>7, <2>10
    <3>3. crawl.asked \union Named(links) \subseteq DOMAIN Canonical
      BY <1>3, <2>11
    <3>4. wave' \in [targets : Seq(Targets), back : Seq(Returned)]
      BY <1>2, <2>1 DEF CollectorTypeOK, Returned
    <3>5. collected' \in Seq(Documents)
      BY <2>1, <2>6
    <3>6. crawl' \in [threads : Threads, pending : Seq(Targets), asked : SUBSET DOMAIN Canonical,
                total : Nat, visits : Nat, seen : SUBSET Names, logged : SUBSET Names,
                unfetched : SUBSET Names, at : {"next", "raised", "fetching", "done"}]
      BY <1>3, <2>8, <2>10, <2>11, <3>1, <3>2, <3>3
    <3> QED BY <3>4, <3>5, <3>6 DEF CollectorTypeOK, Returned
  <2>13. BudgetKept'
    <3>1. Len(docs) <= crawl.visits + 1
      BY <1>3, <2>6
    <3>2. crawl.total + Len(links) <= MaxPages
      BY <1>2, <1>3, <2>4, <2>5
    <3>3. crawl.visits + 1 + Len(Tail(crawl.pending) \o links) <= crawl.total + Len(links)
      BY <1>3, <1>5, <2>5, <2>11
    <3> QED BY <1>1, <2>1, <2>8, <3>1, <3>2, <3>3 DEF BudgetKept, Sequential
  <2>14. WaveIsKept'
    BY <1>6, <2>1, <2>8, <2>10 DEF WaveIsKept, Sequential
  <2>15. Ordered(collected, crawl.visits)' /\ SeenOnce'
    <3>0. collected' = docs
      BY <2>1
    <3>1. crawl'.visits = crawl.visits + 1 /\ crawl'.seen = seen
      BY <2>8
    <3>2. Ordered(collected, crawl.visits)'
      BY <2>6, <3>0, <3>1 DEF Ordered
    <3>3. Apart(collected, crawl.seen)'
      BY <2>9, <3>0, <3>1 DEF Apart
    <3> QED BY <3>2, <3>3 DEF SeenOnce
  <2>16. Accounted'
    <3>0. crawl'.pending = Tail(crawl.pending) \o links /\ wave'.targets = <<>>
      BY <1>6, <2>1, <2>8
    <3>6. /\ Named(crawl.pending)' = Named(Tail(crawl.pending) \o links)
          /\ Named(wave.targets)' = Named(<<>>)
      BY <3>0 DEF Named
    <3>1. /\ Named(crawl.pending)' = Named(Tail(crawl.pending)) \union Named(links)
          /\ Named(wave.targets)' = {}
      BY <1>6, <2>11, <3>6
    <3>2. Canonical[target.as] \in crawl.logged \union Attempted(result)
      BY <2>3 DEF address
    <3>3. \A as \in crawl.asked \union Named(links) :
            \/ as \in Named(Tail(crawl.pending)) \union Named(links)
            \/ {as, Canonical[as]} \intersect (crawl.logged \union Attempted(result)) # {}
      BY <1>7, <3>2
    <3>4. seen \subseteq crawl.logged \union Attempted(result)
      BY <1>7, <2>10
    <3>5. crawl'.at # "done"
      BY <2>8, <2>10
    <3> QED BY <2>8, <3>1, <3>3, <3>4, <3>5 DEF Accounted
  <2>17. Reported'
    <3>1. Addresses(docs) \subseteq seen
      BY <2>9 DEF Apart, Addresses
    <3>2. collected' = docs
      BY <2>1
    <3>3. crawl'.seen = seen /\ crawl'.threads = 1
      BY <1>1, <2>8
    <3> QED BY <3>1, <3>2, <3>3 DEF Reported, Addresses, Sequential
  <2> QED BY <2>12, <2>13, <2>14, <2>15, <2>16, <2>17 DEF CollectorInv
<1> QED BY <1>9, <1>10

LEMMA FinishingACollection ==
  ASSUME CollectorInv, FinishCollection PROVE CollectorInv'
<1>1. /\ crawl.at = "next" /\ collected' = collected /\ wave' = wave
      /\ crawl' = [crawl EXCEPT !.at = "done", !.unfetched = @ \union LeftOver,
                                !.logged = @ \union LeftOver]
  BY DEF FinishCollection
<1>2. CollectorTypeOK
  BY DEF CollectorInv
<1>3. LeftOver = Named(crawl.pending) \ crawl.seen
  BY DEF LeftOver, Named
<1>4. /\ wave.targets = <<>> /\ wave.back = <<>> /\ Named(<<>>) = {}
      /\ Named(crawl.pending) \subseteq DOMAIN Canonical
  <2>1. crawl.pending \in Seq(Targets)
    BY <1>2 DEF CollectorTypeOK
  <2> QED BY <1>1, <2>1, NamedParts DEF CollectorInv, WaveIsKept
<1>5. crawl' = [threads |-> crawl.threads, pending |-> crawl.pending, asked |-> crawl.asked,
                total |-> crawl.total, visits |-> crawl.visits, seen |-> crawl.seen,
                logged |-> crawl.logged \union LeftOver,
                unfetched |-> crawl.unfetched \union LeftOver, at |-> "done"]
  BY <1>1, <1>2 DEF CollectorTypeOK
<1>6. CollectorTypeOK'
  <2>1. /\ crawl.threads \in Threads /\ crawl.pending \in Seq(Targets) /\ crawl.total \in Nat
        /\ crawl.asked \subseteq DOMAIN Canonical /\ crawl.visits \in Nat
        /\ crawl.seen \subseteq Names /\ crawl.logged \subseteq Names
        /\ crawl.unfetched \subseteq Names
    BY <1>2 DEF CollectorTypeOK
  <2>2. LeftOver \subseteq Names
    BY <1>3, <1>4 DEF Names
  <2>3. crawl.logged \union LeftOver \subseteq Names /\ crawl.unfetched \union LeftOver \subseteq Names
    BY <2>1, <2>2
  <2>4. crawl' \in [threads : Threads, pending : Seq(Targets), asked : SUBSET DOMAIN Canonical,
                total : Nat, visits : Nat, seen : SUBSET Names, logged : SUBSET Names,
                unfetched : SUBSET Names, at : {"next", "raised", "fetching", "done"}]
    BY <1>5, <2>1, <2>2, <2>3
  <2> QED BY <1>1, <1>2, <2>4 DEF CollectorTypeOK, Returned
<1>7. BudgetKept' /\ WaveIsKept' /\ Ordered(collected, crawl.visits)' /\ SeenOnce'
  <2>1. /\ crawl'.threads = crawl.threads /\ crawl'.pending = crawl.pending /\ crawl'.at = "done"
        /\ crawl'.total = crawl.total /\ crawl'.visits = crawl.visits /\ crawl'.seen = crawl.seen
    BY <1>5
  <2>2. BudgetKept'
    BY <1>1, <2>1 DEF CollectorInv, BudgetKept, Sequential
  <2>3. WaveIsKept'
    BY <1>1, <1>4, <2>1 DEF WaveIsKept
  <2>4. Ordered(collected, crawl.visits)' /\ SeenOnce'
    BY <1>1, <2>1 DEF CollectorInv, Ordered, SeenOnce, Apart, Sequential
  <2> QED BY <2>2, <2>3, <2>4
<1>8. Accounted'
  <2>1. /\ \A as \in crawl.asked : \/ as \in Named(crawl.pending)
                                   \/ {as, Canonical[as]} \intersect crawl.logged # {}
        /\ crawl.seen \subseteq crawl.logged
    BY <1>4 DEF CollectorInv, Accounted
  <2>0. crawl'.pending = crawl.pending /\ wave'.targets = <<>>
    BY <1>1, <1>4, <1>5
  <2>2. Named(crawl.pending)' = Named(crawl.pending) /\ Named(wave.targets)' = Named(<<>>)
    BY <2>0 DEF Named
  <2>3. \A as \in crawl.asked : {as, Canonical[as]} \intersect (crawl.logged \union LeftOver) # {}
    BY <1>3, <2>1
  <2> QED BY <1>4, <1>5, <2>1, <2>2, <2>3 DEF Accounted
<1>9. Reported'
  <2>1. LeftOver \intersect crawl.seen = {}
    BY <1>3
  <2> QED BY <1>1, <1>5, <2>1 DEF CollectorInv, Reported, Addresses, Sequential
<1> QED BY <1>6, <1>7, <1>8, <1>9 DEF CollectorInv

LEMMA CollectorStep ==
  CollectorInv /\ [CollectorNext]_collectorVars => CollectorInv'
<1> SUFFICES ASSUME CollectorInv, [CollectorNext]_collectorVars PROVE CollectorInv'
  OBVIOUS
<1>1. CASE UNCHANGED collectorVars
  <2>1. crawl' = crawl /\ collected' = collected /\ wave' = wave
    BY <1>1 DEF collectorVars
  <2> QED BY <2>1 DEF CollectorInv, CollectorTypeOK, BudgetKept, Sequential, WaveIsKept, Ordered,
                      SeenOnce, Apart, Accounted, Reported, Addresses, Named, Returned
<1>2. CASE CollectorNext
  BY <1>2, CollectingATarget, TakingAWave, FetchingATarget, MergingAWave, FinishingACollection
  DEF CollectorNext
<1> QED BY <1>1, <1>2

\* The inductive invariant holds of every collection.
THEOREM CollectorInvariant == CollectorSpec => []CollectorInv
BY CollectorStart, CollectorStep, PTL DEF CollectorSpec

\* However many links the pages of a wave plan, and whatever the fetches answer or lose, a
\* call fetches at most its page budget (collector.py, total and max_pages).
THEOREM PageBudgetIsKept == CollectorSpec => []PageBudgetHolds
<1>1. CollectorInv => PageBudgetHolds
  <2> SUFFICES ASSUME CollectorInv PROVE PageBudgetHolds
    OBVIOUS
  <2>1. /\ crawl.visits \in Nat /\ crawl.total \in Nat /\ Len(collected) \in Nat /\ MaxPages \in Nat
        /\ Len(wave.targets) \in Nat /\ Len(crawl.pending) \in Nat
    BY CollectorAssumption DEF CollectorInv, CollectorTypeOK
  <2>2. Sequential => wave.targets = <<>> /\ Len(<<>>) = 0
    BY DEF CollectorInv, WaveIsKept
  <2> QED BY <2>1, <2>2 DEF CollectorInv, BudgetKept, PageBudgetHolds
<1> QED BY <1>1, CollectorInvariant, PTL

\* In whatever order the fetches of a wave end, and whatever each of them is answered, the
\* documents stand in the order of their targets and no content is stored twice (the docstring
\* of _collect_parallel); one after the other, no address is.
THEOREM ResultStaysStable == CollectorSpec => []ResultIsStable
<1>1. CollectorInv => ResultIsStable
  BY DEF CollectorInv, Ordered, SeenOnce, Apart, Sequential, ResultIsStable
<1> QED BY <1>1, CollectorInvariant, PTL

\* No target of the call and no planned link disappears: each is named by an attempt; and
\* what waves report as over the page limit is the address of no document.
THEOREM EveryTargetIsLogged == CollectorSpec => []NothingIsDroppedSilently
<1>1. CollectorInv => NothingIsDroppedSilently
  <2> SUFFICES ASSUME CollectorInv, crawl.at = "done"
               PROVE  /\ \A as \in crawl.asked : {as, Canonical[as]} \intersect crawl.logged # {}
                      /\ crawl.threads > 1 =>
                           \A as \in crawl.unfetched : \A i \in DOMAIN collected : collected[i].address # as
    BY DEF NothingIsDroppedSilently
  <2>1. \A as \in crawl.asked : {as, Canonical[as]} \intersect crawl.logged # {}
    BY DEF CollectorInv, Accounted
  <2>2. ASSUME crawl.threads > 1, NEW as \in crawl.unfetched, NEW i \in DOMAIN collected
        PROVE  collected[i].address # as
    <3>0. ~Sequential
      BY <2>2, CollectorAssumption DEF CollectorInv, CollectorTypeOK, Sequential
    <3>1. as \notin crawl.seen
      BY <2>2, <3>0 DEF CollectorInv, Reported
    <3>2. collected[i].address \in crawl.seen
      BY DEF CollectorInv, Reported, Addresses
    <3> QED BY <3>1, <3>2
  <2> QED BY <2>1, <2>2
<1> QED BY <1>1, CollectorInvariant, PTL
==============================================================================
