------------------------------ MODULE Discovery ------------------------------
(***************************************************************************)
(* Company discovery.  POST /discovery-runs (api/discovery.py) answers from *)
(* a recent run with the same request, from the local catalogue, from      *)
(* Wikidata with one retry, and when that fails from whatever there is.    *)
(* The catalogue sync (catalog/sync.py) fills the same table page by page, *)
(* and a confirmed candidate becomes a company to research.                *)
(***************************************************************************)
EXTENDS CandidateRules

CONSTANTS
  Requests,     \* requests that are made
  Visitors,     \* requests being served
  Recent,       \* a run this old is answered again
  LastMinute,   \* bound on the clock
  PageSize,     \* rows the sync asks for at once
  SyncLimit     \* companies the sync may add

ASSUME DiscoveryAssumption ==
  /\ Recent \in Nat /\ PageSize \in Nat \ {0} /\ SyncLimit \in Nat
  /\ \A q \in Requests : q.minimum \in Nat /\ q.limit \in Nat

VARIABLES
  catalog,        \* rows of company_catalog
  discoveryRuns,  \* rows of discovery_runs, oldest first
  companies,      \* domains confirmed for research
  visits,         \* requests
  sync,           \* offset, companies counted, and the page being stored by the sync
  minute          \* the clock

discoveryVars == <<catalog, discoveryRuns, companies, visits, sync, minute>>

-----------------------------------------------------------------------------
(* discovery/catalog.py *)

SameCompany(row, c) == row.entity = c.entity \/ row.domain = c.domain

\* A row that has the entity or the domain is updated, any of them when there are
\* two; entity and domain of the row stay.
StoredInto(rows, c) ==
  LET same == {row \in rows : SameCompany(row, c)}
      update(row) == [c EXCEPT !.entity = row.entity, !.domain = row.domain]
  IN  IF same = {} THEN {rows \union {c}}
      ELSE {(rows \ {row}) \union {update(row)} : row \in same}

\* store_candidates: the tables it can leave behind.
StoreNext(tables, c) == UNION {StoredInto(rows, c) : rows \in tables}
Upserted(rows, candidates) == FoldLeft(StoreNext, {rows}, candidates)

\* Largest first, unknown last.
Size(row) == IF row.employees = Unknown THEN -1 ELSE row.employees
LargestFirst(rows) ==
  CHOOSE order \in [1..Cardinality(rows) -> rows] :
    \A i, j \in DOMAIN order :
      i < j => Size(order[i]) >= Size(order[j]) /\ order[i] # order[j]

\* CatalogDiscovery.discover: the industry is a preference here.
FromCatalog(q) ==
  LET rows == {row \in catalog : /\ q.countries = {} \/ row.country \in q.countries
                                 /\ LargeEnough(row.employees, q)}
  IN  FirstOf(Preferred(LargestFirst(rows), Industries(q)), q.limit)

-----------------------------------------------------------------------------
(* api/discovery.py *)

NoVisit == [at |-> "idle", asked |-> 0, request |-> Unknown, tries |-> 0, run |-> 0,
            base |-> {}, rows |-> {}, candidates |-> <<>>]

DiscoveryInit ==
  /\ catalog = {} /\ discoveryRuns = <<>> /\ companies = {}
  /\ visits = [v \in Visitors |-> NoVisit]
  /\ sync = [offset |-> 0, counted |-> 0, at |-> "page", rows |-> {}, base |-> {}]
  /\ minute = 0

\* Mutant: the newest run, whatever it was asked.
AnyRun(q, runs) == {i \in runs : \A j \in runs : j <= i}

\* The newest run with this request among the runs given.
LastOf(q, runs) ==
  LET same == {i \in runs : discoveryRuns[i].request = q}
  IN  {i \in same : \A j \in same : j <= i}

RecentRuns == {i \in DOMAIN discoveryRuns : discoveryRuns[i].at >= minute - Recent}

Visit(v, visit) == visits' = [visits EXCEPT ![v] = visit]
OnlyVisits == UNCHANGED <<catalog, discoveryRuns, companies, sync, minute>>
Finish(v, a, run) == Visit(v, [visits[v] EXCEPT !.at = a, !.run = run])

\* The cache, then the catalogue when it fills the limit.
AskDiscovery(v, q) ==
  /\ visits[v].at = "idle"
  /\ LET cached == LastOf(q, RecentRuns)
         local == FromCatalog(q)
         visit == [NoVisit EXCEPT !.asked = minute, !.request = q, !.candidates = local]
     IN  \/ \E i \in cached : Visit(v, [visit EXCEPT !.at = "answered", !.run = i])
         \/ cached = {} /\ Len(local) >= q.limit /\ Visit(v, [visit EXCEPT !.at = "save"])
         \/ cached = {} /\ Len(local) < q.limit /\ Visit(v, [visit EXCEPT !.at = "provider"])
  /\ OnlyVisits

\* Wikidata answers; the catalogue is read for the upsert, to be flushed next.
Discovered(v) ==
  /\ visits[v].at = "provider"
  /\ LET candidates == FromWikidata(visits[v].request) IN
     \E rows \in Upserted(catalog, candidates) :
       Visit(v, [visits[v] EXCEPT !.at = "store", !.candidates = candidates,
                                  !.base = catalog, !.rows = rows])
  /\ OnlyVisits

\* A first failure is retried; after the second the local candidates, then the newest
\* run with this request, of any age, must do.
ProviderFails(v) ==
  /\ visits[v].at = "provider"
  /\ LET q == visits[v].request IN
     \/ visits[v].tries = 0 /\ Visit(v, [visits[v] EXCEPT !.tries = 1])
     \/ /\ visits[v].tries = 1 /\ visits[v].candidates # <<>>
        /\ Visit(v, [visits[v] EXCEPT !.tries = 2, !.at = "save"])
     \/ /\ visits[v].tries = 1 /\ visits[v].candidates = <<>>
        /\ LET any == LastOf(q, DOMAIN discoveryRuns) IN
           \/ \E i \in any : Visit(v, [visits[v] EXCEPT !.tries = 2, !.at = "answered", !.run = i])
           \/ any = {} /\ Visit(v, [visits[v] EXCEPT !.tries = 2, !.at = "unavailable"])
  /\ OnlyVisits

\* Rows written on top of what others have committed since; an inserted row meets the
\* unique keys uq_catalog_entity and uq_catalog_domain.
Inserted(base, rows) == {row \in rows : \A old \in base : old.entity # row.entity}
Conflicts(base, rows) ==
  \E row \in Inserted(base, rows), other \in catalog : SameCompany(other, row)
Merged(base, rows) ==
  (rows \ base) \union {old \in catalog : \A row \in rows \ base : row.entity # old.entity}

RunOf(v) == LET visit == visits[v] IN
  [request |-> visit.request, at |-> minute, confirmed |-> {},
   candidates |-> [i \in DOMAIN visit.candidates |->
     [c |-> visit.candidates[i],
      is |-> Qualification(visit.candidates[i], visit.request)]]]

\* One transaction stores candidates and run; a conflict ends the request.
SaveDiscovery(v) ==
  /\ visits[v].at \in {"save", "store"}
  /\ IF visits[v].at = "store" /\ Conflicts(visits[v].base, visits[v].rows)
     THEN Finish(v, "error", 0) /\ UNCHANGED <<catalog, discoveryRuns>>
     ELSE /\ catalog' = IF visits[v].at = "store"
                        THEN Merged(visits[v].base, visits[v].rows) ELSE catalog
          /\ discoveryRuns' = Append(discoveryRuns, RunOf(v))
          /\ Finish(v, "answered", Len(discoveryRuns) + 1)
  /\ UNCHANGED <<companies, sync, minute>>

\* POST /discovery-runs/{id}/confirm: candidates of the run that are not out of ICP.
Confirm(i, domains) ==
  /\ i \in DOMAIN discoveryRuns /\ domains # {}
  /\ LET available == {k \in DOMAIN discoveryRuns[i].candidates :
                         discoveryRuns[i].candidates[k].c.domain \in domains}
     IN  /\ domains = {discoveryRuns[i].candidates[k].c.domain : k \in available}
         /\ \A k \in available : discoveryRuns[i].candidates[k].is # "out"
  /\ companies' = companies \union domains
  /\ discoveryRuns' = [discoveryRuns EXCEPT ![i].confirmed = domains]
  /\ UNCHANGED <<catalog, visits, sync, minute>>

-----------------------------------------------------------------------------
(* catalog/sync.py, for one country *)

SyncRequest == [countries |-> {}, industry |-> Unknown, industries |-> {}, minimum |-> 2,
                unknown |-> TRUE, limit |-> SyncLimit]

PageLimit == IF SyncLimit - sync.counted < PageSize THEN SyncLimit - sync.counted ELSE PageSize

\* A page that is empty, filtered out whole, or failed ends the country.
SyncPage ==
  /\ sync.at = "page"
  /\ LET page == WikidataPage(SyncRequest, PageLimit,
                              ServerRows(SyncRequest, PageLimit, sync.offset))
     IN  IF sync.counted >= SyncLimit \/ page = <<>>
         THEN sync' = [sync EXCEPT !.at = "end"]
         ELSE \/ sync' = [sync EXCEPT !.at = "end"]
              \/ \E rows \in Upserted(catalog, page) :
                   sync' = [sync EXCEPT !.at = "store", !.base = catalog, !.rows = rows]
  /\ UNCHANGED <<catalog, discoveryRuns, companies, visits, minute>>

\* What was added is the difference of two counts of the whole table: rows that
\* others commit between the counts are counted too.
SyncStore ==
  /\ sync.at = "store"
  /\ IF Conflicts(sync.base, sync.rows)
     THEN sync' = [sync EXCEPT !.at = "end"] /\ UNCHANGED catalog
     ELSE /\ catalog' = Merged(sync.base, sync.rows)
          /\ sync' = [sync EXCEPT !.at = "page", !.offset = @ + PageSize, !.rows = {}, !.base = {},
               !.counted = @ + Cardinality(Merged(sync.base, sync.rows)) - Cardinality(sync.base)]
  /\ UNCHANGED <<discoveryRuns, companies, visits, minute>>

Minute ==
  minute < LastMinute /\ minute' = minute + 1
  /\ UNCHANGED <<catalog, discoveryRuns, companies, visits, sync>>

Domains == {Wikidata[i].domain : i \in DOMAIN Wikidata}

DiscoveryNext ==
  \/ \E v \in Visitors : \/ \E q \in Requests : AskDiscovery(v, q)
                         \/ Discovered(v) \/ ProviderFails(v) \/ SaveDiscovery(v)
  \/ \E i \in DOMAIN discoveryRuns, domains \in SUBSET Domains : Confirm(i, domains)
  \/ SyncPage \/ SyncStore \/ Minute

DiscoverySpec == DiscoveryInit /\ [][DiscoveryNext]_discoveryVars

-----------------------------------------------------------------------------
(* Properties *)

\* A run that is answered is one of the request asked, and an old one only after two
\* failures of Wikidata with nothing in the catalogue.
AnswersFitTheRequest ==
  \A v \in Visitors :
    visits[v].at = "answered" =>
      /\ discoveryRuns[visits[v].run].request = visits[v].request
      /\ discoveryRuns[visits[v].run].at < visits[v].asked - Recent =>
           visits[v].tries = 2 /\ visits[v].candidates = <<>>

\* No company known to be outside the request is researched, and none is refused for a
\* fact that is only unknown.
ConfirmedIsResearchable ==
  \A i \in DOMAIN discoveryRuns : \A k \in DOMAIN discoveryRuns[i].candidates :
    LET c == discoveryRuns[i].candidates[k].c
        q == discoveryRuns[i].request
    IN  /\ c.domain \in discoveryRuns[i].confirmed =>
             /\ c.domain \in companies
             /\ q.countries = {} \/ c.country \in q.countries
             /\ c.employees = Unknown \/ c.employees >= q.minimum
             /\ Industries(q) # {} /\ c.industry # Unknown =>
                  \E term \in Industries(q) : In(term, c.industry) \/ In(c.industry, term)
        /\ discoveryRuns[i].candidates[k].is = "out" =>
             \/ q.countries # {} /\ c.country \notin q.countries
             \/ c.employees # Unknown /\ c.employees < q.minimum
             \/ c.industry # Unknown

=============================================================================
