# LeadRadar in TLA+

LeadRadar finds companies, collects public sources about them, has a language model
assess a service profile's signals against those sources, scores the result and offers
it to sales as an opportunity. Research is slow, costs money and talks to the open web,
so it runs in worker processes that drain a job table in PostgreSQL. The hard part of
the program is that table: leases that expire under a live worker, workers that die,
retries that must not repeat paid work, deletion under way, and result tables that are
written in other transactions than the job row.

This directory holds TLA+ modules translated from the source, the TLC configurations
that check them on small instances, and TLAPS proofs for all values of the constants.
Paths below are relative to the repository; `app/` is `src/backend/app/`.

## 1. Inventory

| Component | State | Operations | Correct when |
|---|---|---|---|
| **Job queue and worker** (`app/jobs/service.py`, `app/jobs/runner.py`, `app/worker.py`, `app/models/research.py`) | `research_runs` rows; per slot thread: run, token, snapshot of saved stages; a heartbeat thread per attempt | submit, claim (with sweep), owned, heartbeat, checkpoint, finish, fail, run_once, slot loop | one owner per run, fenced writes, saved stages and errors survive, attempts bounded, terminal is final, every run ends |
| **Research pipeline** (`app/research/pipeline.py`) | source documents, evidence, assessments, score snapshots, opportunity, `usage` | collect (one transaction under the company's row lock), assess (reads, model call, one transaction) | no dangling reference, completed means scored, assessments do not change |
| **Research deletion** (`app/api/research.py`) | all of the above | `DELETE /companies/{id}/research` | nothing refers to what is gone, late workers add nothing back |
| **Submission and import** (`app/api/research.py`, `app/jobs/imports.py`, `submit`) | runs by idempotency key, companies by domain | get-or-create under a unique key with a savepoint | one row per key, a conflicting reuse is refused |
| **Source text retention** (`app/collection/retention.py`) | `normalized_text`, `text_expires_at` | purge: read expired ids, clear texts | expired text goes, fresh text stays |
| **Collector** (`app/collection/collector.py`, `planning.py`, `extraction.py`, `observability.py`) | scheduled URLs, page budget, content hashes, attempts log | bounded parallel waves with links planned under way | budget never exceeded, one document per content, every target in the log |
| **Network safety, transport, rendering** (`app/collection/safety.py`, `transport.py`, `rendering.py`) | four DNS slots shared by all threads, watchdog timer, browser budget | resolve, fetch, redirect, render | slots are returned, every call has an end |
| **Company identity** (`app/research/identity.py`) | none | match a document to a company | text matching |
| **Assessment provider and validation** (`app/assessment/`) | attempt counter, usage, cost | prompt, retry, parse, validate excerpts | bounded retries, only verbatim excerpts become evidence |
| **Scoring** (`app/scoring/`) | none | calculate_score | one event scores once, caps and eligibility agree |
| **ICP evaluation** (`app/icp/`) | none | evaluate criteria on facts | unknown is neither match nor mismatch |
| **Results API, sales workflow, translation** (`app/api/results.py`, `app/translation/`) | opportunity status and note, translation cache | list, detail, patch, translate | the company page fails only with a deletion, sales data change only as asked, cache key is stable |
| **Profiles** (`app/api/profiles.py`, `app/models/profile.py`) | versions per profile | create, update | versions are immutable and consecutive |
| **Discovery and catalogue** (`app/discovery/wikidata.py`, `qualification.py`, `catalog.py`, `app/api/discovery.py`, `app/catalog/sync.py`) | discovery runs, catalogue companies | discover with a 15 minute cache, confirm, sync | confirmed domains come from the run's candidates |
| **News discovery** (`app/discovery/gdelt.py`, `newsapi.py`) | time of the last request, `last_stats`, shared by the slots | spaced requests, retries, budgets | spacing holds across threads |
| **Tenders** (`app/discovery/*_tenders.py`, `app/tender_intelligence.py`) | none | search, filter, rank remote records | text and ranking |
| **Outreach** (`app/outreach/`) | none | draft text | text generation |
| **Telemetry** (`app/api/data_sources.py`) | none | project checkpoints | read-only |
| **Evaluation benchmark** (`app/evaluation/`) | none | counts over a fixed corpus | offline |
| **Shell** (`app/main.py`, `config.py`, `db.py`, `seed.py`) | configuration | wiring, seeds, migrations | no behaviour of its own |
| **Frontend research journey** (`src/frontend/src/features/activity`, `discovery`) | selection, submissions under way, polled runs | select, confirm, submit, poll, delete, run again | no repeated submission, the page comes to show what is stored |
| **Frontend workspaces** | view state | render API data | presentation |

How they interact. The API inserts a run; a worker slot claims it (`FOR UPDATE SKIP
LOCKED`), starts a heartbeat thread and calls the pipeline stage by stage, recording each
stage in the job row through the lease fence `owned`. The pipeline opens its own
transactions on the result tables, which know the run's id but not its lease. The API
reads and deletes all of these tables concurrently. The browser polls.

What is hard to test here is listed at its line in `PROJECT.json` under `hazards`: two workers
around an expired lease, crashes between two transactions of one attempt, deletion during an
attempt or a read, threads that outlive the callers that gave up on them, budgets shared by
parallel fetches, checks and writes of two requests that overlap, lost and late answers in the
browser, and numeric rules in which one fact must count once.

## 2. Modules

| Module | What it is |
|---|---|
| `ResearchJobs` | the job table, the slots, their heartbeats, crashes, deletion and time |
| `FencedJobs` | the abstract contract of the queue: owners, grants, recorded stages; no clock, tokens or threads |
| `ResearchJobsRefinement` | the mapping under which `ResearchJobs` implements `FencedJobs` |
| `ResearchResults` | extends `ResearchJobs` with the result tables and the pipeline's transactions |
| `SourceRetention` | the texts of a company's sources: collections row by row under the company lock, the cleanup script, deletion, time |
| `Submission` | get-or-create under a unique key: the two POST endpoints, with waits, deadlocks and deletion |
| `ResultsApi` | the company page, sales changes and translations, statement by statement, beside the commits of the pipeline and the deletion |
| `Profiles` | a service profile and its numbered versions under concurrent updates |
| `CandidateRules` | pure: which bindings of Wikidata become candidates, and how they are qualified |
| `Discovery` | discovery runs, catalogue, sync and confirmation, over `CandidateRules` |
| `Scoring` | pure: the score of a run from its assessments and criteria |
| `IcpEvaluation` | pure: from the typed profile to the answer of each criterion, and to the search the browser makes of it |
| `Assessment` | the prompt, the provider's answers and failures, and the validation of excerpts |
| `Collector` | the pages of a company within a budget, one after the other or in parallel waves |
| `Fetching` | one address: DNS slots, socket with watchdog and deadline, the browser thread |
| `NewsSearch` | two news providers shared by the worker's slots |
| `ResearchSelection` | the discovery page: selection, confirmation and submissions that are lost, late and repeated |
| `ResearchPage` | the polling activity page against a server that goes on working |
| `Folding` | theorems about folds over sequences of any length, and about sorting by a key; a proof module instantiates it with the operator of a loop |
| `*Proofs` | theorems and their proofs, section 5: `ResearchJobsProofs` (jobs and their contract), `ResearchResultsProofs`, `SourceRetentionProofs`, `SubmissionProofs` (with the discovery page), `FetchingProofs` (with the news), `CollectorProofs`, `ServicesProofs` (everything instantiated in `MCServices`) |
| `MC*` | instances for TLC |

How the modules are put together. `ResearchResults` extends `ResearchJobs` and refines it;
`ResearchJobs` refines `FencedJobs`; `Discovery` and `IcpEvaluation` both build on
`CandidateRules`. Components that share no state are instantiated side by side in three MC
modules (the rows of `SourceRetention` with the collector, the fetches and the news), whose variable (`service` in `MCServices`, `part` in `MCCollection`, `flow` in
`MCSubmission`) names the component a behaviour is about while the others stay in an initial or
final state. Nothing is claimed of products of components that do not meet in the code.

### ResearchJobs

`rows[r]` is the row of run `r`: `status` (with `absent` before submission and `deleted`
after), `attempts`, `token` (`lease_token`), `lease` (ticks until `lease_expires_at`),
`available` (ticks until `available_at`), `stages` (keys of `stage_results`) and `errors`
(the stages named in `partial_errors`). `slots[s]` is what the thread of slot `s` holds in
`run_once`: phase, run, token, the dictionary `saved` read at the start, the outcome of the
stage just run, and whether its heartbeat thread is alive.

| Action | Code |
|---|---|
| `Submit` | the insert of `submit` for a new key |
| `Claim` | `claim` whole: sweep of exhausted runs, the selection in `available_at` order, the update of the row; `locked` are rows another transaction holds, which SKIP LOCKED passes over |
| `Load`, `StageReturns`, `StageIsTransient`, `Raise`, `Checkpoint`, `Finish`, `Fail`, `LeaseLost`, `FailureUnrecorded`, `Stop` | `run_once` transaction by transaction, with its `except` and `finally` clauses |
| `Heartbeat`, `HeartbeatDies` | `keep_alive`: it renews the lease, and it returns for good at its first exception |
| `Crash` | a worker process dies with its slots; `restart: unless-stopped` brings it back |
| `Delete` | `delete_company_research`, as far as the job row goes |
| `Tick` | time |

Abstractions. Every database transaction is one step: each works on rows it has locked.
There is one clock; processes do not disagree about the time. The `uuid4` token of a claim
is named by the attempt it was drawn for, which keeps tokens of one run apart exactly as
uuids do. Progress counts, links and timestamps that nothing decides on are left out.

### ResearchResults

A `Doc` is a content of one company, which is what the unique key (company, content hash)
make of it (`collect` looks a document up by its id, a hash of company, url and content,
and then by that key, and goes on with the stored id); it has one span that can be
quoted. The profile has one signal, so a run has at most one assessment and a company one
opportunity. Assessments are stored as the set of their `evidence_ids`; a snapshot is named by
the attempt that stored it.

| Action | Code |
|---|---|
| `Collect` | the transaction at the end of `collect`, serialised by the company's row lock: insert or re-attribute each document. What was found before is a choice |
| `NoDocuments` | the early return of `assess` |
| `AssessReads`, `AssessCommits` | the two ends of `assess`'s transaction: what it looked up of evidence and opportunity, and the commit that fails on a unique or foreign key when another transaction has overtaken those reads |
| `LoadResults`, `StageRaises`, `SaveStage`, `EndAttempt`, `CrashResults` | the steps of `run_once` with the documents an attempt holds, and the rollback of an open transaction |
| `DeleteResults` | all statements of `delete_company_research` |
| `JobsOnly` | steps of the job table that touch no result |

`Collect` and `AssessCommits` do not ask `Owned`: neither does the code. Deletion is one step:
a stage that would commit between its statements loses to the foreign keys or makes the
deletion fail as a whole, which is as if it had not been requested. With several signals an
assess commit can fail on one of several evidence spans; one span stands for them.

### SourceRetention

`ResearchResults` takes `collect`'s transaction as one step and leaves text and expiry out;
this module opens it. `rows[d]` is the row of a content in `source_documents`: stored or not, text or NULL,
`text_expires_at`. `collectors[c]` is the collection of a worker slot: the documents it will
store, the expiry computed before the lock is asked for (`pipeline.py:380`), what it saw of each
row, and whether its run still exists. `purgers[p]` holds the ids and the cutoff of a cleanup
between its two statements. `copies` are the contents whose text is in some run's `stage_results`.

| Action | Code |
|---|---|
| `Begin`, `LockCompany`, `LookUp`, `CommitSources`, `Abort` | the last part of `collect`: expiry, `SELECT ... FOR UPDATE` on the company, one look-up per document, the flush and commit, any rollback |
| `Checkpoint`, `LoseLease` | `checkpoint` stores the stage's data with the texts, or the fence refuses it |
| `SelectExpired`, `ClearTexts`, `PurgerDies` | `purge_expired_source_text`: the select, the update by id with its commit, a death in between |
| `DeleteResearch`, `Tick` | `delete_company_research`; time |

`Flushed` is the ORM's update: a column set to the value that was read is not written, so a text
read before it was cleared is not restored. Equal content hashes mean equal texts. Row locks
last from a flush to the commit that follows, so flush and commit are one step; a deadlock among them is an
`Abort`. `Tick` keeps an open collection shorter than the retention period: minutes against
thirty days.

### Submission

`submit` and `import_company` are the same algorithm, select, insert in a savepoint, select
again when the unique index refuses, and one model serves both: a request is a sequence of keys
with inputs, one transaction long. An import asks for up to ten domains, whose rows have no
inputs to compare; a submission asks for one idempotency key with a company and a profile
version. `store` has the committed rows, `pending` the flushed ones of open transactions,
`answers` what a request has found or created so far; a row is named by the request that
inserted it.

| Action | Code |
|---|---|
| `Select`, `Insert`, `Refused`, `Reselect` | the statements of `submit` and `import_company`; `Found` compares the inputs (409) |
| `Commit` | `session.commit()` of the endpoint |
| `AbortVictim` | PostgreSQL breaks a cycle of waiting inserts; only `IntegrityError` is caught, so the request fails whole |
| `Crash`, `Delete` | a lost process or connection; `delete_company_research`, for runs only: nothing deletes a company |

Invalid domains and the 404 checks for companies and profile versions, which are never deleted,
touch no row and are left out.

### ResultsApi

One company and one profile. `runs` are numbered by `queued_at`; `sourceRun`, `evidence`, `cited`,
`latest`, `sales` and `translations` are the tables as far as these endpoints read them; `calls`
holds what a request has read so far.

| Action | Code |
|---|---|
| `QueueRun`, `Collected`, `Assessed` | the commits of `submit`, `collect` and `assess` |
| `DeleteAll` | `delete_company_research` |
| `ReadRuns`, `ReadAssessments`, `ReadEvidence`, `ReadSources`, `ReadHistoricalSources`, `Render` | the statements of `company_detail`, each of which sees what is committed when it runs |
| `LoadOpportunity`, `CommitPatch`, `ReadOpportunity` | `update_opportunity`: load, commit the columns that were supplied, answer from a second read |
| `LookUpTranslation`, `ProviderAnswers`, `StoreTranslation` | `translate_evidence`: the cache, the paid call, the insert |

The ORM writes a column only when the value differs from the one loaded (`WriteColumns`). Text
hash and language of a document are fixed, so a translation is named by its evidence and model.

### Profiles

`profile` is the row with its versions by number, `edits` the requests with the list they
loaded. `CreateProfile`, `LoadProfile` and `CommitVersion` are the transactions of
`api/profiles.py`; the last fails on the unique key (profile, version) when another update was
faster (`VersionFree`). Listing changes nothing.

### CandidateRules and Discovery

`CandidateRules` follows `discovery/wikidata.py` from the rows the SPARQL filters leave
(`ServerRows`), through the client's own checks (`Acceptable`) and the de-duplication by entity
and domain (`Deduplicated`) to the preferred industries (`Preferred`), and `Qualification` is
`qualify_candidate`. `Discovery` adds the tables.

| Action | Code |
|---|---|
| `AskDiscovery` | POST: the cached run of fifteen minutes, else the catalogue, else the provider |
| `Discovered`, `ProviderFails` | the provider's answer; one retry, then any old run or an error |
| `SaveDiscovery` | the upsert into the catalogue and the new run |
| `Confirm` | `confirm_discovery_run` with its qualification and the company rows |
| `SyncPage`, `SyncStore` | a page of `sync_catalog` and its commit |
| `Minute` | time |

### Scoring, IcpEvaluation

Each is a function of one input: `Calculate` (`calculate_score`), `Search` (`profileSearch` of
`matching.ts`, with the server's check of the request) and `ConfirmCandidate` (a candidate found
by that search becomes facts, which the criteria are evaluated on). Numbers are integers in
units that make the code's fractions exact: a strength in tenths, an age in steps of which a freshness
window has `Window`, a novelty in shares of which there are `Share`, the value of a signal in
`Unit`-ths (10 * `Window` * `Share`) of a weight point. `Share` is a common multiple of the numbers of
events that signals cite, so the divisions have no remainder. The contributions of a score are kept in the order of the
signals (`parts`).

The criteria of a profile version are a set of records with a key each. The editor states every key
at most once (`features/profiles/repository.ts:38`), and so does the reading of an untyped profile; the API
would take a key twice, which is outside the model (`IcpAssumption`). A phrase such as "10 to 50 employees"
is the set of markers the code's regular expressions find in it.

### Assessment

`documents` is what was collected, `exchange` the call. `Ask` shares the prompt's characters out
(`ShownOf`), `CallFails` classifies a failure as transient or permanent, `CallAnswers` checks one
result per signal, the cost against the run's budget, and validates every quote: it must occur in
the text, and an offset among several occurrences is taken only from the provider (`Placed`).

### Collector, Fetching, NewsSearch

| Action | Code |
|---|---|
| `CollectNext` | one round of the sequential loop: redirects, de-duplication, planned links |
| `TakeWave`, `Fetched`, `MergeWave` | a wave of the thread pool: its targets within the budget, the fetches in any order, the results in the order of the targets |
| `FinishCollection` | what is left over is logged as beyond the page limit |
| `Resolve`, `LookupTimesOut`, `StartLookup`, `LookupEnds`, `ReleaseSlot` | `resolve_public`: a slot or `dns_busy`, the wait with its deadline, the lookup in its thread and the callback that returns the slot |
| `Connect`, `WatchdogFires`, `Wrap`, `SendRequest`, `FetchBreaks`, `Headers`, `ReadBody`, `ReturnBody` | `SafeHTTPTransport.fetch` and its timer thread |
| `AskRender`, `RenderTimesOut`, `StartRender`, `PageRequests`, `EndRender`, `CloseBrowser`, `ShutDown`, `CloseReturns` | `BrowserRenderingTransport`: the executor's queue, the page's requests within their budget, the shutdown as a last job |
| `StartSearch`, `EnterGate`, `LeaveGate`, `GdeltAnswers`, `GdeltFails`, `SearchOn`, `NewsApiAnswers`, `NewsApiFails`, `NewsApiEnds`, `MergeNews`, `NewsTick` | the news part of `collect`: GDELT behind its lock, then NewsAPI, then the merged targets |

What is on the web is a constant: for each canonical address a set of answers, pages and redirects.
Every fetch is answered anew with one of them, or lost, so an address that is fetched twice in a call may
give two contents. Time in `Fetching` is whether a deadline has passed. `admitted` in `NewsSearch` records
when requests left GDELT's lock; the request itself is sent after that.

### ResearchSelection, ResearchPage

`workspace` is the discovery run shown and the selection, kept when the page is left and across a
reload; `presses` are the presses of "Research selected", each with its confirmation and one POST
per company; `storedRuns` are the rows they make, each with the press it answers. A POST can be lost, stored without its answer
arriving, or arrive after the browser counted it as failed. `Toggle`, `ClearSelection`,
`RefreshResults`, `Research`, `Confirmed`, `ConfirmFails`, `Answered`, `SubmissionFails`,
`Settled`, `Leave`, `Return` and `Reload` are `DiscoveryWorkspace.tsx`; `SubmissionArrives` and
`DeleteResearch` are the server. A press that is over is reduced to what can still arrive.

`ResearchPage` follows `ResearchActivity.tsx`: `polls` are the polling loops (the first, and one
for each press of Retry, which aborts the one before), `shown` is the list, `detail` the page of one company.
`ReadCompany`, `Show`, `ReadFails`, `Ends`, `TimerFires` and `Retry` are the loop, `RemoveResearch`,
`ServerDeletes`, `RowRemoved` and `RemovalFails` the deletion, `OpenCompany`, `Back`,
`RefreshResearch`, `Receive`, `PostAnswered` and `PostFails` the page of a company; `QueuedElsewhere`
and `RunEnds` are the rest of the world. A behaviour is one mounting of the page.

## 3. Runs

| Run | Instance | Shows |
|---|---|---|
| `job_safety` | 2 runs, 2 slots in 2 processes, 2 attempts, lease of 2 ticks | types and bounds; one owner; an owner's snapshot is what the row holds; completed means both stages and no error; stages and errors survive; terminal is final; the table implements `FencedJobs`, whose records are written only by an owner |
| `job_liveness` | 2 slots in 1 process, a sweep of one run at a time; 1 run with the 3 attempts of the code, or 2 runs on their last attempt | every submitted run ends, a run a sweep passes over included |
| `results_safety` | 2 documents, 2 slots in 2 processes; all 3 attempts of 1 run, and the first attempts of 2 runs of one company | no reference dangles, also while two runs share sources, evidence and opportunity; completed means assessed and scored; assessments do not change |
| `duplicate_score` | 1 run, 2 attempts | expected violation, see findings |
| `unfenced_results` | as above | expected violation, see findings |
| `fresh_text`, `cleared_text` | 1 content | expected violations, see findings |
| `submission` | imports [a, b, a] and [b, a]; three submissions of one key, two with the same inputs; 2 presses over 2 companies and 2 discovery runs; 1 company on the activity page, 1 new run, 2 loops, 2 failed polls | answers name stored rows with the inputs asked for; 409 only for an accepted key with other inputs; every request ends; resubmission never makes a second run; an open activity page comes to show what the server has |
| `services` | see `MCServices`: 2 runs, 2 documents, 2 requests; 3 updates of a profile; 6 bindings with shared domains and entities, 2 requests; every combination of the listed signals, criteria, phrases, documents, quotes and failures | the company page fails only when research was deleted meanwhile; sales data change only as asked; paid translations are stored or superseded; profile versions stand; discovery answers and confirmations fit the request; one event scores once; eligible means two publishers; search and scorer agree; quotes are verbatim; the prompt is shared |
| `paid_translation` | 1 document, a provider that answers under another model name | expected violation, see findings |
| `collection` | a web of 8 addresses with redirects, a loop, copies and a page whose text changes, 5 target lists, 1 to 3 threads, 4 pages; 2 callers, 2 DNS slots, 2 browser jobs; 2 slots, 2 queries, an interval of 2 ticks; 2 collecting slots, 2 contents, 1 cleanup, retention of 2 ticks, 4 ticks | page budget; documents in the order of their targets, no content twice; every target in the log, and what waves report as over the limit has no document; admitted lookups run; cut pages are dropped; the browser stays down; requests to GDELT are spaced; an insert never meets the unique key; a cleanup misses no text that had expired |
| `stored_twice` | as above | expected violation, see findings |

Every property of a passing run has a mutant in `PROJECT.json`: a plausible bug, defined in
the module next to what it replaces and marked `Mutant:`, for which TLC finds the property
violated.

Bounds. Two slots are enough for one to outlive its lease while another reclaims the run,
and slots interact only through rows. Two runs are needed where runs compete (the order of
claims, the sweep limit of 1 for the code's 100, the shared company). `job_liveness` has two runs for the sweep: it begins with both queued for their last
attempt, after an error (`LiveInit`, which the job table reaches), so that both can exhaust their attempts
together and a sweep of one passes the other over; the third attempts of two runs from the start
would be too many states for a liveness check. Two attempts contain a first, a reclaimed and a final attempt; the runs about one run use the code's three. In
`results_safety`, the constraint `OneRunOrFirstAttempts` cuts the second attempts of two runs: what
two runs share, they share through committed rows, whichever attempt wrote them. A lease
of two ticks can be renewed, half expired and expired; one tick suffices where only expiry
matters. `Horizon` caps how long ago a run became available: only the order matters.
`MaxAttempts` is a constant in `1..3` because the table's CHECK constraint says so.

Four ticks let a text expire, be renewed and expire again within one behaviour; collections interact only
through the lock and the rows of one company. Two imports in opposite orders are the smallest
deadlock, and `AbortVictim` does occur in the run; the submissions of one key need a winner, a
loser with the same inputs and one with others.

Two presses let a late submission of the first meet the second (`LastResearch`), two discovery runs
let a press outlive the run it was made for (`LastChoice`), and two companies let one submission
succeed and the other fail. On the activity page companies are read and shown independently of one
another, so one is enough; `LastRun`, `LastPoll` and `MaxFailures` bound runs, presses of Retry and
failed polls. In `services`, a second request of each kind meets the first; the inputs of the pure
functions are listed in `MCServices` with what they are chosen for, and `LastMinute` lets a cached run
grow too old. In `collection`, four pages are fewer than the web has, three threads more than one
wave's budget leaves; two DNS slots for the code's four fill up with two callers, since abandoned lookups
keep theirs; `MaxRenders` bounds the queue of browser jobs and `LastTick` the clock, which leaves room for
three spaced requests.

Symmetry is used in runs without liveness properties only (runs, slots, documents, clients and
callers are interchangeable there). Deadlock is checked wherever something always goes on: time
passes in the job table, its results and the two runs about single texts, and pages can always be
reloaded. `services`, `collection`, `stored_twice` and `paid_translation` say `CHECK_DEADLOCK FALSE`, because their
requests, collections and bounded clocks end.

### Fairness

`submission` assumes that every request's next statement is executed and that a transaction in a
cycle of waits is aborted (the database's deadlock detector); crashes and deletions owe nothing.
For the activity page it assumes that timers fire, requests have an end and active runs end, which
is `EventuallySettled` of the job table; the user, the network and whoever else queues runs owe
nothing, and polls fail only a bounded number of times (a page without a server shows nothing new).
In `job_liveness`, `Tick` is weakly fair; each slot's attempt is weakly fair,
because every adapter the pipeline calls has a deadline and a crashed process is restarted;
claiming with no row locked is strongly fair, because idle slots poll every two seconds (five
after an error) and row locks last one short transaction, so that a claim cannot for ever meet
only locked rows. Weak fairness would not do: a slot is busy again and again. No fairness is
assumed of heartbeats, of the database accepting a failure report, or of the absence of crashes.

## 4. Findings

* **A reclaimed run can store two score snapshots** (`duplicate_score`). `assess` commits its
  snapshot before the checkpoint of the stage, and looks for no snapshot of the same run. If the
  worker loses its lease or dies in between, the next attempt assesses again. An accepted
  assessment makes the second commit fail on the unique key (run, signal); an answer whose
  assessments all failed validation does not, and the run ends with two snapshots.
  `docs/architecture.md:34`: "A stale lease can be reclaimed without duplicating final records".
* **Result tables are not fenced** (`unfenced_results`). A worker whose lease has expired stores
  assessments, snapshot, opportunity and usage all the same. `app/jobs/README.md:27`: the worker
  "fences all writes against an unexpired token". Only the job row's columns are fenced.
* **The cleanup can clear a renewed text** (`fresh_text`). It selects expired ids and clears them
  by id in a second statement. A collection that stores the same content in between gives it a
  new period of thirty days, and the text is cleared all the same; if the collection had read
  the text before the clearing, its own commit does not bring it back. `docs/research-pipeline-handoff.md:24`:
  "Full normalized source text is stored privately for 30 days".
* **Cleared text stays in the checkpoint** (`cleared_text`). The collection stage's data, with every
  document's text, is stored in `research_runs.stage_results` and never expires.
  `app/collection/retention.py:1`: "Retention cleanup removes expired full text while preserving
  derived research records".
* **A stored translation is paid for again** (`paid_translation`). The cache is looked up under the
  configured model and filled under the model the provider names in its answer. Where the two differ
  (an alias, a dated version) every request pays for the call anew and then fails on the unique key.
  `docs/research-pipeline-handoff.md:22`: "Translations are cached and generated through OpenRouter".
* **One address can be stored twice** (`stored_twice`). In waves every target is followed by a child
  collector that starts with nothing seen, and the merge compares documents by text alone. The pipeline
  collects in waves of four and begins with `https://domain/` and `https://www.domain/`, of which one often
  redirects to the other: the page is fetched twice, and if its text differs between the two fetches, two
  documents with one `canonical_url` are stored. `app/collection/README.md:27`: "Deduplication is within a
  collection call by fetched URLs and text hash".

Visible in the models, without a run of their own:

* Two imports of the same new companies in opposite orders deadlock, and the one the database aborts
  fails with an internal error after which it can be repeated.
* The scoring contract of `docs/architecture.md` and `scoring/scorer.py` differ in numbers: strengths
  1.0/0.6/0.3 (line 58) are 1.0/0.7/0.4, a missing date counts 0.5 instead of 0.25 (line 80), an unknown
  criterion is left out instead of counting 0 (line 77), and coverage counts supported signals instead
  of completed assessments (line 84).
* The first listed of two signals that cite one event takes its novelty, also when its own value is 0.
* The opportunity shows the snapshot that was committed last, which can be the older one; the company
  page shows the assessments of the run queued last, which need not be the run scored.
* A PATCH of an opportunity whose research was deleted commits and then answers with an error.
* An upsert of the catalogue keeps entity and domain of the row it meets and takes all else from
  another candidate; confirming overwrites known facts with unknown ones.
* Confirming a discovery run that was confirmed before replaces the domains it names
  (`api/discovery.py:188`); the companies of the first confirmation stay imported.
* The sync advances by whole pages after a shorter last page, and takes the difference of two counts of
  the table for what it added, whoever else added rows.
* A retry of NewsAPI is not spaced; GDELT's request is sent after the lock that spaces it is released.
* Nothing constructs `BrowserRenderingTransport`: the worker's collector uses `SafeHTTPTransport` alone.
  `Fetching` checks rendering as the class offers it.
* Over the page limit the parallel collector compares planned links as written with the canonical
  addresses it has seen (`collector.py:295-301`): a link in another spelling is logged as not fetched
  although its page was.
* The worker's slots share `NewsApiDiscovery.last_stats`: two searches at a time mix their numbers in
  a log line.
* The discovery page hands over to the activity page in the same batch of updates that empties its
  selection: the queued companies are still selected on return, and a message about those that
  failed is not seen. Stable submission keys make submitting them again harmless, which is `OneRunPerChoice`.
* "Run fresh research" draws a new key for every press and looks at the runs of the last poll, so two runs
  of one company can become active. A poll that began before a deletion brings its rows back until the
  next poll, which is why `PageCatchesUp` is a liveness property and not an invariant.

What nevertheless holds is in `results_safety`: no reference dangles, a stored assessment never
changes, and a completed run is scored.

## 5. Proofs

For all runs, companies, slots, processes, lease times, backoff units, sweep limits and
horizons, under the named assumptions of `ResearchJobs` (types of the constants, `NoRun` not a
run, `MaxAttempts` in `1..3`), TLAPS checks:

* `TypeCorrect`, `InductiveInvariant`, `OneOwner`, `CurrentSnapshot`, `CleanCompletion`,
  `FinalityOfTerminal`, `SurvivalOfResults`, `FenceHolds` of `ResearchJobs!Spec`;
* `JobsImplementContract`: `ResearchJobs` implements `FencedJobs`;
* `ResultsImplementJobs` (`ResultsSpec => Spec`), so that all of these hold of the system that
  stores results, and `ResultsKeepOneOwner` as an instance;
* `ResultsInvariant`, `ResultsTypeCorrect`, `NothingDangles`, `CompletionIsScored` and
  `FinalityOfAssessments` of `ResultsSpec`, for all documents and their companies;
* `RetentionInvariant`, `RetentionTypeCorrect`, `DeduplicationIsSerial` and
  `CleanupMissesNothing` of `SourceRetention!Spec`, for all contents, slots, cleanups and retention
  periods (at least one tick), with `NoOne` not a slot;
* `SubmissionInvariant`, `TypeCorrect`, `AcceptedRowsAreStored`, `AnsweredRowsAreCommitted`,
  `ConflictsAreReal` and `CommittedTogether` of `Submission!Spec`, for all clients, keys and requests in
  which one key has one input (`OneInputPerKey`: true of imports, and a submission has one key);
* `ResubmissionsAreOneRun` of `ResearchSelection`, for any number of presses and companies;
* `VersionsStand` of `Profiles`, for any number of updates;
* `DetailFailures`, `TranslationsAreKept` and `SalesAreKept` of `ResultsApi`, for any number of
  runs, documents and requests;
* `LookupsRun`, `BrowserStaysDown` and `CutPagesDropped` of `Fetching`, for any number of callers, DNS slots
  and requests of a page;
* `SpacedRequests` of `NewsSearch`, for any number of slots and any interval;
* `PageBudgetIsKept`, `ResultStaysStable` and `EveryTargetIsLogged` of `Collector`, for any web, list of
  targets, page budget (at least one), redirect limit, number of threads and number of links planned from
  a page (any sets of answers; `CollectorAssumption`: `canonical_url` knows the addresses that targets, links and redirects
  are written in, and a page has finitely many links);
* `AnswersFit` and `OnlyResearchableConfirmed` of `Discovery`, for any bindings of Wikidata (a
  sequence, whose employee counts are numbers or unknown: `CandidateAssumption`), any requests with a minimum and a
  limit, any number of visitors, and any cache period, page size and sync limit (`DiscoveryAssumption`);
* `PromptKeepsShares` and `EvidenceIsVerbatim` of `Assessment`, for documents of any length and number, any
  answer of the provider, any failures, and any budget of characters (`AssessmentAssumption`: document ids
  are distinct, being primary keys, and no document's floor is above its own limit: 1000 and 12000 characters in
  `openrouter.py`);
* `OneEventScoresOnce` and `EligibleRestsOnTwo` of `Scoring`, for any number of signals, events, publishers
  and criteria (`ScoringAssumption`: strengths are tenths, and a supported signal cites evidence, without
  which `validation.py:44` refuses it);
* `SearchAndScorerAgree` of `IcpEvaluation`, for any profile version, company, reference data and search
  limit (`IcpAssumption`: a country's name, where it is a place, stands for that country too, which is so in
  `reference_geography.json`; a key is stated once).

**Jobs.** `AtMostOneOwner` is not inductive: two slots could hold the same token in an
unreachable state. `IInv` adds that a running row's token is its attempt number and other rows
have no lease (`RowInv`), that a working slot's token was drawn for its run and is at most the
row's attempts (`SlotInv`), and that no two slots hold the same token of one run
(`TokensDiffer`). A claim draws `attempts + 1`, larger than anything a slot holds, so tokens
stay distinct, and the fence compares them. `OwnerSnapshotIsCurrent` follows because only the
fence's one owner can save a stage after the snapshot was read; `CompletedIsClean` because only
an owner in phase `finish` completes a run, its snapshot has both stages, and the snapshot is
current. `SurvivalOfResults` and `FenceHolds` are case analyses over `RowCases`: every change of
a row is an operation of `service.py`, a deletion, or time.

**Contract.** The owner of a run is mapped to the one slot that passes the fence, which `IInv` makes
unique. One lemma per action says which step of the contract it is (an enqueue, a sweep, a grant, a
record, a completion, a giving up, a removal, a loss) or that it changes nothing there.

**Results.** `RInv` adds to `IInv` that everything stored for a run belongs to its
company (`CompaniesFit`), so that deleting one company's research cannot take away what
another's refers to; that documents held by an attempt are stored unless its run is deleted
(`HeldFit`), in which case the foreign keys refuse the commit and the fence refuses the
checkpoint; and that a row or slot reporting an assessment without error has a score behind it
(`ScoredInv`). `SubmittedInv`, `ReadsFit` and `AbsentInv` rule out unreachable corners.

**Retention.** Rows appear only in a commit by the holder of the company lock, so what a slot
saw absent under the lock stays absent (`LockHeld`, `NothingSeenBefore`). A commit writes an
expiry that lies ahead of the clock (`ExpiryAhead`) and so of every cutoff (`CutoffPassed`):
no text can become expired for a cleanup that has already selected.

**Submission.** The answers of a request run along its entries (`PlaceInv`); what it has flushed it
has answered as created, and nobody has committed the same key (`PendingInv`), which holds because
an insert waits for every other open insert of its key (`KeysInv`, `InsertInv`); a stored row belongs to
a request that is done (`StoreInv`), and an answer names such a row or one of the request's own
(`AnswerInv`).

**Discovery page.** The key of a stored run is its choice (discovery run and profile version) and company,
and the server keeps keys unique (`SelectionInv`): a second run of the same choice would have the same key.

**Results API.** Foreign keys hold between runs, evidence and translations, and an opportunity has lost
its snapshot only to a deletion (`TablesInv`). What a request has read is still there, for nothing but a
deletion takes rows away, and a deletion marks the request as overtaken (`StillThere`, `CallFits`).
Commits of the pipeline and of other requests only add (`Grows`), so one lemma (`OneCall`) carries every
request past the step of another. `SalesAreKept` goes through the actions that write `sales`.

**Profiles.** Every stored version was answered to exactly the request whose configuration it is, and
the list a request loaded is a beginning of the stored one (`VersionsInv`): a commit either appends
the next number or meets the unique key.

**Fetching.** Lookups that hold a slot are counted, whether someone waits for them or not, and are never
more than `DnsSlots` (`SlotsInvariant`). A shut socket implies a deadline that has passed, so the clock read
after the body refuses it (`PagesInvariant`). A shutdown is the last job, and nothing is accepted
behind it (`BrowserInvariant`).

**News.** At most one slot sleeps in the gate, and it sleeps at least until the interval after the last
admitted request is over (`SpacingInv`).

**Loops.** The loops of the code are folds over sequences of any length. The library defines `FoldLeft` by
recursion over the set of positions, and `Folding` shows that this recursion has a solution
(`IterationExists`, by induction over positions: `SetInduction`, from the well-foundedness of the natural numbers). So a
fold has a trace of values that starts with the base and goes on by one application of the operator per
element (`FoldTrace`), and a set the operator does not leave holds the fold (`FoldPreserves`). The operator
is a parameter of the module, which every `INSTANCE` supplies: no theorem takes an operator as an argument.
`OrderExists` shows the same way that a finite set can be put in the order of a key, which the `CHOOSE`s of the
ranked links and of the candidates need.

**Collector.** What a call counts against its budget is what it has visited plus what is pending (one after
the other) or in the wave (`BudgetKept`); a result belongs to a target of the wave, and there is one for each
(`WaveIsKept`); documents stand in the order of the visits they come from, with distinct contents, and one
after the other with distinct addresses, because an address that was seen is not fetched again (`Ordered`, `SeenOnce`). `NothingIsDroppedSilently` is not inductive: what was asked for must still be pending, be in the wave
or be logged, and an address is seen only because it is logged or a target of the wave has it (`Accounted`),
for otherwise a target could be passed over as seen that nothing has logged. In waves a
document's address is seen as soon as it is merged, and what is reported as over the limit is not
(`Reported`).

**Discovery.** Whatever a request has found, from the cache, the catalogue or the provider, lies in
`Fitting(q)`, the rows its filters let through, at every stage of the request (`VisitFits`); a stored
run's candidates fit its request and keep its verdict, and the confirmed ones are among them and not out
(`RunFits`).

**Assessment.** The prompt shown is the one of the documents, and every assessment comes from a proposal whose
quotes were all found (`FromSoundOnes`). The first excerpt of an event is one of the quotes, and its place, when not
advised by the provider, is the only one. Each document in the prompt has had a share of what remained: by
the trace of the fold, what is shown exceeds the budget by less than one floor, and not at all when every document's floor
fits in it.

**Scoring.** The snapshot is the score of the run's input (`ScoreInv`). `EventsCountOnce` compares two
cardinalities, so the tallies of the fold carry an injection from the contributions that add to the score
to events they cite (`OwnEvents`): a contribution adds only if it has an event not claimed before.
`EligibleIsCorroborated` needs that the tally's publishers and its credible signal come from fresh ones
(`SourcesAreFresh`), because a signal without freshness is worth nothing.

**ICP evaluation.** A confirmed candidate has passed the filters of the search the browser made of the profile
(`IcpInv`), whose minimum, countries and industries are those of the criteria; the facts the server keeps
of it agree with it (`AgreeOn`), so a criterion the search looked at is never answered "missed",
except that a company may be larger than the criterion allows: the search has no upper limit.

What remains model-checked only is liveness (`EventuallySettled`, `EveryRequestEnds`, `PageCatchesUp`), which is out of the
prover's reach, as is ENABLED, and the expected violations (`OneDocumentPerAddress` among them). Every other property of a passing run is stated by a
theorem. No recursive operator is declared.

## 6. Plan

Done: everything in section 2. What is left, in this order:

1. The opportunity list with its sorting and pages, beside the commits of the pipeline.
2. Tender discovery, as far as its retries and page limits go.
3. An abstract contract of submission (a key is created once, whoever asks and however often), and the
   proof that `Submission` implements it, as `ResearchJobs` does `FencedJobs`.

## 7. Not modelled

The opportunity list and CSV export (read-only), data source telemetry (a projection of checkpoints and
logs), tender search and ranking, outreach drafts, the evaluation benchmark, text matching (company identity,
regular expressions of phrases), prompts, HTML extraction, seeds, migrations, routing, styling and the
frontend's other workspaces: no state of their own, or only about wording. In the research journey, filters,
sorting, paging, drafts and the search field that opens a company are left out, and
`ResearchLauncher.tsx`, which no page mounts. The clock is common to all processes. PostgreSQL, the web, the browser and
the model provider appear only through what the code does with their answers.
