------------------------------ MODULE ResultsApi ------------------------------
(***************************************************************************)
(* api/results.py over the tables of one company and one service profile:  *)
(* the company page, the sales status of its opportunity, and translations *)
(* of its evidence.  A request is a series of statements, each of which    *)
(* sees what is committed when it runs; the transactions of the research   *)
(* pipeline and of the deletion (ResearchResults) commit in between.       *)
(*                                                                         *)
(* Runs are numbered by queued_at.  Evidence is named by the document it   *)
(* quotes, a translation by its evidence and model: text hash and language *)
(* of a document are fixed here.                                           *)
(***************************************************************************)
EXTENDS Integers

CONSTANTS
  LastRun,     \* runs of the company are 1..LastRun
  Docs,        \* contents, and the evidence that quotes them
  Clients,     \* requests being served
  Model,       \* the model translations are asked from
  ReportedBy   \* models the provider may name in its answer

ASSUME LastRunAssumption == LastRun \in Nat

VARIABLES
  runs,         \* "absent", "there" or "gone"
  sourceRun,    \* research_run_id of a stored document, 0 when there is none
  evidence,     \* documents with a row in evidence
  cited,        \* evidence_ids of a run's assessments
  latest,       \* the run of the opportunity's latest_snapshot_id, 0 for NULL
  sales,        \* what the opportunity row holds for the sales team
  translations, \* rows of evidence_translations
  calls         \* requests

apiVars == <<runs, sourceRun, evidence, cited, latest, sales, translations, calls>>

Runs == 1..LastRun
Models == ReportedBy \union {Model}
Columns == [status |-> {"new", "saved"}, note |-> {"", "call"}]
NoOpportunity == [status |-> "", note |-> ""]

Call == [at |-> "idle", run |-> 0, want |-> {}, have |-> {}, sources |-> {},
         patch |-> NoOpportunity, loaded |-> NoOpportunity,
         model |-> Model, known |-> {}, answer |-> "", overtaken |-> FALSE]

ApiInit ==
  /\ runs = [r \in Runs |-> "absent"]
  /\ sourceRun = [d \in Docs |-> 0]
  /\ evidence = {}
  /\ cited = [r \in Runs |-> {}]
  /\ latest = 0
  /\ sales = NoOpportunity
  /\ translations = {}
  /\ calls = [c \in Clients |-> Call]

Becomes(c, call) == calls' = [calls EXCEPT ![c] = call]
Answer(c, a) == Becomes(c, [calls[c] EXCEPT !.at = "done", !.answer = a])
OnlyCalls == UNCHANGED <<runs, sourceRun, evidence, cited, latest, sales, translations>>

-----------------------------------------------------------------------------
(* What commits while requests are served *)

QueueRun(r) ==
  /\ runs[r] = "absent" /\ \A q \in 1..(r - 1) : runs[q] # "absent"
  /\ runs' = [runs EXCEPT ![r] = "there"]
  /\ UNCHANGED <<sourceRun, evidence, cited, latest, sales, translations, calls>>

\* collect: a document found again is attributed to the run that found it last.
Collected(r, docs) ==
  /\ runs[r] = "there" /\ docs # {}
  /\ sourceRun' = [d \in Docs |-> IF d \in docs THEN r ELSE sourceRun[d]]
  /\ UNCHANGED <<runs, evidence, cited, latest, sales, translations, calls>>

\* The pipeline creates a missing opportunity, of an existing one it sets only
\* latest_snapshot_id and updated_at.
OpportunityKept ==
  IF sales = NoOpportunity THEN [status |-> "new", note |-> ""] ELSE sales

\* assess, once per run: evidence of stored documents, snapshot and opportunity.
Assessed(r, docs) ==
  /\ runs[r] = "there" /\ cited[r] = {} /\ docs # {}
  /\ \A d \in docs : sourceRun[d] # 0
  /\ evidence' = evidence \union docs
  /\ cited' = [cited EXCEPT ![r] = docs]
  /\ latest' = r
  /\ sales' = OpportunityKept
  /\ UNCHANGED <<runs, sourceRun, translations, calls>>

\* delete_company_research; a concurrent insert that would break its foreign keys
\* rolls it back whole, which changes nothing.
DeleteAll ==
  /\ \E r \in Runs : runs[r] = "there"
  /\ runs' = [r \in Runs |-> IF runs[r] = "there" THEN "gone" ELSE runs[r]]
  /\ sourceRun' = [d \in Docs |-> 0]
  /\ evidence' = {} /\ translations' = {}
  /\ cited' = [r \in Runs |-> {}]
  /\ latest' = 0
  /\ calls' = [c \in Clients |-> [calls[c] EXCEPT !.overtaken = @ \/ calls[c].at # "idle"]]
  /\ UNCHANGED sales

-----------------------------------------------------------------------------
(* GET /companies/{id}: one statement per step *)

\* No run is numbered 0.
IsLatestRun(r) ==
  /\ r # 0 => runs[r] = "there"
  /\ \A q \in Runs : runs[q] = "there" => q <= r

ReadRuns(c) ==
  /\ calls[c].at = "idle"
  /\ \E r \in {0} \union Runs :
       IsLatestRun(r) /\ Becomes(c, [Call EXCEPT !.at = "assessments", !.run = r])
  /\ OnlyCalls

ReadAssessments(c) ==
  /\ calls[c].at = "assessments"
  /\ LET run == calls[c].run IN
     Becomes(c, [calls[c] EXCEPT !.at = "evidence", !.want = IF run = 0 THEN {} ELSE cited[run]])
  /\ OnlyCalls

ReadEvidence(c) ==
  /\ calls[c].at = "evidence"
  /\ Becomes(c, [calls[c] EXCEPT !.at = "sources", !.have = calls[c].want \intersect evidence])
  /\ OnlyCalls

\* Mutant: only the sources of the latest run are looked at.
ReadOwnSources(c) ==
  /\ calls[c].at = "sources"
  /\ Becomes(c, [calls[c] EXCEPT !.at = "render",
       !.sources = {d \in Docs : sourceRun[d] # 0 /\ sourceRun[d] = calls[c].run}])
  /\ OnlyCalls

\* The sources of the latest run; the evidence may also quote older ones.
ReadSources(c) ==
  /\ calls[c].at = "sources"
  /\ LET own == {d \in Docs : sourceRun[d] # 0 /\ sourceRun[d] = calls[c].run} IN
     Becomes(c, [calls[c] EXCEPT !.at = IF calls[c].have \subseteq own THEN "render" ELSE "history",
                                 !.sources = own])
  /\ OnlyCalls

ReadHistoricalSources(c) ==
  /\ calls[c].at = "history"
  /\ Becomes(c, [calls[c] EXCEPT !.at = "render",
       !.sources = @ \union {d \in calls[c].have : sourceRun[d] # 0}])
  /\ OnlyCalls

\* evidence_by_id[...] and source_by_id[...] fail for an id that was not found.
Render(c) ==
  /\ calls[c].at = "render"
  /\ Answer(c, IF calls[c].want \subseteq calls[c].have \intersect calls[c].sources
               THEN "ok" ELSE "error")
  /\ OnlyCalls

-----------------------------------------------------------------------------
(* PATCH /opportunities/{id} *)

\* The row is loaded; a column not supplied stays "" in patch only for the model.
LoadOpportunity(c, patch) ==
  /\ calls[c].at = "idle"
  /\ IF sales = NoOpportunity
     THEN Becomes(c, [Call EXCEPT !.at = "done", !.answer = "not found"])
     ELSE Becomes(c, [Call EXCEPT !.at = "patching", !.patch = patch, !.loaded = sales])
  /\ OnlyCalls

Supplied(c) == DOMAIN calls[c].patch

\* Mutant: the whole loaded row is written back.
WriteRow(c) ==
  [f \in DOMAIN sales |-> IF f \in Supplied(c) THEN calls[c].patch[f] ELSE calls[c].loaded[f]]

\* The ORM writes the columns whose value is not the loaded one.
WriteColumns(c) ==
  [f \in DOMAIN sales |->
     IF f \in Supplied(c) /\ calls[c].patch[f] # calls[c].loaded[f]
     THEN calls[c].patch[f] ELSE sales[f]]

CommitPatch(c) ==
  /\ calls[c].at = "patching"
  /\ sales' = WriteColumns(c)
  /\ Becomes(c, [calls[c] EXCEPT !.at = "reading"])
  /\ UNCHANGED <<runs, sourceRun, evidence, cited, latest, translations>>

\* The answer joins the latest snapshot: without one there is no row.
ReadOpportunity(c) ==
  /\ calls[c].at = "reading"
  /\ Answer(c, IF latest # 0 THEN "ok" ELSE "unscored")
  /\ OnlyCalls

-----------------------------------------------------------------------------
(* POST /evidence/{id}/translations *)

Stored(d) == {m \in Models : <<d, m>> \in translations}

LookUpTranslation(c, d) ==
  /\ calls[c].at = "idle"
  /\ LET call == [Call EXCEPT !.want = {d}, !.known = Stored(d)] IN
     Becomes(c, CASE d \notin evidence -> [call EXCEPT !.at = "done", !.answer = "not found"]
                  [] Model \in Stored(d) -> [call EXCEPT !.at = "done", !.answer = "cached"]
                  [] OTHER -> [call EXCEPT !.at = "paying"])
  /\ OnlyCalls

ProviderAnswers(c) ==
  /\ calls[c].at = "paying"
  /\ \/ Answer(c, "provider failed")
     \/ \E m \in ReportedBy : Becomes(c, [calls[c] EXCEPT !.at = "storing", !.model = m])
  /\ OnlyCalls

\* Mutant: no unique key, and no foreign key to evidence.
StoreAnyTranslation(c) ==
  \E d \in calls[c].want :
    /\ calls[c].at = "storing"
    /\ translations' = translations \union {<<d, calls[c].model>>}
    /\ Answer(c, "ok")
    /\ UNCHANGED <<runs, sourceRun, evidence, cited, latest, sales>>

\* The insert meets the foreign key to evidence and uq_evidence_translation_cache.
StoreTranslation(c) ==
  \E d \in calls[c].want :
    /\ calls[c].at = "storing"
    /\ IF d \in evidence /\ calls[c].model \notin Stored(d)
       THEN /\ translations' = translations \union {<<d, calls[c].model>>}
            /\ Answer(c, "ok")
       ELSE Answer(c, "error") /\ UNCHANGED translations
    /\ UNCHANGED <<runs, sourceRun, evidence, cited, latest, sales>>

-----------------------------------------------------------------------------
Patches == {[status |-> s] : s \in Columns.status} \union {[note |-> n] : n \in Columns.note}
             \union [status : Columns.status, note : Columns.note]

Serve(c) ==
  \/ ReadRuns(c) \/ ReadAssessments(c) \/ ReadEvidence(c)
  \/ ReadSources(c) \/ ReadHistoricalSources(c) \/ Render(c)
  \/ \E patch \in Patches : LoadOpportunity(c, patch)
  \/ CommitPatch(c) \/ ReadOpportunity(c)
  \/ \E d \in Docs : LookUpTranslation(c, d)
  \/ ProviderAnswers(c) \/ StoreTranslation(c)

ApiNext ==
  \/ \E r \in Runs : QueueRun(r)
  \/ \E r \in Runs, docs \in SUBSET Docs : Collected(r, docs)
  \/ \E r \in Runs, docs \in SUBSET Docs : Assessed(r, docs)
  \/ DeleteAll
  \/ \E c \in Clients : Serve(c)

ApiSpec == ApiInit /\ [][ApiNext]_apiVars

-----------------------------------------------------------------------------
(* Properties *)

\* The company page is put together from statements that see different commits;
\* it fails only when the research was deleted while it was being read, and a committed
\* change of an opportunity goes unanswered only when research was deleted before.
DetailFailsOnlyWithDeletion ==
  \A c \in Clients :
    /\ calls[c].answer = "error" /\ calls[c].run # 0 => calls[c].overtaken
    /\ calls[c].answer = "unscored" => \E r \in Runs : runs[r] = "gone"

\* What the sales team has entered survives every assessment and every concurrent
\* request: a column changes only to what a request being committed supplied for it.
SalesChangesAreAsked ==
  [][\A f \in DOMAIN sales :
       sales'[f] # sales[f] /\ sales # NoOpportunity =>
         \E c \in Clients : /\ calls[c].at = "patching" /\ calls'[c].at = "reading"
                            /\ f \in Supplied(c) /\ sales'[f] = calls[c].patch[f]]_apiVars

\* A paid translation that cannot be stored is one another request has stored, or
\* its evidence was deleted meanwhile; what is stored belongs to stored evidence.
TranslationsResolve ==
  /\ \A t \in translations : t[1] \in evidence
  /\ \A c \in Clients :
       calls[c].answer = "error" /\ calls[c].run = 0 =>
         calls[c].overtaken \/ \A d \in calls[c].want : calls[c].model \in Stored(d)

\* docs/research-pipeline-handoff.md: translations are cached.  No call is paid for an
\* excerpt that had a stored translation when the request looked.
CachedIsNotPaidAgain == \A c \in Clients : calls[c].at = "paying" => calls[c].known = {}
=============================================================================
