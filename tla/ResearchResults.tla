--------------------------- MODULE ResearchResults ---------------------------
(***************************************************************************)
(* What research/pipeline.py stores while an attempt runs, next to the job *)
(* row of ResearchJobs: source documents, evidence, signal assessments,    *)
(* score snapshots, usage and the opportunity of a company, and what       *)
(* api/research.py deletes again.                                          *)
(*                                                                         *)
(* Neither stage takes the job lease into its transactions: collect        *)
(* commits once, under the company's row lock; assess commits once, after  *)
(* reads that another transaction can overtake.  A Doc is a content of one *)
(* company (unique company_id, content_hash), with one quoted span.  The   *)
(* profile has one signal, so one assessment of a run and one opportunity  *)
(* of a company; a score snapshot is named by the attempt that stored it.  *)
(***************************************************************************)
EXTENDS ResearchJobs

CONSTANTS
  Docs,       \* contents that can be collected
  Publisher   \* the company a content is about

ASSUME PublisherAssumption == Publisher \in [Docs -> Companies]

VARIABLES
  sources,      \* research_run_id of a stored content, or NoRun
  evidence,     \* contents with a row in evidence
  assessments,  \* a run's rows in signal_assessments, each its evidence_ids
  snapshots,    \* attempts of a run that stored a score snapshot
  usage,        \* the attempt research_runs.usage stems from, 0 when empty
  opportunity,  \* exists, and latest_snapshot_id as run and attempt
  saved,        \* documents in stage_results["collection"] of a run
  held,         \* documents of a slot's collection, loaded or just returned
  reads         \* what a slot's assess transaction has read so far

tables == <<sources, evidence, assessments, snapshots, usage, opportunity>>
locals == <<held, reads>>
resultVars == <<vars, tables, saved, locals>>

Reads == [open : BOOLEAN, evidence : SUBSET Docs, opportunity : BOOLEAN]
NoReads == [open |-> FALSE, evidence |-> {}, opportunity |-> FALSE]
NullLatest == [run |-> NoRun, attempt |-> 0]
DocsOf(c) == {d \in Docs : Publisher[d] = c}

ResultsInit ==
  /\ Init
  /\ sources = [d \in Docs |-> NoRun]
  /\ evidence = {}
  /\ assessments = [r \in Runs |-> {}]
  /\ snapshots = [r \in Runs |-> {}]
  /\ usage = [r \in Runs |-> 0]
  /\ opportunity = [c \in Companies |-> [exists |-> FALSE, latest |-> NullLatest]]
  /\ saved = [r \in Runs |-> {}]
  /\ held = [s \in Slots |-> {}]
  /\ reads = [s \in Slots |-> NoReads]

-----------------------------------------------------------------------------
(* The collection stage *)

\* A foreign key to research_runs can be written only while the run is there.
RunExists(r) == rows[r].status # "deleted"

\* Every verified document is inserted, or its stored row is re-attributed.
Attributed(r, docs) == [d \in Docs |-> IF d \in docs THEN r ELSE sources[d]]

\* collect returns after its one transaction, whether or not the lease still runs.
Collect(s, docs, outcome) ==
  LET r == slots[s].job
  IN  /\ slots[s].pc = "run" /\ NextStage(slots[s].saved) = "collection"
      /\ docs \subseteq DocsOf(CompanyOf[r])
      /\ docs # {} => RunExists(r)
      /\ StageReturns(s, outcome)
      /\ sources' = Attributed(r, docs)
      /\ held' = [held EXCEPT ![s] = docs]
      /\ UNCHANGED <<evidence, assessments, snapshots, usage, opportunity, saved, reads>>

-----------------------------------------------------------------------------
(* The assessment stage *)

Assessing(s) == slots[s].pc = "run" /\ NextStage(slots[s].saved) = "assessment"

\* Mutant: an empty collection that is reported without an error.
CleanWithoutDocuments(s) ==
  /\ Assessing(s) /\ held[s] = {}
  /\ StageReturns(s, "clean")
  /\ UNCHANGED <<tables, saved, locals>>

\* Without documents there is nothing to pay for; the stage reports no_documents.
NoDocuments(s) ==
  /\ Assessing(s) /\ held[s] = {}
  /\ StageReturns(s, "errors")
  /\ UNCHANGED <<tables, saved, locals>>

\* The model has answered; the transaction looks up evidence and opportunity.
AssessReads(s) ==
  /\ Assessing(s) /\ held[s] # {} /\ ~reads[s].open
  /\ reads' = [reads EXCEPT ![s] = [open |-> TRUE, evidence |-> evidence,
                 opportunity |-> opportunity[CompanyOf[slots[s].job]].exists]]
  /\ UNCHANGED <<vars, tables, saved, held>>

\* Mutant: no unique (research_run_id, signal_id) on signal_assessments.
AcceptedWithoutUniqueKey(s, found) ==
  LET r == slots[s].job
  IN  /\ RunExists(r)
      /\ ((UNION found) \ reads[s].evidence) \intersect evidence = {}
      /\ opportunity[CompanyOf[r]].exists => reads[s].opportunity

\* Foreign keys and unique constraints the inserts meet: the run exists, no row
\* of assessment, and none of evidence or opportunity that was not seen, is there.
Accepted(s, found) ==
  LET r == slots[s].job
  IN  /\ RunExists(r)
      /\ found = {} \/ assessments[r] = {}
      /\ ((UNION found) \ reads[s].evidence) \intersect evidence = {}
      /\ opportunity[CompanyOf[r]].exists => reads[s].opportunity

\* The commit.  found is the one validated assessment, as its set of quoted
\* documents, or nothing when the answer failed validation; the snapshot, the
\* opportunity and the usage follow either way.
AssessCommits(s, found) ==
  LET r == slots[s].job
      attempt == slots[s].token
  IN  /\ Assessing(s) /\ reads[s].open
      /\ Accepted(s, found)
      /\ StageReturns(s, IF found = {} THEN "errors" ELSE "clean")
      /\ assessments' = [assessments EXCEPT ![r] = @ \union found]
      /\ evidence' = evidence \union UNION found
      /\ snapshots' = [snapshots EXCEPT ![r] = @ \union {attempt}]
      /\ usage' = [usage EXCEPT ![r] = attempt]
      /\ opportunity' = [opportunity EXCEPT ![CompanyOf[r]] =
                           [exists |-> TRUE, latest |-> [run |-> r, attempt |-> attempt]]]
      /\ reads' = [reads EXCEPT ![s] = NoReads]
      /\ UNCHANGED <<sources, saved, held>>

-----------------------------------------------------------------------------
(* The rest of an attempt, and the environment *)

LoadResults(s) ==
  /\ Load(s)
  /\ held' = [held EXCEPT ![s] = saved[slots[s].job]]
  /\ UNCHANGED <<tables, saved, reads>>

\* Mutant: a failing transaction that is left open.
LeakedTransaction(s) ==
  /\ StageIsTransient(s) \/ Raise(s)
  /\ UNCHANGED <<tables, saved, locals>>

\* An exception rolls an open assess transaction back.
StageRaises(s) ==
  /\ StageIsTransient(s) \/ Raise(s)
  /\ reads' = [reads EXCEPT ![s] = NoReads]
  /\ UNCHANGED <<tables, saved, held>>

SaveStage(s) ==
  /\ Checkpoint(s)
  /\ saved' = IF NextStage(slots[s].saved) = "collection"
              THEN [saved EXCEPT ![slots[s].job] = held[s]] ELSE saved
  /\ UNCHANGED <<tables, locals>>

\* The attempt's locals go out of scope.
EndAttempt(s) ==
  /\ Finish(s) \/ Fail(s) \/ LeaseLost(s) \/ FailureUnrecorded(s)
  /\ held' = [held EXCEPT ![s] = {}]
  /\ UNCHANGED <<tables, saved, reads>>

CrashResults(p) ==
  /\ Crash(p)
  /\ held' = [s \in Slots |-> IF s \in p THEN {} ELSE held[s]]
  /\ reads' = [s \in Slots |-> IF s \in p THEN NoReads ELSE reads[s]]
  /\ UNCHANGED <<tables, saved>>

\* Mutant: a deletion that follows the foreign keys of sources and evidence only.
AssessmentsStay(c) ==
  LET gone == {r \in Runs : CompanyOf[r] = c}
      unsourced == {d \in Docs : sources[d] \in gone}
  IN  /\ sources' = [d \in Docs |-> IF d \in unsourced THEN NoRun ELSE sources[d]]
      /\ evidence' = evidence \ unsourced
      /\ snapshots' = [r \in Runs |-> IF r \in gone THEN {} ELSE snapshots[r]]
      /\ opportunity' = [k \in Companies |->
           IF opportunity[k].latest.run \in gone
           THEN [opportunity[k] EXCEPT !.latest = NullLatest] ELSE opportunity[k]]
      /\ usage' = [r \in Runs |-> IF r \in gone THEN 0 ELSE usage[r]]
      /\ saved' = [r \in Runs |-> IF r \in gone THEN {} ELSE saved[r]]
      /\ UNCHANGED assessments

\* delete_company_research: what hangs on the company's runs goes with them.
ResultsDeleted(c) ==
  LET gone == {r \in Runs : CompanyOf[r] = c}
      unsourced == {d \in Docs : sources[d] \in gone}
  IN  /\ sources' = [d \in Docs |-> IF d \in unsourced THEN NoRun ELSE sources[d]]
      /\ evidence' = evidence \ unsourced
      /\ assessments' = [r \in Runs |-> IF r \in gone THEN {} ELSE assessments[r]]
      /\ snapshots' = [r \in Runs |-> IF r \in gone THEN {} ELSE snapshots[r]]
      /\ opportunity' = [k \in Companies |->
           IF opportunity[k].latest.run \in gone
           THEN [opportunity[k] EXCEPT !.latest = NullLatest] ELSE opportunity[k]]
      /\ usage' = [r \in Runs |-> IF r \in gone THEN 0 ELSE usage[r]]
      /\ saved' = [r \in Runs |-> IF r \in gone THEN {} ELSE saved[r]]

DeleteResults(c) == Delete(c) /\ ResultsDeleted(c) /\ UNCHANGED locals

\* Steps of the job table that touch no result.
JobsOnly ==
  /\ \/ \E r \in Runs : Submit(r)
     \/ \E s \in Slots, locked \in SUBSET Runs : Claim(s, locked)
     \/ \E s \in Slots : Stop(s) \/ Heartbeat(s) \/ HeartbeatDies(s)
     \/ Tick
  /\ UNCHANGED <<tables, saved, locals>>

ResultsNext ==
  \/ JobsOnly
  \/ \E s \in Slots, docs \in SUBSET Docs, outcome \in {"clean", "errors"} :
       Collect(s, docs, outcome)
  \/ \E s \in Slots : NoDocuments(s)
  \/ \E s \in Slots : AssessReads(s)
  \/ \E s \in Slots : \E found \in {{}} \union {{cited} : cited \in SUBSET held[s]} :
       AssessCommits(s, found)
  \/ \E s \in Slots : LoadResults(s)
  \/ \E s \in Slots : StageRaises(s)
  \/ \E s \in Slots : SaveStage(s)
  \/ \E s \in Slots : EndAttempt(s)
  \/ \E p \in Processes : CrashResults(p)
  \/ \E c \in Companies : DeleteResults(c)

ResultsSpec == ResultsInit /\ [][ResultsNext]_resultVars

-----------------------------------------------------------------------------
(* Properties *)

\* The tables hold what their columns can; documents and open transactions are
\* held only by slots in the phases of an attempt that need them.
ResultsTypeOK ==
  /\ sources \in [Docs -> Runs \union {NoRun}]
  /\ evidence \subseteq Docs
  /\ assessments \in [Runs -> SUBSET SUBSET Docs]
  /\ snapshots \in [Runs -> SUBSET (1..MaxAttempts)]
  /\ usage \in [Runs -> 0..MaxAttempts]
  /\ opportunity \in [Companies -> [exists : BOOLEAN,
       latest : [run : Runs \union {NoRun}, attempt : 0..MaxAttempts]]]
  /\ saved \in [Runs -> SUBSET Docs]
  /\ held \in [Slots -> SUBSET Docs]
  /\ reads \in [Slots -> Reads]
  /\ \A s \in Slots : /\ reads[s].open => Assessing(s)
                      /\ held[s] # {} => slots[s].pc \in {"run", "save", "finish", "fail"}

\* No reference dangles, whatever is deleted while attempts run: a checkpoint names
\* stored documents, evidence has its source, an assessment its evidence (JSON ids
\* no foreign key protects, which company_detail looks up), an opportunity its
\* latest snapshot.
ReferencesResolve ==
  /\ \A r \in Runs : \A d \in saved[r] : sources[d] # NoRun
  /\ \A d \in evidence : sources[d] # NoRun
  /\ \A r \in Runs : UNION assessments[r] \subseteq evidence
  /\ \A c \in Companies :
       LET latest == opportunity[c].latest
       IN  latest # NullLatest => latest.attempt \in snapshots[latest.run]

\* The parts that make the three invariants inductive.  A slot works for a run that
\* was submitted, with a token that was drawn.
SubmittedInv ==
  \A s \in Slots :
    slots[s].job # NoRun => rows[slots[s].job].status # "absent" /\ slots[s].token > 0

\* Everything a run stores or refers to belongs to the run's company.
CompaniesFit ==
  /\ \A d \in Docs : sources[d] # NoRun => CompanyOf[sources[d]] = Publisher[d]
  /\ \A r \in Runs : saved[r] \union UNION assessments[r] \subseteq DocsOf(CompanyOf[r])
  /\ \A c \in Companies :
       LET latest == opportunity[c].latest
       IN  latest # NullLatest => latest.run \in Runs /\ CompanyOf[latest.run] = c

\* The documents an attempt holds are stored as long as its run is there.
HeldFit ==
  \A s \in Slots :
    held[s] # {} =>
      /\ held[s] \subseteq DocsOf(CompanyOf[slots[s].job])
      /\ rows[slots[s].job].status = "deleted" \/ \A d \in held[s] : sources[d] # NoRun

\* An open transaction has documents to assess.
ReadsFit == \A s \in Slots : reads[s].open => held[s] # {}

Scored(r) == assessments[r] # {} /\ snapshots[r] # {}

\* Whoever reports an assessment without error, a row or a slot about to save it,
\* has a score behind it.
ScoredInv ==
  /\ \A r \in Runs :
       "assessment" \in rows[r].stages \ rows[r].errors => Scored(r)
  /\ \A s \in Slots :
       (slots[s].pc = "save" /\ "collection" \in slots[s].saved /\ slots[s].outcome # "errors")
         => Scored(slots[s].job) \/ rows[slots[s].job].status = "deleted"

\* Nothing is stored for a run before it is submitted.
AbsentInv == \A r \in Runs : rows[r].status = "absent" => assessments[r] = {}

RInv == IInv /\ ResultsTypeOK /\ SubmittedInv /\ CompaniesFit /\ HeldFit /\ ReadsFit
          /\ ReferencesResolve /\ ScoredInv /\ AbsentInv

\* The job row and the result tables are written in different transactions; still a
\* completed run has its assessment and its score.
CompletedIsScored ==
  \A r \in Runs :
    rows[r].status = "completed" => assessments[r] # {} /\ snapshots[r] # {}

\* An assessment is evidence for a decision: no later attempt, lease loser or other
\* run of the company changes it or takes its evidence away, only deletion does.
AssessmentsAreFinal ==
  [][\A r \in Runs :
       assessments[r] # {} =>
         \/ rows'[r].status = "deleted"
         \/ assessments'[r] = assessments[r] /\ UNION assessments[r] \subseteq evidence']_resultVars

\* docs/architecture.md: a stale lease can be reclaimed without duplicating final
\* records.  A run has one score snapshot, however many attempts it took.
OneSnapshotPerRun == \A r \in Runs : Cardinality(snapshots[r]) <= 1

\* jobs/README.md: the worker fences all writes against an unexpired token.  The
\* results of a run are stored only by the slot that owns it.
ResultsAreFenced ==
  [][\A r \in Runs :
       snapshots'[r] \subseteq snapshots[r]
         \/ \E s \in Slots : slots[s].job = r /\ Owned(s)]_resultVars
=============================================================================
