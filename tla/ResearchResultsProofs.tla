------------------------ MODULE ResearchResultsProofs ------------------------
(***************************************************************************)
(* The result tables of the pipeline do not disturb the job table: every   *)
(* behaviour of ResearchResults is one of ResearchJobs, so that what is    *)
(* proved of the jobs holds of the system that stores results.             *)
(***************************************************************************)
EXTENDS ResearchResults, ResearchJobsProofs

\* Storing results is a step of the job table or leaves it alone.
LEMMA JobsStep == [ResultsNext]_resultVars => [Next]_vars
  <1> SUFFICES ASSUME [ResultsNext]_resultVars PROVE Next \/ UNCHANGED vars
    OBVIOUS
  <1>1. CASE JobsOnly
    BY <1>1 DEF JobsOnly, Next, Step
  <1>2. ASSUME NEW s \in Slots, NEW docs, NEW outcome \in {"clean", "errors"},
               Collect(s, docs, outcome)
        PROVE  Next
    BY <1>2 DEF Collect, Next, Step
  <1>3. ASSUME NEW s \in Slots, NoDocuments(s) PROVE Next
    BY <1>3 DEF NoDocuments, Next, Step
  <1>4. ASSUME NEW s \in Slots, AssessReads(s) PROVE UNCHANGED vars
    BY <1>4 DEF AssessReads
  <1>5. ASSUME NEW s \in Slots, NEW found, AssessCommits(s, found) PROVE Next
    BY <1>5 DEF AssessCommits, Next, Step
  <1>6. ASSUME NEW s \in Slots,
               LoadResults(s) \/ StageRaises(s) \/ SaveStage(s) \/ EndAttempt(s)
        PROVE  Next
    BY <1>6 DEF LoadResults, StageRaises, SaveStage, EndAttempt, Next, Step
  <1>7. ASSUME NEW p \in Processes, CrashResults(p) PROVE Next
    BY <1>7 DEF CrashResults, Next
  <1>8. ASSUME NEW c \in Companies, DeleteResults(c) PROVE Next
    BY <1>8 DEF DeleteResults, Next
  <1>9. QED
    BY <1>1, <1>2, <1>3, <1>4, <1>5, <1>6, <1>7, <1>8 DEF ResultsNext, resultVars

\* The composed system implements the job table.
THEOREM ResultsImplementJobs == ResultsSpec => Spec
  <1>1. ResultsInit => Init
    BY DEF ResultsInit
  <1>2. QED BY <1>1, JobsStep, PTL DEF ResultsSpec, Spec

\* A stored result cannot make two slots pass the fence of one run.
THEOREM ResultsKeepOneOwner == ResultsSpec => []AtMostOneOwner
  BY ResultsImplementJobs, OneOwner, PTL

-----------------------------------------------------------------------------
(* Slots and their locals *)

\* A run that was submitted is never absent again.
LEMMA NeverAbsentAgain ==
  ASSUME TypeOK, [Next]_vars, NEW r \in Runs, rows[r].status # "absent"
  PROVE  rows'[r].status # "absent"
  <1>1. rows[r] \in Row
    BY DEF TypeOK
  <1>2. ASSUME NEW s \in Slots, OwnerWrites(s, r) PROVE rows'[r].status # "absent"
    <2>1. rows[r].status = "running"
      BY <1>2 DEF OwnerWrites, Owned
    <2>2. ASSUME NEW stage \in Stages, NEW outcome \in Outcome,
                 rows'[r] = CheckpointedRow(rows[r], stage, outcome)
          PROVE  rows'[r].status # "absent"
      BY <1>1, <2>1, <2>2, CheckpointedRowFields
    <2>3. ASSUME NEW retryable \in BOOLEAN, rows'[r] = FailedRow(rows[r], retryable)
          PROVE  rows'[r].status # "absent"
      BY <1>1, <2>3, FailedRowFields
    <2>4. ASSUME rows'[r] = FinishedRow(rows[r]) PROVE rows'[r].status # "absent"
      BY <1>1, <2>4, FinishedRowFields
    <2>5. ASSUME rows'[r] = [rows[r] EXCEPT !.lease = LeaseTime]
          PROVE  rows'[r].status # "absent"
      BY <1>1, <2>5 DEF Row
    <2>6. QED BY <1>2, <2>2, <2>3, <2>4, <2>5 DEF OwnerWrites
  <1>3. ASSUME rows'[r] = TickedRow(rows[r]) PROVE rows'[r].status # "absent"
    BY <1>1, <1>3, TickedRowFields
  <1>4. ASSUME rows'[r] = GivenUp(rows[r]) \/ rows'[r] = ClaimedRow(rows[r])
        PROVE  rows'[r].status # "absent"
    BY <1>1, <1>4, GivenUpFields, ClaimedRowFields
  <1>5. ASSUME rows'[r] = [AbsentRow EXCEPT !.status = "deleted"]
        PROVE  rows'[r].status # "absent"
    BY <1>5, DeletedFields
  <1>6. RowChanges(r)
    BY RowCases
  <1>7. QED
    BY <1>1, <1>2, <1>3, <1>4, <1>5, <1>6 DEF RowChanges

\* A slot works for a submitted run, and a claim draws a token.
LEMMA SubmittedStep == IInv /\ SubmittedInv /\ [Next]_vars => SubmittedInv'
  <1> SUFFICES ASSUME IInv, SubmittedInv, [Next]_vars, NEW t \in Slots,
                      slots'[t].job # NoRun
               PROVE  rows'[slots'[t].job].status # "absent" /\ slots'[t].token > 0
    BY DEF SubmittedInv
  <1>1. TypeOK /\ TypeOK' /\ PhaseFits(slots[t])
    BY InvStep DEF IInv, SlotInv
  <1>2. CASE slots'[t].job = slots[t].job /\ slots'[t].token = slots[t].token
    <2>1. slots[t].job \in Runs
      BY <1>1, <1>2 DEF TypeOK, Slot, SlotState
    <2>2. QED BY <1>1, <1>2, <2>1, NeverAbsentAgain DEF SubmittedInv
  <1>3. ASSUME NEW r \in Runs, slots'[t] = StartedSlot(r, rows[r].attempts + 1),
               rows'[r] = ClaimedRow(rows[r])
        PROVE  rows'[slots'[t].job].status # "absent" /\ slots'[t].token > 0
    <2>1. slots'[t].job = r /\ slots'[t].token = rows[r].attempts + 1
      BY <1>3 DEF StartedSlot, IdleSlot
    <2>2. rows[r] \in Row /\ rows[r].attempts \in Nat
      BY <1>1, AttemptsAssumption DEF TypeOK, Row
    <2>3. QED BY <1>3, <2>1, <2>2, ClaimedRowFields
  <1>4. QED BY <1>1, <1>2, <1>3, SlotMoves

\* Steps of the job table alone move a slot only into or out of an attempt.
LEMMA JobsOnlyFrame ==
  ASSUME TypeOK, JobsOnly, NEW t \in Slots
  PROVE  \/ slots[t].pc \in {"idle", "stop"} /\ slots'[t].pc \in {"idle", "load"}
         \/ /\ slots'[t].pc = slots[t].pc /\ slots'[t].job = slots[t].job
            /\ slots'[t].token = slots[t].token /\ slots'[t].saved = slots[t].saved
            /\ slots'[t].outcome = slots[t].outcome
  <1> DEFINE Moved == slots[t].pc \in {"idle", "stop"} /\ slots'[t].pc \in {"idle", "load"}
             Same == /\ slots'[t].pc = slots[t].pc /\ slots'[t].job = slots[t].job
                     /\ slots'[t].token = slots[t].token /\ slots'[t].saved = slots[t].saved
                     /\ slots'[t].outcome = slots[t].outcome
  <1>1. slots \in [Slots -> Slot] /\ slots[t] \in SlotState
    BY DEF TypeOK, Slot
  <1>2. ASSUME NEW s \in Slots, NEW locked \in SUBSET Runs, Claim(s, locked)
        PROVE  Moved \/ Same
    <2>1. slots[s].pc = "idle"
      BY <1>2 DEF Claim
    <2>2. \/ UNCHANGED slots
          \/ \E r \in Runs : slots' = [slots EXCEPT ![s] = StartedSlot(r, rows[r].attempts + 1)]
      BY <1>2, ClaimCases
    <2>3. ASSUME NEW r, NEW token PROVE StartedSlot(r, token).pc = "load"
      BY DEF StartedSlot, IdleSlot
    <2>4. QED BY <1>1, <2>1, <2>2, <2>3
  <1>3. ASSUME NEW s \in Slots, Stop(s) PROVE Moved \/ Same
    BY <1>1, <1>3 DEF Stop, IdleSlot
  <1>4. ASSUME NEW s \in Slots, HeartbeatDies(s) PROVE Same
    BY <1>1, <1>4 DEF HeartbeatDies, SlotState
  <1>5. ASSUME UNCHANGED slots PROVE Same
    BY <1>5
  <1>6. QED
    BY <1>2, <1>3, <1>4, <1>5 DEF JobsOnly, Submit, Heartbeat, Tick

\* What a slot may hold in its phase.
LocalsFit(t) ==
  /\ reads[t].open => Assessing(t) /\ held[t] # {}
  /\ held[t] # {} => slots[t].pc \in {"run", "save", "finish", "fail"}

\* A working slot's run and token.
LEMMA WorkingSlot ==
  ASSUME TypeOK, NEW s \in Slots, slots[s].pc # "idle"
  PROVE  /\ slots[s] \in SlotState /\ slots[s].job \in Runs /\ slots[s].job # NoRun
         /\ slots[s].token \in 0..MaxAttempts
         /\ CompanyOf[slots[s].job] \in Companies
  BY CompanyAssumption DEF TypeOK, Slot, SlotState

\* A StageResult takes one slot to its checkpoint.
LEMMA StageReturnsFrame ==
  ASSUME TypeOK, NEW s \in Slots, NEW outcome, StageReturns(s, outcome), NEW t \in Slots
  PROVE  /\ t # s => slots'[t] = slots[t]
         /\ slots'[s].pc = "save" /\ slots'[s].job = slots[s].job
         /\ slots'[s].token = slots[s].token
         /\ slots'[s].saved = slots[s].saved /\ slots'[s].outcome = outcome
         /\ rows' = rows
  BY DEF StageReturns, TypeOK, Slot, SlotState

\* An exception takes one slot to its failure report.
LEMMA RaisesFrame ==
  ASSUME TypeOK, NEW s \in Slots, StageIsTransient(s) \/ Raise(s), NEW t \in Slots
  PROVE  /\ t # s => slots'[t] = slots[t]
         /\ slots'[s].pc = "fail" /\ slots'[s].job = slots[s].job
         /\ rows' = rows
  BY DEF StageIsTransient, Raise, TypeOK, Slot, SlotState

\* Loading the snapshot moves one slot on and keeps its run.
LEMMA LoadFrame ==
  ASSUME TypeOK, NEW s \in Slots, Load(s), NEW t \in Slots
  PROVE  /\ t # s => slots'[t] = slots[t]
         /\ slots[s].pc = "load" /\ slots'[s].pc \in {"run", "finish"}
         /\ slots'[s].job = slots[s].job
         /\ rows' = rows
  BY DEF Load, PhaseAfter, TypeOK, Slot, SlotState

\* A checkpoint moves one slot on and keeps its run.
LEMMA CheckpointFrame ==
  ASSUME TypeOK, NEW s \in Slots, Checkpoint(s), NEW t \in Slots
  PROVE  /\ t # s => slots'[t] = slots[t]
         /\ slots[s].pc = "save" /\ slots'[s].pc \in {"run", "finish"}
         /\ slots'[s].job = slots[s].job
         /\ Owned(s)
         /\ rows' = [rows EXCEPT ![slots[s].job] =
                       CheckpointedRow(@, NextStage(slots[s].saved), slots[s].outcome)]
  BY DEF Checkpoint, PhaseAfter, TypeOK, Slot, SlotState

\* The end of an attempt leaves one slot with only its heartbeat to stop.
LEMMA EndFrame ==
  ASSUME TypeOK, NEW s \in Slots, NEW t \in Slots,
         Finish(s) \/ Fail(s) \/ LeaseLost(s) \/ FailureUnrecorded(s)
  PROVE  /\ t # s => slots'[t] = slots[t]
         /\ slots[s].pc \in {"save", "finish", "fail"} /\ slots'[s].pc = "stop"
         /\ slots'[s].job = slots[s].job
  BY DEF Finish, Fail, LeaseLost, FailureUnrecorded, StoppedSlot, TypeOK, Slot, SlotState

\* Documents and open transactions are held only in the phases that use them.
LEMMA LocalsStep ==
  ASSUME TypeOK, ResultsTypeOK, ReadsFit, [ResultsNext]_resultVars, NEW t \in Slots
  PROVE  LocalsFit(t)'
  <1>1. /\ LocalsFit(t) /\ slots \in [Slots -> Slot]
        /\ held \in [Slots -> SUBSET Docs] /\ reads \in [Slots -> Reads]
    BY DEF ResultsTypeOK, ReadsFit, LocalsFit, TypeOK
  <1> DEFINE Same == /\ slots'[t].pc = slots[t].pc /\ slots'[t].saved = slots[t].saved
                     /\ held'[t] = held[t] /\ reads'[t] = reads[t]
  <1>2. ASSUME Same PROVE LocalsFit(t)'
    BY <1>1, <1>2 DEF LocalsFit, Assessing
  <1>3. CASE JobsOnly
    <2>1. held' = held /\ reads' = reads
      BY <1>3 DEF JobsOnly, locals
    <2>2. CASE slots[t].pc \in {"idle", "stop"}
      BY <1>1, <2>1, <2>2 DEF LocalsFit, Assessing
    <2>3. QED BY <1>2, <1>3, <2>1, <2>2, JobsOnlyFrame
  <1>4. ASSUME NEW s \in Slots, NEW docs, NEW outcome, Collect(s, docs, outcome)
        PROVE  LocalsFit(t)'
    BY <1>1, <1>2, <1>4, StageReturnsFrame DEF Collect, LocalsFit, Assessing, NextStage
  <1>5. ASSUME NEW s \in Slots, NoDocuments(s) PROVE LocalsFit(t)'
    BY <1>1, <1>2, <1>5, StageReturnsFrame DEF NoDocuments, LocalsFit, locals
  <1>6. ASSUME NEW s \in Slots, AssessReads(s) PROVE LocalsFit(t)'
    BY <1>1, <1>2, <1>6 DEF AssessReads, LocalsFit, Assessing, vars
  <1>7. ASSUME NEW s \in Slots, NEW found, AssessCommits(s, found) PROVE LocalsFit(t)'
    BY <1>1, <1>2, <1>7, StageReturnsFrame DEF AssessCommits, LocalsFit, Assessing, NoReads
  <1>8. ASSUME NEW s \in Slots, LoadResults(s) PROVE LocalsFit(t)'
    BY <1>1, <1>2, <1>8, LoadFrame DEF LoadResults, LocalsFit, Assessing
  <1>9. ASSUME NEW s \in Slots, StageRaises(s) PROVE LocalsFit(t)'
    BY <1>1, <1>2, <1>9, RaisesFrame DEF StageRaises, LocalsFit, NoReads
  <1>10. ASSUME NEW s \in Slots, SaveStage(s) PROVE LocalsFit(t)'
    BY <1>1, <1>2, <1>10, CheckpointFrame DEF SaveStage, LocalsFit, Assessing, locals
  <1>11. ASSUME NEW s \in Slots, EndAttempt(s) PROVE LocalsFit(t)'
    BY <1>1, <1>2, <1>11, EndFrame DEF EndAttempt, LocalsFit, Assessing
  <1>12. ASSUME NEW p \in Processes, CrashResults(p) PROVE LocalsFit(t)'
    BY <1>1, <1>2, <1>12 DEF CrashResults, Crash, LocalsFit, NoReads
  <1>13. ASSUME NEW c \in Companies, DeleteResults(c) PROVE LocalsFit(t)'
    BY <1>2, <1>13 DEF DeleteResults, Delete, locals
  <1>14. CASE UNCHANGED resultVars
    BY <1>2, <1>14 DEF resultVars, vars, locals
  <1>15. QED
    BY <1>3, <1>4, <1>5, <1>6, <1>7, <1>8, <1>9, <1>10, <1>11, <1>12, <1>13, <1>14
       DEF ResultsNext

-----------------------------------------------------------------------------
(* Types *)

TablesType ==
  /\ sources \in [Docs -> Runs \union {NoRun}]
  /\ evidence \subseteq Docs
  /\ assessments \in [Runs -> SUBSET SUBSET Docs]
  /\ snapshots \in [Runs -> SUBSET (1..MaxAttempts)]
  /\ usage \in [Runs -> 0..MaxAttempts]
  /\ opportunity \in [Companies -> [exists : BOOLEAN,
       latest : [run : Runs \union {NoRun}, attempt : 0..MaxAttempts]]]
  /\ saved \in [Runs -> SUBSET Docs]

LocalsType == held \in [Slots -> SUBSET Docs] /\ reads \in [Slots -> Reads]

\* Every step leaves values in the tables and locals that their columns can hold.
LEMMA TablesStep ==
  ASSUME TypeOK, SubmittedInv, TablesType, LocalsType, [ResultsNext]_resultVars
  PROVE  TablesType' /\ LocalsType'
  <1>1. ASSUME UNCHANGED <<tables, saved>> PROVE TablesType'
    BY <1>1 DEF tables, TablesType
  <1>2. ASSUME UNCHANGED locals PROVE LocalsType'
    BY <1>2 DEF locals, LocalsType
  <1>3. CASE JobsOnly
    BY <1>1, <1>2, <1>3 DEF JobsOnly
  <1>4. ASSUME NEW s \in Slots, NEW docs \in SUBSET Docs, NEW outcome,
               Collect(s, docs, outcome)
        PROVE  TablesType' /\ LocalsType'
    <2>1. slots[s].job \in Runs
      BY <1>4, WorkingSlot DEF Collect
    <2>2. Attributed(slots[s].job, docs) \in [Docs -> Runs \union {NoRun}]
      BY <2>1 DEF Attributed, TablesType
    <2>3. QED BY <1>4, <2>2 DEF Collect, TablesType, LocalsType
  <1>5. ASSUME NEW s \in Slots, NoDocuments(s) PROVE TablesType' /\ LocalsType'
    BY <1>1, <1>2, <1>5 DEF NoDocuments
  <1>6. ASSUME NEW s \in Slots, AssessReads(s) PROVE TablesType' /\ LocalsType'
    <2>1. slots[s].job \in Runs /\ CompanyOf[slots[s].job] \in Companies
      BY <1>6, WorkingSlot DEF AssessReads, Assessing
    <2>2. opportunity[CompanyOf[slots[s].job]].exists \in BOOLEAN
      BY <2>1 DEF TablesType
    <2>3. [open |-> TRUE, evidence |-> evidence,
           opportunity |-> opportunity[CompanyOf[slots[s].job]].exists] \in Reads
      BY <2>2 DEF Reads, TablesType
    <2>4. LocalsType'
      BY <1>6, <2>3 DEF AssessReads, LocalsType
    <2>5. TablesType'
      BY <1>1, <1>6 DEF AssessReads
    <2>6. QED BY <2>4, <2>5
  <1>7. ASSUME NEW s \in Slots, NEW found \in {{}} \union {{cited} : cited \in SUBSET held[s]},
               AssessCommits(s, found)
        PROVE  TablesType' /\ LocalsType'
    <2> DEFINE r == slots[s].job
               attempt == slots[s].token
               latest == [run |-> r, attempt |-> attempt]
    <2>1. /\ r \in Runs /\ CompanyOf[r] \in Companies
          /\ attempt \in 0..MaxAttempts /\ r # NoRun /\ attempt > 0
      BY <1>7, WorkingSlot DEF AssessCommits, Assessing, SubmittedInv
    <2>2. attempt \in 1..MaxAttempts
      BY <2>1
    <2>3. found \subseteq SUBSET Docs /\ UNION found \subseteq Docs
      BY <1>7 DEF LocalsType
    <2>4. latest \in [run : Runs \union {NoRun}, attempt : 0..MaxAttempts]
      BY <2>1
    <2>5. [exists |-> TRUE, latest |-> latest] \in
            [exists : BOOLEAN, latest : [run : Runs \union {NoRun}, attempt : 0..MaxAttempts]]
      BY <2>4
    <2>6. opportunity' = [opportunity EXCEPT ![CompanyOf[r]] = [exists |-> TRUE, latest |-> latest]]
      BY <1>7 DEF AssessCommits
    <2> HIDE DEF latest
    <2>7. opportunity' \in [Companies -> [exists : BOOLEAN,
            latest : [run : Runs \union {NoRun}, attempt : 0..MaxAttempts]]]
      BY <2>5, <2>6 DEF TablesType
    <2>8. /\ assessments' \in [Runs -> SUBSET SUBSET Docs]
          /\ evidence' \subseteq Docs
          /\ snapshots' \in [Runs -> SUBSET (1..MaxAttempts)]
          /\ usage' \in [Runs -> 0..MaxAttempts]
      BY <1>7, <2>1, <2>2, <2>3 DEF AssessCommits, TablesType
    <2>9. sources' = sources /\ saved' = saved
      BY <1>7 DEF AssessCommits
    <2>10. LocalsType'
      BY <1>7 DEF AssessCommits, LocalsType, NoReads, Reads
    <2>11. QED BY <2>7, <2>8, <2>9, <2>10 DEF TablesType
  <1>8. ASSUME NEW s \in Slots, LoadResults(s) PROVE TablesType' /\ LocalsType'
    <2>1. saved[slots[s].job] \in SUBSET Docs
      BY <1>8, WorkingSlot DEF LoadResults, Load, TablesType
    <2>2. QED BY <1>1, <1>8, <2>1 DEF LoadResults, LocalsType
  <1>9. ASSUME NEW s \in Slots, StageRaises(s) PROVE TablesType' /\ LocalsType'
    BY <1>1, <1>9 DEF StageRaises, LocalsType, NoReads, Reads
  <1>10. ASSUME NEW s \in Slots, SaveStage(s) PROVE TablesType' /\ LocalsType'
    <2>1. held[s] \in SUBSET Docs
      BY DEF LocalsType
    <2>2. saved' \in [Runs -> SUBSET Docs]
      BY <1>10, <2>1 DEF SaveStage, TablesType
    <2>3. QED BY <1>2, <1>10, <2>2 DEF SaveStage, tables, TablesType
  <1>11. ASSUME NEW s \in Slots, EndAttempt(s) PROVE TablesType' /\ LocalsType'
    BY <1>1, <1>11 DEF EndAttempt, LocalsType
  <1>12. ASSUME NEW p \in Processes, CrashResults(p) PROVE TablesType' /\ LocalsType'
    BY <1>1, <1>12 DEF CrashResults, LocalsType, NoReads, Reads
  <1>13. ASSUME NEW c \in Companies, DeleteResults(c) PROVE TablesType' /\ LocalsType'
    <2>1. NullLatest \in [run : Runs \union {NoRun}, attempt : 0..MaxAttempts]
      BY AttemptsAssumption DEF NullLatest
    <2>2. ASSUME NEW k \in Companies
          PROVE  [opportunity[k] EXCEPT !.latest = NullLatest] \in
                   [exists : BOOLEAN, latest : [run : Runs \union {NoRun}, attempt : 0..MaxAttempts]]
      BY <2>1 DEF TablesType
    <2> HIDE DEF NullLatest
    <2>3. opportunity' \in [Companies -> [exists : BOOLEAN,
            latest : [run : Runs \union {NoRun}, attempt : 0..MaxAttempts]]]
      BY <1>13, <2>2 DEF DeleteResults, ResultsDeleted, TablesType
    <2>4. /\ sources' \in [Docs -> Runs \union {NoRun}]
          /\ evidence' \subseteq Docs
          /\ assessments' \in [Runs -> SUBSET SUBSET Docs]
          /\ snapshots' \in [Runs -> SUBSET (1..MaxAttempts)]
          /\ saved' \in [Runs -> SUBSET Docs]
      BY <1>13 DEF DeleteResults, ResultsDeleted, TablesType
    <2>5. usage' \in [Runs -> 0..MaxAttempts]
      BY <1>13, AttemptsAssumption DEF DeleteResults, ResultsDeleted, TablesType
    <2>6. QED BY <1>2, <1>13, <2>3, <2>4, <2>5 DEF DeleteResults, TablesType
  <1>14. CASE UNCHANGED resultVars
    BY <1>1, <1>2, <1>14 DEF resultVars
  <1>15. QED
    BY <1>3, <1>4, <1>5, <1>6, <1>7, <1>8, <1>9, <1>10, <1>11, <1>12, <1>13, <1>14
       DEF ResultsNext

\* The type invariant of the result tables is preserved.
LEMMA ResultsTypeStep ==
  TypeOK /\ SubmittedInv /\ ResultsTypeOK /\ ReadsFit /\ [ResultsNext]_resultVars
    => ResultsTypeOK' /\ ReadsFit'
  <1> SUFFICES ASSUME TypeOK, SubmittedInv, ResultsTypeOK, ReadsFit, [ResultsNext]_resultVars
               PROVE  ResultsTypeOK' /\ ReadsFit'
    OBVIOUS
  <1>1. TablesType' /\ LocalsType'
    BY TablesStep DEF ResultsTypeOK, TablesType, LocalsType
  <1>2. \A t \in Slots : LocalsFit(t)'
    BY LocalsStep
  <1>3. QED BY <1>1, <1>2 DEF ResultsTypeOK, ReadsFit, TablesType, LocalsType, LocalsFit

-----------------------------------------------------------------------------
(* References *)

\* Deletion of a company's research leaves the documents of other companies alone.
LEMMA DeletionFrame ==
  ASSUME ResultsTypeOK, CompaniesFit, NEW c \in Companies, ResultsDeleted(c), NEW d \in Docs
  PROVE  /\ sources'[d] = IF sources[d] # NoRun /\ Publisher[d] = c THEN NoRun ELSE sources[d]
         /\ d \in evidence' <=> d \in evidence /\ ~(sources[d] # NoRun /\ Publisher[d] = c)
  <1> DEFINE gone == {r \in Runs : CompanyOf[r] = c}
             unsourced == {e \in Docs : sources[e] \in gone}
  <1>1. d \in unsourced <=> sources[d] # NoRun /\ Publisher[d] = c
    BY RunsAssumption DEF ResultsTypeOK, CompaniesFit
  <1>2. /\ sources'[d] = IF d \in unsourced THEN NoRun ELSE sources[d]
        /\ evidence' = evidence \ unsourced
    BY DEF ResultsDeleted
  <1> HIDE DEF unsourced
  <1>3. QED BY <1>1, <1>2

\* No step but a deletion unstores a document, and no step stores one for another company.
LEMMA SourcesMove ==
  ASSUME TypeOK, ResultsTypeOK, [ResultsNext]_resultVars, NEW d \in Docs,
         \A c \in Companies : ~DeleteResults(c)
  PROVE  \/ sources'[d] = sources[d]
         \/ \E s \in Slots : /\ slots[s].job \in Runs /\ sources'[d] = slots[s].job
                             /\ CompanyOf[slots[s].job] = Publisher[d]
  <1>1. ASSUME NEW s \in Slots, NEW docs \in SUBSET Docs, NEW outcome,
               Collect(s, docs, outcome)
        PROVE  \/ sources'[d] = sources[d]
               \/ /\ slots[s].job \in Runs /\ sources'[d] = slots[s].job
                  /\ CompanyOf[slots[s].job] = Publisher[d]
    <2>1. slots[s].job \in Runs
      BY <1>1, WorkingSlot DEF Collect
    <2>2. docs \subseteq DocsOf(CompanyOf[slots[s].job])
          /\ sources' = Attributed(slots[s].job, docs)
      BY <1>1 DEF Collect
    <2>3. QED BY <2>1, <2>2 DEF Attributed, DocsOf
  <1>2. QED
    BY <1>1
       DEF ResultsNext, JobsOnly, NoDocuments, AssessReads, AssessCommits, LoadResults,
           StageRaises, SaveStage, EndAttempt, CrashResults, tables, resultVars

\* What a commit of assess cites is held by its slot.
LEMMA CitedIsHeld ==
  ASSUME NEW s \in Slots, NEW found \in {{}} \union {{cited} : cited \in SUBSET held[s]}
  PROVE  UNION found \subseteq held[s]
  OBVIOUS

\* A run's own rows stay within its company.
LEMMA CompaniesStep ==
  IInv /\ ResultsTypeOK /\ CompaniesFit /\ HeldFit /\ [ResultsNext]_resultVars
    => CompaniesFit'
  <1> SUFFICES ASSUME IInv, ResultsTypeOK, CompaniesFit, HeldFit, [ResultsNext]_resultVars
               PROVE  CompaniesFit'
    OBVIOUS
  <1> DEFINE SourcesOf == \A d \in Docs : sources[d] # NoRun => CompanyOf[sources[d]] = Publisher[d]
             Within(r) == saved[r] \union UNION assessments[r] \subseteq DocsOf(CompanyOf[r])
             Latest(c) == LET latest == opportunity[c].latest
                          IN  latest # NullLatest
                                => latest.run \in Runs /\ CompanyOf[latest.run] = c
  <1>1. /\ TypeOK /\ SourcesOf
        /\ \A r \in Runs : Within(r)
        /\ \A c \in Companies : Latest(c)
    BY DEF IInv, CompaniesFit
  <1>2. CASE \E c \in Companies : DeleteResults(c)
    <2> PICK c \in Companies : ResultsDeleted(c)
      BY <1>2 DEF DeleteResults
    <2>1. SourcesOf'
      BY DeletionFrame DEF CompaniesFit
    <2>2. ASSUME NEW r \in Runs PROVE Within(r)'
      BY <1>1 DEF ResultsDeleted
    <2>3. ASSUME NEW k \in Companies PROVE Latest(k)'
      <3>1. opportunity'[k].latest = NullLatest \/ opportunity'[k] = opportunity[k]
        BY DEF ResultsDeleted, ResultsTypeOK
      <3>2. QED BY <1>1, <3>1
    <2>4. QED BY <2>1, <2>2, <2>3 DEF CompaniesFit
  <1>3. CASE \A c \in Companies : ~DeleteResults(c)
    <2>1. SourcesOf'
      BY <1>1, <1>3, SourcesMove
    <2>2. ASSUME NEW s \in Slots, NEW found \in {{}} \union {{cited} : cited \in SUBSET held[s]},
                 AssessCommits(s, found)
          PROVE  (\A r \in Runs : Within(r)') /\ (\A c \in Companies : Latest(c)')
      <3> DEFINE r == slots[s].job
      <3>1. r \in Runs /\ CompanyOf[r] \in Companies
        BY <1>1, <2>2, WorkingSlot DEF AssessCommits, Assessing
      <3>2. UNION found \subseteq DocsOf(CompanyOf[r])
        BY <2>2, CitedIsHeld DEF HeldFit
      <3>3. /\ saved' = saved
            /\ assessments' = [assessments EXCEPT ![r] = @ \union found]
            /\ opportunity' = [opportunity EXCEPT ![CompanyOf[r]] =
                 [exists |-> TRUE, latest |-> [run |-> r, attempt |-> slots[s].token]]]
        BY <2>2 DEF AssessCommits
      <3>4. ASSUME NEW q \in Runs PROVE Within(q)'
        BY <1>1, <3>1, <3>2, <3>3 DEF ResultsTypeOK
      <3>5. ASSUME NEW c \in Companies PROVE Latest(c)'
        BY <1>1, <3>1, <3>3 DEF ResultsTypeOK
      <3>6. QED BY <3>4, <3>5
    <2>3. ASSUME NEW s \in Slots, SaveStage(s)
          PROVE  (\A r \in Runs : Within(r)') /\ (\A c \in Companies : Latest(c)')
      <3>1. held[s] \subseteq DocsOf(CompanyOf[slots[s].job])
        BY DEF HeldFit
      <3>2. /\ assessments' = assessments /\ opportunity' = opportunity
            /\ saved' = saved \/ saved' = [saved EXCEPT ![slots[s].job] = held[s]]
        BY <2>3 DEF SaveStage, tables
      <3>3. QED BY <1>1, <3>1, <3>2 DEF ResultsTypeOK
    <2>4. ASSUME saved' = saved, assessments' = assessments, opportunity' = opportunity
          PROVE  (\A r \in Runs : Within(r)') /\ (\A c \in Companies : Latest(c)')
      BY <1>1, <2>4
    <2> HIDE DEF Within, Latest
    <2>5. (\A r \in Runs : Within(r)') /\ (\A c \in Companies : Latest(c)')
      BY <1>3, <2>2, <2>3, <2>4
         DEF ResultsNext, JobsOnly, Collect, NoDocuments, AssessReads, LoadResults,
             StageRaises, EndAttempt, CrashResults, tables, resultVars
    <2>6. QED BY <2>1, <2>5 DEF CompaniesFit, Within, Latest
  <1>4. QED BY <1>2, <1>3

\* A slot keeps its run while it holds documents.
LEMMA HeldJob ==
  ASSUME TypeOK, ResultsTypeOK, [ResultsNext]_resultVars, NEW t \in Slots, held'[t] # {},
         \A docs \in SUBSET Docs, outcome \in {"clean", "errors"} : ~Collect(t, docs, outcome)
  PROVE  /\ slots'[t].job = slots[t].job /\ slots[t].pc # "idle"
         /\ held'[t] = held[t] \/ (LoadResults(t) /\ held'[t] = saved[slots[t].job])
  <1> DEFINE Same == slots'[t].job = slots[t].job /\ slots[t].pc # "idle" /\ held'[t] = held[t]
             Goal == /\ slots'[t].job = slots[t].job /\ slots[t].pc # "idle"
                     /\ held'[t] = held[t] \/ (LoadResults(t) /\ held'[t] = saved[slots[t].job])
  <1>1. /\ held \in [Slots -> SUBSET Docs] /\ slots \in [Slots -> Slot]
        /\ held[t] # {} => slots[t].pc \in {"run", "save", "finish", "fail"}
    BY DEF ResultsTypeOK, TypeOK
  <1>2. CASE JobsOnly
    BY <1>1, <1>2, JobsOnlyFrame DEF JobsOnly, locals
  <1>3. ASSUME NEW s \in Slots, NEW docs \in SUBSET Docs, NEW outcome \in {"clean", "errors"},
               Collect(s, docs, outcome)
        PROVE  Same
    <2>1. s # t
      BY <1>3
    <2>2. QED BY <1>1, <1>3, <2>1, StageReturnsFrame DEF Collect
  <1>4. ASSUME NEW s \in Slots, NoDocuments(s) PROVE Same
    BY <1>1, <1>4, StageReturnsFrame DEF NoDocuments, locals
  <1>5. ASSUME NEW s \in Slots, AssessReads(s) PROVE Same
    BY <1>1, <1>5 DEF AssessReads, vars
  <1>6. ASSUME NEW s \in Slots, NEW found, AssessCommits(s, found) PROVE Same
    BY <1>1, <1>6, StageReturnsFrame DEF AssessCommits
  <1>7. ASSUME NEW s \in Slots, LoadResults(s) PROVE Goal
    BY <1>1, <1>7, LoadFrame DEF LoadResults
  <1>8. ASSUME NEW s \in Slots, StageRaises(s) PROVE Same
    BY <1>1, <1>8, RaisesFrame DEF StageRaises
  <1>9. ASSUME NEW s \in Slots, SaveStage(s) PROVE Same
    BY <1>1, <1>9, CheckpointFrame DEF SaveStage, locals
  <1>10. ASSUME NEW s \in Slots, EndAttempt(s) PROVE Same
    BY <1>1, <1>10, EndFrame DEF EndAttempt
  <1>11. ASSUME NEW p \in Processes, CrashResults(p) PROVE Same
    BY <1>1, <1>11 DEF CrashResults, Crash
  <1>12. ASSUME NEW c \in Companies, DeleteResults(c) PROVE Same
    BY <1>1, <1>12 DEF DeleteResults, Delete, locals
  <1>13. CASE UNCHANGED resultVars
    BY <1>1, <1>13 DEF resultVars, vars, locals
  <1>14. QED
    BY <1>1, <1>2, <1>3, <1>4, <1>5, <1>6, <1>7, <1>8, <1>9, <1>10, <1>11, <1>12, <1>13
       DEF ResultsNext

\* A stored document of a run stays stored until the run's company is deleted.
LEMMA StaysStored ==
  ASSUME IInv, ResultsTypeOK, CompaniesFit, [ResultsNext]_resultVars,
         NEW r \in Runs, NEW d \in DocsOf(CompanyOf[r]), sources[d] # NoRun,
         rows[r].status # "absent"
  PROVE  sources'[d] # NoRun \/ rows'[r].status = "deleted"
  <1>1. d \in Docs /\ Publisher[d] = CompanyOf[r] /\ TypeOK
    BY DEF DocsOf, IInv
  <1>2. CASE \E c \in Companies : DeleteResults(c)
    <2> PICK c \in Companies : Delete(c) /\ ResultsDeleted(c)
      BY <1>2 DEF DeleteResults
    <2>1. CASE CompanyOf[r] = c
      BY <1>1, <2>1, DeletedFields DEF Delete, TypeOK
    <2>2. CASE CompanyOf[r] # c
      BY <1>1, <2>2, DeletionFrame
    <2>3. QED BY <2>1, <2>2
  <1>3. CASE \A c \in Companies : ~DeleteResults(c)
    BY <1>1, <1>3, SourcesMove, RunsAssumption
  <1>4. QED BY <1>2, <1>3

\* What an attempt holds stays stored until its run is deleted.
LEMMA HeldStep ==
  IInv /\ ResultsTypeOK /\ SubmittedInv /\ CompaniesFit /\ HeldFit /\ ReferencesResolve
    /\ [ResultsNext]_resultVars => HeldFit'
  <1> SUFFICES ASSUME IInv, ResultsTypeOK, SubmittedInv, CompaniesFit, HeldFit,
                      ReferencesResolve, [ResultsNext]_resultVars,
                      NEW t \in Slots, held'[t] # {}
               PROVE  /\ held'[t] \subseteq DocsOf(CompanyOf[slots'[t].job])
                      /\ \/ rows'[slots'[t].job].status = "deleted"
                         \/ \A d \in held'[t] : sources'[d] # NoRun
    BY DEF HeldFit
  <1>1. TypeOK
    BY DEF IInv
  <1>2. CASE \E docs \in SUBSET Docs, outcome \in {"clean", "errors"} : Collect(t, docs, outcome)
    <2> PICK docs \in SUBSET Docs, outcome \in {"clean", "errors"} : Collect(t, docs, outcome)
      BY <1>2
    <2>1. slots[t].job \in Runs /\ slots'[t].job = slots[t].job /\ slots[t].job # NoRun
      BY <1>1, WorkingSlot, StageReturnsFrame DEF Collect
    <2>2. held'[t] = docs /\ docs \subseteq DocsOf(CompanyOf[slots[t].job])
          /\ sources' = Attributed(slots[t].job, docs)
      BY DEF Collect, ResultsTypeOK
    <2>3. QED BY <2>1, <2>2 DEF Attributed, DocsOf
  <1>3. CASE \A docs \in SUBSET Docs, outcome \in {"clean", "errors"} : ~Collect(t, docs, outcome)
    <2> DEFINE r == slots[t].job
    <2>1. /\ slots'[t].job = r /\ slots[t].pc # "idle"
          /\ held'[t] = held[t] \/ (LoadResults(t) /\ held'[t] = saved[r])
      BY <1>1, <1>3, HeldJob
    <2>2. r \in Runs /\ rows[r].status # "absent"
      BY <1>1, <2>1, WorkingSlot DEF SubmittedInv
    <2>3. /\ held'[t] \subseteq DocsOf(CompanyOf[r])
          /\ rows[r].status = "deleted" \/ \A d \in held'[t] : sources[d] # NoRun
      BY <2>1, <2>2 DEF HeldFit, CompaniesFit, ReferencesResolve
    <2>4. rows[r].status = "deleted" => rows'[r].status = "deleted"
      BY <1>1, <2>2, RowMoves, JobsStep
    <2>5. ASSUME NEW d \in held'[t], sources[d] # NoRun
          PROVE  sources'[d] # NoRun \/ rows'[r].status = "deleted"
      BY <2>2, <2>3, <2>5, StaysStored
    <2>6. QED BY <2>1, <2>3, <2>4, <2>5
  <1>4. QED BY <1>2, <1>3

\* No reference dangles after a step.
LEMMA ReferencesStep ==
  IInv /\ ResultsTypeOK /\ SubmittedInv /\ CompaniesFit /\ HeldFit /\ ReferencesResolve
    /\ [ResultsNext]_resultVars => ReferencesResolve'
  <1> SUFFICES ASSUME IInv, ResultsTypeOK, SubmittedInv, CompaniesFit, HeldFit,
                      ReferencesResolve, [ResultsNext]_resultVars
               PROVE  ReferencesResolve'
    OBVIOUS
  <1> DEFINE SavedStored == \A r \in Runs : \A d \in saved[r] : sources[d] # NoRun
             EvidenceStored == \A d \in evidence : sources[d] # NoRun
             Cited == \A r \in Runs : UNION assessments[r] \subseteq evidence
             Latest == \A c \in Companies :
                         LET latest == opportunity[c].latest
                         IN  latest # NullLatest => latest.attempt \in snapshots[latest.run]
  <1>1. TypeOK /\ SavedStored /\ EvidenceStored /\ Cited /\ Latest
    BY DEF IInv, ReferencesResolve
  <1>2. CASE \E c \in Companies : DeleteResults(c)
    <2> PICK c \in Companies : ResultsDeleted(c)
      BY <1>2 DEF DeleteResults
    <2>1. SavedStored'
      <3> SUFFICES ASSUME NEW r \in Runs, NEW d \in saved'[r] PROVE sources'[d] # NoRun
        OBVIOUS
      <3>1. CompanyOf[r] # c /\ saved'[r] = saved[r]
        BY DEF ResultsDeleted, ResultsTypeOK
      <3>2. d \in Docs /\ Publisher[d] # c /\ sources[d] # NoRun
        BY <1>1, <3>1 DEF CompaniesFit, DocsOf
      <3>3. QED BY <3>2, DeletionFrame
    <2>2. EvidenceStored'
      <3> SUFFICES ASSUME NEW d \in evidence' PROVE sources'[d] # NoRun
        OBVIOUS
      <3>1. d \in Docs
        BY DEF ResultsDeleted, ResultsTypeOK
      <3>2. QED BY <1>1, <3>1, DeletionFrame
    <2>3. Cited'
      <3> SUFFICES ASSUME NEW r \in Runs, NEW d \in UNION assessments'[r] PROVE d \in evidence'
        OBVIOUS
      <3>1. CompanyOf[r] # c /\ assessments'[r] = assessments[r]
        BY DEF ResultsDeleted, ResultsTypeOK
      <3>2. d \in Docs /\ Publisher[d] # c /\ d \in evidence
        BY <1>1, <3>1 DEF CompaniesFit, DocsOf
      <3>3. QED BY <3>2, DeletionFrame
    <2>4. Latest'
      <3> SUFFICES ASSUME NEW k \in Companies, opportunity'[k].latest # NullLatest
                   PROVE  opportunity'[k].latest.attempt \in snapshots'[opportunity'[k].latest.run]
        OBVIOUS
      <3> DEFINE q == opportunity[k].latest.run
      <3>1. opportunity'[k] = opportunity[k] /\ ~(q \in Runs /\ CompanyOf[q] = c)
        BY DEF ResultsDeleted, ResultsTypeOK
      <3>2. q \in Runs /\ opportunity[k].latest.attempt \in snapshots[q]
        BY <1>1, <3>1 DEF CompaniesFit
      <3>3. snapshots'[q] = snapshots[q]
        BY <3>1, <3>2 DEF ResultsDeleted
      <3>4. QED BY <3>1, <3>2, <3>3
    <2>5. QED BY <2>1, <2>2, <2>3, <2>4 DEF ReferencesResolve
  <1>3. CASE \A c \in Companies : ~DeleteResults(c)
    <2>1. ASSUME NEW d \in Docs, sources[d] # NoRun PROVE sources'[d] # NoRun
      BY <1>1, <1>3, <2>1, SourcesMove, RunsAssumption
    <2>2. ASSUME NEW s \in Slots, NEW found \in {{}} \union {{cited} : cited \in SUBSET held[s]},
                 AssessCommits(s, found)
          PROVE  SavedStored' /\ EvidenceStored' /\ Cited' /\ Latest'
      <3> DEFINE r == slots[s].job
      <3>1. r \in Runs /\ CompanyOf[r] \in Companies /\ rows[r].status # "deleted"
        BY <1>1, <2>2, WorkingSlot DEF AssessCommits, Assessing, Accepted, RunExists
      <3>2. UNION found \subseteq held[s] /\ \A d \in held[s] : sources[d] # NoRun
        BY <2>2, <3>1, CitedIsHeld DEF HeldFit
      <3>3. /\ sources' = sources /\ saved' = saved /\ evidence' = evidence \union UNION found
            /\ assessments' = [assessments EXCEPT ![r] = @ \union found]
            /\ snapshots' = [snapshots EXCEPT ![r] = @ \union {slots[s].token}]
            /\ opportunity' = [opportunity EXCEPT ![CompanyOf[r]] =
                 [exists |-> TRUE, latest |-> [run |-> r, attempt |-> slots[s].token]]]
        BY <2>2 DEF AssessCommits
      <3>4. SavedStored' /\ EvidenceStored'
        BY <1>1, <3>2, <3>3
      <3>5. Cited'
        BY <1>1, <3>1, <3>3 DEF ResultsTypeOK
      <3>6. ASSUME NEW c \in Companies, opportunity'[c].latest # NullLatest
            PROVE  opportunity'[c].latest.attempt \in snapshots'[opportunity'[c].latest.run]
        <4>1. CASE c = CompanyOf[r]
          BY <3>1, <3>3, <4>1 DEF ResultsTypeOK
        <4>2. CASE c # CompanyOf[r]
          <5>1. opportunity'[c] = opportunity[c]
            BY <3>3, <4>2 DEF ResultsTypeOK
          <5>2. /\ opportunity[c].latest.run \in Runs
                /\ opportunity[c].latest.attempt \in snapshots[opportunity[c].latest.run]
            BY <1>1, <3>6, <5>1 DEF CompaniesFit
          <5>3. QED BY <3>3, <5>1, <5>2 DEF ResultsTypeOK
        <4>3. QED BY <4>1, <4>2
      <3>7. QED BY <3>4, <3>5, <3>6
    <2>3. ASSUME NEW s \in Slots, SaveStage(s)
          PROVE  SavedStored' /\ EvidenceStored' /\ Cited' /\ Latest'
      <3> DEFINE r == slots[s].job
      <3>1. UNCHANGED tables /\ (saved' = saved \/ saved' = [saved EXCEPT ![r] = held[s]])
        BY <2>3 DEF SaveStage
      <3>2. \A d \in held[s] : sources[d] # NoRun
        BY <2>3 DEF SaveStage, Checkpoint, Owned, HeldFit
      <3>3. SavedStored'
        BY <1>1, <3>1, <3>2 DEF ResultsTypeOK, tables
      <3>4. QED BY <1>1, <3>1, <3>3 DEF tables
    <2>4. ASSUME saved' = saved, evidence' = evidence, assessments' = assessments,
                 snapshots' = snapshots, opportunity' = opportunity
          PROVE  SavedStored' /\ EvidenceStored' /\ Cited' /\ Latest'
      BY <1>1, <2>1, <2>4 DEF ResultsTypeOK
    <2> HIDE DEF SavedStored, EvidenceStored, Cited, Latest
    <2>5. SavedStored' /\ EvidenceStored' /\ Cited' /\ Latest'
      BY <1>3, <2>2, <2>3, <2>4
         DEF ResultsNext, JobsOnly, Collect, NoDocuments, AssessReads, LoadResults,
             StageRaises, EndAttempt, CrashResults, tables, resultVars
    <2>6. QED BY <2>5 DEF ReferencesResolve, SavedStored, EvidenceStored, Cited, Latest
  <1>4. QED BY <1>2, <1>3

-----------------------------------------------------------------------------
(* Scores *)

\* A step keeps a run's assessments and snapshots, adds to those of the run a slot is
\* assessing, or deletes the run's company.
LEMMA ResultsMove ==
  ASSUME TypeOK, ResultsTypeOK, [ResultsNext]_resultVars, NEW r \in Runs
  PROVE  \/ assessments'[r] = assessments[r] /\ snapshots'[r] = snapshots[r]
         \/ \E s \in Slots, found \in SUBSET SUBSET Docs :
              /\ AssessCommits(s, found) /\ slots[s].job = r
              /\ assessments'[r] = assessments[r] \union found
              /\ snapshots'[r] = snapshots[r] \union {slots[s].token}
         \/ DeleteResults(CompanyOf[r])
  <1> DEFINE Same == assessments'[r] = assessments[r] /\ snapshots'[r] = snapshots[r]
             Adds == \E s \in Slots, found \in SUBSET SUBSET Docs :
                       /\ AssessCommits(s, found) /\ slots[s].job = r
                       /\ assessments'[r] = assessments[r] \union found
                       /\ snapshots'[r] = snapshots[r] \union {slots[s].token}
  <1>1. ASSUME NEW s \in Slots, NEW found \in {{}} \union {{cited} : cited \in SUBSET held[s]},
               AssessCommits(s, found)
        PROVE  Same \/ Adds
    <2>1. found \in SUBSET SUBSET Docs
      BY <1>1 DEF ResultsTypeOK
    <2>2. /\ assessments' = [assessments EXCEPT ![slots[s].job] = @ \union found]
          /\ snapshots' = [snapshots EXCEPT ![slots[s].job] = @ \union {slots[s].token}]
      BY <1>1 DEF AssessCommits
    <2>3. CASE slots[s].job = r
      BY <1>1, <2>1, <2>2, <2>3 DEF ResultsTypeOK
    <2>4. CASE slots[s].job # r
      BY <2>2, <2>4 DEF ResultsTypeOK
    <2>5. QED BY <2>3, <2>4
  <1>2. ASSUME NEW c \in Companies, DeleteResults(c)
        PROVE  Same \/ DeleteResults(CompanyOf[r])
    <2>1. CASE CompanyOf[r] = c
      BY <1>2, <2>1
    <2>2. CASE CompanyOf[r] # c
      BY <1>2, <2>2 DEF DeleteResults, ResultsDeleted
    <2>3. QED BY <2>1, <2>2
  <1>3. ASSUME UNCHANGED tables PROVE Same
    BY <1>3 DEF tables
  <1>4. ASSUME assessments' = assessments, snapshots' = snapshots PROVE Same
    BY <1>4
  <1> HIDE DEF Same, Adds
  <1>5. Same \/ Adds \/ DeleteResults(CompanyOf[r])
    BY <1>1, <1>2, <1>3, <1>4
       DEF ResultsNext, JobsOnly, Collect, NoDocuments, AssessReads, LoadResults,
           StageRaises, SaveStage, EndAttempt, CrashResults, resultVars
  <1>6. QED BY <1>5 DEF Same, Adds

\* Deletion of its company deletes a run that was submitted.
LEMMA DeletesRun ==
  ASSUME TypeOK, NEW r \in Runs, rows[r].status # "absent", DeleteResults(CompanyOf[r])
  PROVE  rows'[r].status = "deleted" /\ rows'[r].stages = {}
  BY DeletedFields DEF DeleteResults, Delete, TypeOK

\* A run stays scored until it is deleted.
LEMMA ScoredStays ==
  ASSUME TypeOK, ResultsTypeOK, [ResultsNext]_resultVars, NEW r \in Runs, Scored(r),
         rows[r].status # "absent"
  PROVE  Scored(r)' \/ (rows'[r].status = "deleted" /\ rows'[r].stages = {})
  BY ResultsMove, DeletesRun DEF Scored

\* A row turns into one with an assessment and no assessment error only by a checkpoint.
LEMMA AssessedRowMoves ==
  ASSUME TypeOK, [Next]_vars, NEW r \in Runs,
         "assessment" \in rows'[r].stages \ rows'[r].errors
  PROVE  \/ "assessment" \in rows[r].stages \ rows[r].errors
         \/ \E s \in Slots : /\ Checkpoint(s) /\ slots[s].job = r
                             /\ NextStage(slots[s].saved) = "assessment"
                             /\ slots[s].outcome # "errors"
  <1> DEFINE Was == "assessment" \in rows[r].stages \ rows[r].errors
             Saves == \E s \in Slots : /\ Checkpoint(s) /\ slots[s].job = r
                                       /\ NextStage(slots[s].saved) = "assessment"
                                       /\ slots[s].outcome # "errors"
  <1>1. /\ rows \in [Runs -> Row] /\ rows[r] \in Row /\ slots \in [Slots -> Slot]
    BY DEF TypeOK
  <1>2. ASSUME NEW q \in Runs, Submit(q) PROVE Was
    BY <1>1, <1>2 DEF Submit, Row
  <1>3. ASSUME NEW s \in Slots, NEW locked \in SUBSET Runs, Claim(s, locked) PROVE Was
    <2> PICK swept \in Sweeps(locked) :
           \/ rows' = SweptRows(swept) /\ UNCHANGED slots
           \/ \E q \in Runs :
                /\ Claimable(rows[q])
                /\ rows' = [SweptRows(swept) EXCEPT ![q] = ClaimedRow(rows[q])]
                /\ slots' = [slots EXCEPT ![s] = StartedSlot(q, rows[q].attempts + 1)]
      BY <1>3, ClaimCases
    <2>1. SweptRows(swept) \in [Runs -> Row]
      BY <1>1, GivenUpType DEF SweptRows
    <2>2. rows'[r] = SweptRows(swept)[r] \/ rows'[r] = ClaimedRow(rows[r])
      BY <2>1
    <2>3. SweptRows(swept)[r] = rows[r] \/ SweptRows(swept)[r] = GivenUp(rows[r])
      BY DEF SweptRows
    <2>4. QED BY <1>1, <2>2, <2>3, GivenUpFields, ClaimedRowFields
  <1>4. ASSUME NEW s \in Slots, Checkpoint(s) PROVE Was \/ Saves
    <2> DEFINE stage == NextStage(slots[s].saved)
    <2>1. CASE slots[s].job # r
      BY <1>1, <1>4, <2>1 DEF Checkpoint
    <2>2. CASE slots[s].job = r
      <3>1. rows'[r] = CheckpointedRow(rows[r], stage, slots[s].outcome)
        BY <1>1, <1>4, <2>2 DEF Checkpoint
      <3>2. /\ rows'[r].stages = rows[r].stages \union {stage}
            /\ rows'[r].errors = (rows[r].errors \ {stage})
                 \union (IF slots[s].outcome = "errors" THEN {stage} ELSE {})
        BY <1>1, <3>1, CheckpointedRowFields
      <3>3. CASE stage = "assessment"
        BY <1>4, <2>2, <3>2, <3>3
      <3>4. CASE stage # "assessment"
        BY <3>2, <3>4
      <3>5. QED BY <3>3, <3>4
    <2>3. QED BY <2>1, <2>2
  <1>5. ASSUME NEW s \in Slots, Finish(s) PROVE Was
    BY <1>1, <1>5, FinishedRowFields DEF Finish
  <1>6. ASSUME NEW s \in Slots, Fail(s) PROVE Was
    <2>1. rows'[r] = rows[r] \/ rows'[r] = FailedRow(rows[r], slots[s].outcome = "retryable")
      BY <1>1, <1>6 DEF Fail
    <2>2. QED BY <1>1, <2>1, FailedRowFields
  <1>7. ASSUME NEW s \in Slots, Heartbeat(s) PROVE Was
    BY <1>1, <1>7 DEF Heartbeat, Row
  <1>8. ASSUME NEW c \in Companies, Delete(c) PROVE Was
    BY <1>1, <1>8, DeletedFields DEF Delete
  <1>9. ASSUME Tick PROVE Was
    BY <1>1, <1>9, TickedRowFields DEF Tick
  <1>10. ASSUME UNCHANGED rows PROVE Was
    BY <1>10
  <1> HIDE DEF Was, Saves
  <1>11. Was \/ Saves
    BY <1>2, <1>3, <1>4, <1>5, <1>6, <1>7, <1>8, <1>9, <1>10
       DEF Next, Step, Load, StageReturns, StageIsTransient, Raise, LeaseLost,
           FailureUnrecorded, Stop, HeartbeatDies, Crash, vars
  <1>12. QED BY <1>11 DEF Was, Saves

\* A slot comes to save a stage only because a stage has returned.
LEMMA SaveMoves ==
  ASSUME TypeOK, ResultsTypeOK, [ResultsNext]_resultVars, NEW t \in Slots,
         slots'[t].pc = "save"
  PROVE  \/ /\ slots[t].pc = "save" /\ slots'[t].job = slots[t].job
            /\ slots'[t].saved = slots[t].saved /\ slots'[t].outcome = slots[t].outcome
         \/ NextStage(slots'[t].saved) = "collection"
         \/ slots'[t].outcome = "errors"
         \/ /\ slots'[t].job = slots[t].job /\ slots[t].pc = "run"
            /\ assessments'[slots[t].job] # {} /\ snapshots'[slots[t].job] # {}
  <1> DEFINE Same == /\ slots[t].pc = "save" /\ slots'[t].job = slots[t].job
                     /\ slots'[t].saved = slots[t].saved
                     /\ slots'[t].outcome = slots[t].outcome
             Collects == NextStage(slots'[t].saved) = "collection"
             Errs == slots'[t].outcome = "errors"
             Scores == /\ slots'[t].job = slots[t].job /\ slots[t].pc = "run"
                       /\ assessments'[slots[t].job] # {} /\ snapshots'[slots[t].job] # {}
  <1>1. slots \in [Slots -> Slot]
    BY DEF TypeOK
  <1>2. ASSUME slots'[t] = slots[t] PROVE Same
    BY <1>2
  <1>3. ASSUME JobsOnly PROVE Same
    BY <1>3, JobsOnlyFrame
  <1>4. ASSUME NEW s \in Slots, NEW docs, NEW outcome, Collect(s, docs, outcome)
        PROVE  Same \/ Collects
    BY <1>2, <1>4, StageReturnsFrame DEF Collect
  <1>5. ASSUME NEW s \in Slots, NoDocuments(s) PROVE Same \/ Errs
    BY <1>2, <1>5, StageReturnsFrame DEF NoDocuments
  <1>6. ASSUME NEW s \in Slots, AssessReads(s) PROVE Same
    BY <1>2, <1>6 DEF AssessReads, vars
  <1>7. ASSUME NEW s \in Slots, NEW found, AssessCommits(s, found)
        PROVE  Same \/ Errs \/ Scores
    <2>1. s # t => slots'[t] = slots[t]
      BY <1>7, StageReturnsFrame DEF AssessCommits
    <2>2. CASE s = t
      <3> DEFINE r == slots[t].job
      <3>1. /\ r \in Runs /\ slots[t].pc = "run" /\ slots'[t].job = r
            /\ slots'[t].outcome = IF found = {} THEN "errors" ELSE "clean"
        BY <1>7, <2>2, StageReturnsFrame, WorkingSlot DEF AssessCommits, Assessing
      <3>2. /\ assessments'[r] = assessments[r] \union found
            /\ snapshots'[r] = snapshots[r] \union {slots[t].token}
        BY <1>7, <2>2, <3>1 DEF AssessCommits, ResultsTypeOK
      <3>3. QED BY <3>1, <3>2
    <2>3. QED BY <1>2, <2>1, <2>2
  <1>8. ASSUME NEW s \in Slots, LoadResults(s) PROVE Same
    BY <1>2, <1>8, LoadFrame DEF LoadResults
  <1>9. ASSUME NEW s \in Slots, StageRaises(s) PROVE Same
    BY <1>2, <1>9, RaisesFrame DEF StageRaises
  <1>10. ASSUME NEW s \in Slots, SaveStage(s) PROVE Same
    BY <1>2, <1>10, CheckpointFrame DEF SaveStage
  <1>11. ASSUME NEW s \in Slots, EndAttempt(s) PROVE Same
    BY <1>2, <1>11, EndFrame DEF EndAttempt
  <1>12. ASSUME NEW p \in Processes, CrashResults(p) PROVE Same
    BY <1>1, <1>12 DEF CrashResults, Crash, IdleSlot
  <1>13. ASSUME NEW c \in Companies, DeleteResults(c) PROVE Same
    BY <1>2, <1>13 DEF DeleteResults, Delete
  <1>14. ASSUME UNCHANGED resultVars PROVE Same
    BY <1>2, <1>14 DEF resultVars, vars
  <1> HIDE DEF Same, Collects, Errs, Scores
  <1>15. Same \/ Collects \/ Errs \/ Scores
    BY <1>3, <1>4, <1>5, <1>6, <1>7, <1>8, <1>9, <1>10, <1>11, <1>12, <1>13, <1>14
       DEF ResultsNext
  <1>16. QED BY <1>15 DEF Same, Collects, Errs, Scores

\* A row or slot that reports an assessment without error has a score.
LEMMA ScoredStep ==
  IInv /\ ResultsTypeOK /\ SubmittedInv /\ AbsentInv /\ ScoredInv /\ [ResultsNext]_resultVars
    => ScoredInv'
  <1> SUFFICES ASSUME IInv, ResultsTypeOK, SubmittedInv, AbsentInv, ScoredInv,
                      [ResultsNext]_resultVars
               PROVE  ScoredInv'
    OBVIOUS
  <1>1. TypeOK /\ [Next]_vars
    BY JobsStep DEF IInv
  <1>2. ASSUME NEW r \in Runs, "assessment" \in rows'[r].stages \ rows'[r].errors
        PROVE  Scored(r)'
    <2>1. CASE "assessment" \in rows[r].stages \ rows[r].errors
      <3>1. Scored(r) /\ rows[r].status # "absent"
        BY <2>1 DEF ScoredInv, AbsentInv, Scored
      <3>2. QED BY <1>1, <1>2, <3>1, ScoredStays
    <2>2. ASSUME NEW s \in Slots, Checkpoint(s), slots[s].job = r,
                 NextStage(slots[s].saved) = "assessment", slots[s].outcome # "errors"
          PROVE  Scored(r)'
      <3>1. /\ slots[s].pc = "save" /\ "collection" \in slots[s].saved
            /\ rows[r].status = "running"
        BY <2>2 DEF Checkpoint, Owned, NextStage
      <3>2. Scored(r)
        BY <2>2, <3>1 DEF ScoredInv
      <3>3. QED BY <1>1, <1>2, <3>1, <3>2, ScoredStays
    <2>3. QED BY <1>1, <1>2, <2>1, <2>2, AssessedRowMoves
  <1>3. ASSUME NEW t \in Slots, slots'[t].pc = "save", "collection" \in slots'[t].saved,
               slots'[t].outcome # "errors"
        PROVE  \/ assessments'[slots'[t].job] # {} /\ snapshots'[slots'[t].job] # {}
               \/ rows'[slots'[t].job].status = "deleted"
    <2> DEFINE r == slots[t].job
               ScoredNext(q) == assessments'[q] # {} /\ snapshots'[q] # {}
    <2>1. NextStage(slots'[t].saved) # "collection"
      BY <1>3 DEF NextStage
    <2>2. CASE /\ slots[t].pc = "save" /\ slots'[t].job = r
               /\ slots'[t].saved = slots[t].saved /\ slots'[t].outcome = slots[t].outcome
      <3>1. Scored(r) \/ rows[r].status = "deleted"
        BY <1>3, <2>2 DEF ScoredInv
      <3>2. r \in Runs /\ rows[r].status # "absent"
        BY <1>1, <2>2, WorkingSlot DEF SubmittedInv
      <3>3. rows[r].status = "deleted" => rows'[r].status = "deleted"
        BY <1>1, <3>2, RowMoves
      <3>4. ASSUME NEW q \in Runs, Scored(q), rows[q].status # "absent"
            PROVE  ScoredNext(q) \/ rows'[q].status = "deleted"
        BY <1>1, <3>4, ScoredStays DEF Scored
      <3>5. slots'[t].job = r
        BY <2>2
      <3>6. QED BY <3>1, <3>2, <3>3, <3>4, <3>5
    <2>3. CASE slots'[t].job = r /\ ScoredNext(r)
      BY <2>3
    <2>4. QED BY <1>1, <1>3, <2>1, <2>2, <2>3, SaveMoves
  <1>4. QED BY <1>2, <1>3 DEF ScoredInv, Scored

\* Nothing is stored for a run that is not submitted yet.
LEMMA AbsentStep ==
  IInv /\ ResultsTypeOK /\ SubmittedInv /\ AbsentInv /\ [ResultsNext]_resultVars
    => AbsentInv'
  <1> SUFFICES ASSUME IInv, ResultsTypeOK, SubmittedInv, AbsentInv, [ResultsNext]_resultVars,
                      NEW r \in Runs, rows'[r].status = "absent"
               PROVE  assessments'[r] = {}
    BY DEF AbsentInv
  <1>1. TypeOK /\ rows[r].status = "absent" /\ assessments[r] = {}
    BY JobsStep, NeverAbsentAgain DEF IInv, AbsentInv
  <1>2. ASSUME NEW s \in Slots, NEW found, AssessCommits(s, found), slots[s].job = r
        PROVE  FALSE
    BY <1>1, <1>2, WorkingSlot DEF AssessCommits, Assessing, SubmittedInv
  <1>3. DeleteResults(CompanyOf[r]) => assessments'[r] = {}
    BY DEF DeleteResults, ResultsDeleted
  <1>4. QED BY <1>1, <1>2, <1>3, ResultsMove

-----------------------------------------------------------------------------
(* Safety of the result tables *)

\* Empty tables and idle slots satisfy every part of the invariant.
LEMMA ResultsInvInit == ResultsInit => RInv
  <1> SUFFICES ASSUME ResultsInit PROVE RInv
    OBVIOUS
  <1>1. IInv
    BY InvInit DEF ResultsInit
  <1>2. /\ \A s \in Slots : slots[s] = IdleSlot /\ held[s] = {} /\ reads[s] = NoReads
        /\ \A r \in Runs : rows[r] = AbsentRow
    BY DEF ResultsInit, Init
  <1>3. NoReads \in Reads /\ ~NoReads.open
    BY DEF NoReads, Reads
  <1>4. [exists |-> FALSE, latest |-> NullLatest] \in
          [exists : BOOLEAN, latest : [run : Runs \union {NoRun}, attempt : 0..MaxAttempts]]
    BY AttemptsAssumption DEF NullLatest
  <1>5. ResultsTypeOK /\ ReadsFit /\ HeldFit
    BY <1>2, <1>3, <1>4, AttemptsAssumption DEF ResultsInit, ResultsTypeOK, ReadsFit, HeldFit
  <1>6. CompaniesFit /\ ReferencesResolve
    BY DEF ResultsInit, CompaniesFit, ReferencesResolve
  <1>7. SubmittedInv /\ ScoredInv /\ AbsentInv
    BY <1>2 DEF ResultsInit, SubmittedInv, ScoredInv, AbsentInv, IdleSlot, AbsentRow
  <1>8. QED BY <1>1, <1>5, <1>6, <1>7 DEF RInv

\* Every step preserves the invariant of the job table and the result tables.
LEMMA ResultsInvStep == RInv /\ [ResultsNext]_resultVars => RInv'
  <1> SUFFICES ASSUME RInv, [ResultsNext]_resultVars PROVE RInv'
    OBVIOUS
  <1>1. [Next]_vars /\ IInv' /\ TypeOK
    BY JobsStep, InvStep DEF RInv, IInv
  <1>2. QED
    BY <1>1, SubmittedStep, ResultsTypeStep, CompaniesStep, HeldStep, ReferencesStep,
       ScoredStep, AbsentStep
       DEF RInv

\* The strengthened invariant holds in every reachable state.
THEOREM ResultsInvariant == ResultsSpec => []RInv
  BY ResultsInvInit, ResultsInvStep, PTL DEF ResultsSpec

\* The result tables hold what their columns can hold.
THEOREM ResultsTypeCorrect == ResultsSpec => []ResultsTypeOK
  <1>1. RInv => ResultsTypeOK
    BY DEF RInv
  <1>2. QED BY <1>1, ResultsInvariant, PTL

\* No checkpoint, assessment, evidence or opportunity refers to a row that is not
\* there, whatever is deleted while workers run.
THEOREM NothingDangles == ResultsSpec => []ReferencesResolve
  <1>1. RInv => ReferencesResolve
    BY DEF RInv
  <1>2. QED BY <1>1, ResultsInvariant, PTL

\* A completed run has an assessment and a score, though pipeline and job table
\* write them in different transactions.
THEOREM CompletionIsScored == ResultsSpec => []CompletedIsScored
  <1>1. RInv => CompletedIsScored
    BY DEF RInv, IInv, CompletedIsClean, ScoredInv, Scored, CompletedIsScored, Stages
  <1>2. QED BY <1>1, ResultsInvariant, PTL

\* Nothing but deletion changes a stored assessment or removes its evidence.
LEMMA AssessmentsStep ==
  ASSUME RInv, [ResultsNext]_resultVars, NEW r \in Runs, assessments[r] # {}
  PROVE  \/ rows'[r].status = "deleted"
         \/ assessments'[r] = assessments[r] /\ UNION assessments[r] \subseteq evidence'
  <1>1. TypeOK /\ ResultsTypeOK /\ rows[r].status # "absent" /\ ReferencesResolve'
    BY ResultsInvStep DEF RInv, IInv, AbsentInv
  <1>2. assessments'[r] = assessments[r] \/ rows'[r].status = "deleted"
    <2>1. ASSUME NEW s \in Slots, NEW found, AssessCommits(s, found), slots[s].job = r
          PROVE  found = {}
      BY <2>1 DEF AssessCommits, Accepted
    <2>2. QED BY <1>1, <2>1, ResultsMove, DeletesRun
  <1>3. QED BY <1>1, <1>2 DEF ReferencesResolve

\* An assessment stays what it was when it was stored.
THEOREM FinalityOfAssessments == ResultsSpec => AssessmentsAreFinal
  <1>1. RInv /\ [ResultsNext]_resultVars =>
          [\A r \in Runs :
             assessments[r] # {} =>
               \/ rows'[r].status = "deleted"
               \/ assessments'[r] = assessments[r]
                    /\ UNION assessments[r] \subseteq evidence']_resultVars
    BY AssessmentsStep
  <1>2. QED BY <1>1, ResultsInvariant, PTL DEF ResultsSpec, AssessmentsAreFinal
=============================================================================
