------------------------- MODULE ResearchJobsProofs -------------------------
(***************************************************************************)
(* Proofs about the job table for every number of runs, slots, processes   *)
(* and every lease and backoff length; and that the table with its workers,*)
(* leases and clock implements FencedJobs: initial states map to initial   *)
(* states, and every step to a step of the contract.                       *)
(***************************************************************************)
EXTENDS ResearchJobsRefinement, TLAPS

-----------------------------------------------------------------------------
(* What each operation makes of a row *)

\* The values the operations write into status and the counters are legal.
LEMMA ColumnValues ==
  /\ Live \subseteq Status /\ Terminal \subseteq Status
  /\ "queued" \in Live /\ "running" \in Live
  /\ "partial" \in Terminal /\ "failed" \in Terminal /\ "completed" \in Terminal
  /\ "deleted" \in Status /\ "absent" \in Status
  /\ Live \intersect Terminal = {}
  /\ "deleted" \notin Live \union Terminal /\ "absent" \notin Live \union Terminal
  /\ 0 \in 0..MaxAttempts /\ 0 \in 0..LeaseTime /\ LeaseTime \in 0..LeaseTime
  /\ 0 < LeaseTime
  BY AttemptsAssumption, TimeAssumption DEF Status, Live, Terminal

\* Giving up a run, by the sweep or by fail, keeps a row a row.
LEMMA GivenUpType == ASSUME NEW row \in Row PROVE GivenUp(row) \in Row
  <1>1. row.errors \union {"worker"} \in SUBSET ErrorKind
    BY DEF Row, ErrorKind
  <1>2. (IF row.stages # {} THEN "partial" ELSE "failed") \in Status
    BY ColumnValues
  <1>3. QED BY <1>1, <1>2, ColumnValues DEF Row, GivenUp

\* A claim with an attempt left makes a row whose token is that attempt.
LEMMA ClaimedRowType ==
  ASSUME NEW row \in Row, row.attempts < MaxAttempts
  PROVE  ClaimedRow(row) \in Row
  <1>1. row.attempts + 1 \in 0..MaxAttempts
    BY AttemptsAssumption DEF Row
  <1>2. QED BY <1>1, ColumnValues DEF Row, ClaimedRow

\* A checkpoint keeps a row a row.
LEMMA CheckpointedRowType ==
  ASSUME NEW row \in Row, NEW stage \in Stages, NEW outcome
  PROVE  CheckpointedRow(row, stage, outcome) \in Row
  <1>1. row.stages \union {stage} \in SUBSET Stages
    BY DEF Row
  <1>2. (row.errors \ {stage}) \union (IF outcome = "errors" THEN {stage} ELSE {})
          \in SUBSET ErrorKind
    BY DEF Row, ErrorKind
  <1>3. QED BY <1>1, <1>2 DEF Row, CheckpointedRow

\* finish keeps a row a row.
LEMMA FinishedRowType == ASSUME NEW row \in Row PROVE FinishedRow(row) \in Row
  <1>1. (IF row.errors # {} THEN "partial" ELSE "completed") \in Status
    BY ColumnValues
  <1>2. QED BY <1>1, ColumnValues DEF Row, FinishedRow

\* fail keeps a row a row, whichever branch it takes.
LEMMA FailedRowType ==
  ASSUME NEW row \in Row, NEW retryable
  PROVE  FailedRow(row, retryable) \in Row
  <1>1. Backoff(row.attempts) \in Int
    BY TimeAssumption DEF Backoff
  <1>2. row.errors \union {"worker"} \in SUBSET ErrorKind
    BY DEF Row, ErrorKind
  <1>3. RequeuedRow(row) \in Row
    BY <1>1, <1>2, ColumnValues DEF Row, RequeuedRow
  <1>4. QED BY <1>3, GivenUpType DEF FailedRow

\* The passing of time keeps a row a row.
LEMMA TickedRowType == ASSUME NEW row \in Row PROVE TickedRow(row) \in Row
  <1>1. (IF row.lease > 0 THEN row.lease - 1 ELSE 0) \in 0..LeaseTime
    BY TimeAssumption DEF Row
  <1>2. (IF row.available > -Horizon THEN row.available - 1 ELSE row.available) \in Int
    BY TimeAssumption DEF Row
  <1>3. QED BY <1>1, <1>2 DEF Row, TickedRow

-----------------------------------------------------------------------------
(* Type correctness *)

\* The first claimable run still has an attempt left, and it is not swept.
LEMMA FirstClaimableIsClaimable ==
  ASSUME NEW locked, NEW r \in FirstClaimable(locked)
  PROVE  r \in Runs /\ Claimable(rows[r])
  BY DEF FirstClaimable

\* Every step keeps rows and slots in their types.
LEMMA TypeStep == TypeOK /\ [Next]_vars => TypeOK'
  <1> SUFFICES ASSUME TypeOK, [Next]_vars PROVE TypeOK'
    OBVIOUS
  <1> USE DEF TypeOK
  <1>1. ASSUME NEW r \in Runs, Submit(r) PROVE TypeOK'
    <2>1. [rows[r] EXCEPT !.status = "queued"] \in Row
      BY ColumnValues DEF Row
    <2>2. QED BY <1>1, <2>1 DEF Submit
  <1>2. ASSUME NEW s \in Slots, NEW locked \in SUBSET Runs, Claim(s, locked) PROVE TypeOK'
    <2> PICK swept \in Sweeps(locked) :
          \/ /\ rows' = SweptRows(swept)
             /\ UNCHANGED slots
          \/ \E r \in FirstClaimable(locked) :
               /\ rows' = [SweptRows(swept) EXCEPT ![r] = ClaimedRow(rows[r])]
               /\ slots' = [slots EXCEPT ![s] = StartedSlot(r, rows[r].attempts + 1)]
      BY <1>2 DEF Claim
    <2>1. SweptRows(swept) \in [Runs -> Row]
      BY GivenUpType DEF SweptRows
    <2>2. ASSUME NEW r \in FirstClaimable(locked)
          PROVE  /\ ClaimedRow(rows[r]) \in Row
                 /\ StartedSlot(r, rows[r].attempts + 1) \in Slot
      <3>1. r \in Runs /\ rows[r] \in Row /\ rows[r].attempts < MaxAttempts
        BY FirstClaimableIsClaimable DEF Claimable
      <3>2. rows[r].attempts + 1 \in 0..MaxAttempts
        BY <3>1, AttemptsAssumption DEF Row
      <3>3. QED BY <3>1, <3>2, ClaimedRowType, RunsAssumption DEF StartedSlot, IdleSlot, Slot, SlotState, Phase, Outcome
    <2>3. QED BY <2>1, <2>2
  <1>3. ASSUME NEW s \in Slots, slots[s].job # NoRun
        PROVE  slots[s].job \in Runs /\ rows[slots[s].job] \in Row
    BY <1>3 DEF Slot, SlotState
  <1>4. ASSUME NEW s \in Slots, slots[s].pc # "idle" PROVE StoppedSlot(slots[s]) \in Slot
    BY <1>4 DEF StoppedSlot, Slot, SlotState, Phase, Outcome
  <1>5. ASSUME NEW s \in Slots, Step(s) PROVE TypeOK'
    <2>1. CASE Load(s)
      <3>1. slots[s].job \in Runs
        BY <2>1 DEF Load, Slot, SlotState
      <3>2. rows[slots[s].job].stages \in SUBSET Stages
        BY <3>1 DEF Row
      <3>3. slots[s] \in SlotState /\ slots[s].job # NoRun
        BY <2>1 DEF Load, Slot
      <3> DEFINE saved == rows[slots[s].job].stages
      <3>4. [slots[s] EXCEPT !.saved = saved, !.pc = PhaseAfter(saved)] \in Slot
        BY <3>2, <3>3 DEF Slot, SlotState, Phase, PhaseAfter
      <3>5. QED BY <2>1, <3>4 DEF Load
    <2>2. ASSUME NEW outcome \in {"clean", "errors"}, StageReturns(s, outcome) PROVE TypeOK'
      <3>1. slots[s] \in SlotState /\ slots[s].job # NoRun
        BY <2>2 DEF StageReturns, Slot
      <3>2. [slots[s] EXCEPT !.pc = "save", !.outcome = outcome] \in Slot
        BY <3>1 DEF Slot, SlotState, Phase, Outcome
      <3>3. QED BY <2>2, <3>2 DEF StageReturns
    <2>3. CASE StageIsTransient(s)
      <3>1. slots[s] \in SlotState /\ slots[s].job # NoRun
        BY <2>3 DEF StageIsTransient, Slot
      <3>2. [slots[s] EXCEPT !.pc = "fail", !.outcome = "retryable"] \in Slot
        BY <3>1 DEF Slot, SlotState, Phase, Outcome
      <3>3. QED BY <2>3, <3>2 DEF StageIsTransient
    <2>4. CASE Raise(s)
      <3>1. slots[s] \in SlotState /\ slots[s].job # NoRun
        BY <2>4 DEF Raise, Slot
      <3>2. [slots[s] EXCEPT !.pc = "fail", !.outcome = "terminal"] \in Slot
        BY <3>1 DEF Slot, SlotState, Phase, Outcome
      <3>3. QED BY <2>4, <3>2 DEF Raise
    <2>5. CASE Checkpoint(s)
      <3> DEFINE stage == NextStage(slots[s].saved)
                 saved == slots[s].saved \union {stage}
      <3>1. stage \in Stages
        BY DEF NextStage, Stages
      <3>2. CheckpointedRow(rows[slots[s].job], stage, slots[s].outcome) \in Row
        BY <2>5, <1>3, <3>1, CheckpointedRowType DEF Checkpoint, Owned
      <3>3. saved \in SUBSET Stages /\ PhaseAfter(saved) \in Phase
        BY <3>1 DEF Slot, SlotState, PhaseAfter, Phase
      <3>4. rows' \in [Runs -> Row]
        BY <2>5, <3>2 DEF Checkpoint
      <3>5. [slots[s] EXCEPT !.saved = saved, !.outcome = "none",
                             !.pc = PhaseAfter(saved)] \in Slot
        <4>1. slots[s] \in SlotState /\ slots[s].job # NoRun
          BY <2>5 DEF Checkpoint, Owned, Slot
        <4>2. PhaseAfter(saved) # "idle"
          BY DEF PhaseAfter
        <4>3. QED BY <3>3, <4>1, <4>2 DEF Slot, SlotState, Outcome
      <3>6. slots' \in [Slots -> Slot]
        BY <2>5, <3>5 DEF Checkpoint
      <3>7. QED BY <3>4, <3>6
    <2>6. CASE Finish(s)
      BY <2>6, <1>3, <1>4, FinishedRowType DEF Finish, Owned
    <2>7. CASE Fail(s)
      BY <2>7, <1>3, <1>4, FailedRowType DEF Fail, Owned
    <2>8. CASE LeaseLost(s)
      BY <2>8, <1>4 DEF LeaseLost
    <2>9. CASE FailureUnrecorded(s)
      BY <2>9, <1>4 DEF FailureUnrecorded
    <2>10. CASE Stop(s)
      BY <2>10, ColumnValues DEF Stop, IdleSlot, Slot, SlotState, Phase, Outcome
    <2>11. QED
      BY <1>5, <2>1, <2>2, <2>3, <2>4, <2>5, <2>6, <2>7, <2>8, <2>9, <2>10 DEF Step
  <1>6. ASSUME NEW s \in Slots, Heartbeat(s) PROVE TypeOK'
    <2>1. [rows[slots[s].job] EXCEPT !.lease = LeaseTime] \in Row
      BY <1>6, <1>3, ColumnValues DEF Row, Heartbeat, Owned
    <2>2. QED BY <1>6, <2>1 DEF Heartbeat
  <1>7. ASSUME NEW s \in Slots, HeartbeatDies(s) PROVE TypeOK'
    BY <1>7 DEF HeartbeatDies, Slot, SlotState
  <1>8. ASSUME NEW p \in Processes, Crash(p) PROVE TypeOK'
    BY <1>8, ColumnValues DEF Crash, IdleSlot, Slot, SlotState, Phase, Outcome
  <1>9. ASSUME NEW c \in Companies, Delete(c) PROVE TypeOK'
    <2>1. [AbsentRow EXCEPT !.status = "deleted"] \in Row
      BY ColumnValues DEF AbsentRow, Row
    <2>2. QED BY <1>9, <2>1 DEF Delete
  <1>10. CASE Tick
    BY <1>10, TickedRowType DEF Tick
  <1>11. CASE UNCHANGED vars
    BY <1>11 DEF vars
  <1>12. QED
    BY <1>1, <1>2, <1>5, <1>6, <1>7, <1>8, <1>9, <1>10, <1>11 DEF Next

\* A fresh table and idle slots have their types.
LEMMA TypeInit == Init => TypeOK
  BY ColumnValues DEF Init, TypeOK, AbsentRow, IdleSlot, Row, Slot, SlotState, Phase, Outcome

\* Rows and slots always hold what the columns and the thread's locals can hold;
\* attempts never pass max_attempts, the CHECK constraint of research_runs.
THEOREM TypeCorrect == Spec => []TypeOK
  BY TypeInit, TypeStep, PTL DEF Spec

-----------------------------------------------------------------------------
(* The fields of a row after each operation *)

\* A settled row is terminal without lease and keeps its stages and attempts.
LEMMA GivenUpFields ==
  ASSUME NEW row \in Row
  PROVE  /\ GivenUp(row).status \in {"partial", "failed"}
         /\ GivenUp(row).attempts = row.attempts
         /\ GivenUp(row).token = 0 /\ GivenUp(row).lease = 0
         /\ GivenUp(row).stages = row.stages
         /\ GivenUp(row).errors = row.errors \union {"worker"}
  BY DEF GivenUp, Row

\* A claimed row runs its next attempt under a fresh token.
LEMMA ClaimedRowFields ==
  ASSUME NEW row \in Row
  PROVE  /\ ClaimedRow(row).status = "running"
         /\ ClaimedRow(row).attempts = row.attempts + 1
         /\ ClaimedRow(row).token = row.attempts + 1
         /\ ClaimedRow(row).lease = LeaseTime
         /\ ClaimedRow(row).stages = row.stages
         /\ ClaimedRow(row).errors = row.errors
  BY DEF ClaimedRow, Row

\* A checkpoint leaves status, attempts and lease alone and adds its stage.
LEMMA CheckpointedRowFields ==
  ASSUME NEW row \in Row, NEW stage, NEW outcome
  PROVE  LET new == CheckpointedRow(row, stage, outcome)
         IN  /\ new.status = row.status /\ new.attempts = row.attempts
             /\ new.token = row.token /\ new.lease = row.lease
             /\ new.stages = row.stages \union {stage}
             /\ new.errors = (row.errors \ {stage})
                               \union (IF outcome = "errors" THEN {stage} ELSE {})
  BY DEF CheckpointedRow, Row

\* A finished row is completed exactly when no error is recorded.
LEMMA FinishedRowFields ==
  ASSUME NEW row \in Row
  PROVE  LET new == FinishedRow(row)
         IN  /\ new.status = IF row.errors # {} THEN "partial" ELSE "completed"
             /\ new.attempts = row.attempts
             /\ new.token = 0 /\ new.lease = 0
             /\ new.stages = row.stages /\ new.errors = row.errors
  BY DEF FinishedRow, Row

\* A failed row waits for a retry or is settled, with its error recorded.
LEMMA FailedRowFields ==
  ASSUME NEW row \in Row, NEW retryable
  PROVE  LET new == FailedRow(row, retryable)
         IN  /\ new.status = IF retryable /\ row.attempts < MaxAttempts THEN "queued"
                             ELSE IF row.stages # {} THEN "partial" ELSE "failed"
             /\ new.attempts = row.attempts
             /\ new.token = 0 /\ new.lease = 0
             /\ new.stages = row.stages
             /\ new.errors = row.errors \union {"worker"}
  BY DEF FailedRow, RequeuedRow, GivenUp, Row

\* Time only brings the lease closer to its end.
LEMMA TickedRowFields ==
  ASSUME NEW row \in Row
  PROVE  LET new == TickedRow(row)
         IN  /\ new.status = row.status /\ new.attempts = row.attempts
             /\ new.token = row.token
             /\ new.lease <= row.lease
             /\ new.stages = row.stages /\ new.errors = row.errors
             /\ row.status \notin Live => new = row
  BY TimeAssumption DEF TickedRow, Row

\* The rows after a claim's sweep.
LEMMA SweptFields ==
  ASSUME TypeOK, NEW locked, NEW swept \in Sweeps(locked), NEW r \in Runs
  PROVE  SweptRows(swept)[r] = IF r \in swept THEN GivenUp(rows[r]) ELSE rows[r]
  BY DEF SweptRows

\* Swept runs are exhausted and hence not claimable.
LEMMA SweptIsExhausted ==
  ASSUME TypeOK, NEW locked, NEW swept \in Sweeps(locked), NEW r \in swept
  PROVE  r \in Runs /\ Exhausted(rows[r]) /\ ~Claimable(rows[r])
  <1>1. r \in Runs /\ Exhausted(rows[r])
    BY DEF Sweeps
  <1>2. rows[r].attempts \in Int
    BY <1>1, AttemptsAssumption DEF TypeOK, Row
  <1>3. QED BY <1>1, <1>2, AttemptsAssumption DEF Exhausted, Claimable

\* A claim either only sweeps, or sweeps and starts the slot on one claimable run.
LEMMA ClaimCases ==
  ASSUME NEW s \in Slots, NEW locked, Claim(s, locked)
  PROVE  \E swept \in Sweeps(locked) :
           \/ rows' = SweptRows(swept) /\ UNCHANGED slots
           \/ \E r \in Runs :
                /\ Claimable(rows[r])
                /\ rows' = [SweptRows(swept) EXCEPT ![r] = ClaimedRow(rows[r])]
                /\ slots' = [slots EXCEPT ![s] = StartedSlot(r, rows[r].attempts + 1)]
  BY FirstClaimableIsClaimable DEF Claim

\* The deleted row of a run.
LEMMA DeletedFields ==
  LET row == [AbsentRow EXCEPT !.status = "deleted"]
  IN  /\ row.status = "deleted" /\ row.attempts = 0 /\ row.token = 0 /\ row.lease = 0
      /\ row.stages = {} /\ row.errors = {}
  BY DEF AbsentRow

-----------------------------------------------------------------------------
(* The inductive invariant *)

\* A running row's token stays its attempt; other rows never carry a lease.
LEMMA RowInvStep == TypeOK /\ RowInv /\ [Next]_vars => RowInv'
  <1> SUFFICES ASSUME TypeOK, RowInv, [Next]_vars, NEW r \in Runs
               PROVE  LeaseFits(rows'[r])
    BY DEF RowInv
  <1>1. /\ rows \in [Runs -> Row] /\ rows[r] \in Row /\ LeaseFits(rows[r])
        /\ rows[r].attempts \in Nat /\ rows[r].lease \in Nat
    BY AttemptsAssumption, TimeAssumption DEF TypeOK, RowInv, Row
  <1> USE DEF LeaseFits
  <1>2. ASSUME NEW q \in Runs, Submit(q) PROVE LeaseFits(rows'[r])
    BY <1>1, <1>2 DEF Submit, Row
  <1>3. ASSUME NEW s \in Slots, NEW locked \in SUBSET Runs, Claim(s, locked)
        PROVE  LeaseFits(rows'[r])
    <2> PICK swept \in Sweeps(locked) :
           \/ rows' = SweptRows(swept) /\ UNCHANGED slots
           \/ \E q \in Runs :
                /\ Claimable(rows[q])
                /\ rows' = [SweptRows(swept) EXCEPT ![q] = ClaimedRow(rows[q])]
                /\ slots' = [slots EXCEPT ![s] = StartedSlot(q, rows[q].attempts + 1)]
      BY <1>3, ClaimCases
    <2>1. SweptRows(swept) \in [Runs -> Row] /\ LeaseFits(SweptRows(swept)[r])
      BY <1>1, GivenUpType, GivenUpFields DEF SweptRows, TypeOK
    <2>2. LeaseFits(ClaimedRow(rows[r]))
      BY <1>1, ClaimedRowFields
    <2>3. QED BY <2>1, <2>2
  <1>4. ASSUME NEW s \in Slots, Step(s) PROVE LeaseFits(rows'[r])
    <2>1. CASE Checkpoint(s)
      BY <1>1, <2>1, CheckpointedRowFields DEF Checkpoint
    <2>2. CASE Finish(s)
      BY <1>1, <2>2, FinishedRowFields DEF Finish
    <2>3. CASE Fail(s)
      <3>1. LeaseFits(FailedRow(rows[r], slots[s].outcome = "retryable"))
        BY <1>1, FailedRowFields
      <3>2. QED BY <1>1, <2>3, <3>1 DEF Fail
    <2>4. QED
      BY <1>1, <1>4, <2>1, <2>2, <2>3
         DEF Step, Load, StageReturns, StageIsTransient, Raise, LeaseLost,
             FailureUnrecorded, Stop
  <1>5. ASSUME NEW s \in Slots, Heartbeat(s) PROVE LeaseFits(rows'[r])
    BY <1>1, <1>5 DEF Heartbeat, Owned, Row
  <1>6. ASSUME NEW c \in Companies, Delete(c) PROVE LeaseFits(rows'[r])
    BY <1>1, <1>6, DeletedFields DEF Delete
  <1>7. CASE Tick
    <2>1. TickedRow(rows[r]) \in Row /\ rows'[r] = TickedRow(rows[r])
      BY <1>1, <1>7, TickedRowType DEF Tick
    <2>2. TickedRow(rows[r]).lease \in Nat
      BY <2>1, TimeAssumption DEF Row
    <2>3. QED BY <1>1, <2>1, <2>2, TickedRowFields DEF Live
  <1>8. QED
    BY <1>1, <1>2, <1>3, <1>4, <1>5, <1>6, <1>7 DEF Next, HeartbeatDies, Crash, vars

\* Attempts only grow, and a deleted run stays deleted.
LEMMA RowMoves ==
  ASSUME TypeOK, [Next]_vars, NEW r \in Runs
  PROVE  /\ rows[r].status = "deleted" => rows'[r].status = "deleted"
         /\ rows'[r].status = "deleted" \/ rows[r].attempts <= rows'[r].attempts
  <1> DEFINE Moves == /\ rows[r].status = "deleted" => rows'[r].status = "deleted"
                      /\ rows'[r].status = "deleted" \/ rows[r].attempts <= rows'[r].attempts
  <1>1. /\ rows \in [Runs -> Row] /\ rows[r] \in Row /\ rows[r].attempts \in Int
    BY AttemptsAssumption DEF TypeOK, Row
  <1>2. ASSUME NEW q \in Runs, Submit(q) PROVE Moves
    BY <1>1, <1>2 DEF Submit, Row
  <1>3. ASSUME NEW s \in Slots, NEW locked \in SUBSET Runs, Claim(s, locked) PROVE Moves
    <2> PICK swept \in Sweeps(locked) :
           \/ rows' = SweptRows(swept) /\ UNCHANGED slots
           \/ \E q \in Runs :
                /\ Claimable(rows[q])
                /\ rows' = [SweptRows(swept) EXCEPT ![q] = ClaimedRow(rows[q])]
                /\ slots' = [slots EXCEPT ![s] = StartedSlot(q, rows[q].attempts + 1)]
      BY <1>3, ClaimCases
    <2>1. SweptRows(swept) \in [Runs -> Row]
      BY <1>1, GivenUpType DEF SweptRows
    <2>2. /\ SweptRows(swept)[r].attempts = rows[r].attempts
          /\ rows[r].status = "deleted" => SweptRows(swept)[r] = rows[r]
      BY <1>1, GivenUpFields, SweptIsExhausted DEF SweptRows, Exhausted
    <2>3. /\ ClaimedRow(rows[r]).attempts = rows[r].attempts + 1
          /\ Claimable(rows[r]) => rows[r].status # "deleted"
      BY <1>1, ClaimedRowFields DEF Claimable
    <2>4. CASE rows' = SweptRows(swept)
      BY <1>1, <2>2, <2>4
    <2>5. ASSUME NEW q \in Runs, Claimable(rows[q]),
                 rows' = [SweptRows(swept) EXCEPT ![q] = ClaimedRow(rows[q])]
          PROVE  Moves
      BY <1>1, <2>1, <2>2, <2>3, <2>5
    <2>6. QED BY <2>4, <2>5
  <1>4. ASSUME NEW s \in Slots, Step(s) PROVE Moves
    <2>1. CASE Checkpoint(s)
      BY <1>1, <2>1, CheckpointedRowFields DEF Checkpoint, Owned
    <2>2. CASE Finish(s)
      BY <1>1, <2>2, FinishedRowFields DEF Finish, Owned
    <2>3. CASE Fail(s)
      <3>1. FailedRow(rows[r], slots[s].outcome = "retryable").attempts = rows[r].attempts
        BY <1>1, FailedRowFields
      <3>2. QED BY <1>1, <2>3, <3>1 DEF Fail, Owned
    <2>4. QED
      BY <1>1, <1>4, <2>1, <2>2, <2>3
         DEF Step, Load, StageReturns, StageIsTransient, Raise, LeaseLost,
             FailureUnrecorded, Stop
  <1>5. ASSUME NEW s \in Slots, Heartbeat(s) PROVE Moves
    BY <1>1, <1>5 DEF Heartbeat, Owned, Row
  <1>6. ASSUME NEW c \in Companies, Delete(c) PROVE Moves
    BY <1>1, <1>6, DeletedFields DEF Delete
  <1>7. CASE Tick
    BY <1>1, <1>7, TickedRowFields DEF Tick
  <1>8. QED
    BY <1>1, <1>2, <1>3, <1>4, <1>5, <1>6, <1>7 DEF Next, HeartbeatDies, Crash, vars

\* A slot keeps its run and token until it is idle again, and takes a run only by
\* a claim that moves no other slot.
LEMMA SlotMoves ==
  ASSUME TypeOK, [Next]_vars, NEW t \in Slots, PhaseFits(slots[t])
  PROVE  \/ slots'[t].job = NoRun /\ PhaseFits(slots'[t])
         \/ /\ slots'[t].job = slots[t].job
            /\ slots'[t].token = slots[t].token
            /\ PhaseFits(slots'[t])
         \/ \E r \in Runs :
              /\ Claimable(rows[r])
              /\ slots'[t] = StartedSlot(r, rows[r].attempts + 1)
              /\ rows'[r] = ClaimedRow(rows[r])
              /\ \A u \in Slots : u # t => slots'[u] = slots[u]
  <1> DEFINE Keeps == /\ slots'[t].job = slots[t].job
                      /\ slots'[t].token = slots[t].token
                      /\ PhaseFits(slots'[t])
             Starts == \E r \in Runs :
                         /\ Claimable(rows[r])
                         /\ slots'[t] = StartedSlot(r, rows[r].attempts + 1)
                         /\ rows'[r] = ClaimedRow(rows[r])
                         /\ \A u \in Slots : u # t => slots'[u] = slots[u]
             Idles == slots'[t].job = NoRun /\ PhaseFits(slots'[t])
  <1>1. /\ slots \in [Slots -> Slot] /\ slots[t] \in SlotState
        /\ rows \in [Runs -> Row]
    BY DEF TypeOK, Slot
  <1>2. IdleSlot.job = NoRun /\ PhaseFits(IdleSlot)
    BY DEF IdleSlot, PhaseFits
  <1>3. ASSUME NEW s \in Slots, NEW locked \in SUBSET Runs, Claim(s, locked)
        PROVE  Keeps \/ Starts
    <2> PICK swept \in Sweeps(locked) :
           \/ rows' = SweptRows(swept) /\ UNCHANGED slots
           \/ \E q \in Runs :
                /\ Claimable(rows[q])
                /\ rows' = [SweptRows(swept) EXCEPT ![q] = ClaimedRow(rows[q])]
                /\ slots' = [slots EXCEPT ![s] = StartedSlot(q, rows[q].attempts + 1)]
      BY <1>3, ClaimCases
    <2>1. SweptRows(swept) \in [Runs -> Row]
      BY <1>1, GivenUpType DEF SweptRows
    <2>2. CASE UNCHANGED slots
      BY <2>2
    <2>3. ASSUME NEW q \in Runs, Claimable(rows[q]),
                 rows' = [SweptRows(swept) EXCEPT ![q] = ClaimedRow(rows[q])],
                 slots' = [slots EXCEPT ![s] = StartedSlot(q, rows[q].attempts + 1)]
          PROVE  Keeps \/ Starts
      <3>1. rows'[q] = ClaimedRow(rows[q])
        BY <2>1, <2>3
      <3>2. CASE s = t
        BY <1>1, <2>3, <3>1, <3>2
      <3>3. CASE s # t
        BY <1>1, <2>3, <3>3
      <3>4. QED BY <3>2, <3>3
    <2>4. QED BY <2>2, <2>3
  <1>4. ASSUME NEW s \in Slots, Step(s) PROVE Keeps \/ Idles
    <2>1. CASE s # t
      BY <1>1, <1>4, <2>1
         DEF Step, Load, StageReturns, StageIsTransient, Raise, Checkpoint, Finish,
             Fail, LeaseLost, FailureUnrecorded, Stop
    <2>2. CASE s = t
      <3>1. StoppedSlot(slots[t]).job = slots[t].job
              /\ StoppedSlot(slots[t]).token = slots[t].token
              /\ PhaseFits(StoppedSlot(slots[t]))
        BY <1>1 DEF StoppedSlot, SlotState, PhaseFits
      <3>2. CASE Load(s)
        BY <1>1, <2>2, <3>2 DEF Load, SlotState, PhaseFits, PhaseAfter
      <3>3. ASSUME NEW outcome, StageReturns(s, outcome) PROVE Keeps
        BY <1>1, <2>2, <3>3 DEF StageReturns, SlotState, PhaseFits
      <3>4. CASE StageIsTransient(s) \/ Raise(s)
        BY <1>1, <2>2, <3>4 DEF StageIsTransient, Raise, SlotState, PhaseFits
      <3>5. CASE Checkpoint(s)
        BY <1>1, <2>2, <3>5 DEF Checkpoint, SlotState, PhaseFits, PhaseAfter
      <3>6. CASE Finish(s) \/ Fail(s) \/ LeaseLost(s) \/ FailureUnrecorded(s)
        BY <1>1, <2>2, <3>1, <3>6 DEF Finish, Fail, LeaseLost, FailureUnrecorded
      <3>7. CASE Stop(s)
        BY <1>1, <1>2, <2>2, <3>7 DEF Stop
      <3>8. QED BY <1>4, <3>2, <3>3, <3>4, <3>5, <3>6, <3>7 DEF Step
    <2>3. QED BY <2>1, <2>2
  <1>5. ASSUME NEW s \in Slots, HeartbeatDies(s) PROVE Keeps
    BY <1>1, <1>5 DEF HeartbeatDies, SlotState, PhaseFits
  <1>6. ASSUME NEW p \in Processes, Crash(p) PROVE Keeps \/ Idles
    BY <1>1, <1>2, <1>6 DEF Crash
  <1>7. CASE UNCHANGED slots
    BY <1>7
  <1>8. QED
    BY <1>3, <1>4, <1>5, <1>6, <1>7
       DEF Next, Submit, Heartbeat, Delete, Tick, vars

\* Slots hold tokens already drawn for their run, and fit their phase.
LEMMA SlotInvStep == TypeOK /\ SlotInv /\ [Next]_vars => SlotInv'
  <1> SUFFICES ASSUME TypeOK, SlotInv, [Next]_vars, NEW t \in Slots
               PROVE  /\ slots'[t].job # NoRun =>
                           \/ rows'[slots'[t].job].status = "deleted"
                           \/ slots'[t].token <= rows'[slots'[t].job].attempts
                      /\ PhaseFits(slots'[t])
    BY DEF SlotInv, PhaseFits
  <1>1. PhaseFits(slots[t])
    BY DEF SlotInv
  <1>2. CASE slots'[t].job = NoRun /\ PhaseFits(slots'[t])
    BY <1>2
  <1>3. CASE /\ slots'[t].job = slots[t].job
             /\ slots'[t].token = slots[t].token
             /\ PhaseFits(slots'[t])
    <2>1. CASE slots[t].job = NoRun
      BY <1>3, <2>1
    <2>2. CASE slots[t].job # NoRun
      <3> DEFINE r == slots[t].job
      <3>1. r \in Runs /\ slots[t].token \in Int
        BY <2>2, AttemptsAssumption DEF TypeOK, Slot, SlotState
      <3>2. rows[r].attempts \in Int /\ rows'[r].attempts \in Int
        BY <3>1, TypeStep, AttemptsAssumption DEF TypeOK, Row
      <3>3. rows[r].status = "deleted" \/ slots[t].token <= rows[r].attempts
        BY <2>2 DEF SlotInv
      <3>4. QED BY <1>3, <3>1, <3>2, <3>3, RowMoves
    <2>3. QED BY <2>1, <2>2
  <1>4. ASSUME NEW r \in Runs, slots'[t] = StartedSlot(r, rows[r].attempts + 1),
               rows'[r] = ClaimedRow(rows[r])
        PROVE  /\ slots'[t].token <= rows'[slots'[t].job].attempts
               /\ PhaseFits(slots'[t])
    <2>1. slots'[t].token = rows[r].attempts + 1 /\ slots'[t].job = r /\ PhaseFits(slots'[t])
      BY <1>4 DEF StartedSlot, IdleSlot, PhaseFits
    <2>2. rows'[r].attempts = rows[r].attempts + 1 /\ rows[r].attempts \in Int
      BY <1>4, ClaimedRowFields, AttemptsAssumption DEF TypeOK, Row
    <2>3. QED BY <2>1, <2>2
  <1>5. QED BY <1>1, <1>2, <1>3, <1>4, SlotMoves

\* A claim's token is new: it is larger than any token a slot holds for the run.
LEMMA TokensDifferStep ==
  TypeOK /\ SlotInv /\ TokensDiffer /\ [Next]_vars => TokensDiffer'
  <1> SUFFICES ASSUME TypeOK, SlotInv, TokensDiffer, [Next]_vars,
                      NEW s \in Slots, NEW t \in Slots, s # t,
                      slots'[s].job = slots'[t].job, slots'[s].job # NoRun
               PROVE  slots'[s].token # slots'[t].token
    BY DEF TokensDiffer
  <1> DEFINE Same(u) == slots'[u].job = slots[u].job /\ slots'[u].token = slots[u].token
             Started(u) == \E r \in Runs :
                             /\ Claimable(rows[r])
                             /\ slots'[u] = StartedSlot(r, rows[r].attempts + 1)
                             /\ \A v \in Slots : v # u => slots'[v] = slots[v]
  <1>1. ASSUME NEW u \in Slots, slots'[u].job # NoRun PROVE Same(u) \/ Started(u)
    <2>1. PhaseFits(slots[u])
      BY DEF SlotInv
    <2>2. QED BY <1>1, <2>1, SlotMoves
  <1>2. CASE Same(s) /\ Same(t)
    BY <1>2 DEF TokensDiffer
  <1>3. ASSUME NEW u \in Slots, NEW v \in Slots, u # v, Started(u),
               slots'[u].job = slots'[v].job
        PROVE  slots'[u].token # slots'[v].token
    <2> PICK r \in Runs :
          /\ Claimable(rows[r])
          /\ slots'[u] = StartedSlot(r, rows[r].attempts + 1)
          /\ slots'[v] = slots[v]
      BY <1>3
    <2>1. slots'[u].token = rows[r].attempts + 1 /\ slots'[u].job = r
      BY DEF StartedSlot, IdleSlot
    <2>2. slots[v].job = r /\ r # NoRun
      BY <1>3, <2>1, RunsAssumption
    <2>3. slots[v].token <= rows[r].attempts
      BY <2>2 DEF SlotInv, Claimable
    <2>4. slots[v].token \in Int /\ rows[r].attempts \in Int
      BY AttemptsAssumption DEF TypeOK, Slot, SlotState, Row
    <2>5. QED BY <2>1, <2>3, <2>4
  <1>4. QED BY <1>1, <1>2, <1>3

\* The fence and distinct tokens exclude two owners.
LEMMA OwnersExclude == TokensDiffer => AtMostOneOwner
  BY DEF TokensDiffer, AtMostOneOwner, Owned

\* Nothing but deletion changes a terminal run.
LEMMA TerminalStep ==
  ASSUME TypeOK, [Next]_vars, NEW r \in Runs, rows[r].status \in Terminal
  PROVE  rows'[r].status = "deleted" \/ rows'[r] = rows[r]
  <1>1. /\ rows \in [Runs -> Row] /\ rows[r] \in Row
        /\ rows[r].status \notin Live \union {"absent"}
    BY ColumnValues DEF TypeOK
  <1>2. ASSUME NEW q \in Runs, Submit(q) PROVE rows'[r] = rows[r]
    BY <1>1, <1>2 DEF Submit
  <1>3. ASSUME NEW s \in Slots, NEW locked \in SUBSET Runs, Claim(s, locked)
        PROVE  rows'[r] = rows[r]
    <2> PICK swept \in Sweeps(locked) :
           \/ rows' = SweptRows(swept) /\ UNCHANGED slots
           \/ \E q \in Runs :
                /\ Claimable(rows[q])
                /\ rows' = [SweptRows(swept) EXCEPT ![q] = ClaimedRow(rows[q])]
                /\ slots' = [slots EXCEPT ![s] = StartedSlot(q, rows[q].attempts + 1)]
      BY <1>3, ClaimCases
    <2>1. ~Claimable(rows[r]) /\ ~Exhausted(rows[r])
      BY <1>1 DEF Claimable, Exhausted, Live
    <2>2. SweptRows(swept) \in [Runs -> Row] /\ SweptRows(swept)[r] = rows[r]
      BY <1>1, <2>1, GivenUpType, SweptIsExhausted DEF SweptRows
    <2>3. QED BY <2>1, <2>2
  <1>4. ASSUME NEW s \in Slots, Step(s) PROVE rows'[r] = rows[r]
    BY <1>1, <1>4
       DEF Step, Load, StageReturns, StageIsTransient, Raise, Checkpoint, Finish,
           Fail, LeaseLost, FailureUnrecorded, Stop, Owned, Live
  <1>5. ASSUME NEW s \in Slots, Heartbeat(s) PROVE rows'[r] = rows[r]
    BY <1>1, <1>5 DEF Heartbeat, Owned, Live
  <1>6. ASSUME NEW c \in Companies, Delete(c)
        PROVE  rows'[r].status = "deleted" \/ rows'[r] = rows[r]
    BY <1>1, <1>6, DeletedFields DEF Delete
  <1>7. CASE Tick
    BY <1>1, <1>7 DEF Tick, TickedRow
  <1>8. QED
    BY <1>2, <1>3, <1>4, <1>5, <1>6, <1>7 DEF Next, HeartbeatDies, Crash, vars

\* A slot that passes the fence after a step, on the run and token it held before,
\* passed it before; only a checkpoint of that run can have changed its stages.
LEMMA OwnedBefore ==
  ASSUME TypeOK, SlotInv, [Next]_vars, NEW t \in Slots, Owned(t)',
         slots'[t].job = slots[t].job, slots'[t].token = slots[t].token
  PROVE  /\ Owned(t)
         /\ \/ rows'[slots[t].job].stages = rows[slots[t].job].stages
            \/ \E s \in Slots : Checkpoint(s) /\ slots[s].job = slots[t].job
  <1> DEFINE r == slots[t].job
             Running(row) == row.status = "running" /\ row.token = slots[t].token /\ row.lease > 0
             Kept == rows'[r].stages = rows[r].stages
  <1>1. /\ rows \in [Runs -> Row] /\ r \in Runs /\ rows[r] \in Row /\ r # NoRun
        /\ Running(rows'[r])
        /\ slots[t].token \in Int /\ rows[r].attempts \in Int /\ rows[r].lease \in Int
    BY AttemptsAssumption, TimeAssumption DEF Owned, TypeOK, Slot, SlotState, Row
  <1>2. Running(rows[r]) => Owned(t)
    BY <1>1 DEF Owned
  <1>3. ASSUME NEW q \in Runs, Submit(q) PROVE Running(rows[r]) /\ Kept
    BY <1>1, <1>3 DEF Submit, Row
  <1>4. ASSUME NEW s \in Slots, NEW locked \in SUBSET Runs, Claim(s, locked)
        PROVE  Running(rows[r]) /\ Kept
    <2> PICK swept \in Sweeps(locked) :
           \/ rows' = SweptRows(swept) /\ UNCHANGED slots
           \/ \E q \in Runs :
                /\ Claimable(rows[q])
                /\ rows' = [SweptRows(swept) EXCEPT ![q] = ClaimedRow(rows[q])]
                /\ slots' = [slots EXCEPT ![s] = StartedSlot(q, rows[q].attempts + 1)]
      BY <1>4, ClaimCases
    <2>1. SweptRows(swept) \in [Runs -> Row]
      BY <1>1, GivenUpType DEF SweptRows
    <2>2. r \in swept => SweptRows(swept)[r].status # "running"
      BY <1>1, GivenUpFields DEF SweptRows
    <2>3. r \notin swept => SweptRows(swept)[r] = rows[r]
      BY <1>1 DEF SweptRows
    <2>4. ASSUME Claimable(rows[r]) PROVE ClaimedRow(rows[r]).token # slots[t].token
      <3>1. slots[t].token <= rows[r].attempts
        BY <1>1, <2>4 DEF SlotInv, Claimable
      <3>2. QED BY <1>1, <3>1, ClaimedRowFields
    <2>5. QED BY <1>1, <2>1, <2>2, <2>3, <2>4
  <1>5. ASSUME NEW s \in Slots, Step(s)
        PROVE  Running(rows[r]) /\ (Kept \/ (Checkpoint(s) /\ slots[s].job = r))
    <2>1. CASE Checkpoint(s)
      BY <1>1, <2>1, CheckpointedRowFields DEF Checkpoint
    <2>2. CASE Finish(s)
      BY <1>1, <2>2, FinishedRowFields DEF Finish
    <2>3. CASE Fail(s)
      <3>1. FailedRow(rows[r], slots[s].outcome = "retryable").status # "running"
        BY <1>1, FailedRowFields
      <3>2. QED BY <1>1, <2>3, <3>1 DEF Fail
    <2>4. QED
      BY <1>1, <1>5, <2>1, <2>2, <2>3
         DEF Step, Load, StageReturns, StageIsTransient, Raise, LeaseLost,
             FailureUnrecorded, Stop
  <1>6. ASSUME NEW s \in Slots, Heartbeat(s) PROVE Running(rows[r]) /\ Kept
    BY <1>1, <1>6 DEF Heartbeat, Owned, Row
  <1>7. ASSUME NEW c \in Companies, Delete(c) PROVE Running(rows[r]) /\ Kept
    BY <1>1, <1>7, DeletedFields DEF Delete
  <1>8. ASSUME Tick PROVE Running(rows[r]) /\ Kept
    <2>1. rows'[r] = TickedRow(rows[r]) /\ TickedRow(rows[r]) \in Row
      BY <1>1, <1>8, TickedRowType DEF Tick
    <2>2. TickedRow(rows[r]).lease \in Int
      BY <2>1, TimeAssumption DEF Row
    <2>3. QED BY <1>1, <2>1, <2>2, TickedRowFields
  <1>9. ASSUME UNCHANGED rows PROVE Running(rows[r]) /\ Kept
    BY <1>1, <1>9
  <1> HIDE DEF Kept
  <1> DEFINE Moved == \E s \in Slots : Checkpoint(s) /\ slots[s].job = r
             Goal == Owned(t) /\ (Kept \/ Moved)
  <1>10. ASSUME NEW s \in Slots, Step(s) PROVE Goal
    BY <1>2, <1>5, <1>10
  <1>11. ASSUME Running(rows[r]) /\ Kept PROVE Goal
    BY <1>2, <1>11
  <1> HIDE DEF Goal, Running
  <1>12. Goal
    BY <1>3, <1>4, <1>6, <1>7, <1>8, <1>9, <1>10, <1>11
       DEF Next, HeartbeatDies, Crash, vars
  <1>13. QED BY <1>12 DEF Goal, Kept

\* A slot about to run, save or finish after a step loaded its snapshot, saved a
\* stage, or had the same snapshot before.
LEMMA SnapshotMoves ==
  ASSUME TypeOK, [Next]_vars, NEW t \in Slots, slots'[t].pc \in {"run", "save", "finish"}
  PROVE  \/ Load(t)
         \/ Checkpoint(t)
         \/ slots'[t].saved = slots[t].saved /\ slots[t].pc \in {"run", "save", "finish"}
  <1> DEFINE Working == {"run", "save", "finish"}
             Same == slots'[t].saved = slots[t].saved /\ slots[t].pc \in Working
             Goal == Load(t) \/ Checkpoint(t) \/ Same
  <1>1. /\ slots \in [Slots -> Slot] /\ slots[t] \in SlotState
    BY DEF TypeOK, Slot
  <1>2. ASSUME NEW s \in Slots, NEW locked \in SUBSET Runs, Claim(s, locked) PROVE Same
    <2>1. UNCHANGED slots
            \/ \E r \in Runs : slots' = [slots EXCEPT ![s] = StartedSlot(r, rows[r].attempts + 1)]
      BY <1>2, ClaimCases
    <2>2. ASSUME NEW r, NEW token PROVE StartedSlot(r, token).pc = "load"
      BY DEF StartedSlot, IdleSlot
    <2>3. QED BY <1>1, <2>1, <2>2
  <1>3. ASSUME NEW s \in Slots, Step(s) PROVE Goal
    <2>1. CASE s # t
      BY <1>1, <1>3, <2>1
         DEF Step, Load, StageReturns, StageIsTransient, Raise, Checkpoint, Finish,
             Fail, LeaseLost, FailureUnrecorded, Stop
    <2>2. CASE s = t
      <3>1. StoppedSlot(slots[t]).pc = "stop" /\ IdleSlot.pc = "idle"
        BY <1>1 DEF StoppedSlot, IdleSlot, SlotState
      <3>2. ASSUME NEW outcome, StageReturns(s, outcome) PROVE Same
        BY <1>1, <2>2, <3>2 DEF StageReturns, SlotState
      <3>3. CASE StageIsTransient(s) \/ Raise(s)
        BY <1>1, <2>2, <3>3 DEF StageIsTransient, Raise, SlotState
      <3>4. CASE Finish(s) \/ Fail(s) \/ LeaseLost(s) \/ FailureUnrecorded(s) \/ Stop(s)
        BY <1>1, <2>2, <3>1, <3>4 DEF Finish, Fail, LeaseLost, FailureUnrecorded, Stop
      <3>5. QED BY <1>3, <2>2, <3>2, <3>3, <3>4 DEF Step
    <2>3. QED BY <2>1, <2>2
  <1>4. ASSUME NEW s \in Slots, HeartbeatDies(s) PROVE Same
    BY <1>1, <1>4 DEF HeartbeatDies, SlotState
  <1>5. ASSUME NEW p \in Processes, Crash(p) PROVE Same
    BY <1>1, <1>5 DEF Crash, IdleSlot
  <1>6. ASSUME UNCHANGED slots PROVE Same
    BY <1>6
  <1>7. QED
    BY <1>2, <1>3, <1>4, <1>5, <1>6 DEF Next, Submit, Heartbeat, Delete, Tick, vars

\* The owner's snapshot stays what its row holds: nobody else can have saved a
\* stage since it was read.
LEMMA SnapshotStep ==
  TypeOK /\ SlotInv /\ TokensDiffer /\ OwnerSnapshotIsCurrent /\ [Next]_vars
    => OwnerSnapshotIsCurrent'
  <1> SUFFICES ASSUME TypeOK, SlotInv, TokensDiffer, OwnerSnapshotIsCurrent, [Next]_vars,
                      NEW t \in Slots, Owned(t)', slots'[t].pc \in {"run", "save", "finish"}
               PROVE  slots'[t].saved = rows'[slots'[t].job].stages
    BY DEF OwnerSnapshotIsCurrent
  <1>1. slots'[t].job = slots[t].job /\ slots'[t].token = slots[t].token
    <2>1. PhaseFits(slots[t]) /\ slots'[t].job # NoRun
      BY DEF SlotInv, Owned
    <2>2. ASSUME NEW r, NEW token PROVE StartedSlot(r, token).pc = "load"
      BY DEF StartedSlot, IdleSlot
    <2>3. QED BY <2>1, <2>2, SlotMoves
  <1> DEFINE r == slots[t].job
  <1>2. /\ Owned(t)
        /\ \/ rows'[r].stages = rows[r].stages
           \/ \E s \in Slots : Checkpoint(s) /\ slots[s].job = r
    BY <1>1, OwnedBefore
  <1>3. /\ rows \in [Runs -> Row] /\ slots \in [Slots -> Slot] /\ slots[t] \in SlotState
        /\ r \in Runs /\ rows[r] \in Row
    BY <1>2 DEF TypeOK, Slot, SlotState, Owned
  <1>4. CASE Load(t)
    BY <1>1, <1>3, <1>4 DEF Load, SlotState
  <1>5. CASE Checkpoint(t)
    <2> DEFINE stage == NextStage(slots[t].saved)
    <2>1. slots[t].saved = rows[r].stages
      BY <1>2, <1>5 DEF OwnerSnapshotIsCurrent, Checkpoint
    <2>2. rows'[r].stages = rows[r].stages \union {stage}
      BY <1>3, <1>5, CheckpointedRowFields DEF Checkpoint
    <2>3. slots'[t].saved = slots[t].saved \union {stage}
      BY <1>3, <1>5 DEF Checkpoint, SlotState
    <2>4. QED BY <1>1, <2>1, <2>2, <2>3
  <1>6. CASE ~Load(t) /\ ~Checkpoint(t)
    <2>1. slots'[t].saved = slots[t].saved /\ slots[t].pc \in {"run", "save", "finish"}
      BY <1>6, SnapshotMoves
    <2>2. slots[t].saved = rows[r].stages
      BY <1>2, <2>1 DEF OwnerSnapshotIsCurrent
    <2>3. ASSUME NEW s \in Slots, Checkpoint(s), slots[s].job = r PROVE FALSE
      <3>1. Owned(s) BY <2>3 DEF Checkpoint
      <3>2. s = t BY <1>2, <2>3, <3>1, OwnersExclude DEF AtMostOneOwner
      <3>3. QED BY <1>6, <2>3, <3>2
    <2>4. QED BY <1>1, <1>2, <2>1, <2>2, <2>3
  <1>7. QED BY <1>4, <1>5, <1>6

\* A run completes only when its owner finishes both stages with no error recorded.
LEMMA CompletedStep ==
  TypeOK /\ SlotInv /\ OwnerSnapshotIsCurrent /\ CompletedIsClean /\ [Next]_vars
    => CompletedIsClean'
  <1> SUFFICES ASSUME TypeOK, SlotInv, OwnerSnapshotIsCurrent, CompletedIsClean, [Next]_vars,
                      NEW r \in Runs, rows'[r].status = "completed"
               PROVE  rows'[r].stages = Stages /\ rows'[r].errors = {}
    BY DEF CompletedIsClean
  <1> DEFINE Was == rows[r].status = "completed"
             Ends == \E s \in Slots : Finish(s) /\ slots[s].job = r
  <1>1. /\ rows \in [Runs -> Row] /\ rows[r] \in Row
    BY DEF TypeOK
  <1>2. ASSUME NEW q \in Runs, Submit(q) PROVE Was
    BY <1>1, <1>2 DEF Submit, Row
  <1>3. ASSUME NEW s \in Slots, NEW locked \in SUBSET Runs, Claim(s, locked) PROVE Was
    <2> PICK swept \in Sweeps(locked) :
           \/ rows' = SweptRows(swept) /\ UNCHANGED slots
           \/ \E q \in Runs :
                /\ Claimable(rows[q])
                /\ rows' = [SweptRows(swept) EXCEPT ![q] = ClaimedRow(rows[q])]
                /\ slots' = [slots EXCEPT ![s] = StartedSlot(q, rows[q].attempts + 1)]
      BY <1>3, ClaimCases
    <2>1. SweptRows(swept) \in [Runs -> Row]
      BY <1>1, GivenUpType DEF TypeOK, SweptRows
    <2>2. SweptRows(swept)[r].status = "completed" => Was
      BY <1>1, GivenUpFields DEF SweptRows
    <2>3. ClaimedRow(rows[r]).status # "completed"
      BY <1>1, ClaimedRowFields
    <2>4. QED BY <2>1, <2>2, <2>3
  <1>4. ASSUME NEW s \in Slots, Step(s) PROVE Was \/ Ends
    <2>1. CASE Checkpoint(s)
      BY <1>1, <2>1, CheckpointedRowFields DEF Checkpoint
    <2>2. CASE Finish(s)
      BY <1>1, <2>2 DEF Finish
    <2>3. CASE Fail(s)
      <3>1. FailedRow(rows[r], slots[s].outcome = "retryable").status # "completed"
        BY <1>1, FailedRowFields
      <3>2. QED BY <1>1, <2>3, <3>1 DEF Fail
    <2>4. QED
      BY <1>1, <1>4, <2>1, <2>2, <2>3
         DEF Step, Load, StageReturns, StageIsTransient, Raise, LeaseLost,
             FailureUnrecorded, Stop
  <1>5. ASSUME NEW s \in Slots, Heartbeat(s) PROVE Was
    BY <1>1, <1>5 DEF Heartbeat, Row
  <1>6. ASSUME NEW c \in Companies, Delete(c) PROVE Was
    BY <1>1, <1>6, DeletedFields DEF Delete
  <1>7. ASSUME Tick PROVE Was
    BY <1>1, <1>7, TickedRowFields DEF Tick
  <1>8. ASSUME UNCHANGED rows PROVE Was
    BY <1>8
  <1>9. CASE Was
    BY <1>9, TerminalStep DEF Terminal, CompletedIsClean
  <1>10. ASSUME NEW s \in Slots, Finish(s), slots[s].job = r
         PROVE  rows'[r].stages = Stages /\ rows'[r].errors = {}
    <2>1. slots[s].saved = Stages /\ slots[s].saved = rows[r].stages
      BY <1>10 DEF Finish, SlotInv, PhaseFits, OwnerSnapshotIsCurrent
    <2>2. rows'[r] = FinishedRow(rows[r])
      BY <1>1, <1>10 DEF Finish
    <2>3. QED BY <1>1, <2>1, <2>2, FinishedRowFields
  <1> HIDE DEF Was
  <1>11. Was \/ Ends
    BY <1>2, <1>3, <1>4, <1>5, <1>6, <1>7, <1>8 DEF Next, HeartbeatDies, Crash, vars
  <1>12. QED BY <1>9, <1>10, <1>11

-----------------------------------------------------------------------------
(* What one step makes of one row *)

\* The writes of the slot that passes the fence for r.
OwnerWrites(s, r) ==
  /\ Owned(s) /\ slots[s].job = r
  /\ \/ \E stage \in Stages, outcome \in Outcome :
          rows'[r] = CheckpointedRow(rows[r], stage, outcome)
     \/ rows'[r] = FinishedRow(rows[r])
     \/ \E retryable \in BOOLEAN : rows'[r] = FailedRow(rows[r], retryable)
     \/ rows'[r] = [rows[r] EXCEPT !.lease = LeaseTime]

\* Every change of a row is an operation of service.py, a deletion, or time.
RowChanges(r) ==
  \/ rows'[r] = rows[r]
  \/ rows[r].status = "absent" /\ rows'[r] = [rows[r] EXCEPT !.status = "queued"]
  \/ Exhausted(rows[r]) /\ rows'[r] = GivenUp(rows[r])
  \/ Claimable(rows[r]) /\ rows'[r] = ClaimedRow(rows[r])
  \/ \E s \in Slots : OwnerWrites(s, r)
  \/ rows'[r] = [AbsentRow EXCEPT !.status = "deleted"]
  \/ rows'[r] = TickedRow(rows[r])

\* A step changes a row only by one of these operations.
LEMMA RowCases ==
  ASSUME TypeOK, [Next]_vars, NEW r \in Runs
  PROVE  RowChanges(r)
  <1>1. rows \in [Runs -> Row] /\ rows[r] \in Row /\ slots \in [Slots -> Slot]
    BY DEF TypeOK
  <1>2. ASSUME NEW q \in Runs, Submit(q) PROVE RowChanges(r)
    BY <1>1, <1>2 DEF Submit, RowChanges
  <1>3. ASSUME NEW s \in Slots, NEW locked \in SUBSET Runs, Claim(s, locked)
        PROVE  RowChanges(r)
    <2> PICK swept \in Sweeps(locked) :
           \/ rows' = SweptRows(swept) /\ UNCHANGED slots
           \/ \E q \in Runs :
                /\ Claimable(rows[q])
                /\ rows' = [SweptRows(swept) EXCEPT ![q] = ClaimedRow(rows[q])]
                /\ slots' = [slots EXCEPT ![s] = StartedSlot(q, rows[q].attempts + 1)]
      BY <1>3, ClaimCases
    <2>1. SweptRows(swept) \in [Runs -> Row]
      BY <1>1, GivenUpType DEF SweptRows
    <2>2. \/ SweptRows(swept)[r] = rows[r]
          \/ Exhausted(rows[r]) /\ SweptRows(swept)[r] = GivenUp(rows[r])
      BY <1>1, SweptIsExhausted DEF SweptRows
    <2>3. \/ rows'[r] = SweptRows(swept)[r]
          \/ Claimable(rows[r]) /\ rows'[r] = ClaimedRow(rows[r])
      BY <2>1
    <2>4. QED BY <2>2, <2>3 DEF RowChanges
  <1>4. ASSUME NEW s \in Slots, Step(s) PROVE RowChanges(r)
    <2>1. CASE Checkpoint(s)
      <3>1. CASE slots[s].job # r
        BY <1>1, <2>1, <3>1 DEF Checkpoint, RowChanges
      <3>2. CASE slots[s].job = r
        <4>1. NextStage(slots[s].saved) \in Stages /\ slots[s].outcome \in Outcome
          BY <1>1 DEF NextStage, Stages, Slot, SlotState
        <4>2. Owned(s) /\ rows'[r] = CheckpointedRow(rows[r], NextStage(slots[s].saved),
                                                      slots[s].outcome)
          BY <1>1, <2>1, <3>2 DEF Checkpoint
        <4>3. OwnerWrites(s, r)
          BY <3>2, <4>1, <4>2 DEF OwnerWrites
        <4>4. QED BY <4>3 DEF RowChanges
      <3>3. QED BY <3>1, <3>2
    <2>2. CASE Finish(s)
      BY <1>1, <2>2 DEF Finish, OwnerWrites, RowChanges
    <2>3. CASE Fail(s)
      <3>1. (slots[s].outcome = "retryable") \in BOOLEAN
        OBVIOUS
      <3>2. Owned(s) /\ (rows'[r] = rows[r] \/
              (slots[s].job = r /\ rows'[r] = FailedRow(rows[r], slots[s].outcome = "retryable")))
        BY <1>1, <2>3 DEF Fail
      <3>3. QED BY <3>1, <3>2, Zenon DEF OwnerWrites, RowChanges
    <2>4. QED
      BY <1>1, <1>4, <2>1, <2>2, <2>3
         DEF Step, Load, StageReturns, StageIsTransient, Raise, LeaseLost,
             FailureUnrecorded, Stop, RowChanges
  <1>5. ASSUME NEW s \in Slots, Heartbeat(s) PROVE RowChanges(r)
    BY <1>1, <1>5 DEF Heartbeat, OwnerWrites, RowChanges
  <1>6. ASSUME NEW c \in Companies, Delete(c) PROVE RowChanges(r)
    BY <1>1, <1>6 DEF Delete, RowChanges
  <1>7. CASE Tick
    BY <1>1, <1>7 DEF Tick, RowChanges
  <1>8. CASE UNCHANGED rows
    BY <1>8 DEF RowChanges
  <1>9. QED
    BY <1>2, <1>3, <1>4, <1>5, <1>6, <1>7, <1>8 DEF Next, HeartbeatDies, Crash, vars

-----------------------------------------------------------------------------
(* Safety *)

\* Before anything is submitted, every part of the invariant holds.
LEMMA InvInit == Init => IInv
  <1> SUFFICES ASSUME Init PROVE IInv
    OBVIOUS
  <1>1. /\ \A r \in Runs : rows[r] = AbsentRow
        /\ \A s \in Slots : slots[s] = IdleSlot
    BY DEF Init
  <1>2. AbsentRow.status = "absent" /\ AbsentRow.token = 0 /\ AbsentRow.lease = 0
    BY DEF AbsentRow
  <1>3. IdleSlot.job = NoRun /\ IdleSlot.pc = "idle"
    BY DEF IdleSlot
  <1>4. QED
    BY <1>1, <1>2, <1>3, TypeInit
       DEF IInv, RowInv, LeaseFits, SlotInv, PhaseFits, TokensDiffer,
           OwnerSnapshotIsCurrent, CompletedIsClean, Owned

\* The strengthened invariant is inductive.
LEMMA InvStep == IInv /\ [Next]_vars => IInv'
  BY TypeStep, RowInvStep, SlotInvStep, TokensDifferStep, SnapshotStep, CompletedStep
     DEF IInv

\* The strengthened invariant holds in every reachable state.
THEOREM InductiveInvariant == Spec => []IInv
  BY InvInit, InvStep, PTL DEF Spec

\* Leases exclude: whatever expires, crashes or is swept, two worker slots never
\* both pass owned() for one run, so its results have a single writer at a time.
THEOREM OneOwner == Spec => []AtMostOneOwner
  <1>1. IInv => AtMostOneOwner
    BY OwnersExclude DEF IInv
  <1>2. QED BY <1>1, InductiveInvariant, PTL

\* The snapshot of saved stages that run_once takes at the start of an attempt is
\* still right for as long as the attempt owns the run.
THEOREM CurrentSnapshot == Spec => []OwnerSnapshotIsCurrent
  <1>1. IInv => OwnerSnapshotIsCurrent
    BY DEF IInv
  <1>2. QED BY <1>1, InductiveInvariant, PTL

\* completed means both stages are saved and no attempt recorded an error.
THEOREM CleanCompletion == Spec => []CompletedIsClean
  <1>1. IInv => CompletedIsClean
    BY DEF IInv
  <1>2. QED BY <1>1, InductiveInvariant, PTL

\* A completed, partial or failed run never changes again, except to be deleted.
THEOREM FinalityOfTerminal == Spec => TerminalIsFinal
  <1>1. TypeOK /\ [Next]_vars =>
          [\A r \in Runs :
             rows[r].status \in Terminal =>
               \/ rows'[r].status = "deleted"
               \/ rows'[r] = rows[r]]_vars
    BY TerminalStep
  <1>2. QED BY <1>1, TypeCorrect, PTL DEF Spec, TerminalIsFinal

\* What an attempt saved or reported survives every operation but deletion.
LEMMA SurviveStep ==
  ASSUME TypeOK, [Next]_vars, NEW r \in Runs, rows'[r].status # "deleted"
  PROVE  /\ rows[r].stages \subseteq rows'[r].stages
         /\ "worker" \in rows[r].errors => "worker" \in rows'[r].errors
  <1> DEFINE Kept == /\ rows[r].stages \subseteq rows'[r].stages
                     /\ "worker" \in rows[r].errors => "worker" \in rows'[r].errors
  <1>1. rows[r] \in Row /\ "worker" \notin Stages
    BY DEF TypeOK, Stages
  <1>2. ASSUME NEW s \in Slots, OwnerWrites(s, r) PROVE Kept
    <2>1. ASSUME NEW stage \in Stages, NEW outcome \in Outcome,
                 rows'[r] = CheckpointedRow(rows[r], stage, outcome)
          PROVE  Kept
      BY <1>1, <2>1, CheckpointedRowFields
    <2>2. ASSUME NEW retryable \in BOOLEAN, rows'[r] = FailedRow(rows[r], retryable)
          PROVE  Kept
      BY <1>1, <2>2, FailedRowFields
    <2>3. ASSUME rows'[r] = FinishedRow(rows[r]) PROVE Kept
      BY <1>1, <2>3, FinishedRowFields
    <2>4. ASSUME rows'[r] = [rows[r] EXCEPT !.lease = LeaseTime] PROVE Kept
      BY <1>1, <2>4 DEF Row
    <2> HIDE DEF Kept
    <2>5. QED
      BY <1>2, <2>1, <2>2, <2>3, <2>4 DEF OwnerWrites
  <1>3. RowChanges(r)
    BY RowCases
  <1>4. ASSUME rows'[r] = [rows[r] EXCEPT !.status = "queued"] PROVE Kept
    BY <1>1, <1>4 DEF Row
  <1>5. ASSUME rows'[r] = GivenUp(rows[r]) \/ rows'[r] = ClaimedRow(rows[r]) PROVE Kept
    BY <1>1, <1>5, GivenUpFields, ClaimedRowFields
  <1>6. ASSUME rows'[r] = TickedRow(rows[r]) PROVE Kept
    BY <1>1, <1>6, TickedRowFields
  <1>7. rows'[r] # [AbsentRow EXCEPT !.status = "deleted"]
    BY DeletedFields
  <1>8. ASSUME rows'[r] = rows[r] PROVE Kept
    BY <1>8
  <1> HIDE DEF Kept
  <1>9. Kept
    BY <1>2, <1>3, <1>4, <1>5, <1>6, <1>7, <1>8 DEF RowChanges
  <1>10. QED BY <1>9 DEF Kept

\* Stages saved by an attempt and the errors of failed attempts are never lost to a
\* retry, a reclaim, a late worker or the sweep.
THEOREM SurvivalOfResults == Spec => ResultsSurvive
  <1>1. TypeOK /\ [Next]_vars =>
          [\A r \in Runs :
             rows'[r].status # "deleted" =>
               /\ rows[r].stages \subseteq rows'[r].stages
               /\ "worker" \in rows[r].errors => "worker" \in rows'[r].errors]_vars
    BY SurviveStep
  <1>2. QED BY <1>1, TypeCorrect, PTL DEF Spec, ResultsSurvive

\* Only the holder of the unexpired token, or the sweep of an exhausted run, ends an
\* attempt or touches its results.
LEMMA FencedStep ==
  ASSUME TypeOK, [Next]_vars, NEW r \in Runs,
         rows[r].status = "running", rows'[r].status # "deleted",
         \/ rows'[r].status # "running"
         \/ rows'[r].stages # rows[r].stages
         \/ rows'[r].errors # rows[r].errors
  PROVE  \/ \E s \in Slots : /\ slots[s].job = r
                              /\ slots[s].token = rows[r].token
                              /\ rows[r].lease > 0
         \/ rows[r].lease = 0 /\ rows[r].attempts = MaxAttempts
  <1>1. rows[r] \in Row /\ rows[r].attempts \in 0..MaxAttempts
    BY DEF TypeOK, Row
  <1>2. CASE \E s \in Slots : OwnerWrites(s, r)
    BY <1>2 DEF OwnerWrites, Owned
  <1>3. CASE Exhausted(rows[r])
    BY <1>1, <1>3, AttemptsAssumption DEF Exhausted
  <1>4. RowChanges(r)
    BY RowCases
  <1>5. QED
    BY <1>1, <1>2, <1>3, <1>4, ClaimedRowFields, TickedRowFields, DeletedFields
       DEF RowChanges

\* The fence of owned() holds every write of the job row that matters.
THEOREM FenceHolds == Spec => FencedWrites
  <1>1. TypeOK /\ [Next]_vars =>
          [\A r \in Runs :
             (rows[r].status = "running" /\ rows'[r].status # "deleted"
                /\ \/ rows'[r].status # "running"
                   \/ rows'[r].stages # rows[r].stages
                   \/ rows'[r].errors # rows[r].errors)
             => \/ \E s \in Slots : /\ slots[s].job = r
                                    /\ slots[s].token = rows[r].token
                                    /\ rows[r].lease > 0
                \/ rows[r].lease = 0 /\ rows[r].attempts = MaxAttempts]_vars
    BY FencedStep
  <1>2. QED BY <1>1, TypeCorrect, PTL DEF Spec, FencedWrites


-----------------------------------------------------------------------------
(* The refinement mapping *)

\* The owner is the one slot that passes the fence.
OwnerFits ==
  \A r \in Runs :
    /\ \A s \in Slots : Owns(s, r) => OwnerOf(r) = s
    /\ (\A s \in Slots : ~Owns(s, r)) => OwnerOf(r) = NoSlot

LEMMA OwnerIs == IInv => OwnerFits
  <1> SUFFICES ASSUME IInv, NEW r \in Runs
               PROVE  /\ \A s \in Slots : Owns(s, r) => OwnerOf(r) = s
                      /\ (\A s \in Slots : ~Owns(s, r)) => OwnerOf(r) = NoSlot
    BY DEF OwnerFits
  <1>1. \A s, t \in Slots : Owns(s, r) /\ Owns(t, r) => s = t
    BY OwnersExclude DEF IInv, AtMostOneOwner, Owns
  <1>2. ASSUME NEW s \in Slots, Owns(s, r) PROVE OwnerOf(r) = s
    <2> DEFINE chosen == CHOOSE t \in Slots : Owns(t, r)
    <2>1. chosen \in Slots /\ Owns(chosen, r)
      BY <1>2
    <2>2. OwnerOf(r) = chosen
      BY <1>2 DEF OwnerOf
    <2> HIDE DEF chosen
    <2>3. QED BY <1>1, <1>2, <2>1, <2>2
  <1>3. (\A s \in Slots : ~Owns(s, r)) => OwnerOf(r) = NoSlot
    BY DEF OwnerOf
  <1>4. QED BY <1>2, <1>3

LEMMA OwnerIsNext == IInv' => OwnerFits'
  BY OwnerIs, PTL

\* A run keeps its owner when the same slots pass the fence for it.
LEMMA OwnerKept ==
  ASSUME IInv, IInv', NEW r \in Runs, \A s \in Slots : Owns(s, r)' <=> Owns(s, r)
  PROVE  OwnerOf(r)' = OwnerOf(r)
  <1>1. CASE \E s \in Slots : Owns(s, r)
    BY <1>1, OwnerIs, OwnerIsNext DEF OwnerFits
  <1>2. CASE \A s \in Slots : ~Owns(s, r)
    BY <1>2, OwnerIs, OwnerIsNext DEF OwnerFits
  <1>3. QED BY <1>1, <1>2

\* What the contract calls unowned.
LEMMA UnownedIs ==
  ASSUME IInv, NEW r \in Runs
  PROVE  /\ (\A s \in Slots : ~Owns(s, r)) => Contract!Unowned(r)
         /\ (\E s \in Slots : Owns(s, r)) => ~Contract!Unowned(r)
  BY OwnerIs, NoSlotAssumption DEF OwnerFits, Contract!Unowned

LEMMA JobFields ==
  ASSUME NEW r
  PROVE  /\ JobOf(r).status = rows[r].status /\ JobOf(r).attempts = rows[r].attempts
         /\ JobOf(r).stages = rows[r].stages /\ JobOf(r).errors = rows[r].errors
  BY DEF JobOf

\* Only running rows with a lease are owned.
LEMMA OwnedRow ==
  ASSUME NEW s, NEW r, Owns(s, r)
  PROVE  /\ rows[r].status = "running" /\ rows[r].lease > 0
         /\ slots[s].job = r /\ slots[s].token = rows[r].token
  BY DEF Owns, Owned

-----------------------------------------------------------------------------
(* Every step is a step of the contract *)

\* A step that changes no job, and takes the owners of some runs away.
LEMMA LosesOwners ==
  ASSUME IInv, IInv', NEW lost \in SUBSET Runs,
         \A r \in Runs : JobOf(r)' = JobOf(r),
         \A r \in lost : \A s \in Slots : ~Owns(s, r)',
         \A r \in Runs \ lost : \A s \in Slots : Owns(s, r)' <=> Owns(s, r)
  PROVE  Contract!Next
  <1>1. \A r \in lost : OwnerOf(r)' = NoSlot
    BY OwnerIsNext DEF OwnerFits
  <1>2. \A r \in Runs \ lost : OwnerOf(r)' = OwnerOf(r)
    BY OwnerKept
  <1>3. Contract!Lose(lost)
    BY <1>1, <1>2 DEF Contract!Lose
  <1>4. QED BY <1>3 DEF Contract!Next

\* A step that changes neither the rows nor what slots hold.
LEMMA ChangesNoOwner ==
  ASSUME IInv, IInv', UNCHANGED rows,
         \A s \in Slots : slots'[s].job = slots[s].job /\ slots'[s].token = slots[s].token
  PROVE  Contract!Next
  <1>1. \A r \in Runs : JobOf(r)' = JobOf(r)
    BY DEF JobOf
  <1>2. \A r \in Runs, s \in Slots : Owns(s, r)' <=> Owns(s, r)
    BY DEF Owns, Owned
  <1>3. \A r \in Runs : OwnerOf(r)' = OwnerOf(r)
    BY <1>2, OwnerKept
  <1>4. Contract!Lose({})
    BY <1>1, <1>3 DEF Contract!Lose
  <1>5. QED BY <1>4 DEF Contract!Next

LEMMA SubmitRefines ==
  ASSUME IInv, IInv', NEW q \in Runs, Submit(q)
  PROVE  Contract!Next
  <1>1. /\ rows[q].status = "absent" /\ rows[q] \in Row /\ slots' = slots
        /\ rows' = [rows EXCEPT ![q] = [rows[q] EXCEPT !.status = "queued"]]
    BY DEF Submit, IInv, TypeOK
  <1>2. /\ \A r \in Runs : r # q => rows'[r] = rows[r]
        /\ rows'[q] = [rows[q] EXCEPT !.status = "queued"]
    BY <1>1 DEF IInv, TypeOK
  <1>3. JobOf(q)' = [JobOf(q) EXCEPT !.status = "queued"]
    BY <1>1, <1>2 DEF JobOf, Row
  <1>4. \A r \in Runs : r # q => JobOf(r)' = JobOf(r)
    BY <1>2 DEF JobOf
  <1>5. \A r \in Runs, s \in Slots : Owns(s, r)' <=> Owns(s, r)
    BY <1>1, <1>2 DEF Owns, Owned, Row
  <1>6. \A r \in Runs : OwnerOf(r)' = OwnerOf(r)
    BY <1>5, OwnerKept
  <1>7. Contract!Enqueue(q)
    BY <1>1, <1>3, <1>4, <1>6, JobFields DEF Contract!Enqueue
  <1>8. QED BY <1>7 DEF Contract!Next

Job == [status : Status, attempts : Int, stages : SUBSET Stages, errors : SUBSET ErrorKind]

LEMMA JobType == TypeOK => \A r \in Runs : JobOf(r) \in Job
  BY AttemptsAssumption DEF TypeOK, JobOf, Row, Job

LEMMA JobTypeNext == TypeOK' => \A r \in Runs : JobOf(r)' \in Job
  <1>1. (TypeOK => \A r \in Runs : JobOf(r) \in Job)'
    BY JobType, PTL
  <1>2. QED BY <1>1

LEMMA JobFieldsNext ==
  ASSUME NEW r
  PROVE  /\ JobOf(r)'.status = rows'[r].status /\ JobOf(r)'.attempts = rows'[r].attempts
         /\ JobOf(r)'.stages = rows'[r].stages /\ JobOf(r)'.errors = rows'[r].errors
  BY DEF JobOf

\* What the contract makes of a job, field by field.
LEMMA SettledForm ==
  ASSUME NEW job \in Job, NEW new \in Job,
         new.status = (IF job.stages = {} THEN "failed" ELSE "partial"),
         new.attempts = job.attempts, new.stages = job.stages,
         new.errors = job.errors \union {"worker"}
  PROVE  new = Contract!Settled(job)
  BY DEF Job, Contract!Settled

LEMMA GrantedForm ==
  ASSUME NEW job \in Job, NEW new \in Job,
         new.status = "running", new.attempts = job.attempts + 1,
         new.stages = job.stages, new.errors = job.errors
  PROVE  new = [job EXCEPT !.status = "running", !.attempts = @ + 1]
  BY DEF Job

LEMMA RecordedForm ==
  ASSUME NEW job \in Job, NEW new \in Job, NEW stage, NEW errors,
         new.status = job.status, new.attempts = job.attempts,
         new.stages = job.stages \union {stage},
         new.errors = (job.errors \ {stage}) \union errors
  PROVE  new = [job EXCEPT !.stages = @ \union {stage}, !.errors = (@ \ {stage}) \union errors]
  BY DEF Job

LEMMA RequeuedForm ==
  ASSUME NEW job \in Job, NEW new \in Job,
         new.status = "queued", new.attempts = job.attempts,
         new.stages = job.stages, new.errors = job.errors \union {"worker"}
  PROVE  new = [job EXCEPT !.status = "queued", !.errors = @ \union {"worker"}]
  BY DEF Job

\* A swept run, in the table and in the contract.
LEMMA SweptJob ==
  ASSUME TypeOK, TypeOK', NEW r \in Runs, rows'[r] = GivenUp(rows[r])
  PROVE  JobOf(r)' = Contract!Settled(JobOf(r))
  <1>1. /\ rows'[r].status = (IF rows[r].stages = {} THEN "failed" ELSE "partial")
        /\ rows'[r].attempts = rows[r].attempts
        /\ rows'[r].stages = rows[r].stages
        /\ rows'[r].errors = rows[r].errors \union {"worker"}
    BY DEF TypeOK, GivenUp, Row
  <1>2. JobOf(r) \in Job /\ JobOf(r)' \in Job
    BY JobType, JobTypeNext
  <1>3. QED BY <1>1, <1>2, SettledForm, JobFields, JobFieldsNext

LEMMA ClaimRefines ==
  ASSUME IInv, IInv', NEW s \in Slots, NEW locked \in SUBSET Runs, Claim(s, locked)
  PROVE  Contract!Next
  <1>1. PICK swept \in Sweeps(locked) :
           \/ rows' = SweptRows(swept) /\ UNCHANGED slots
           \/ \E q \in Runs :
                /\ Claimable(rows[q])
                /\ rows' = [SweptRows(swept) EXCEPT ![q] = ClaimedRow(rows[q])]
                /\ slots' = [slots EXCEPT ![s] = StartedSlot(q, rows[q].attempts + 1)]
    BY ClaimCases
  <1>2. /\ rows \in [Runs -> Row] /\ slots \in [Slots -> Slot] /\ slots[s].job = NoRun
        /\ swept \in SUBSET Runs
        /\ \A r \in Runs : rows[r] \in Row /\ LeaseFits(rows[r])
    BY SweptIsExhausted DEF IInv, TypeOK, RowInv, Claim, Slot
  <1>3. \A r \in Runs : Claimable(rows[r]) \/ Exhausted(rows[r]) =>
                          \A t \in Slots : ~Owns(t, r)
    BY <1>2, OwnedRow DEF Claimable, Exhausted, LeaseFits
  <1>4. \A r \in swept : /\ Contract!Abandoned(r) /\ Exhausted(rows[r])
                         /\ GivenUp(rows[r]).status # "running"
    <2> SUFFICES ASSUME NEW r \in swept
                 PROVE  /\ Contract!Abandoned(r) /\ Exhausted(rows[r])
                        /\ GivenUp(rows[r]).status # "running"
      OBVIOUS
    <2>1. r \in Runs /\ Exhausted(rows[r])
      BY SweptIsExhausted DEF IInv
    <2>2. rows[r].attempts = MaxAttempts /\ rows[r].status = "running"
      BY <1>2, <2>1, AttemptsAssumption DEF Exhausted, Row
    <2>3. Contract!Unowned(r)
      BY <1>3, <2>1, UnownedIs
    <2>4. Contract!Abandoned(r)
      BY <2>1, <2>2, <2>3, JobFields DEF Contract!Abandoned
    <2>5. QED BY <1>2, <2>1, <2>4, GivenUpFields
  <1>5. CASE rows' = SweptRows(swept) /\ UNCHANGED slots
    <2>1. \A r \in Runs : rows'[r] = IF r \in swept THEN GivenUp(rows[r]) ELSE rows[r]
      BY <1>5 DEF SweptRows
    <2>2. \A r \in Runs : JobOf(r)' = IF r \in swept THEN Contract!Settled(JobOf(r)) ELSE JobOf(r)
      <3>1. \A r \in swept : JobOf(r)' = Contract!Settled(JobOf(r))
        BY <1>2, <2>1, SweptJob DEF IInv
      <3>2. \A r \in Runs \ swept : JobOf(r)' = JobOf(r)
        BY <2>1 DEF JobOf
      <3>3. QED BY <3>1, <3>2
    <2>3. \A r \in Runs : \A t \in Slots : Owns(t, r)' <=> Owns(t, r)
      <3>1. \A r \in swept : \A t \in Slots : ~Owns(t, r) /\ ~Owns(t, r)'
        BY <1>2, <1>3, <1>4, <2>1 DEF Owns, Owned
      <3>2. \A r \in Runs \ swept : \A t \in Slots : Owns(t, r)' <=> Owns(t, r)
        BY <1>5, <2>1 DEF Owns, Owned
      <3>3. QED BY <3>1, <3>2
    <2>4. \A r \in Runs : OwnerOf(r)' = OwnerOf(r)
      BY <2>3, OwnerKept
    <2>5. Contract!Sweep(swept)
      BY <1>2, <1>4, <2>2, <2>4 DEF Contract!Sweep
    <2>6. QED BY <1>2, <2>5 DEF Contract!Next
  <1>6. ASSUME NEW q \in Runs, Claimable(rows[q]),
               rows' = [SweptRows(swept) EXCEPT ![q] = ClaimedRow(rows[q])],
               slots' = [slots EXCEPT ![s] = StartedSlot(q, rows[q].attempts + 1)]
        PROVE  Contract!Next
    <2>1. /\ rows'[q] = ClaimedRow(rows[q]) /\ q \notin swept
          /\ \A r \in Runs \ {q} : rows'[r] = IF r \in swept THEN GivenUp(rows[r]) ELSE rows[r]
      BY <1>2, <1>6, SweptIsExhausted DEF SweptRows, IInv
    <2>2. /\ slots'[s].job = q /\ slots'[s].token = rows[q].attempts + 1
          /\ \A t \in Slots : t # s => slots'[t] = slots[t]
      BY <1>2, <1>6 DEF StartedSlot, IdleSlot
    <2>3. /\ rows'[q].status = "running" /\ rows'[q].token = rows[q].attempts + 1
          /\ rows'[q].lease > 0 /\ rows'[q].attempts = rows[q].attempts + 1
          /\ rows'[q].stages = rows[q].stages /\ rows'[q].errors = rows[q].errors
      BY <1>2, <2>1, ClaimedRowFields, TimeAssumption
    <2>4. Owns(s, q)'
      BY <2>2, <2>3, RunsAssumption DEF Owns, Owned
    <2>5. OwnerOf(q)' = s
      BY <2>4, OwnerIsNext DEF OwnerFits
    <2>6. \A r \in Runs \ {q} : OwnerOf(r)' = OwnerOf(r)
      <3>1. \A r \in swept : \A t \in Slots : ~Owns(t, r) /\ ~Owns(t, r)'
        BY <1>2, <1>3, <1>4, <2>1 DEF Owns, Owned
      <3>2. \A r \in Runs \ (swept \union {q}) : \A t \in Slots : Owns(t, r)' <=> Owns(t, r)
        BY <1>2, <2>1, <2>2, RunsAssumption DEF Owns, Owned
      <3>3. \A r \in Runs \ {q} : \A t \in Slots : Owns(t, r)' <=> Owns(t, r)
        BY <3>1, <3>2
      <3>4. QED BY <3>3, OwnerKept
    <2>7. JobOf(q)' = [JobOf(q) EXCEPT !.status = "running", !.attempts = @ + 1]
      <3>1. JobOf(q) \in Job /\ JobOf(q)' \in Job
        BY JobType, JobTypeNext DEF IInv
      <3>2. /\ JobOf(q)'.status = "running" /\ JobOf(q)'.attempts = JobOf(q).attempts + 1
            /\ JobOf(q)'.stages = JobOf(q).stages /\ JobOf(q)'.errors = JobOf(q).errors
        BY <2>3, JobFields, JobFieldsNext
      <3> HIDE DEF Job
      <3>3. QED BY <3>1, <3>2, GrantedForm
    <2>8. \A r \in Runs \ {q} :
            JobOf(r)' = IF r \in swept THEN Contract!Settled(JobOf(r)) ELSE JobOf(r)
      <3>1. \A r \in swept : JobOf(r)' = Contract!Settled(JobOf(r))
        BY <1>2, <2>1, SweptJob DEF IInv
      <3>2. \A r \in Runs \ (swept \union {q}) : JobOf(r)' = JobOf(r)
        BY <2>1 DEF JobOf
      <3>3. QED BY <3>1, <3>2
    <2>9. Contract!Grantable(q)
      <3>1. Contract!Unowned(q)
        BY <1>3, <1>6, UnownedIs
      <3>2. QED BY <1>6, <3>1, JobFields DEF Claimable, Contract!Grantable
    <2>10. Contract!Grant(swept, q, s)
      BY <1>4, <2>5, <2>6, <2>7, <2>8, <2>9 DEF Contract!Grant
    <2>11. QED BY <1>2, <2>10 DEF Contract!Next
  <1>7. QED BY <1>1, <1>5, <1>6

LEMMA CheckpointRefines ==
  ASSUME IInv, IInv', NEW s \in Slots, Checkpoint(s)
  PROVE  Contract!Next
  <1>0. PICK q, stage, outcome : /\ q = slots[s].job
                                 /\ stage = NextStage(slots[s].saved)
                                 /\ outcome = slots[s].outcome
    OBVIOUS
  <1>1. /\ rows \in [Runs -> Row] /\ slots \in [Slots -> Slot] /\ slots[s] \in SlotState
        /\ Owned(s) /\ q \in Runs /\ rows[q] \in Row /\ Owns(s, q)
    BY <1>0 DEF IInv, TypeOK, Slot, SlotState, Checkpoint, Owned, Owns
  <1>2. slots[s].saved = rows[q].stages /\ slots[s].saved # Stages
    BY <1>0, <1>1 DEF Checkpoint, IInv, OwnerSnapshotIsCurrent, SlotInv, PhaseFits
  <1>3. stage \in Stages /\ stage \notin rows[q].stages
    BY <1>0, <1>1, <1>2 DEF NextStage, Stages, Row
  <1>4. /\ rows'[q] = CheckpointedRow(rows[q], stage, outcome)
        /\ \A r \in Runs : r # q => rows'[r] = rows[r]
        /\ \A t \in Slots : slots'[t].job = slots[t].job /\ slots'[t].token = slots[t].token
    BY <1>0, <1>1 DEF Checkpoint, SlotState
  <1>5. /\ rows'[q].status = rows[q].status /\ rows'[q].attempts = rows[q].attempts
        /\ rows'[q].token = rows[q].token /\ rows'[q].lease = rows[q].lease
        /\ rows'[q].stages = rows[q].stages \union {stage}
        /\ rows'[q].errors = (rows[q].errors \ {stage})
                               \union (IF outcome = "errors" THEN {stage} ELSE {})
    BY <1>1, <1>4, CheckpointedRowFields
  <1>6. \A r \in Runs : OwnerOf(r)' = OwnerOf(r)
    <2>1. \A r \in Runs, t \in Slots : Owns(t, r)' <=> Owns(t, r)
      BY <1>4, <1>5 DEF Owns, Owned
    <2>2. QED BY <2>1, OwnerKept
  <1>7. ~Contract!Unowned(q)
    BY <1>1, UnownedIs
  <1>8. ASSUME NEW failing \in BOOLEAN, failing <=> outcome = "errors"
        PROVE  Contract!Record(q, stage, failing)
    <2>1. JobOf(q)' = [JobOf(q) EXCEPT
                         !.stages = @ \union {stage},
                         !.errors = (@ \ {stage}) \union (IF failing THEN {stage} ELSE {})]
      <3>1. JobOf(q) \in Job /\ JobOf(q)' \in Job
        BY <1>1, JobType, JobTypeNext DEF IInv
      <3>2. /\ JobOf(q)'.status = JobOf(q).status /\ JobOf(q)'.attempts = JobOf(q).attempts
            /\ JobOf(q)'.stages = JobOf(q).stages \union {stage}
            /\ JobOf(q)'.errors = (JobOf(q).errors \ {stage})
                                    \union (IF failing THEN {stage} ELSE {})
        BY <1>5, <1>8, JobFields, JobFieldsNext
      <3> HIDE DEF Job
      <3>3. QED BY <3>1, <3>2, RecordedForm
    <2>2. \A r \in Runs : r # q => JobOf(r)' = JobOf(r)
      BY <1>4 DEF JobOf
    <2>3. QED BY <1>1, <1>3, <1>6, <1>7, <2>1, <2>2, JobFields DEF Contract!Record
  <1>9. Contract!Record(q, stage, TRUE) \/ Contract!Record(q, stage, FALSE)
    BY <1>8
  <1>10. QED BY <1>1, <1>3, <1>9 DEF Contract!Next

\* A step that settles, requeues or completes the run of the slot that owns it.
LEMMA EndsOwnership ==
  ASSUME IInv, IInv', NEW q \in Runs, rows'[q].status # "running",
         \A r \in Runs : r # q => rows'[r] = rows[r],
         \A t \in Slots : slots'[t].job = slots[t].job /\ slots'[t].token = slots[t].token
  PROVE  /\ OwnerOf(q)' = NoSlot
         /\ \A r \in Runs : r # q => OwnerOf(r)' = OwnerOf(r) /\ JobOf(r)' = JobOf(r)
  <1>1. \A t \in Slots : ~Owns(t, q)'
    BY DEF Owns, Owned
  <1>2. OwnerOf(q)' = NoSlot
    BY <1>1, OwnerIsNext DEF OwnerFits
  <1>3. \A r \in Runs : r # q => \A t \in Slots : Owns(t, r)' <=> Owns(t, r)
    BY DEF Owns, Owned
  <1>4. \A r \in Runs : r # q => OwnerOf(r)' = OwnerOf(r)
    BY <1>3, OwnerKept
  <1>5. \A r \in Runs : r # q => JobOf(r)' = JobOf(r)
    BY DEF JobOf
  <1>6. QED BY <1>2, <1>4, <1>5

LEMMA FinishRefines ==
  ASSUME IInv, IInv', NEW s \in Slots, Finish(s)
  PROVE  Contract!Next
  <1>1. PICK q \in Runs : q = slots[s].job /\ Owns(s, q)
    BY DEF Finish, Owned, Owns, IInv, TypeOK, Slot, SlotState
  <1>2. /\ rows \in [Runs -> Row] /\ slots \in [Slots -> Slot] /\ slots[s] \in SlotState
        /\ rows[q] \in Row /\ slots[s].pc = "finish" /\ Owned(s)
    BY DEF IInv, TypeOK, Slot, Finish
  <1>3. rows[q].stages = Stages
    BY <1>1, <1>2 DEF IInv, OwnerSnapshotIsCurrent, SlotInv, PhaseFits
  <1>4. /\ rows'[q] = FinishedRow(rows[q])
        /\ \A r \in Runs : r # q => rows'[r] = rows[r]
        /\ \A t \in Slots : slots'[t].job = slots[t].job /\ slots'[t].token = slots[t].token
    BY <1>1, <1>2 DEF Finish, StoppedSlot, SlotState
  <1>5. /\ rows'[q].status = (IF rows[q].errors = {} THEN "completed" ELSE "partial")
        /\ rows'[q].attempts = rows[q].attempts
        /\ rows'[q].stages = rows[q].stages /\ rows'[q].errors = rows[q].errors
    BY <1>2, <1>4, FinishedRowFields
  <1>6. /\ OwnerOf(q)' = NoSlot
        /\ \A r \in Runs : r # q => OwnerOf(r)' = OwnerOf(r) /\ JobOf(r)' = JobOf(r)
    BY <1>4, <1>5, EndsOwnership
  <1>7. JobOf(q)' = [JobOf(q) EXCEPT !.status = IF rows[q].errors = {} THEN "completed"
                                                ELSE "partial"]
    <2>1. JobOf(q) \in Job /\ JobOf(q)' \in Job
      BY JobType, JobTypeNext DEF IInv
    <2>2. /\ JobOf(q)'.status = (IF rows[q].errors = {} THEN "completed" ELSE "partial")
          /\ JobOf(q)'.attempts = JobOf(q).attempts
          /\ JobOf(q)'.stages = JobOf(q).stages /\ JobOf(q)'.errors = JobOf(q).errors
      BY <1>5, JobFields, JobFieldsNext
    <2>3. ASSUME NEW job \in Job, NEW new \in Job, NEW status, new.status = status,
                 new.attempts = job.attempts, new.stages = job.stages, new.errors = job.errors
          PROVE  new = [job EXCEPT !.status = status]
      BY <2>3 DEF Job
    <2> HIDE DEF Job
    <2>4. QED BY <2>1, <2>2, <2>3
  <1>8. ~Contract!Unowned(q)
    BY <1>1, UnownedIs
  <1>9. Contract!Complete(q)
    BY <1>3, <1>6, <1>7, <1>8, JobFields DEF Contract!Complete
  <1>10. QED BY <1>9 DEF Contract!Next

LEMMA FailRefines ==
  ASSUME IInv, IInv', NEW s \in Slots, Fail(s)
  PROVE  Contract!Next
  <1>1. PICK q \in Runs : q = slots[s].job /\ Owns(s, q)
    BY DEF Fail, Owned, Owns, IInv, TypeOK, Slot, SlotState
  <1>2. /\ rows \in [Runs -> Row] /\ slots \in [Slots -> Slot] /\ slots[s] \in SlotState
        /\ rows[q] \in Row
    BY DEF IInv, TypeOK, Slot
  <1>3. /\ rows'[q] = FailedRow(rows[q], slots[s].outcome = "retryable")
        /\ \A r \in Runs : r # q => rows'[r] = rows[r]
        /\ \A t \in Slots : slots'[t].job = slots[t].job /\ slots'[t].token = slots[t].token
    BY <1>1, <1>2 DEF Fail, StoppedSlot, SlotState
  <1>4. rows'[q].status # "running"
    <2>1. FailedRow(rows[q], slots[s].outcome = "retryable").status # "running"
      BY <1>2, FailedRowFields
    <2>2. QED BY <1>3, <2>1
  <1>5. /\ OwnerOf(q)' = NoSlot
        /\ \A r \in Runs : r # q => OwnerOf(r)' = OwnerOf(r) /\ JobOf(r)' = JobOf(r)
    BY <1>3, <1>4, EndsOwnership
  <1>6. ~Contract!Unowned(q)
    BY <1>1, UnownedIs
  <1>7. CASE slots[s].outcome = "retryable" /\ rows[q].attempts < MaxAttempts
    <2>1. rows'[q] = RequeuedRow(rows[q])
      BY <1>3, <1>7 DEF FailedRow
    <2>2. /\ JobOf(q)'.status = "queued" /\ JobOf(q)'.attempts = JobOf(q).attempts
          /\ JobOf(q)'.stages = JobOf(q).stages
          /\ JobOf(q)'.errors = JobOf(q).errors \union {"worker"}
      <3>1. /\ rows'[q].status = "queued" /\ rows'[q].attempts = rows[q].attempts
            /\ rows'[q].stages = rows[q].stages
            /\ rows'[q].errors = rows[q].errors \union {"worker"}
        BY <1>2, <2>1 DEF RequeuedRow, Row
      <3>2. QED BY <3>1, JobFields, JobFieldsNext
    <2>3. JobOf(q) \in Job /\ JobOf(q)' \in Job
      BY JobType, JobTypeNext DEF IInv
    <2>4. JobOf(q)' = [JobOf(q) EXCEPT !.status = "queued", !.errors = @ \union {"worker"}]
      BY <2>2, <2>3, RequeuedForm
    <2>5. Contract!GiveUp(q)
      BY <1>5, <1>6, <1>7, <2>4, JobFields DEF Contract!GiveUp
    <2>6. QED BY <2>5 DEF Contract!Next
  <1>8. CASE ~(slots[s].outcome = "retryable" /\ rows[q].attempts < MaxAttempts)
    <2>1. rows'[q] = GivenUp(rows[q])
      BY <1>3, <1>8 DEF FailedRow
    <2>2. JobOf(q)' = Contract!Settled(JobOf(q))
      BY <2>1, SweptJob DEF IInv
    <2>3. Contract!GiveUp(q)
      BY <1>5, <1>6, <2>2 DEF Contract!GiveUp
    <2>4. QED BY <2>3 DEF Contract!Next
  <1>9. QED BY <1>7, <1>8

\* Slots go idle: a stopped attempt, or all slots of a crashed process.
LEMMA IdlesRefine ==
  ASSUME IInv, IInv', NEW idled \in SUBSET Slots, UNCHANGED rows,
         slots' = [s \in Slots |-> IF s \in idled THEN IdleSlot ELSE slots[s]]
  PROVE  Contract!Next
  <1>1. PICK lost : lost = {r \in Runs : \E s \in idled : Owns(s, r)}
    OBVIOUS
  <1>2. \A r \in Runs : JobOf(r)' = JobOf(r)
    BY DEF JobOf
  <1>3. \A r \in Runs, s \in Slots : Owns(s, r)' <=> Owns(s, r) /\ s \notin idled
    BY RunsAssumption DEF Owns, Owned, IdleSlot
  <1>4. \A r \in lost : \A s \in Slots : ~Owns(s, r)'
    <2> SUFFICES ASSUME NEW r \in lost, NEW s \in Slots, Owns(s, r)' PROVE FALSE
      OBVIOUS
    <2>1. PICK t \in idled : Owns(t, r)
      BY <1>1
    <2>2. r \in Runs /\ Owns(s, r) /\ s \notin idled
      BY <1>1, <1>3
    <2>3. s = t
      BY <2>1, <2>2, OwnerIs DEF OwnerFits
    <2>4. QED BY <2>1, <2>2, <2>3
  <1>5. \A r \in Runs \ lost : \A s \in Slots : Owns(s, r)' <=> Owns(s, r)
    BY <1>1, <1>3
  <1>6. QED BY <1>1, <1>2, <1>4, <1>5, LosesOwners

LEMMA StepRefines ==
  ASSUME IInv, IInv', NEW s \in Slots, Step(s)
  PROVE  Contract!Next
  <1>1. slots \in [Slots -> Slot] /\ slots[s] \in SlotState
    BY DEF IInv, TypeOK, Slot
  <1>2. CASE \/ Load(s)
             \/ \E outcome \in {"clean", "errors"} : StageReturns(s, outcome)
             \/ StageIsTransient(s) \/ Raise(s) \/ LeaseLost(s) \/ FailureUnrecorded(s)
    <2>1. /\ UNCHANGED rows
          /\ \A t \in Slots : slots'[t].job = slots[t].job /\ slots'[t].token = slots[t].token
      <3>1. CASE Load(s)
        BY <1>1, <3>1 DEF Load, SlotState
      <3>2. ASSUME NEW outcome, StageReturns(s, outcome)
            PROVE  /\ UNCHANGED rows
                   /\ \A t \in Slots : /\ slots'[t].job = slots[t].job
                                       /\ slots'[t].token = slots[t].token
        BY <1>1, <3>2 DEF StageReturns, SlotState
      <3>3. CASE StageIsTransient(s) \/ Raise(s)
        BY <1>1, <3>3 DEF StageIsTransient, Raise, SlotState
      <3>4. CASE LeaseLost(s) \/ FailureUnrecorded(s)
        <4>1. /\ StoppedSlot(slots[s]).job = slots[s].job
              /\ StoppedSlot(slots[s]).token = slots[s].token
          BY <1>1 DEF StoppedSlot, SlotState
        <4>2. UNCHANGED rows /\ slots' = [slots EXCEPT ![s] = StoppedSlot(slots[s])]
          BY <3>4 DEF LeaseLost, FailureUnrecorded
        <4>3. QED BY <1>1, <4>1, <4>2
      <3>5. QED BY <1>2, <3>1, <3>2, <3>3, <3>4
    <2>2. QED BY <2>1, ChangesNoOwner
  <1>3. CASE Stop(s)
    <2>1. UNCHANGED rows /\ slots' = [t \in Slots |-> IF t \in {s} THEN IdleSlot ELSE slots[t]]
      BY <1>1, <1>3 DEF Stop
    <2>2. QED BY <2>1, IdlesRefine
  <1>4. QED
    BY <1>2, <1>3, CheckpointRefines, FinishRefines, FailRefines DEF Step

LEMMA HeartbeatRefines ==
  ASSUME IInv, IInv', NEW s \in Slots, Heartbeat(s)
  PROVE  Contract!Next
  <1>1. PICK q \in Runs : q = slots[s].job /\ Owns(s, q)
    BY DEF Heartbeat, Owned, Owns, IInv, TypeOK, Slot, SlotState
  <1>2. /\ rows \in [Runs -> Row] /\ rows[q] \in Row /\ UNCHANGED slots
        /\ rows' = [rows EXCEPT ![q].lease = LeaseTime]
    BY <1>1 DEF IInv, TypeOK, Heartbeat
  <1>3. /\ rows'[q].status = rows[q].status /\ rows'[q].attempts = rows[q].attempts
        /\ rows'[q].token = rows[q].token /\ rows'[q].lease = LeaseTime
        /\ rows'[q].stages = rows[q].stages /\ rows'[q].errors = rows[q].errors
        /\ \A r \in Runs : r # q => rows'[r] = rows[r]
    BY <1>2 DEF Row
  <1>4. \A r \in Runs : JobOf(r)' = JobOf(r)
    BY <1>3 DEF JobOf
  <1>5. rows[q].lease > 0 /\ LeaseTime > 0
    BY <1>1, OwnedRow, TimeAssumption
  <1>6. \A r \in Runs, t \in Slots : Owns(t, r)' <=> Owns(t, r)
    BY <1>2, <1>3, <1>5 DEF Owns, Owned
  <1>7. QED
    <2>1. \A r \in Runs : OwnerOf(r)' = OwnerOf(r)
      BY <1>6, OwnerKept
    <2>2. Contract!Lose({})
      BY <1>4, <2>1 DEF Contract!Lose
    <2>3. QED BY <2>2 DEF Contract!Next

LEMMA DeleteRefines ==
  ASSUME IInv, IInv', NEW c \in Companies, Delete(c)
  PROVE  Contract!Next
  <1>1. PICK gone \in SUBSET Runs : gone = {r \in Runs : CompanyOf[r] = c /\ rows[r].status # "absent"}
    OBVIOUS
  <1>2. /\ UNCHANGED slots
        /\ \A r \in gone : rows'[r] = [AbsentRow EXCEPT !.status = "deleted"]
        /\ \A r \in Runs \ gone : rows'[r] = rows[r]
    BY <1>1 DEF Delete
  <1>3. \A r \in gone : /\ rows'[r].status = "deleted" /\ rows'[r].attempts = 0
                        /\ rows'[r].stages = {} /\ rows'[r].errors = {}
    BY <1>2, DeletedFields
  <1>4. \A r \in gone : JobOf(r)' = [status |-> "deleted", attempts |-> 0, stages |-> {},
                                     errors |-> {}]
    BY <1>3 DEF JobOf
  <1>5. \A r \in Runs \ gone : JobOf(r)' = JobOf(r)
    BY <1>2 DEF JobOf
  <1>6. \A r \in gone : OwnerOf(r)' = NoSlot
    <2>1. \A r \in gone : \A s \in Slots : ~Owns(s, r)'
      BY <1>3 DEF Owns, Owned
    <2>2. QED BY <2>1, OwnerIsNext DEF OwnerFits
  <1>7. \A r \in Runs \ gone : OwnerOf(r)' = OwnerOf(r)
    <2>1. \A r \in Runs \ gone : \A s \in Slots : Owns(s, r)' <=> Owns(s, r)
      BY <1>2 DEF Owns, Owned
    <2>2. QED BY <2>1, OwnerKept
  <1>8. \A r \in gone : rows[r].status # "absent"
    BY <1>1
  <1>9. Contract!Remove(gone)
    BY <1>4, <1>5, <1>6, <1>7, <1>8, JobFields DEF Contract!Remove
  <1>10. QED BY <1>9 DEF Contract!Next

LEMMA TickRefines ==
  ASSUME IInv, IInv', Tick
  PROVE  Contract!Next
  <1>1. PICK lost \in SUBSET Runs : lost = {r \in Runs : rows'[r].lease = 0}
    OBVIOUS
  <1>2. \A r \in Runs : rows[r] \in Row /\ rows'[r] \in Row /\ rows'[r] = TickedRow(rows[r])
    BY DEF Tick, IInv, TypeOK
  <1>3. \A r \in Runs :
          /\ rows'[r].status = rows[r].status /\ rows'[r].attempts = rows[r].attempts
          /\ rows'[r].token = rows[r].token
          /\ rows'[r].stages = rows[r].stages /\ rows'[r].errors = rows[r].errors
          /\ rows'[r].lease <= rows[r].lease
          /\ rows'[r].lease \in Nat /\ rows[r].lease \in Nat
    <2>1. \A row \in Row : row.lease \in Nat
      BY TimeAssumption DEF Row
    <2>2. QED BY <1>2, <2>1, TickedRowFields
  <1>4. \A r \in Runs : JobOf(r)' = JobOf(r)
    BY <1>3 DEF JobOf
  <1>5. \A r \in lost : \A s \in Slots : ~Owns(s, r)'
    BY <1>1 DEF Owns, Owned
  <1>6. \A r \in Runs \ lost : \A s \in Slots : Owns(s, r)' <=> Owns(s, r)
    <2>1. UNCHANGED slots
      BY DEF Tick
    <2>2. \A r \in Runs \ lost : rows'[r].lease > 0 /\ rows[r].lease > 0
      BY <1>1, <1>3
    <2>3. QED BY <1>3, <2>1, <2>2 DEF Owns, Owned
  <1>7. QED BY <1>4, <1>5, <1>6, LosesOwners

\* Every step of the workers and the job table is a step of the contract.
LEMMA NextRefines ==
  ASSUME IInv, IInv', [Next]_vars
  PROVE  Contract!Next
  <1>1. ASSUME NEW s \in Slots, HeartbeatDies(s) PROVE Contract!Next
    <2>1. UNCHANGED rows /\ \A t \in Slots : /\ slots'[t].job = slots[t].job
                                             /\ slots'[t].token = slots[t].token
      BY <1>1 DEF HeartbeatDies, IInv, TypeOK, Slot, SlotState
    <2>2. QED BY <2>1, ChangesNoOwner
  <1>2. ASSUME NEW p \in Processes, Crash(p) PROVE Contract!Next
    <2>1. /\ p \in SUBSET Slots /\ UNCHANGED rows
          /\ slots' = [s \in Slots |-> IF s \in p THEN IdleSlot ELSE slots[s]]
      BY <1>2, ProcessAssumption DEF Crash
    <2>2. QED BY <2>1, IdlesRefine
  <1>3. CASE UNCHANGED vars
    <2>1. UNCHANGED rows /\ \A t \in Slots : /\ slots'[t].job = slots[t].job
                                             /\ slots'[t].token = slots[t].token
      BY <1>3 DEF vars
    <2>2. QED BY <2>1, ChangesNoOwner
  <1>4. CASE Next
    BY <1>1, <1>2, <1>4, SubmitRefines, ClaimRefines, StepRefines, HeartbeatRefines,
       DeleteRefines, TickRefines DEF Next
  <1>5. QED BY <1>3, <1>4

LEMMA InitRefines == ASSUME Init PROVE Contract!Init
  <1>1. \A r \in Runs : JobOf(r) = [status |-> "absent", attempts |-> 0, stages |-> {},
                                    errors |-> {}]
    BY DEF Init, AbsentRow, JobOf
  <1>2. \A r \in Runs : OwnerOf(r) = NoSlot
    <2>1. \A r \in Runs, s \in Slots : ~Owns(s, r)
      BY DEF Init, AbsentRow, Owns, Owned, IdleSlot
    <2>2. IInv
      BY InvInit
    <2>3. QED BY <2>1, <2>2, OwnerIs DEF OwnerFits
  <1>3. QED BY <1>1, <1>2 DEF Contract!Init

\* jobs/service.py and jobs/runner.py keep the contract of FencedJobs: at most one owner
\* of a run, whose writes alone are accepted, stages recorded once, attempts bounded.
THEOREM JobsImplementContract == Spec => ImplementsContract
  <1>1. Init => Contract!Init
    BY InitRefines
  <1>2. IInv /\ IInv' /\ [Next]_vars => [Contract!Next]_(Contract!fvars)
    BY NextRefines
  <1>3. QED BY <1>1, <1>2, InductiveInvariant, PTL DEF Spec, ImplementsContract, Contract!Spec
=============================================================================
