---------------------------- MODULE ResearchJobs ----------------------------
(***************************************************************************)
(* The PostgreSQL job table of LeadRadar and the worker slots that drain   *)
(* it: jobs/service.py (submit, claim, owned, heartbeat, checkpoint,       *)
(* finish, fail), jobs/runner.py (run_once) and worker.py (the slot loop). *)
(*                                                                         *)
(* Every database transaction is one step, as row locks make it.  Time is  *)
(* one logical clock: a row keeps the ticks left until lease_expires_at    *)
(* and until available_at.  The uuid4 a claim draws as lease token never   *)
(* repeats, so it is named by the attempt it was drawn for; 0 is NULL.     *)
(***************************************************************************)
EXTENDS Integers, FiniteSets

CONSTANTS
  Runs,         \* research runs that can be submitted
  Companies,    \* companies runs are about
  CompanyOf,    \* the company of a run
  Slots,        \* worker slots (threads that call run_once in a loop)
  Processes,    \* worker processes, each the set of slots it runs
  NoRun,        \* what an idle slot works on
  MaxAttempts,  \* ResearchRun.max_attempts
  LeaseTime,    \* lease_seconds, in ticks
  BackoffUnit,  \* the 5 seconds of fail's backoff, in ticks
  SweepLimit,   \* claim's LIMIT on swept runs
  Horizon       \* bound: availability older than this many ticks is not told apart

ASSUME RunsAssumption     == NoRun \notin Runs
ASSUME CompanyAssumption  == CompanyOf \in [Runs -> Companies]
ASSUME ProcessAssumption  == Processes \subseteq SUBSET Slots
ASSUME AttemptsAssumption == MaxAttempts \in 1..3
ASSUME TimeAssumption     == /\ LeaseTime \in Nat \ {0}
                             /\ BackoffUnit \in Nat \ {0}
                             /\ Horizon \in Nat
ASSUME SweepAssumption    == SweepLimit \in Nat \ {0}

VARIABLES
  rows,   \* the research_runs table
  slots   \* the local state of each worker slot and its heartbeat thread

vars == <<rows, slots>>

-----------------------------------------------------------------------------
(* Data *)

Stages == {"collection", "assessment"}
Live == {"queued", "running"}
Terminal == {"completed", "partial", "failed"}
Status == {"absent", "deleted"} \union Live \union Terminal
ErrorKind == Stages \union {"worker"}

Row == [status    : Status,
        attempts  : 0..MaxAttempts,
        token     : 0..MaxAttempts,
        lease     : 0..LeaseTime,
        available : Int,
        stages    : SUBSET Stages,
        errors    : SUBSET ErrorKind]

Phase == {"idle", "load", "run", "save", "finish", "fail", "stop"}
Outcome == {"none", "clean", "errors", "retryable", "terminal"}

SlotState == [pc      : Phase,
              job     : Runs \union {NoRun},
              token   : 0..MaxAttempts,
              saved   : SUBSET Stages,
              outcome : Outcome,
              beating : BOOLEAN]

Slot == {slot \in SlotState : slot.pc = "idle" <=> slot.job = NoRun}

AbsentRow == [status |-> "absent", attempts |-> 0, token |-> 0, lease |-> 0,
              available |-> 0, stages |-> {}, errors |-> {}]

IdleSlot == [pc |-> "idle", job |-> NoRun, token |-> 0, saved |-> {},
             outcome |-> "none", beating |-> FALSE]

Init == /\ rows = [r \in Runs |-> AbsentRow]
        /\ slots = [s \in Slots |-> IdleSlot]

-----------------------------------------------------------------------------
(* jobs/service.py: what each operation makes of a row *)

\* A run gives up its lease and settles: partial if some stage was saved.
GivenUp(row) == [row EXCEPT !.status = IF row.stages # {} THEN "partial" ELSE "failed",
                            !.token = 0,
                            !.lease = 0,
                            !.errors = @ \union {"worker"}]

ClaimedRow(row) == [row EXCEPT !.status = "running",
                               !.attempts = @ + 1,
                               !.token = row.attempts + 1,
                               !.lease = LeaseTime]

\* Mutant: a checkpoint that rebuilds the error list from its own stage.
ForgetfulCheckpoint(row, stage, outcome) ==
  [row EXCEPT !.stages = @ \union {stage},
              !.errors = IF outcome = "errors" THEN {stage} ELSE {}]

\* Mutant: a checkpoint that stores only its own stage's result.
OverwritingCheckpoint(row, stage, outcome) ==
  [row EXCEPT !.stages = {stage},
              !.errors = (@ \ {stage}) \union (IF outcome = "errors" THEN {stage} ELSE {})]

\* A checkpoint merges its stage's result and replaces that stage's errors only.
CheckpointedRow(row, stage, outcome) ==
  [row EXCEPT !.stages = @ \union {stage},
              !.errors = (@ \ {stage}) \union (IF outcome = "errors" THEN {stage} ELSE {})]

\* Mutant: a finish that judges the run by its stages alone.
FinishedByStages(row) == [row EXCEPT !.status = IF row.stages = Stages THEN "completed" ELSE "partial",
                                     !.token = 0,
                                     !.lease = 0]

FinishedRow(row) == [row EXCEPT !.status = IF row.errors # {} THEN "partial" ELSE "completed",
                                !.token = 0,
                                !.lease = 0]

\* 5 * 2 ** (attempts - 1): a retry follows attempt 1 or 2.
Backoff(attempt) == BackoffUnit * (IF attempt = 1 THEN 1 ELSE 2)

RequeuedRow(row) == [row EXCEPT !.status = "queued",
                                !.available = Backoff(row.attempts),
                                !.token = 0,
                                !.lease = 0,
                                !.errors = @ \union {"worker"}]

FailedRow(row, retryable) ==
  IF retryable /\ row.attempts < MaxAttempts THEN RequeuedRow(row) ELSE GivenUp(row)

-----------------------------------------------------------------------------
(* Claiming *)

\* Mutant: a claim that allows one attempt too many.
OneMoreAttempt(row) ==
  /\ row.attempts <= MaxAttempts
  /\ \/ row.status = "queued" /\ row.available <= 0
     \/ row.status = "running" /\ row.lease = 0

\* Mutant: a claim that tests the two dates and not the statuses they belong to.
ClaimableAnyStatus(row) ==
  /\ row.attempts < MaxAttempts
  /\ row.status \notin {"absent", "deleted"}
  /\ row.available <= 0 /\ row.lease = 0

Claimable(row) ==
  /\ row.attempts < MaxAttempts
  /\ \/ row.status = "queued" /\ row.available <= 0
     \/ row.status = "running" /\ row.lease = 0

\* A final attempt whose worker is gone.
Exhausted(row) ==
  row.status = "running" /\ row.lease = 0 /\ row.attempts >= MaxAttempts

\* Mutant: the LIMIT is applied before the status: ended runs can fill it for ever.
LimitBeforeFilter(locked) ==
  LET spent == {r \in Runs \ locked : rows[r].attempts >= MaxAttempts /\ rows[r].status # "deleted"}
      first == CHOOSE some \in SUBSET spent :
                 Cardinality(some) = IF Cardinality(spent) < SweepLimit THEN Cardinality(spent)
                                     ELSE SweepLimit
  IN  {{r \in first : Exhausted(rows[r])}}

\* The sets of runs one claim may sweep; rows locked by others are skipped.
Sweeps(locked) ==
  LET stale == {r \in Runs \ locked : Exhausted(rows[r])}
  IN  IF Cardinality(stale) <= SweepLimit THEN {stale}
      ELSE {swept \in SUBSET stale : Cardinality(swept) = SweepLimit}

\* The runs that come first by available_at (queued_at and id break ties).
FirstClaimable(locked) ==
  LET claimable == {r \in Runs \ locked : Claimable(rows[r])}
  IN  {r \in claimable : \A q \in claimable : rows[r].available <= rows[q].available}

StartedSlot(r, token) == [IdleSlot EXCEPT !.pc = "load", !.job = r,
                                          !.token = token, !.beating = TRUE]

SweptRows(swept) == [r \in Runs |-> IF r \in swept THEN GivenUp(rows[r]) ELSE rows[r]]

\* POST /research-runs creates the row of a new key.
Submit(r) ==
  /\ rows[r].status = "absent"
  /\ rows' = [rows EXCEPT ![r].status = "queued"]
  /\ UNCHANGED slots

\* run_once's first transaction: sweep the exhausted runs, then take one run.
Claim(s, locked) ==
  /\ slots[s].pc = "idle"
  /\ \E swept \in Sweeps(locked) :
       \/ /\ FirstClaimable(locked) = {}
          /\ rows' = SweptRows(swept)
          /\ UNCHANGED slots
       \/ \E r \in FirstClaimable(locked) :
            /\ rows' = [SweptRows(swept) EXCEPT ![r] = ClaimedRow(rows[r])]
            /\ slots' = [slots EXCEPT ![s] = StartedSlot(r, rows[r].attempts + 1)]

-----------------------------------------------------------------------------
(* jobs/runner.py: one attempt *)

\* Mutant: the fence does not compare tokens.
OwnedByAnyToken(s) ==
  /\ slots[s].job # NoRun
  /\ rows[slots[s].job].status = "running"
  /\ rows[slots[s].job].lease > 0

\* Mutant: the fence does not look at the expiry.
OwnedAfterExpiry(s) ==
  /\ slots[s].job # NoRun
  /\ rows[slots[s].job].status = "running"
  /\ rows[slots[s].job].token = slots[s].token

\* The lease fence: the slot's token is the row's and has not expired.
Owned(s) ==
  /\ slots[s].job # NoRun
  /\ rows[slots[s].job].status = "running"
  /\ rows[slots[s].job].token = slots[s].token
  /\ rows[slots[s].job].lease > 0

NextStage(saved) == IF "collection" \in saved THEN "assessment" ELSE "collection"

PhaseAfter(saved) == IF saved = Stages THEN "finish" ELSE "run"

\* The attempt is over; only the heartbeat thread is still to be stopped.
StoppedSlot(slot) == [slot EXCEPT !.pc = "stop", !.saved = {}, !.outcome = "none"]

\* Read the stages saved by earlier attempts; a deleted run fails the assertion.
Load(s) ==
  /\ slots[s].pc = "load"
  /\ rows[slots[s].job].status # "deleted"
  /\ LET saved == rows[slots[s].job].stages
     IN  slots' = [slots EXCEPT ![s].saved = saved, ![s].pc = PhaseAfter(saved)]
  /\ UNCHANGED rows

\* pipeline.collect or pipeline.assess returns a StageResult.
StageReturns(s, outcome) ==
  /\ slots[s].pc = "run"
  /\ slots' = [slots EXCEPT ![s].pc = "save", ![s].outcome = outcome]
  /\ UNCHANGED rows

\* The pipeline raises RetryableResearchError.
StageIsTransient(s) ==
  /\ slots[s].pc = "run"
  /\ slots' = [slots EXCEPT ![s].pc = "fail", ![s].outcome = "retryable"]
  /\ UNCHANGED rows

\* Any other exception: an assertion, the pipeline, or the database.
Raise(s) ==
  /\ slots[s].pc \in {"load", "run", "save", "finish"}
  /\ slots' = [slots EXCEPT ![s].pc = "fail", ![s].outcome = "terminal"]
  /\ UNCHANGED rows

Checkpoint(s) ==
  /\ slots[s].pc = "save"
  /\ Owned(s)
  /\ LET stage == NextStage(slots[s].saved)
         saved == slots[s].saved \union {stage}
     IN  /\ rows' = [rows EXCEPT ![slots[s].job] =
                       CheckpointedRow(@, stage, slots[s].outcome)]
         /\ slots' = [slots EXCEPT ![s].saved = saved, ![s].outcome = "none",
                                   ![s].pc = PhaseAfter(saved)]

Finish(s) ==
  /\ slots[s].pc = "finish"
  /\ Owned(s)
  /\ rows' = [rows EXCEPT ![slots[s].job] = FinishedRow(@)]
  /\ slots' = [slots EXCEPT ![s] = StoppedSlot(@)]

Fail(s) ==
  /\ slots[s].pc = "fail"
  /\ Owned(s)
  /\ rows' = [rows EXCEPT ![slots[s].job] = FailedRow(@, slots[s].outcome = "retryable")]
  /\ slots' = [slots EXCEPT ![s] = StoppedSlot(@)]

\* owned raises LeaseLost: the attempt ends without a word.
LeaseLost(s) ==
  /\ slots[s].pc \in {"save", "finish", "fail"}
  /\ ~Owned(s)
  /\ slots' = [slots EXCEPT ![s] = StoppedSlot(@)]
  /\ UNCHANGED rows

\* The database refuses to record a failure; worker.py logs and sleeps.
FailureUnrecorded(s) ==
  /\ slots[s].pc = "fail"
  /\ slots' = [slots EXCEPT ![s] = StoppedSlot(@)]
  /\ UNCHANGED rows

\* finally: the heartbeat thread is stopped and joined, the slot polls again.
Stop(s) ==
  /\ slots[s].pc = "stop"
  /\ slots' = [slots EXCEPT ![s] = IdleSlot]
  /\ UNCHANGED rows

\* keep_alive renews the lease.
Heartbeat(s) ==
  /\ slots[s].beating
  /\ Owned(s)
  /\ rows' = [rows EXCEPT ![slots[s].job].lease = LeaseTime]
  /\ UNCHANGED slots

\* keep_alive returns for good at its first exception of any kind.
HeartbeatDies(s) ==
  /\ slots[s].beating
  /\ slots' = [slots EXCEPT ![s].beating = FALSE]
  /\ UNCHANGED rows

-----------------------------------------------------------------------------
(* The environment *)

\* A worker process dies with all its threads and is restarted by the container.
Crash(p) ==
  /\ \E s \in p : slots[s] # IdleSlot
  /\ slots' = [s \in Slots |-> IF s \in p THEN IdleSlot ELSE slots[s]]
  /\ UNCHANGED rows

\* DELETE /companies/{id}/research removes the company's runs in any status.
Delete(c) ==
  LET gone == {r \in Runs : CompanyOf[r] = c /\ rows[r].status # "absent"}
  IN  /\ rows' = [r \in Runs |->
                    IF r \in gone THEN [AbsentRow EXCEPT !.status = "deleted"] ELSE rows[r]]
      /\ UNCHANGED slots

\* One tick of a row; nothing reads the dates of a run that is not live.
TickedRow(row) ==
  IF row.status \in Live
  THEN [row EXCEPT !.lease = IF @ > 0 THEN @ - 1 ELSE 0,
                   !.available = IF @ > -Horizon THEN @ - 1 ELSE @]
  ELSE row

Tick ==
  /\ rows' = [r \in Runs |-> TickedRow(rows[r])]
  /\ UNCHANGED slots

Step(s) ==
  \/ Load(s)
  \/ \E outcome \in {"clean", "errors"} : StageReturns(s, outcome)
  \/ StageIsTransient(s)
  \/ Raise(s)
  \/ Checkpoint(s)
  \/ Finish(s)
  \/ Fail(s)
  \/ LeaseLost(s)
  \/ FailureUnrecorded(s)
  \/ Stop(s)

Next ==
  \/ \E r \in Runs : Submit(r)
  \/ \E s \in Slots, locked \in SUBSET Runs : Claim(s, locked)
  \/ \E s \in Slots : Step(s)
  \/ \E s \in Slots : Heartbeat(s)
  \/ \E s \in Slots : HeartbeatDies(s)
  \/ \E p \in Processes : Crash(p)
  \/ \E c \in Companies : Delete(c)
  \/ Tick

Spec == Init /\ [][Next]_vars

\* The clock advances; a started attempt keeps taking steps (every adapter call
\* has a deadline); idle slots poll every two seconds and row locks are short, so
\* a slot that can again and again claim with no row locked does so.
Fairness ==
  /\ WF_vars(Tick)
  /\ \A s \in Slots : WF_vars(Step(s))
  /\ SF_vars(\E s \in Slots : Claim(s, {}))

FairSpec == Spec /\ Fairness

-----------------------------------------------------------------------------
(* Properties *)

\* Rows and slots hold what the columns and the thread's locals can hold.
TypeOK == /\ rows \in [Runs -> Row]
          /\ slots \in [Slots -> Slot]

\* Claim and owned together exclude: two slots never pass the fence for one run.
AtMostOneOwner ==
  \A s, t \in Slots :
    (Owned(s) /\ Owned(t) /\ slots[s].job = slots[t].job) => s = t

\* run_once decides which stages to skip from a snapshot read once per attempt:
\* for the slot that still owns the run, that snapshot is what the row holds, so
\* a persisted stage is never paid for again by an attempt whose result counts.
OwnerSnapshotIsCurrent ==
  \A s \in Slots :
    (Owned(s) /\ slots[s].pc \in {"run", "save", "finish"})
      => slots[s].saved = rows[slots[s].job].stages

\* completed promises both stages and that no attempt left an error behind.
CompletedIsClean ==
  \A r \in Runs :
    rows[r].status = "completed" => rows[r].stages = Stages /\ rows[r].errors = {}

\* The parts that make AtMostOneOwner, OwnerSnapshotIsCurrent and CompletedIsClean
\* inductive.  A running row's token is its attempt; other rows have no lease.
LeaseFits(row) ==
  IF row.status = "running" THEN row.attempts > 0 /\ row.token = row.attempts
  ELSE row.token = 0 /\ row.lease = 0

RowInv == \A r \in Runs : LeaseFits(rows[r])

PhaseFits(slot) == /\ slot.pc \in {"run", "save"} => slot.saved # Stages
                   /\ slot.pc = "finish" => slot.saved = Stages

\* A working slot holds a token drawn for its run, and its phase fits what it saved.
SlotInv ==
  \A s \in Slots :
    /\ slots[s].job # NoRun =>
         \/ rows[slots[s].job].status = "deleted"
         \/ slots[s].token <= rows[slots[s].job].attempts
    /\ PhaseFits(slots[s])

\* No two slots hold the same token of one run.
TokensDiffer ==
  \A s, t \in Slots :
    (s # t /\ slots[s].job = slots[t].job /\ slots[s].job # NoRun)
      => slots[s].token # slots[t].token

IInv == TypeOK /\ RowInv /\ SlotInv /\ TokensDiffer
          /\ OwnerSnapshotIsCurrent /\ CompletedIsClean

\* Saved stages and the errors of failed attempts survive retries, reclaims and
\* crashes until the run is deleted.
ResultsSurvive ==
  [][\A r \in Runs :
       rows'[r].status # "deleted" =>
         /\ rows[r].stages \subseteq rows'[r].stages
         /\ "worker" \in rows[r].errors => "worker" \in rows'[r].errors]_vars

\* A terminal run changes no more: no late worker, sweep or claim touches it.
TerminalIsFinal ==
  [][\A r \in Runs :
       rows[r].status \in Terminal =>
         \/ rows'[r].status = "deleted"
         \/ rows'[r] = rows[r]]_vars

\* Results, errors and the end of an attempt are written only by the slot with
\* the row's unexpired token, or by the sweep of a final attempt that lost it.
FencedWrites ==
  [][\A r \in Runs :
       (rows[r].status = "running" /\ rows'[r].status # "deleted"
          /\ \/ rows'[r].status # "running"
             \/ rows'[r].stages # rows[r].stages
             \/ rows'[r].errors # rows[r].errors)
       => \/ \E s \in Slots : /\ slots[s].job = r
                              /\ slots[s].token = rows[r].token
                              /\ rows[r].lease > 0
          \/ rows[r].lease = 0 /\ rows[r].attempts = MaxAttempts]_vars

\* Whatever crashes, stalls and database errors an attempt meets, a submitted run
\* ends: retries are bounded and an expired final attempt is swept.
EventuallySettled ==
  \A r \in Runs :
    rows[r].status \in Live ~> rows[r].status \in Terminal \union {"deleted"}
=============================================================================
