----------------------------- MODULE FencedJobs -----------------------------
(***************************************************************************)
(* What the research job queue promises, without clock, tokens, heartbeats *)
(* or worker threads: a run has at most one owner, only its owner records  *)
(* stages and outcomes, a recorded stage stays recorded and is not         *)
(* recorded twice, attempts are bounded, and a terminal run is final.      *)
(* jobs/service.py and jobs/runner.py are shown to implement it in         *)
(* ResearchJobsRefinement.                                                 *)
(***************************************************************************)
EXTENDS Integers

CONSTANTS Runs, Slots, NoSlot, MaxAttempts, Stages

VARIABLES
  jobs,    \* status, attempts, stages and errors of each run
  owner    \* the slot whose writes are accepted, or NoSlot

fvars == <<jobs, owner>>

Init == /\ jobs = [r \in Runs |-> [status |-> "absent", attempts |-> 0,
                                   stages |-> {}, errors |-> {}]]
        /\ owner = [r \in Runs |-> NoSlot]

Unowned(r) == owner[r] = NoSlot

\* An attempt ends with a worker error and no further attempt.
Settled(job) == [job EXCEPT !.status = IF job.stages = {} THEN "failed" ELSE "partial",
                            !.errors = @ \union {"worker"}]

Enqueue(r) ==
  /\ jobs[r].status = "absent"
  /\ jobs' = [jobs EXCEPT ![r].status = "queued"]
  /\ UNCHANGED owner

Abandoned(r) ==
  jobs[r].status = "running" /\ Unowned(r) /\ jobs[r].attempts = MaxAttempts

Grantable(r) ==
  jobs[r].status \in {"queued", "running"} /\ Unowned(r) /\ jobs[r].attempts < MaxAttempts

\* Final attempts nobody owns are settled.
Sweep(swept) ==
  /\ \A r \in swept : Abandoned(r)
  /\ jobs' = [r \in Runs |-> IF r \in swept THEN Settled(jobs[r]) ELSE jobs[r]]
  /\ UNCHANGED owner

\* A run nobody owns is granted to s for one more attempt, along with a sweep.
Grant(swept, run, s) ==
  /\ Grantable(run)
  /\ \A r \in swept : Abandoned(r)
  /\ jobs' = [r \in Runs |->
       IF r = run THEN [jobs[r] EXCEPT !.status = "running", !.attempts = @ + 1]
       ELSE IF r \in swept THEN Settled(jobs[r]) ELSE jobs[r]]
  /\ owner' = [owner EXCEPT ![run] = s]

\* Owners are lost: expiry, crash, or an attempt that gives up silently.
Lose(lost) ==
  /\ UNCHANGED jobs
  /\ owner' = [r \in Runs |-> IF r \in lost THEN NoSlot ELSE owner[r]]

Record(r, stage, failing) ==
  /\ ~Unowned(r)
  /\ stage \notin jobs[r].stages
  /\ jobs' = [jobs EXCEPT ![r].stages = @ \union {stage},
                          ![r].errors = (@ \ {stage}) \union (IF failing THEN {stage} ELSE {})]
  /\ UNCHANGED owner

Complete(r) ==
  /\ ~Unowned(r)
  /\ jobs[r].stages = Stages
  /\ jobs' = [jobs EXCEPT ![r].status = IF jobs[r].errors = {} THEN "completed" ELSE "partial"]
  /\ owner' = [owner EXCEPT ![r] = NoSlot]

\* The owner reports a failure: one more try while attempts remain, or the end.
GiveUp(r) ==
  /\ ~Unowned(r)
  /\ \/ /\ jobs[r].attempts < MaxAttempts
        /\ jobs' = [jobs EXCEPT ![r].status = "queued", ![r].errors = @ \union {"worker"}]
     \/ jobs' = [jobs EXCEPT ![r] = Settled(@)]
  /\ owner' = [owner EXCEPT ![r] = NoSlot]

Remove(gone) ==
  /\ \A r \in gone : jobs[r].status # "absent"
  /\ jobs' = [r \in Runs |->
       IF r \in gone
       THEN [status |-> "deleted", attempts |-> 0, stages |-> {}, errors |-> {}]
       ELSE jobs[r]]
  /\ owner' = [r \in Runs |-> IF r \in gone THEN NoSlot ELSE owner[r]]

Next ==
  \/ \E lost \in SUBSET Runs : Lose(lost)
  \/ \E gone \in SUBSET Runs : Remove(gone)
  \/ \E r \in Runs : Enqueue(r) \/ Complete(r) \/ GiveUp(r)
  \/ \E r \in Runs, stage \in Stages, failing \in BOOLEAN : Record(r, stage, failing)
  \/ \E swept \in SUBSET Runs : Sweep(swept)
  \/ \E r \in Runs, swept \in SUBSET Runs, s \in Slots : Grant(swept, r, s)

Spec == Init /\ [][Next]_fvars
=============================================================================
