--------------------------- MODULE MCResearchJobs ---------------------------
(* Small instances of ResearchJobs for TLC. *)
EXTENDS ResearchJobsRefinement, TLC

CONSTANTS r1, r2, s1, s2, c1

OneCompany == [r \in Runs |-> c1]
OneProcess == {Slots}
ProcessPerSlot == {{s} : s \in Slots}

-----------------------------------------------------------------------------
(* Where the liveness run begins: with one run that has all its attempts before it, or   *)
(* with two that wait for their last one, so that a sweep can pass one of them over.     *)

DeletedRow == [AbsentRow EXCEPT !.status = "deleted"]
LastChance == [AbsentRow EXCEPT !.status = "queued", !.attempts = MaxAttempts - 1,
                                !.errors = {"worker"}]

LiveInit ==
  /\ \/ rows = [r \in Runs |-> IF r = r1 THEN AbsentRow ELSE DeletedRow]
     \/ rows = [r \in Runs |-> LastChance]
  /\ slots = [s \in Slots |-> IdleSlot]

LiveSpec == LiveInit /\ [][Next]_vars /\ Fairness

-----------------------------------------------------------------------------
RunSymmetry == Permutations(Runs)
JobSymmetry == Permutations(Runs) \union Permutations(Slots)
=============================================================================
