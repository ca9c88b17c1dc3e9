----------------------- MODULE ResearchJobsRefinement -----------------------
(***************************************************************************)
(* The job table and its workers implement FencedJobs: a run's owner is    *)
(* the slot whose token passes the fence.                                  *)
(***************************************************************************)
EXTENDS ResearchJobs

CONSTANT NoSlot

ASSUME NoSlotAssumption == NoSlot \notin Slots

Owns(s, r) == slots[s].job = r /\ Owned(s)

OwnerOf(r) == IF \E s \in Slots : Owns(s, r) THEN CHOOSE s \in Slots : Owns(s, r)
              ELSE NoSlot

JobOf(r) == [status   |-> rows[r].status,
             attempts |-> rows[r].attempts,
             stages   |-> rows[r].stages,
             errors   |-> rows[r].errors]

Contract == INSTANCE FencedJobs WITH
              jobs  <- [r \in Runs |-> JobOf(r)],
              owner <- [r \in Runs |-> OwnerOf(r)]

\* Every behaviour of the queue, seen through owner and job, is one the
\* lease-fencing contract of jobs/README.md allows.
ImplementsContract == Contract!Spec
=============================================================================
