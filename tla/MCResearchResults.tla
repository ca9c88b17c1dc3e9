-------------------------- MODULE MCResearchResults --------------------------
(* Small instances of ResearchResults for TLC. *)
EXTENDS ResearchResults, TLC

CONSTANTS r1, r2, s1, s2, c1, d1, d2

OneCompany == [r \in Runs |-> c1]
AllDocsOfOneCompany == [d \in Docs |-> c1]
OneProcess == {Slots}
ProcessPerSlot == {{s} : s \in Slots}

\* All attempts of one run, or the first attempts of two.
OneRunOrFirstAttempts ==
  \/ \E r \in Runs : \A other \in Runs \ {r} : rows[other].status = "absent"
  \/ \A r \in Runs : rows[r].attempts <= 1

ResultSymmetry == Permutations(Runs) \union Permutations(Slots) \union Permutations(Docs)
=============================================================================
