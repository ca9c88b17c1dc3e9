-------------------------- MODULE MCSourceRetention --------------------------
(* Small instances of SourceRetention for TLC. *)
EXTENDS SourceRetention, TLC

CONSTANTS d1, d2, c1, c2, p1, p2

RetentionSymmetry ==
  Permutations(Docs) \union Permutations(Collectors) \union Permutations(Purgers)
=============================================================================
