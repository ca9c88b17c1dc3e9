SPECIFICATION Spec
CONSTANTS
  d1 = d1
  d2 = d2
  c1 = c1
  c2 = c2
  p1 = p1
  p2 = p2
  Docs = {d1}
  Collectors = {c1, c2}
  Purgers = {p1}
  NoOne = NoOne
  Retention = 2
  Horizon = 3
SYMMETRY RetentionSymmetry
INVARIANTS ClearedTextIsGone
