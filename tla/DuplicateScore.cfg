SPECIFICATION ResultsSpec
CONSTANTS
  r1 = r1
  r2 = r2
  s1 = s1
  s2 = s2
  c1 = c1
  d1 = d1
  d2 = d2
  NoRun = NoRun
  Runs = {r1}
  Companies = {c1}
  CompanyOf <- OneCompany
  Docs = {d1, d2}
  Publisher <- AllDocsOfOneCompany
  Slots = {s1, s2}
  Processes <- ProcessPerSlot
  MaxAttempts = 2
  LeaseTime = 1
  BackoffUnit = 1
  SweepLimit = 1
  Horizon = 0
SYMMETRY ResultSymmetry
INVARIANTS OneSnapshotPerRun
