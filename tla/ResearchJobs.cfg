SPECIFICATION Spec
CONSTANTS
  r1 = r1
  r2 = r2
  s1 = s1
  s2 = s2
  c1 = c1
  NoRun = NoRun
  NoSlot = NoSlot
  Runs = {r1, r2}
  Companies = {c1}
  CompanyOf <- OneCompany
  Slots = {s1, s2}
  Processes <- ProcessPerSlot
  MaxAttempts = 2
  LeaseTime = 2
  BackoffUnit = 1
  SweepLimit = 1
  Horizon = 1
SYMMETRY JobSymmetry
INVARIANTS TypeOK AtMostOneOwner OwnerSnapshotIsCurrent CompletedIsClean
PROPERTIES ResultsSurvive TerminalIsFinal ImplementsContract
