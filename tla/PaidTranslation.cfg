SPECIFICATION ApiSpec
CONSTANTS
  LastRun = 1
  Docs = {d1}
  Clients = {c1, c2}
  Model = m1
  ReportedBy = {m2}
INVARIANT CachedIsNotPaidAgain
CHECK_DEADLOCK FALSE
