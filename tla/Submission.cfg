SPECIFICATION BrowserSpec
CONSTANTS
  ab = ab
  ba = ba
  s1 = s1
  s2 = s2
  s3 = s3
  a = a
  b = b
  k = k
  none = none
  i1 = i1
  i2 = i2
  Clients = {ab, ba, s1, s2, s3}
  Keys = {a, b, k}
  Inputs = {none, i1, i2}
  Request <- Requests
  Deletable = {k}
  Nobody = Nobody
  Candidates = {a, b}
  MaxSelected = 2
  LastChoice = 2
  LastResearch = 2
  Companies = {a}
  NoCompany = NoCompany
  LastRun = 1
  LastPoll = 2
  MaxFailures = 2
INVARIANTS TypeOK AcceptedIsStored AnswersAreCommitted ConflictIsReal OneRunPerChoice
PROPERTIES EveryRequestEnds PageCatchesUp
