SPECIFICATION CollectionSpec
CONSTANTS
  Web <- SmallWeb
  Canonical <- SmallCanonical
  OwnAddresses = {"/", "www", "team", "jobs", "loop", "gone", "bad"}
  TargetLists <- SmallTargets
  MaxPages = 4
  MaxRedirects = 1
  Threads = {1, 2, 3}
  WaveLinks = 3
  Callers = {f1, f2}
  Nobody = Nobody
  DnsSlots = 2
  MaxRequests = 1
  MaxBytes = 1
  MaxRenders = 2
  ResearchSlots = {s1, s2}
  Answers <- SmallNews
  Queries = 2
  PerQuery = 3
  PerHost = 1
  MaxResults = 2
  Interval = 2
  LastTick = 5
  Docs = {d1, d2}
  Collectors = {c1, c2}
  Purgers = {p1}
  NoOne = NoOne
  Retention = 2
  Horizon = 4
INVARIANT
  OneDocumentPerAddress
CHECK_DEADLOCK FALSE
SYMMETRY Interchangeable
