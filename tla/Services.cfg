SPECIFICATION ServicesSpec
CONSTANTS
  LastRun = 2
  Docs = {d1, d2}
  Clients = {c1, c2}
  Model = m1
  ReportedBy = {m1}
  Editors = {e1, e2, e3}
  ProfileNames = {"x", "y"}
  Unknown = Unknown
  Wikidata <- SmallWikidata
  Within <- SmallWithin
  MaxPlausible = 8
  MaxEmployees = 9
  Requests <- SmallRequests
  Visitors = {v1, v2}
  Recent = 0
  LastMinute = 1
  PageSize = 2
  SyncLimit = 2
  Assessments <- SmallAssessments
  Criteria <- SmallCriteria
  NoDate = NoDate
  Window = 2
  Share = 2
  Versions <- SmallVersions
  Codes <- SmallCodes
  CountryName <- SmallCountries
  Worldwide = {"any"}
  NoRestriction = {"any", "unknown", ""}
  Phrases <- SmallPhrases
  DefaultMarket = {"RO", "PL"}
  MaxCountries = 2
  SearchLimit = 3
  SignalIds = {1, 2}
  DocumentLists <- SmallDocuments
  Answers <- SmallAnswers
  Failures <- SmallFailures
  NoCode = NoCode
  MaxCharacters = 6
  MaxPerSource = 4
  FairFloor = 2
  Costs = {0, 3}
  RunBudget = 1
INVARIANTS
  DetailFailsOnlyWithDeletion
  TranslationsResolve
  AnsweredVersionStands
  AnswersFitTheRequest
  ConfirmedIsResearchable
  EventsCountOnce
  EligibleIsCorroborated
  SearchAgreesWithScorer
  QuotesAreVerbatim
  PromptIsShared
PROPERTY SalesChangesAreAsked
CHECK_DEADLOCK FALSE
SYMMETRY Interchangeable
