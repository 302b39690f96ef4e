\* Two requests interleaved at every step, a third before or after them.
CONSTANTS
  Threads = {t1, t2}
  IPs = {a, b}
  Hashes = {plain, bad}
  KnownBad = {bad}
  MaxRequests = 3
  None = None
  DetectorTables = {"network", "preattack", "logic"}
  PayloadLists <- PayloadListsDef
  TablePaths <- TablePathsDef
  Marks <- MarksDef
  Near <- NearDef
  SensitivePaths = {"nested"}
  BlockAnomalies = 2
  ConnectionTTL = 1
  SuspiciousPathsCount = 2
  RapidRequests = 1
  PortScanWindow = 1
  RunLength = 2
  RunPairs = 1
  FlowWindow = 2
  MaxActions = 3
  MaxSensitiveHits = 2
  TableTime = 5
  Answers <- AnswersDef
  LoginPaths = {"login"}
  ApiPaths = {"api", "login"}
  CredentialStuffingThreshold = 2
  APIEnumerationThreshold = 2
  ScrapingThreshold = 2
  SuspiciousSessionThreshold = 2
  TemporalAnomalyThreshold = 2
  ErrorRateThreshold = 40
  MaxTrackedEvents = 2
  ShortWindow = 0
  MediumWindow = 1
  SessionWindow = 1
  LongWindow = 2
  ProfileTime = 3
  Visitors = {v}
  TokenTTL = 1
  MaxChallenges = 2
  TokenTime = 3
SYMMETRY Same
SPECIFICATION ClientsSpec
INVARIANTS ChainIsInOrder AttacksAreAnswered NobodyIsBlocked CrossedIsRight RefusalsAreEarned AlertsAreRight ChallengesCountOnce
\* The number of requests is bounded, and a process that is down stays down.
CHECK_DEADLOCK FALSE
