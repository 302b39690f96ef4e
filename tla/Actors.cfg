\* Every score an actor can have; and two goroutines and the eviction loop, with
\* room for one actor; and five events in gray zones of three sizes.
SPECIFICATION MCSpec
CONSTANTS
  StartCounts = {0, 3}
  KeptThreats = 6
  MaxRequests = 1002
  MaxBlocks = 7
  Callers = {c1, c2}
  IPs = {a, b}
  maxActors = 1
  promotionThreshold = 2
  Duration = 1
  Hour = 0
  TableThreats = 1
  MaxTime = 1
  MaxCalls = 3
  Sizes = {1, 2, 3}
  MaxEvents = 5
SYMMETRY Symmetry
INVARIANTS NeverTempBlocks NoCauseNoAnswer StatsAgree ActorsAreEarned
  ReadersAgree ShutdownFlushes
PROPERTIES RiskNeverFalls BlocksHold BufferIsRecent
