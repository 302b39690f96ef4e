\* One address.  Every band throttles alike: nothing checked here reads the multiplier.
SPECIFICATION FairSpec
CONSTANTS
  IPs = {a}
  Callers = {c}
  MaxLevel = 2
  BlockEscalation <- ShortEscalation
  ThrottleHigh <- Throttled
  ThrottleLow <- Throttled
  IsolateFor = 1
  RiskBands = {"high", "middle", "low"}
  LookupTables = {"blocked"}
  LogCap = 2
  MaxTime = 1
INVARIANTS BlocksAreLogged SavedUnlessReported
PROPERTIES RepeatOffenseExtends LogIsLedger ExpiredBlockLeaves
