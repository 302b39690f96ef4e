\* The thresholds that server.New makes of the shipped threshold_rps, and the
\* shipped window; the durations are cut short.
SPECIFICATION EngineSpec
CONSTANTS
  Callers = {c}
  Sources = {a}
  Window = 10
  challengeThreshold = 1000
  throttleThreshold = 1250
  blockThreshold = 1500
  challengeDuration = 2
  throttleDuration = 2
  blockDuration = 3
  PhasesOn <- AllPhases
  EngineOps <- OnlyChecks
  Stale = 3
PROPERTY FloodsAreBlocked
