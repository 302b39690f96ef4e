\* Cleanup comes between the lookup and the lock of any operation.
SPECIFICATION EngineSpec
CONSTANTS
  Callers = {c}
  Sources = {a}
  Window = 2
  challengeThreshold = 300
  throttleThreshold = 500
  blockThreshold = 700
  challengeDuration = 2
  throttleDuration = 2
  blockDuration = 3
  PhasesOn <- AllPhases
  EngineOps <- AllOps
  Stale = 2
PROPERTIES PhasesLast FloodsAreBlocked StaleStatesGo
