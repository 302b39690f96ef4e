SPECIFICATION StixSpec
CONSTANTS
  Callers = {c1, c2}
  Ids = {i1, i2}
  StixPatterns = {p}
  NoPattern = NoPattern
  MaxIndicators = 1
  BundleCap = 2
  IOCTTL = 0
  MaxTime = 1
  MaxImports = 2
CHECK_DEADLOCK FALSE
PROPERTY MatchesAreAnswered
