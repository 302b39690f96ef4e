\* A STIX engine whose read lock is being upgraded stops for good, and a scan ends.
SPECIFICATION DetectionSpec
CONSTANTS
  Detectors = {"exploitation", "evasion", "network", "ad", "malware", "semantic"}
  Examined <- ExaminedDef
  Patterns = {p1, p2}
  Counts = {0, 1, 3}
  NoRegex = NoRegex
  SyntaxTrees <- TreesAndParts
  CategoryNames <- TwoCategories
  PatternMaps <- TwoPatterns
  Texts <- ShortTexts
  MinUsefulLiteralLen = 2
  builtin = builtin
  evolved1 = evolved1
  evolved2 = evolved2
  bad = bad
  l1 = l1
  l2 = l2
  Rules <- RulesDef
  Defaults <- DefaultsDef
  Broken <- BrokenDef
  OnBody <- OnBodyDef
  OnPath <- OnPathDef
  Literals <- LiteralsDef
  requiredLiterals <- requiredLiteralsDef
  RuleScore <- RuleScoreDef
  Files <- FilesDef
  Unreadable = Unreadable
  Admins = {a1, a2}
  RuleThreshold = 80
  MaxLoads = 2
  MaxEdits = 1
  Callers = {c1, c2}
  Ids = {i1, i2}
  StixPatterns = {p}
  NoPattern = NoPattern
  MaxIndicators = 1
  BundleCap = 2
  IOCTTL = 0
  MaxTime = 1
  MaxImports = 2
CHECK_DEADLOCK FALSE
INVARIANTS ScansOnlyMiss SkippedCannotMatch QuietScansMissNothing 
PROPERTY CallsReturn
