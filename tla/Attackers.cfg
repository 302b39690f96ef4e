SPECIFICATION AttackersSpec
CONSTANTS
  here = here
  beside = beside
  far = far
  browser = browser
  trick = trick
  IPs = {here, beside, far}
  Events <- Sent
  Fps = {browser}
  Techniques = {trick}
  None = None
  Net24 <- Nets
  Net16 <- Nets
  Family <- OneFamily
  Weights <- Log2Weights
  GenericAt = 1
  Curious = {here, far}
  EscalateAt = 2
  PostLimit = 0
  Legacy = {far}
  Threads = {p, q}
  MaxClock = 1
  MaxCalls = 4
  MaxWaits = 1
  Nodes = {n1, n2}
  Suspects = {s1, s2}
  Types = {scan}
  Kinds <- GraveAndUnsure
  Quiet = 1
  Keep = 1
  Cap = 1
  Busy <- BusyMarks
  MaxReports = 3
  Void = Void
  Torn = Torn
SYMMETRY Alike
INVARIANTS AddressesResolve StrangersStayApart EscalationIsEarned MemoryIsTrue FeedsAreEarned
PROPERTY OncePerQuiet
CHECK_DEADLOCK FALSE
