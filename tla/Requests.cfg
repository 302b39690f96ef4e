\* Every middleware is on; an operator and time act between any two of them.  A
\* handler may panic at any point.
SPECIFICATION RequestsSpec
CONSTANTS
  Threads = {t1}
  IPs = {a, b}
  Clients = {a}
  Kinds = {"page", "trap", "bait", "health", "intel", "ecosystem"}
  Loopback = Loopback
  Claims <- SameClaims
  Enabled <- All
  MaxRequests = 2
  MaxOrders = 2
  None = None
  Limit = 3
  Expansion = 2
  ResponseBodies <- ShortBodies
  \* A status of each kind: a plain one, one that allows no body, an error; none set is
  \* always among them.
  ResponseStatuses = {200, 204, 404}
  Scans = {s1, s2}
  Identities = {client}
  ScannedBodies <- ThreeBodies
  GeofenceMode = "block"
  PIISecretMode = "alert"
  GenericSecretMode = "block"
  VelocityWindow = 1
  MaxBytesPerWindow = 2
  VelocitySpikeMultiplier = 2
  BaselineSamples = 1
  MaxAlerts = 3
  KeptAlerts = 2
  MaxScans = 3
  MaxScanTime = 3
INVARIANTS OnlySmallBodiesAreScanned BlocksHold NobodyPaysForAnother ResponseIsWhole LeaksAreCaught
\* The numbers of requests and orders are bounded, and a response ends.
CHECK_DEADLOCK FALSE
