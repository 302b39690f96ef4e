\* One request, which may name another address in X-User-Id.
SPECIFICATION RequestsSpec
CONSTANTS
  Threads = {t1}
  IPs = {a, b}
  Clients = {a}
  Kinds = {"page", "trap", "bait", "health", "intel", "ecosystem"}
  Loopback = Loopback
  Claims <- SameClaims
  Enabled <- All
  MaxRequests = 1
  MaxOrders = 0
  None = None
  Limit = 1
  Expansion = 2
  ResponseBodies <- ShortBodies
  \* A status of each kind: a plain one, one that allows no body, an error; none set is
  \* always among them.
  ResponseStatuses = {200, 204, 404}
  Scans = {s1, s2}
  Identities = {client}
  ScannedBodies <- ThreeBodies
  GeofenceMode = "block"
  PIISecretMode = "alert"
  GenericSecretMode = "block"
  VelocityWindow = 1
  MaxBytesPerWindow = 2
  VelocitySpikeMultiplier = 2
  BaselineSamples = 1
  MaxAlerts = 3
  KeptAlerts = 2
  MaxScans = 1
  MaxScanTime = 3
INVARIANT ThreatsGoByTheAddress
\* The numbers of requests and orders are bounded, and a response ends.
CHECK_DEADLOCK FALSE
