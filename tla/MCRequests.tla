------------------------------ MODULE MCRequests ------------------------------
(* The middlewares, for model checking: a behaviour is one of the requests *)
(* that pass them (RequestPipeline), of the way of one response back       *)
(* (ResponsePath), or of the scanner that looks at the responses of two    *)
(* goroutines (EgressScanner).  The variables of the ones it is not about  *)
(* stay in an initial state.                                               *)
EXTENDS RequestPipeline, SequencesExt

CONSTANTS
  Limit, Expansion, ResponseBodies, ResponseStatuses,
  Scans, Identities, ScannedBodies, GeofenceMode, PIISecretMode, GenericSecretMode,
  VelocityWindow, MaxBytesPerWindow, VelocitySpikeMultiplier, BaselineSamples,
  MaxAlerts, KeptAlerts, MaxScans, MaxScanTime

VARIABLES part, cfg, request, phase, produced, headers, egress, encrypt, front, conn, outcome,
  userFlows, alerts, scan, scanTime, served, recorded

All == {Chain[i] : i \in 1..Len(Chain)}
\* A client says nothing, or names another address in every header.
SameClaims == {[realIP |-> ip, forwardedFor |-> ip, userID |-> ip] : ip \in (IPs \ Clients) \cup {None}}

\* Every body of up to one more than the limit, with one leak at most.
ShortBodies ==
  {body \in BoundedSeq({"plain", "leak"}, Limit + 1) :
     \A i, j \in DOMAIN body : body[i] = "leak" /\ body[j] = "leak" => i = j}

Response == INSTANCE ResponsePath WITH Bodies <- ResponseBodies, Statuses <- ResponseStatuses

Body(size, encoding, secrets) == [size |-> size, encoding |-> encoding, secrets |-> secrets]
ThreeBodies == {Body(1, "plain", {"pii"}), Body(2, "entropy", {"generic"}), Body(2, "large", {})}

Scanner == INSTANCE EgressScanner WITH
  now <- scanTime, MaxTime <- MaxScanTime, Bodies <- ScannedBodies

-----------------------------------------------------------------------------
responseVars == <<cfg, request, phase, produced, headers, egress, encrypt, front, conn, outcome>>
scannerVars == <<userFlows, alerts, scan, scanTime, served, recorded>>

RequestsInit ==
  /\ Init /\ Response!Init /\ Scanner!Init
  /\ \/ part = "response"
     \/ /\ part \in {"requests", "scanner"}
        /\ cfg = [encrypt |-> FALSE, egress |-> FALSE, detector |-> FALSE]
        /\ request = CHOOSE r \in Response!Requests : r.body = <<>>

RequestsNext ==
  \/ part = "requests" /\ Next /\ UNCHANGED <<part, responseVars, scannerVars>>
  \/ part = "response" /\ Response!Next /\ UNCHANGED <<part, vars, scannerVars>>
  \/ part = "scanner" /\ Scanner!Next /\ UNCHANGED <<part, vars, responseVars>>

RequestsSpec == RequestsInit /\ [][RequestsNext]_<<part, vars, responseVars, scannerVars>>

-----------------------------------------------------------------------------
ASSUME ResponseAssumption == Response!PathAssumption
ASSUME ScannerAssumed == Scanner!ScannerAssumption

\* The client gets one whole body, the handler's, that with a mark, or one of the
\* server's own, under headers that fit it in length, encoding and tag; a panic
\* becomes a clean error as long as a capture holds the response; and the log
\* says what was sent (internal/server/middleware.go).
ResponseIsWhole ==
  /\ Response!BodyIsWhole /\ Response!HeadersFit
  /\ Response!PanicsAreErrors /\ Response!LogIsTrue

\* A leak that the scan can read, in a response that a capture can hold, is not sent,
\* and one in the first Limit units is recorded, also when the response was too large
\* to withhold (a gzip body is read as far as it decodes to the limit, a br one not at
\* all); and the scanner that finds it withholds for what a response holds only, notices
\* twice the volume a client is allowed in a window, and keeps the latest alerts
\* (internal/server/middleware.go, internal/egress/advanced.go).
LeaksAreCaught ==
  /\ Response!LeaksAreCaught
  /\ part = "scanner" => Scanner!ScansAreTold
=============================================================================
