------------------------------- MODULE MCClients -------------------------------
(* What the server remembers of its clients from one request to the next,  *)
(* for model checking: a behaviour is one of the orchestrator              *)
(* (Orchestrator), of one of three detectors with a table of clients       *)
(* (ClientTables), of the behavioral detector (BehaviorDetector) or of     *)
(* proof of work (ProofOfWork).  They share nothing in the program; here   *)
(* they share the variables all of them have (what each goroutine is       *)
(* doing, the clock, the histories), and leave the others' as they start.  *)
EXTENDS Orchestrator, TLC

CONSTANTS
  DetectorTables, PayloadLists, TablePaths, Marks, Near, SensitivePaths,
  BlockAnomalies, ConnectionTTL, SuspiciousPathsCount, RapidRequests, PortScanWindow,
  RunLength, RunPairs, FlowWindow, MaxActions, MaxSensitiveHits, TableTime,
  Answers, LoginPaths, ApiPaths,
  CredentialStuffingThreshold, APIEnumerationThreshold, ScrapingThreshold,
  SuspiciousSessionThreshold, TemporalAnomalyThreshold, ErrorRateThreshold,
  MaxTrackedEvents, ShortWindow, MediumWindow, SessionWindow, LongWindow, ProfileTime,
  Visitors, TokenTTL, MaxChallenges, TokenTime

VARIABLES
  part, now, heap, log,
  table, states, stale,
  profiles, cleaner, night, events, single, swept,
  tokens, issued, passed

-----------------------------------------------------------------------------
Tables == INSTANCE ClientTables WITH
  Tables <- DetectorTables, Clients <- IPs, Paths <- TablePaths, MaxTime <- TableTime

\* A path with three suspicious names in it, and two that differ in a character.
PayloadListsDef == {<<TRUE>>, <<FALSE, TRUE>>}
TablePathsDef == {"nested", "item1", "item2"}
MarksDef == [p \in TablePathsDef |-> IF p = "nested" THEN 3 ELSE 0]
NearDef == {<<"item1", "item2">>, <<"item2", "item1">>, <<"nested", "item1">>}

Behavior == INSTANCE BehaviorDetector WITH
  Requests <- Answers, MaxTime <- ProfileTime, IPs <- Visitors, log <- events, alone <- single

Answered(p, s, id) == [path |-> p, status |-> s, session |-> id]
AnswersDef ==
  {Answered("page", "ok", "s1"), Answered("login", "denied", "s2"), Answered("api", "error", None)}

PoW == INSTANCE ProofOfWork WITH MaxTime <- TokenTime

\* The goroutines and the addresses are interchangeable.
Same == Permutations(Threads) \cup Permutations(IPs)

-----------------------------------------------------------------------------
orchestratorVars == <<ja3Clusters, ja3Clustered, chain, blockedIPs>>
tableVars == <<table, states, stale>>
behaviorVars == <<profiles, cleaner, night, events, single, swept>>
powVars == <<tokens, issued, passed>>

ClientsInit ==
  /\ Init /\ Tables!Init /\ Behavior!Init /\ PoW!Init
  /\ part \in {"orchestrator", "tables", "behavior", "pow"}
  /\ part # "tables" => table = "network"
  /\ night = (part = "behavior")

ClientsNext ==
  \/ /\ part = "orchestrator" /\ Next
     /\ UNCHANGED <<part, now, heap, log, tableVars, behaviorVars, powVars>>
  \/ /\ part = "tables" /\ Tables!Next
     /\ UNCHANGED <<part, down, orchestratorVars, behaviorVars, powVars>>
  \/ /\ part = "behavior" /\ Behavior!Next
     /\ UNCHANGED <<part, log, alone, requests, orchestratorVars, tableVars, powVars>>
  \/ /\ part = "pow" /\ PoW!Next
     /\ UNCHANGED <<part, heap, log, requests, down, alone, orchestratorVars, tableVars, behaviorVars>>

ClientsSpec ==
  ClientsInit /\ [][ClientsNext]_<<vars, part, now, heap, log, tableVars, behaviorVars, powVars>>

-----------------------------------------------------------------------------
ASSUME TokenTTLAssumption == PoW!TokenAssumption
ASSUME TableAssumption == Tables!TablesAssumption
ASSUME BehaviorAssumption == Behavior!DetectorAssumption

\* A client is refused for what it did itself, and for enough of it, whatever
\* updates of a detector's table are lost; a client whose requests came one by
\* one is refused exactly when they call for it (network_attack.go, preattack
\* and business logic detectors).
RefusalsAreEarned == part = "tables" => Tables!RefusalsAreEarned

\* An alert of the behavioral detector is about what its address did, whatever
\* races with the analysis; an address whose requests came one by one gets
\* exactly the alert its latest events call for (internal/behavior/detector.go).
AlertsAreRight == part = "behavior" => Behavior!AlertsAreRight

\* A challenge is worth one request, and a right answer in time is turned away
\* only because another has used it (internal/security/pow.go).
ChallengesCountOnce == part = "pow" => PoW!ChallengesCountOnce
=============================================================================
