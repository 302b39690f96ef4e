------------------------------ MODULE Orchestrator ------------------------------
(***************************************************************************)
(* Active defense: Orchestrator of internal/orchestrator with its kill     *)
(* chain, and the middleware that carries out what it decides.             *)
(*                                                                         *)
(* A request comes from an address, has a fingerprint and shows at most    *)
(* one attack technique.  Orchestrate clusters addresses by fingerprint,   *)
(* moves the address along the kill chain, adds up a score and picks a     *)
(* countermeasure.  Of it, only the table of clusters and the table of     *)
(* chains are read and written under a lock: a chain itself is changed,    *)
(* and a cluster walked, with no lock held, and those steps interleave.    *)
(* Expiry times are left out of blockedIPs, which nothing ever fills.      *)
(***************************************************************************)
EXTENDS Naturals, Sequences, FiniteSets, SequencesExt, FiniteSetsExt

CONSTANTS
  Threads,     \* goroutines serving requests
  IPs,
  Hashes,      \* fingerprints
  KnownBad,    \* those the fingerprint engine marks suspicious
  MaxRequests, \* bound: requests served in a behaviour
  None

ASSUME KnownBadAssumption == KnownBad \subseteq Hashes
ASSUME BoundAssumption == MaxRequests \in Nat

Stages == {"Reconnaissance", "Weaponization", "Delivery", "Exploitation",
           "Installation", "CommandControl", "ActionsOnObjectives"}
Countermeasures == {"monitor", "challenge", "tarpit", "honeypot", "block", "blackhole", "isolate"}

\* What detectTechnique can say of a request, and where the kill chain puts it.
\* SQL injection alone also writes a prediction.
Techniques == {"sql", "xss", "traversal", "probe"}
ASSUME NoneAssumption == None \notin Techniques
StageOf(technique) ==
  CASE technique \in {"sql", "xss"} -> "Exploitation"
    [] technique = "traversal" -> "Delivery"
    [] technique = "probe" -> "Reconnaissance"

StageAction(stage) ==
  CASE stage = "Reconnaissance" -> "monitor"
    [] stage = "Weaponization" -> "challenge"
    [] stage = "Delivery" -> "tarpit"
    [] stage = "Exploitation" -> "honeypot"
    [] stage = "Installation" -> "block"
    [] stage = "CommandControl" -> "blackhole"
    [] stage = "ActionsOnObjectives" -> "isolate"

VARIABLES
  ja3Clusters,  \* [Hashes -> SUBSET IPs]
  ja3Clustered, \* the counter beside it
  chain,        \* an address's kill chain: its stage, its history, its counter
  blockedIPs,
  req,          \* what each thread serves
  down,         \* the runtime has stopped the process over a map accessed twice at once
  requests,     \* how many have arrived
  alone         \* history: [IPs -> BOOLEAN], the address never had two requests under way

vars == <<ja3Clusters, ja3Clustered, chain, blockedIPs, req, down, requests, alone>>

NewChain == [stage |-> "Reconnaissance", history |-> <<>>, count |-> 0]
Idle == [pc |-> "idle"]

Init ==
  /\ ja3Clusters = [h \in Hashes |-> {}]
  /\ ja3Clustered = 0
  /\ chain = [ip \in IPs |-> NewChain]
  /\ blockedIPs = {}
  /\ req = [t \in Threads |-> Idle]
  /\ down = FALSE
  /\ requests = 0
  /\ alone = [ip \in IPs |-> TRUE]

Blocked(ip) == ip \in blockedIPs

Serving(t, ip) == req[t].pc # "idle" /\ req[t].ip = ip

At(t, pc) == ~down /\ req[t].pc = pc

-----------------------------------------------------------------------------
(* The middleware calls Orchestrate.                                       *)
Arrive(t, ip, hash, technique) ==
  /\ At(t, "idle") /\ requests < MaxRequests
  /\ requests' = requests + 1
  /\ alone' = [alone EXCEPT ![ip] = @ /\ \A u \in Threads : ~Serving(u, ip)]
  /\ req' = [req EXCEPT ![t] =
       [pc |-> IF Blocked(ip) THEN "served" ELSE "cluster",
        ip |-> ip, hash |-> hash, technique |-> technique,
        score |-> 0, stage |-> None, cross |-> FALSE, seen |-> None,
        action |-> IF Blocked(ip) THEN "blocked" ELSE "pass",
        company |-> ja3Clusters[hash] \ {ip}]]  \* history: who was there before
  /\ UNCHANGED <<ja3Clusters, ja3Clustered, chain, blockedIPs, down>>

Counted(n, new) == IF new THEN n + 1 ELSE n

\* clusterJA3.  The insertion is a write to a map that a thread in "walk" reads.
Cluster(t) ==
  LET h == req[t].hash
      new == req[t].ip \notin ja3Clusters[h]
      walked == \E u \in Threads : req[u].pc = "walk" /\ req[u].hash = h
  IN /\ At(t, "cluster")
     /\ ja3Clusters' = [ja3Clusters EXCEPT ![h] = @ \cup {req[t].ip}]
     /\ ja3Clustered' = Counted(ja3Clustered, new)
     /\ down' \in (IF new /\ walked THEN BOOLEAN ELSE {FALSE})
     /\ req' = [req EXCEPT ![t].pc = "detect", ![t].score = IF h \in KnownBad THEN 30 ELSE 0]
     /\ UNCHANGED <<chain, blockedIPs, requests, alone>>

\* GetOrCreateState, and DetectTechnique up to its comparison of the stages.
Detect(t) ==
  LET c == chain[req[t].ip]
      technique == req[t].technique
  IN /\ At(t, "detect")
     /\ req' = [req EXCEPT ![t].stage = c.stage,
                           ![t].pc = IF technique = None THEN "look"
                                     ELSE IF StageOf(technique) # c.stage THEN "move"
                                     ELSE "predict"]
     /\ UNCHANGED <<ja3Clusters, ja3Clustered, chain, blockedIPs, down, requests, alone>>

\* Mutant: the move is not counted.
RecordedUncounted(c, seen, stage) ==
  [c EXCEPT !.history = Append(seen.history, stage), !.count = seen.count]

\* A chain whose history gets its current stage, and whose counter moves on, from the
\* values read before.
Recorded(c, seen, stage) ==
  [c EXCEPT !.history = Append(seen.history, stage), !.count = seen.count + 1]

\* transition: the new stage first, ...
Transition(t) ==
  LET r == req[t] IN
  /\ At(t, "move")
  /\ chain' = [chain EXCEPT ![r.ip].stage = StageOf(r.technique)]
  /\ req' = [req EXCEPT ![t].pc = "record",
                        ![t].seen = [history |-> chain[r.ip].history, count |-> chain[r.ip].count]]
  /\ UNCHANGED <<ja3Clusters, ja3Clustered, blockedIPs, down, requests, alone>>

\* ... then the history and the counter.
Record(t) ==
  LET r == req[t] IN
  /\ At(t, "record")
  /\ chain' = [chain EXCEPT ![r.ip] = Recorded(@, r.seen, StageOf(r.technique))]
  /\ req' = [req EXCEPT ![t].pc = "predict", ![t].seen = None]
  /\ UNCHANGED <<ja3Clusters, ja3Clustered, blockedIPs, down, requests, alone>>

\* applyPredictionRules: a write to the chain's map of predictions, which may meet
\* another.  Then Orchestrate reads the stage.
Predict(t) ==
  LET r == req[t]
      meets == \E u \in Threads \ {t} :
                 req[u].pc = "predict" /\ req[u].ip = r.ip /\ req[u].technique = "sql"
  IN /\ At(t, "predict")
     /\ down' \in (IF r.technique = "sql" /\ meets THEN BOOLEAN ELSE {FALSE})
     /\ req' = [req EXCEPT ![t].stage = chain[r.ip].stage, ![t].score = @ + 25, ![t].pc = "look"]
     /\ UNCHANGED <<ja3Clusters, ja3Clustered, chain, blockedIPs, requests, alone>>

\* isCrossSession takes the cluster from the table and lets go of the lock ...
LookUp(t) ==
  /\ At(t, "look")
  /\ req' = [req EXCEPT ![t].pc = "walk"]
  /\ UNCHANGED <<ja3Clusters, ja3Clustered, chain, blockedIPs, down, requests, alone>>

\* Mutant: the address counts itself.
CompanyOfAll(ip, cluster) == cluster
\* Mutant: only a second companion makes a session crossed.
CompanyOfMany(ip, cluster) == IF Cardinality(cluster) > 2 THEN cluster \ {ip} ELSE {}

Company(ip, cluster) == cluster \ {ip}

\* Mutant: a crossed session weighs as much as a technique.
CrossHeavy == 25

CrossScore == 20

\* ... and walks it.
Walk(t) ==
  LET r == req[t]
      cross == Company(r.ip, ja3Clusters[r.hash]) # {}
  IN /\ At(t, "walk")
     /\ req' = [req EXCEPT ![t].cross = cross, ![t].pc = "decide",
                           ![t].score = IF cross THEN @ + CrossScore ELSE @]
     /\ UNCHANGED <<ja3Clusters, ja3Clustered, chain, blockedIPs, down, requests, alone>>

\* Mutant: a middling score goes unanswered.
DecidedLax(stage, score) ==
  IF score >= 60 THEN "honeypot" ELSE IF score >= 30 THEN "monitor" ELSE StageAction(stage)

\* determineCountermeasure.  activeCountermeasures is never written, and every stage
\* has its action.
Decided(stage, score) ==
  IF score >= 80 THEN "block"
  ELSE IF score >= 60 THEN "honeypot"
  ELSE IF score >= 40 THEN "tarpit"
  ELSE StageAction(stage)

\* executeCountermeasure, and what activeDefenseMiddleware does with the outcome.
Execute(t) ==
  LET action == Decided(req[t].stage, req[t].score) IN
  /\ At(t, "decide")
  /\ req' = [req EXCEPT ![t].action = action, ![t].pc = "served"]
  /\ blockedIPs' = IF action \in {"block", "blackhole", "isolate"}
                   THEN blockedIPs \cup {req[t].ip} ELSE blockedIPs
  /\ UNCHANGED <<ja3Clusters, ja3Clustered, chain, down, requests, alone>>

Finish(t) ==
  /\ At(t, "served")
  /\ req' = [req EXCEPT ![t] = Idle]
  /\ UNCHANGED <<ja3Clusters, ja3Clustered, chain, blockedIPs, down, requests, alone>>

Step(t) ==
  \/ Cluster(t) \/ Detect(t) \/ Transition(t) \/ Record(t) \/ Predict(t)
  \/ LookUp(t) \/ Walk(t) \/ Execute(t) \/ Finish(t)

Next == \E t \in Threads :
  \/ \E ip \in IPs, h \in Hashes, q \in Techniques \cup {None} : Arrive(t, ip, h, q)
  \/ Step(t)

Spec == Init /\ [][Next]_vars

-----------------------------------------------------------------------------
\* The stages the code can reach, a part of the tables above.
Reached == {"Reconnaissance", "Delivery", "Exploitation"}

\* A request under way.
Requests ==
  [pc : {"cluster", "detect", "move", "record", "predict", "look", "walk", "decide", "served"},
   ip : IPs, hash : Hashes, technique : Techniques \cup {None}, score : 0..75,
   stage : Reached \cup {None}, cross : BOOLEAN,
   seen : [history : Seq(Reached), count : Nat] \cup {None}, action : {"pass", "monitor", "tarpit", "honeypot"}, company : SUBSET IPs]

\* The types: of the stages, the scores and the actions only those the code can reach.
TypeOK ==
  /\ ja3Clusters \in [Hashes -> SUBSET IPs]
  /\ ja3Clustered \in Nat
  /\ chain \in [IPs -> [stage : Reached, history : Seq(Reached), count : Nat]]
  /\ blockedIPs \subseteq IPs
  /\ req \in [Threads -> Requests \cup {Idle}]
  /\ down \in BOOLEAN
  /\ requests \in 0..MaxRequests
  /\ alone \in [IPs -> BOOLEAN]

\* Active defense never refuses anyone.  No request scores the 80 points that block,
\* and no technique that detectTechnique knows leads to a stage whose action blocks, so
\* blockedIPs stays empty: the middleware's refusals and challenges are never taken.
NobodyIsBlocked ==
  /\ blockedIPs = {}
  /\ \A t \in Threads : req[t].pc = "served" => req[t].action \notin {"blocked", "block", "challenge"}

\* The chain shown to the operator is in order between moves, as long as the address
\* had one request at a time: the current stage is the last one of the history, and
\* every move is counted (transition, on a state that all its requests share).
ChainIsInOrder ==
  \A ip \in IPs :
    alone[ip] /\ (\A t \in Threads : req[t].pc = "record" => req[t].ip # ip) =>
    /\ chain[ip].count = Len(chain[ip].history)
    /\ chain[ip].stage = IF chain[ip].history = <<>> THEN "Reconnaissance" ELSE Last(chain[ip].history)

\* A request that shows an injection or a traversal is at least slowed down, unless
\* another request of its address moved the chain in the meantime (Orchestrate reads
\* the stage back after DetectTechnique).
AttacksAreAnswered ==
  \A t \in Threads :
    req[t].pc = "served" /\ alone[req[t].ip] /\ req[t].technique \in {"sql", "xss", "traversal"}
      => req[t].action \in {"tarpit", "honeypot", "block", "blackhole", "isolate"}

\* A session counts as crossed only if another address has the same fingerprint, and
\* does so whenever one had it when the request came in, whatever happens meanwhile.
CrossedIsRight ==
  \A t \in Threads : req[t].pc \in {"decide", "served"} =>
    /\ req[t].cross => ja3Clusters[req[t].hash] \ {req[t].ip} # {}
    /\ req[t].company # {} => req[t].cross

=============================================================================
