----------------------------- MODULE ClientsProofs -----------------------------
(***************************************************************************)
(* Theorems about the components of MCClients: the orchestrator, proof of  *)
(* work (PoW), and the tables of the detectors (ClientTables), for any     *)
(* number of goroutines, addresses, fingerprints and challenges, any       *)
(* payloads and paths, any limits, and any lifetime of a token.            *)
(***************************************************************************)
EXTENDS MCClients, FiniteSetTheorems, WellFoundedInduction, TLAPS

-----------------------------------------------------------------------------
(* The orchestrator.                                                       *)

\* What is known of a request at each place: the points it can have collected so far,
\* and that it has a technique where the code relies on one.
Progress(r) ==
  /\ r.pc = "cluster" => r.score = 0
  /\ r.pc \in {"detect", "move", "record", "predict"} => r.score <= 30
  /\ r.pc \in {"move", "record", "predict"} => r.technique \in Techniques
  /\ r.pc = "record" => r.seen \in [history : Seq(Reached), count : Nat]
  /\ r.pc \in {"look", "walk"} => r.score <= 55
  /\ r.pc \in {"look", "walk", "decide"} => r.stage \in Reached
  /\ r.pc = "served" => r.action \in {"monitor", "tarpit", "honeypot"}

IInv ==
  /\ TypeOK
  /\ blockedIPs = {}
  /\ \A t \in Threads : Progress(req[t])

LEMMA StageOfReached == \A q \in Techniques : StageOf(q) \in Reached
BY DEF Techniques, StageOf, Reached

\* With the points a request can have, in the stages it can be in, nothing blocks.
LEMMA DecidedMild ==
  ASSUME NEW stage \in Reached, NEW score \in 0..75
  PROVE  Decided(stage, score) \in {"monitor", "tarpit", "honeypot"}
BY SMT DEF Decided, StageAction, Reached

LEMMA CrossScoreIs20 == CrossScore = 20
BY DEF CrossScore

LEMMA InitIInv == Init => IInv
<1>. SUFFICES ASSUME Init PROVE IInv
  OBVIOUS
<1>1. NewChain \in [stage : Reached, history : Seq(Reached), count : Nat]
  BY DEF NewChain, Reached
<1>2. chain \in [IPs -> [stage : Reached, history : Seq(Reached), count : Nat]]
  BY <1>1 DEF Init
<1>3. /\ ja3Clusters \in [Hashes -> SUBSET IPs] /\ ja3Clustered \in Nat /\ blockedIPs = {}
      /\ down \in BOOLEAN /\ alone \in [IPs -> BOOLEAN]
  BY DEF Init
<1>4. requests \in 0..MaxRequests
  BY BoundAssumption DEF Init
<1>5. req \in [Threads -> Requests \cup {Idle}] /\ \A t \in Threads : Progress(req[t])
  BY DEF Init, Idle, Progress
<1>. QED  BY <1>2, <1>3, <1>4, <1>5 DEF IInv, TypeOK

\* What a set of records says of its members, and how a member may be changed.
LEMMA RequestScore == \A r \in Requests : r.score \in 0..75
BY DEF Requests

Places == {"cluster", "detect", "move", "record", "predict", "look", "walk", "decide", "served"}
Points == 0..75

LEMMA RequestMoved ==
  ASSUME NEW r \in Requests, NEW pc \in Places,
         NEW score \in Points, NEW stage \in Reached \cup {None}, NEW cross \in BOOLEAN
  PROVE  /\ [r EXCEPT !.pc = pc, !.score = score] \in Requests
         /\ [r EXCEPT !.stage = stage, !.pc = pc] \in Requests
         /\ [r EXCEPT !.stage = stage, !.score = score, !.pc = pc] \in Requests
         /\ [r EXCEPT !.cross = cross, !.pc = pc, !.score = score] \in Requests
<1>1. Requests = [pc : Places, ip : IPs, hash : Hashes, technique : Techniques \cup {None},
                  score : Points, stage : Reached \cup {None}, cross : BOOLEAN,
                  seen : [history : Seq(Reached), count : Nat] \cup {None},
                  action : {"pass", "monitor", "tarpit", "honeypot"}, company : SUBSET IPs]
  BY DEF Requests, Places, Points
<1>2. [r EXCEPT !.pc = pc, !.score = score] \in Requests
  BY <1>1
<1>3. [r EXCEPT !.stage = stage, !.pc = pc] \in Requests
  BY <1>1
<1>4. [r EXCEPT !.stage = stage, !.score = score, !.pc = pc] \in Requests
  BY <1>1
<1>5. [r EXCEPT !.cross = cross, !.pc = pc, !.score = score] \in Requests
  BY <1>1
<1>. QED  BY <1>2, <1>3, <1>4, <1>5

\* A step that changes one request only, and blocks nobody, need only be looked at there.
LEMMA OneRequest ==
  ASSUME IInv, NEW t \in Threads, NEW r \in Requests \cup {Idle}, Progress(r),
         req' = [req EXCEPT ![t] = r], blockedIPs' = {}
  PROVE  /\ req' \in [Threads -> Requests \cup {Idle}]
         /\ blockedIPs' \subseteq IPs
         /\ \A u \in Threads : Progress(req'[u])
<1>1. req \in [Threads -> Requests \cup {Idle}]
  BY DEF IInv, TypeOK
<1>2. \A u \in Threads : req'[u] = IF u = t THEN r ELSE req[u]
  BY <1>1
<1>3. \A u \in Threads : Progress(req'[u])
  BY <1>2 DEF IInv
<1>. QED  BY <1>1, <1>3

LEMMA ArriveIInv ==
  ASSUME IInv, NEW t \in Threads, NEW ip \in IPs, NEW h \in Hashes,
         NEW q \in Techniques \cup {None}, Arrive(t, ip, h, q)
  PROVE  IInv'
<1>. DEFINE r == [pc |-> "cluster", ip |-> ip, hash |-> h, technique |-> q,
                  score |-> 0, stage |-> None, cross |-> FALSE, seen |-> None,
                  action |-> "pass", company |-> ja3Clusters[h] \ {ip}]
<1>1. ~Blocked(ip)
  BY DEF IInv, Blocked
<1>2. req' = [req EXCEPT ![t] = r]
  BY <1>1 DEF Arrive
<1>3. r \in Requests
  BY DEF Requests, IInv, TypeOK
<1>4. Progress(r)
  BY DEF Progress
<1>5. blockedIPs' = {}
  BY DEF Arrive, IInv
<1>6. requests' \in 0..MaxRequests
  BY BoundAssumption DEF Arrive, IInv, TypeOK
<1>7. /\ req' \in [Threads -> Requests \cup {Idle}]
      /\ \A u \in Threads : Progress(req'[u])
  BY <1>2, <1>3, <1>4, <1>5, OneRequest
<1>8. UNCHANGED <<ja3Clusters, ja3Clustered, chain, blockedIPs, down>>
  BY DEF Arrive
<1>9. alone' \in [IPs -> BOOLEAN]
  BY DEF Arrive, IInv, TypeOK
<1>. QED  BY <1>5, <1>6, <1>7, <1>8, <1>9 DEF IInv, TypeOK

\* A thread that is at work has a request with all its parts.
LEMMA AtWork ==
  ASSUME IInv, NEW t \in Threads, req[t].pc # "idle"
  PROVE  req[t] \in Requests /\ Progress(req[t])
BY DEF IInv, TypeOK, Idle

LEMMA ClusterIInv == ASSUME IInv, NEW t \in Threads, Cluster(t) PROVE IInv'
<1>. DEFINE score == IF req[t].hash \in KnownBad THEN 30 ELSE 0
            r == [req[t] EXCEPT !.pc = "detect", !.score = score]
<1>1. req[t].pc = "cluster" /\ req[t] \in Requests
  BY AtWork DEF Cluster, At
<1>2. req' = [req EXCEPT ![t] = r]
  BY DEF Cluster, IInv, TypeOK
<1>3. score \in 0..30
  OBVIOUS
<1>4. r \in Requests /\ Progress(r)
  <2>. HIDE DEF score
  <2>0. score \in Points /\ "detect" \in Places
    BY <1>3 DEF Places, Points
  <2>1. r \in Requests
    BY <1>1, <2>0, RequestMoved
  <2>2. r.pc = "detect" /\ r.score = score
    BY <1>1, <1>3 DEF Requests
  <2>. QED  BY <2>1, <2>2, <1>1, <1>3 DEF Progress
<1>5. blockedIPs' = {} /\ UNCHANGED <<chain, blockedIPs, requests, alone>>
  BY DEF Cluster, IInv
<1>6. /\ req' \in [Threads -> Requests \cup {Idle}]
      /\ \A u \in Threads : Progress(req'[u])
  BY <1>2, <1>4, <1>5, OneRequest
<1>7. ja3Clusters' \in [Hashes -> SUBSET IPs]
  BY <1>1 DEF Cluster, IInv, TypeOK, Requests
<1>8. ja3Clustered' \in Nat
  BY DEF Cluster, Counted, IInv, TypeOK
<1>9. down' \in BOOLEAN
  BY DEF Cluster
<1>. QED  BY <1>5, <1>6, <1>7, <1>8, <1>9 DEF IInv, TypeOK

LEMMA DetectIInv == ASSUME IInv, NEW t \in Threads, Detect(t) PROVE IInv'
<1>. DEFINE stage == chain[req[t].ip].stage
            pc == IF req[t].technique = None THEN "look"
                  ELSE IF StageOf(req[t].technique) # stage THEN "move" ELSE "predict"
            r == [req[t] EXCEPT !.stage = stage, !.pc = pc]
<1>1. req[t].pc = "detect" /\ req[t] \in Requests /\ req[t].score <= 30
  BY AtWork DEF Detect, At, Progress
<1>2. req' = [req EXCEPT ![t] = r]
  BY DEF Detect, IInv, TypeOK
<1>3. stage \in Reached
  BY <1>1 DEF IInv, TypeOK, Requests
<1>4. pc \in {"look", "move", "predict"} /\ (pc # "look" => req[t].technique \in Techniques)
  BY <1>1 DEF Requests
<1>5. r \in Requests /\ Progress(r)
  <2>. HIDE DEF stage, pc
  <2>0. pc \in Places /\ stage \in Reached \cup {None} /\ 0 \in Points
    BY <1>3, <1>4 DEF Places, Points
  <2>1. r \in Requests
    BY <1>1, <2>0, RequestMoved
  <2>2. r.pc = pc /\ r.score = req[t].score /\ r.stage = stage /\ r.technique = req[t].technique
    BY <1>1, <1>3, <1>4 DEF Requests
  <2>3. req[t].score \in 0..30
    BY <1>1, RequestScore
  <2>. HIDE DEF r
  <2>4. CASE pc = "look"  BY <2>1, <2>2, <2>3, <2>4, <1>3 DEF Progress
  <2>5. CASE pc = "move"  BY <2>1, <2>2, <2>3, <2>5, <1>4 DEF Progress
  <2>6. CASE pc = "predict"  BY <2>1, <2>2, <2>3, <2>6, <1>4 DEF Progress
  <2>. QED  BY <2>4, <2>5, <2>6, <1>4
<1>6. blockedIPs' = {} /\ UNCHANGED <<ja3Clusters, ja3Clustered, chain, blockedIPs, down, requests, alone>>
  BY DEF Detect, IInv
<1>7. /\ req' \in [Threads -> Requests \cup {Idle}]
      /\ \A u \in Threads : Progress(req'[u])
  BY <1>2, <1>5, <1>6, OneRequest
<1>. QED  BY <1>6, <1>7 DEF IInv, TypeOK

LEMMA TransitionIInv == ASSUME IInv, NEW t \in Threads, Transition(t) PROVE IInv'
<1>. DEFINE seen == [history |-> chain[req[t].ip].history, count |-> chain[req[t].ip].count]
            r == [req[t] EXCEPT !.pc = "record", !.seen = seen]
<1>1. req[t].pc = "move" /\ req[t] \in Requests /\ Progress(req[t])
  BY AtWork DEF Transition, At
<1>2. req' = [req EXCEPT ![t] = r]
  BY DEF Transition, IInv, TypeOK
<1>3. StageOf(req[t].technique) \in Reached
  BY <1>1, StageOfReached DEF Progress
<1>4. seen \in [history : Seq(Reached), count : Nat]
  BY <1>1 DEF IInv, TypeOK, Requests
<1>5. r \in Requests
  BY <1>1, <1>4 DEF Requests
<1>6. Progress(r)
  BY <1>1, <1>4 DEF Progress, Requests
<1>7. blockedIPs' = {} /\ UNCHANGED <<ja3Clusters, ja3Clustered, blockedIPs, down, requests, alone>>
  BY DEF Transition, IInv
<1>8. /\ req' \in [Threads -> Requests \cup {Idle}]
      /\ \A u \in Threads : Progress(req'[u])
  BY <1>2, <1>5, <1>6, <1>7, OneRequest
<1>9. chain' \in [IPs -> [stage : Reached, history : Seq(Reached), count : Nat]]
  <2>. DEFINE Chains == [stage : Reached, history : Seq(Reached), count : Nat]
              stage == StageOf(req[t].technique)
  <2>1. chain \in [IPs -> Chains] /\ req[t].ip \in IPs
    BY <1>1 DEF IInv, TypeOK, Requests
  <2>2. chain' = [chain EXCEPT ![req[t].ip] = [chain[req[t].ip] EXCEPT !.stage = stage]]
    BY DEF Transition
  <2>3. stage \in Reached
    BY <1>3
  <2>. HIDE DEF stage
  <2>4. [chain[req[t].ip] EXCEPT !.stage = stage] \in Chains
    BY <2>1, <2>3
  <2>. QED  BY <2>1, <2>2, <2>4
<1>. QED  BY <1>7, <1>8, <1>9 DEF IInv, TypeOK

LEMMA RecordIInv == ASSUME IInv, NEW t \in Threads, Record(t) PROVE IInv'
<1>. DEFINE r == [req[t] EXCEPT !.pc = "predict", !.seen = None]
            stage == StageOf(req[t].technique)
            old == chain[req[t].ip]
<1>1. req[t].pc = "record" /\ req[t] \in Requests /\ Progress(req[t])
  BY AtWork DEF Record, At
<1>2. req' = [req EXCEPT ![t] = r]
  BY DEF Record, IInv, TypeOK
<1>3. stage \in Reached
  BY <1>1, StageOfReached DEF Progress
<1>4. r \in Requests
  BY <1>1 DEF Requests
<1>5. Progress(r)
  BY <1>1 DEF Progress, Requests
<1>6. blockedIPs' = {} /\ UNCHANGED <<ja3Clusters, ja3Clustered, blockedIPs, down, requests, alone>>
  BY DEF Record, IInv
<1>7. /\ req' \in [Threads -> Requests \cup {Idle}]
      /\ \A u \in Threads : Progress(req'[u])
  BY <1>2, <1>4, <1>5, <1>6, OneRequest
<1>8. old \in [stage : Reached, history : Seq(Reached), count : Nat]
  BY <1>1 DEF IInv, TypeOK, Requests
<1>9. Append(req[t].seen.history, stage) \in Seq(Reached) /\ req[t].seen.count + 1 \in Nat
  BY <1>1, <1>3 DEF Progress
<1>10. Recorded(old, req[t].seen, stage) \in [stage : Reached, history : Seq(Reached), count : Nat]
  BY <1>8, <1>9 DEF Recorded
<1>11. chain' \in [IPs -> [stage : Reached, history : Seq(Reached), count : Nat]]
  BY <1>1, <1>10 DEF Record, IInv, TypeOK, Requests
<1>. QED  BY <1>6, <1>7, <1>11 DEF IInv, TypeOK

LEMMA PredictIInv == ASSUME IInv, NEW t \in Threads, Predict(t) PROVE IInv'
<1>. DEFINE stage == chain[req[t].ip].stage
            score == req[t].score + 25
            r == [req[t] EXCEPT !.stage = stage, !.score = score, !.pc = "look"]
<1>1. req[t].pc = "predict" /\ req[t] \in Requests /\ req[t].score <= 30
  BY AtWork DEF Predict, At, Progress
<1>2. req' = [req EXCEPT ![t] = r]
  BY DEF Predict, IInv, TypeOK
<1>3. stage \in Reached
  BY <1>1 DEF IInv, TypeOK, Requests
<1>4. score \in 0..55
  BY <1>1, RequestScore
<1>5. r \in Requests /\ Progress(r)
  <2>. HIDE DEF stage, score
  <2>0. score \in Points /\ stage \in Reached \cup {None} /\ "look" \in Places
    BY <1>3, <1>4 DEF Places, Points
  <2>1. r \in Requests
    BY <1>1, <2>0, RequestMoved
  <2>2. r.pc = "look" /\ r.score = score /\ r.stage = stage
    BY <1>1, <1>3, <1>4 DEF Requests
  <2>. QED  BY <2>1, <2>2, <1>1, <1>3, <1>4 DEF Progress
<1>6. blockedIPs' = {} /\ UNCHANGED <<ja3Clusters, ja3Clustered, chain, blockedIPs, requests, alone>>
  BY DEF Predict, IInv
<1>7. /\ req' \in [Threads -> Requests \cup {Idle}]
      /\ \A u \in Threads : Progress(req'[u])
  BY <1>2, <1>5, <1>6, OneRequest
<1>8. down' \in BOOLEAN
  BY DEF Predict
<1>. QED  BY <1>6, <1>7, <1>8 DEF IInv, TypeOK

LEMMA LookUpIInv == ASSUME IInv, NEW t \in Threads, LookUp(t) PROVE IInv'
<1>. DEFINE r == [req[t] EXCEPT !.pc = "walk"]
<1>1. req[t].pc = "look" /\ req[t] \in Requests /\ Progress(req[t])
  BY AtWork DEF LookUp, At
<1>2. req' = [req EXCEPT ![t] = r]
  BY DEF LookUp, IInv, TypeOK
<1>3. r \in Requests /\ Progress(r)
  BY <1>1 DEF Requests, Progress
<1>4. blockedIPs' = {} /\ UNCHANGED <<ja3Clusters, ja3Clustered, chain, blockedIPs, down, requests, alone>>
  BY DEF LookUp, IInv
<1>5. /\ req' \in [Threads -> Requests \cup {Idle}]
      /\ \A u \in Threads : Progress(req'[u])
  BY <1>2, <1>3, <1>4, OneRequest
<1>. QED  BY <1>4, <1>5 DEF IInv, TypeOK

LEMMA WalkIInv == ASSUME IInv, NEW t \in Threads, Walk(t) PROVE IInv'
<1>. DEFINE cross == Company(req[t].ip, ja3Clusters[req[t].hash]) # {}
            score == IF cross THEN req[t].score + 20 ELSE req[t].score
            r == [req[t] EXCEPT !.cross = cross, !.pc = "decide", !.score = score]
<1>1. req[t].pc = "walk" /\ req[t] \in Requests /\ req[t].score <= 55 /\ req[t].stage \in Reached
  BY AtWork DEF Walk, At, Progress
<1>2. req' = [req EXCEPT ![t] = r]
  BY CrossScoreIs20 DEF Walk, IInv, TypeOK
<1>3. cross \in BOOLEAN /\ score \in 0..75
  <2>1. req[t].score \in 0..55
    BY <1>1, RequestScore
  <2>. HIDE DEF cross
  <2>. QED  BY <2>1 DEF cross
<1>4. r \in Requests /\ Progress(r)
  <2>. HIDE DEF cross, score
  <2>0. score \in Points /\ "decide" \in Places
    BY <1>3 DEF Places, Points
  <2>1. r \in Requests
    BY <1>1, <1>3, <2>0, RequestMoved
  <2>2. r.pc = "decide" /\ r.score = score /\ r.stage = req[t].stage
    BY <1>1, <1>3 DEF Requests
  <2>. QED  BY <2>1, <2>2, <1>1, <1>3 DEF Progress
<1>5. blockedIPs' = {} /\ UNCHANGED <<ja3Clusters, ja3Clustered, chain, blockedIPs, down, requests, alone>>
  BY DEF Walk, IInv
<1>6. /\ req' \in [Threads -> Requests \cup {Idle}]
      /\ \A u \in Threads : Progress(req'[u])
  BY <1>2, <1>4, <1>5, OneRequest
<1>. QED  BY <1>5, <1>6 DEF IInv, TypeOK

\* Here it matters how many points there are.
LEMMA ExecuteIInv == ASSUME IInv, NEW t \in Threads, Execute(t) PROVE IInv'
<1>. DEFINE action == Decided(req[t].stage, req[t].score)
            r == [req[t] EXCEPT !.action = action, !.pc = "served"]
<1>1. req[t].pc = "decide" /\ req[t] \in Requests /\ req[t].stage \in Reached
  BY AtWork DEF Execute, At, Progress
<1>2. req' = [req EXCEPT ![t] = r]
  BY DEF Execute, IInv, TypeOK
<1>3. action \in {"monitor", "tarpit", "honeypot"}
  BY <1>1, DecidedMild DEF Requests
<1>4. r \in Requests /\ Progress(r)
  <2>. HIDE DEF action
  <2>. QED  BY <1>1, <1>3 DEF Requests, Progress
<1>5. blockedIPs' = {}
  BY <1>3 DEF Execute, IInv
<1>6. /\ req' \in [Threads -> Requests \cup {Idle}]
      /\ \A u \in Threads : Progress(req'[u])
  BY <1>2, <1>4, <1>5, OneRequest
<1>7. UNCHANGED <<ja3Clusters, ja3Clustered, chain, down, requests, alone>>
  BY DEF Execute
<1>. QED  BY <1>5, <1>6, <1>7 DEF IInv, TypeOK

LEMMA FinishIInv == ASSUME IInv, NEW t \in Threads, Finish(t) PROVE IInv'
<1>1. Progress(Idle)
  BY DEF Progress, Idle
<1>2. blockedIPs' = {} /\ UNCHANGED <<ja3Clusters, ja3Clustered, chain, blockedIPs, down, requests, alone>>
  BY DEF Finish, IInv
<1>3. /\ req' \in [Threads -> Requests \cup {Idle}]
      /\ \A u \in Threads : Progress(req'[u])
  BY <1>1, <1>2, OneRequest DEF Finish
<1>. QED  BY <1>2, <1>3 DEF IInv, TypeOK

LEMMA NextIInv == IInv /\ [Next]_vars => IInv'
<1>1. SUFFICES ASSUME IInv, [Next]_vars PROVE IInv'
  OBVIOUS
<1>2. CASE UNCHANGED vars
  BY <1>1, <1>2 DEF IInv, TypeOK, vars
<1>3. ASSUME NEW t \in Threads, NEW ip \in IPs, NEW h \in Hashes,
             NEW q \in Techniques \cup {None}, Arrive(t, ip, h, q)
      PROVE  IInv'
  BY <1>1, <1>3, ArriveIInv
<1>4. ASSUME NEW t \in Threads, Step(t) PROVE IInv'
  <2>1. CASE Cluster(t)  BY <1>1, <2>1, ClusterIInv
  <2>2. CASE Detect(t)  BY <1>1, <2>2, DetectIInv
  <2>3. CASE Transition(t)  BY <1>1, <2>3, TransitionIInv
  <2>4. CASE Record(t)  BY <1>1, <2>4, RecordIInv
  <2>5. CASE Predict(t)  BY <1>1, <2>5, PredictIInv
  <2>6. CASE LookUp(t)  BY <1>1, <2>6, LookUpIInv
  <2>7. CASE Walk(t)  BY <1>1, <2>7, WalkIInv
  <2>8. CASE Execute(t)  BY <1>1, <2>8, ExecuteIInv
  <2>9. CASE Finish(t)  BY <1>1, <2>9, FinishIInv
  <2>. QED  BY <1>4, <2>1, <2>2, <2>3, <2>4, <2>5, <2>6, <2>7, <2>8, <2>9 DEF Step
<1>. QED  BY <1>1, <1>2, <1>3, <1>4 DEF Next

\* The types hold, with the scores, stages and actions cut down to the reachable ones.
THEOREM TypeCorrect == Spec => []TypeOK
<1>1. IInv => TypeOK
  BY DEF IInv
<1>. QED  BY <1>1, InitIInv, NextIInv, PTL DEF Spec

\* The orchestrator as it stands refuses and challenges nobody, whatever comes in and
\* however the requests interleave: its blocking half is out of reach.
THEOREM NobodyIsEverBlocked == Spec => []NobodyIsBlocked
<1>1. IInv => NobodyIsBlocked
  BY DEF IInv, NobodyIsBlocked, Progress
<1>. QED  BY <1>1, InitIInv, NextIInv, PTL DEF Spec

-----------------------------------------------------------------------------
(* The chain of an address, and what it is answered.                       *)

Responses == {"tarpit", "honeypot", "block", "blackhole", "isolate"}

\* A chain between two moves.
InOrder(c) ==
  /\ c.count = Len(c.history)
  /\ c.stage = IF c.history = <<>> THEN "Reconnaissance" ELSE Last(c.history)

\* What a request of an address that never had another one under way knows of its
\* chain c, and so of the answer it gets.
Kept(r, c) ==
  /\ r.pc # "record" => InOrder(c)
  /\ r.pc = "record" => /\ r.seen.history = c.history
                        /\ r.seen.count = c.count
                        /\ c.count = Len(c.history)
                        /\ c.stage = StageOf(r.technique)
  /\ r.pc = "predict" => c.stage = StageOf(r.technique)
  /\ r.pc \in {"look", "walk", "decide"} /\ r.technique \in Techniques
       => r.stage = StageOf(r.technique)
  /\ r.pc = "served" /\ r.technique \in {"sql", "xss", "traversal"} => r.action \in Responses

OneAtATime ==
  \A t, u \in Threads : \A ip \in IPs :
    Serving(t, ip) /\ Serving(u, ip) /\ alone[ip] => t = u

CInv ==
  /\ OneAtATime
  /\ \A ip \in IPs : alone[ip] /\ (\A t \in Threads : ~Serving(t, ip)) => InOrder(chain[ip])
  /\ \A t \in Threads : \A ip \in IPs :
       Serving(t, ip) /\ alone[ip] => Kept(req[t], chain[ip])

LEMMA InitCInv == Init => CInv
BY DEF Init, CInv, OneAtATime, Serving, Idle, InOrder, NewChain

\* A step of one request, on its own chain, need only be looked at there: another
\* request of the same address would take back what is claimed.
LEMMA OwnChain ==
  ASSUME IInv, CInv, NEW t \in Threads, NEW ip \in IPs, NEW r, Serving(t, ip),
         r.pc # "idle", r.ip = ip, req' = [req EXCEPT ![t] = r], alone' = alone,
         \A i \in IPs : i # ip => chain'[i] = chain[i],
         alone[ip] => Kept(r, chain'[ip])
  PROVE  CInv'
<1>1. \A u \in Threads : req'[u] = IF u = t THEN r ELSE req[u]
  BY DEF IInv, TypeOK
<1>2. \A u \in Threads, i \in IPs : Serving(u, i)' <=> Serving(u, i)
  BY <1>1 DEF Serving
<1>3. OneAtATime'
  BY <1>2 DEF CInv, OneAtATime
<1>4. \A i \in IPs : alone'[i] /\ (\A u \in Threads : ~Serving(u, i)') => InOrder(chain'[i])
  BY <1>2 DEF CInv
<1>5. \A u \in Threads : \A i \in IPs : Serving(u, i)' /\ alone'[i] => Kept(req'[u], chain'[i])
  <2>. SUFFICES ASSUME NEW u \in Threads, NEW i \in IPs, Serving(u, i), alone[i]
                PROVE  Kept(req'[u], chain'[i])
    BY <1>2
  <2>1. CASE u = t
    BY <1>1, <2>1 DEF Serving
  <2>2. CASE u # t
    <3>1. i # ip
      BY <2>2 DEF CInv, OneAtATime
    <3>2. Kept(req[u], chain[i])
      BY DEF CInv
    <3>. QED  BY <1>1, <2>2, <3>1, <3>2
  <2>. QED  BY <2>1, <2>2
<1>. QED  BY <1>3, <1>4, <1>5 DEF CInv

\* A request under way, and what is kept of its chain.
LEMMA OwnRequest ==
  ASSUME IInv, CInv, NEW t \in Threads, req[t].pc # "idle"
  PROVE  /\ req[t] \in Requests /\ Progress(req[t]) /\ req[t].ip \in IPs
         /\ Serving(t, req[t].ip)
         /\ chain[req[t].ip] \in [stage : Reached, history : Seq(Reached), count : Nat]
         /\ alone[req[t].ip] => Kept(req[t], chain[req[t].ip])
<1>1. req[t] \in Requests /\ Progress(req[t])
  BY AtWork
<1>2. req[t].ip \in IPs /\ Serving(t, req[t].ip)
  BY <1>1 DEF Requests, Serving
<1>. QED  BY <1>1, <1>2 DEF CInv, IInv, TypeOK

\* A second request makes the address one that is not alone; the first finds the
\* chain as the last one left it.
LEMMA ArriveCInv ==
  ASSUME IInv, CInv, NEW t \in Threads, NEW ip \in IPs, NEW h \in Hashes,
         NEW q \in Techniques \cup {None}, Arrive(t, ip, h, q)
  PROVE  CInv'
<1>. DEFINE r == [pc |-> "cluster", ip |-> ip, hash |-> h, technique |-> q,
                  score |-> 0, stage |-> None, cross |-> FALSE, seen |-> None,
                  action |-> "pass", company |-> ja3Clusters[h] \ {ip}]
<1>1. req' = [req EXCEPT ![t] = r] /\ chain' = chain
  BY DEF Arrive, IInv, Blocked
<1>2. \A u \in Threads : req'[u] = IF u = t THEN r ELSE req[u]
  BY <1>1 DEF IInv, TypeOK
<1>3. \A i \in IPs : alone'[i] = (alone[i] /\ (i = ip => \A u \in Threads : ~Serving(u, ip)))
  BY DEF Arrive, IInv, TypeOK
<1>4. r.pc = "cluster" /\ r.ip = ip /\ req[t].pc = "idle"
  BY DEF Arrive, At
<1>. HIDE DEF r
<1>5. \A u \in Threads, i \in IPs :
        Serving(u, i)' <=> IF u = t THEN i = ip ELSE Serving(u, i)
  BY <1>2, <1>4 DEF Serving
<1>6. ~\E i \in IPs : Serving(t, i)
  BY <1>4 DEF Serving
<1>7. OneAtATime'
  <2>. SUFFICES ASSUME NEW u \in Threads, NEW v \in Threads, NEW i \in IPs,
                       Serving(u, i)', Serving(v, i)', alone'[i]
                PROVE  u = v
    BY DEF OneAtATime
  <2>1. CASE i = ip  BY <2>1, <1>3, <1>5
  <2>2. CASE i # ip  BY <2>2, <1>3, <1>5 DEF CInv, OneAtATime
  <2>. QED  BY <2>1, <2>2
<1>8. \A i \in IPs : alone'[i] /\ (\A u \in Threads : ~Serving(u, i)') => InOrder(chain'[i])
  BY <1>1, <1>3, <1>5, <1>6 DEF CInv
<1>9. \A u \in Threads : \A i \in IPs : Serving(u, i)' /\ alone'[i] => Kept(req'[u], chain'[i])
  <2>. SUFFICES ASSUME NEW u \in Threads, NEW i \in IPs, Serving(u, i)', alone'[i]
                PROVE  Kept(req'[u], chain'[i])
    OBVIOUS
  <2>1. CASE u = t
    <3>1. InOrder(chain[i]) /\ req'[u] = r
      BY <2>1, <1>2, <1>3, <1>5 DEF CInv
    <3>. QED  BY <3>1, <1>1, <1>4 DEF Kept
  <2>2. CASE u # t
    BY <2>2, <1>1, <1>2, <1>3, <1>5 DEF CInv
  <2>. QED  BY <2>1, <2>2
<1>. QED  BY <1>7, <1>8, <1>9 DEF CInv

\* Steps that leave the chain alone, and the claims about it.
LEMMA ClusterCInv == ASSUME IInv, CInv, NEW t \in Threads, Cluster(t) PROVE CInv'
<1>. DEFINE r == [req[t] EXCEPT !.pc = "detect", !.score = IF req[t].hash \in KnownBad THEN 30 ELSE 0]
<1>1. req[t].pc = "cluster" /\ chain' = chain /\ alone' = alone
  BY DEF Cluster, At
<1>2. req' = [req EXCEPT ![t] = r]
  BY DEF Cluster, IInv, TypeOK
<1>3. r.pc = "detect" /\ r.ip = req[t].ip
  BY <1>1, OwnRequest DEF Requests
<1>. HIDE DEF r
<1>4. alone[req[t].ip] => Kept(r, chain'[req[t].ip])
  BY <1>1, <1>3, OwnRequest DEF Kept
<1>. QED  BY <1>1, <1>2, <1>3, <1>4, OwnRequest, OwnChain

\* If the chain is already where the technique puts it, there is no move.
LEMMA DetectCInv == ASSUME IInv, CInv, NEW t \in Threads, Detect(t) PROVE CInv'
<1>. DEFINE c == chain[req[t].ip]
            pc == IF req[t].technique = None THEN "look"
                  ELSE IF StageOf(req[t].technique) # c.stage THEN "move" ELSE "predict"
            r == [req[t] EXCEPT !.stage = c.stage, !.pc = pc]
<1>1. req[t].pc = "detect" /\ chain' = chain /\ alone' = alone
  BY DEF Detect, At
<1>2. req' = [req EXCEPT ![t] = r]
  BY DEF Detect, IInv, TypeOK
<1>3. r.pc = pc /\ r.ip = req[t].ip /\ r.technique = req[t].technique
  BY <1>1, OwnRequest DEF Requests
<1>4. /\ pc \in {"look", "move", "predict"}
      /\ pc = "look" => req[t].technique \notin Techniques
      /\ pc = "predict" => c.stage = StageOf(req[t].technique)
  BY NoneAssumption
<1>5. alone[req[t].ip] => InOrder(c)
  BY <1>1, OwnRequest DEF Kept
<1>. HIDE DEF r, pc, c
<1>6. alone[req[t].ip] => Kept(r, c)
  BY <1>3, <1>4, <1>5 DEF Kept
<1>7. chain'[req[t].ip] = c
  BY <1>1 DEF c
<1>. QED  BY <1>1, <1>2, <1>3, <1>4, <1>6, <1>7, OwnRequest, OwnChain

\* Half of a move: the stage is new, the history still the one just read.
LEMMA TransitionCInv == ASSUME IInv, CInv, NEW t \in Threads, Transition(t) PROVE CInv'
<1>. DEFINE ip == req[t].ip
            c == chain[ip]
            seen == [history |-> c.history, count |-> c.count]
            r == [req[t] EXCEPT !.pc = "record", !.seen = seen]
            stage == StageOf(req[t].technique)
<1>1. req[t].pc = "move" /\ alone' = alone
  BY DEF Transition, At
<1>2. req' = [req EXCEPT ![t] = r] /\ chain' = [chain EXCEPT ![ip].stage = stage]
  BY DEF Transition, IInv, TypeOK
<1>3. ip \in IPs /\ chain \in [IPs -> [stage : Reached, history : Seq(Reached), count : Nat]]
  BY <1>1, OwnRequest DEF IInv, TypeOK
<1>4. \A i \in IPs : i # ip => chain'[i] = chain[i]
  BY <1>2, <1>3
<1>5. chain'[ip].stage = stage /\ chain'[ip].history = c.history /\ chain'[ip].count = c.count
  BY <1>2, <1>3
<1>6. r.pc = "record" /\ r.ip = ip /\ r.technique = req[t].technique /\ r.seen = seen
  BY <1>1, OwnRequest DEF Requests
<1>7. seen.history = c.history /\ seen.count = c.count
  OBVIOUS
<1>8. alone[ip] => c.count = Len(c.history)
  BY <1>1, OwnRequest DEF Kept, InOrder
<1>. HIDE DEF r, seen
<1>9. alone[ip] => Kept(r, chain'[ip])
  BY <1>5, <1>6, <1>7, <1>8 DEF Kept
<1>. QED  BY <1>1, <1>2, <1>4, <1>6, <1>9, OwnRequest, OwnChain

\* The other half: the history and the counter that were read are still the chain's.
LEMMA RecordCInv == ASSUME IInv, CInv, NEW t \in Threads, Record(t) PROVE CInv'
<1>. DEFINE ip == req[t].ip
            c == chain[ip]
            seen == req[t].seen
            stage == StageOf(req[t].technique)
            r == [req[t] EXCEPT !.pc = "predict", !.seen = None]
<1>1. req[t].pc = "record" /\ alone' = alone
  BY DEF Record, At
<1>2. req' = [req EXCEPT ![t] = r] /\ chain' = [chain EXCEPT ![ip] = Recorded(c, seen, stage)]
  BY DEF Record, IInv, TypeOK
<1>3. ip \in IPs /\ chain \in [IPs -> [stage : Reached, history : Seq(Reached), count : Nat]]
  BY <1>1, OwnRequest DEF IInv, TypeOK
<1>4. \A i \in IPs : i # ip => chain'[i] = chain[i]
  BY <1>2, <1>3
<1>5. chain'[ip] = Recorded(c, seen, stage)
  BY <1>2, <1>3
<1>6. c \in [stage : Reached, history : Seq(Reached), count : Nat]
  BY <1>3
<1>7. /\ Recorded(c, seen, stage).stage = c.stage
      /\ Recorded(c, seen, stage).history = Append(seen.history, stage)
      /\ Recorded(c, seen, stage).count = seen.count + 1
  BY <1>6 DEF Recorded
<1>8. r.pc = "predict" /\ r.ip = ip /\ r.technique = req[t].technique
  BY <1>1, OwnRequest DEF Requests
<1>9. seen \in [history : Seq(Reached), count : Nat] /\ stage \in Reached
  BY <1>1, OwnRequest, StageOfReached DEF Progress
<1>10. seen.history \in Seq(Reached) /\ seen.count \in Nat
  BY <1>9
<1>11. /\ Append(seen.history, stage) # <<>>
       /\ Len(Append(seen.history, stage)) = Len(seen.history) + 1
       /\ Last(Append(seen.history, stage)) = stage
  BY <1>9, <1>10 DEF Last
<1>12. alone[ip] => seen.count = Len(seen.history) /\ c.stage = stage
  BY <1>1, OwnRequest DEF Kept
<1>. HIDE DEF r, seen, c, stage
<1>13. alone[ip] => InOrder(chain'[ip]) /\ chain'[ip].stage = stage
  BY <1>5, <1>7, <1>11, <1>12 DEF InOrder
<1>14. r.technique = req[t].technique => StageOf(r.technique) = stage
  BY DEF stage
<1>15. alone[ip] => Kept(r, chain'[ip])
  BY <1>8, <1>13, <1>14 DEF Kept
<1>. QED  BY <1>1, <1>2, <1>4, <1>8, <1>15, OwnRequest, OwnChain

\* The stage is read back, and nobody has moved it.
LEMMA PredictCInv == ASSUME IInv, CInv, NEW t \in Threads, Predict(t) PROVE CInv'
<1>. DEFINE c == chain[req[t].ip]
            r == [req[t] EXCEPT !.stage = c.stage, !.score = req[t].score + 25, !.pc = "look"]
<1>1. req[t].pc = "predict" /\ chain' = chain /\ alone' = alone
  BY DEF Predict, At
<1>2. req' = [req EXCEPT ![t] = r]
  BY DEF Predict, IInv, TypeOK
<1>3. r.pc = "look" /\ r.ip = req[t].ip /\ r.technique = req[t].technique /\ r.stage = c.stage
  BY <1>1, OwnRequest DEF Requests
<1>4. alone[req[t].ip] => InOrder(c) /\ c.stage = StageOf(req[t].technique)
  BY <1>1, OwnRequest DEF Kept
<1>5. chain'[req[t].ip] = c
  BY <1>1
<1>. HIDE DEF r, c
<1>6. alone[req[t].ip] => Kept(r, c)
  BY <1>3, <1>4 DEF Kept
<1>. QED  BY <1>1, <1>2, <1>3, <1>5, <1>6, OwnRequest, OwnChain

LEMMA LookUpCInv == ASSUME IInv, CInv, NEW t \in Threads, LookUp(t) PROVE CInv'
<1>. DEFINE r == [req[t] EXCEPT !.pc = "walk"]
<1>1. req[t].pc = "look" /\ chain' = chain /\ alone' = alone
  BY DEF LookUp, At
<1>2. req' = [req EXCEPT ![t] = r]
  BY DEF LookUp, IInv, TypeOK
<1>3. r.pc = "walk" /\ r.ip = req[t].ip /\ r.technique = req[t].technique /\ r.stage = req[t].stage
  BY <1>1, OwnRequest DEF Requests
<1>. HIDE DEF r
<1>4. alone[req[t].ip] => Kept(r, chain'[req[t].ip])
  BY <1>1, <1>3, OwnRequest DEF Kept
<1>. QED  BY <1>1, <1>2, <1>3, <1>4, OwnRequest, OwnChain

LEMMA WalkCInv == ASSUME IInv, CInv, NEW t \in Threads, Walk(t) PROVE CInv'
<1>. DEFINE cross == Company(req[t].ip, ja3Clusters[req[t].hash]) # {}
            score == IF cross THEN req[t].score + CrossScore ELSE req[t].score
            r == [req[t] EXCEPT !.cross = cross, !.pc = "decide", !.score = score]
<1>1. req[t].pc = "walk" /\ chain' = chain /\ alone' = alone
  BY DEF Walk, At
<1>2. req' = [req EXCEPT ![t] = r]
  BY DEF Walk, IInv, TypeOK
<1>. HIDE DEF cross, score
<1>3. r.pc = "decide" /\ r.ip = req[t].ip /\ r.technique = req[t].technique /\ r.stage = req[t].stage
  BY <1>1, OwnRequest DEF Requests
<1>. HIDE DEF r
<1>4. alone[req[t].ip] => Kept(r, chain'[req[t].ip])
  BY <1>1, <1>3, OwnRequest DEF Kept
<1>. QED  BY <1>1, <1>2, <1>3, <1>4, OwnRequest, OwnChain

\* Whatever the score, the stage of an attack that is not mere probing is answered.
LEMMA AttackAnswered ==
  ASSUME NEW q \in {"sql", "xss", "traversal"}, NEW score \in 0..75
  PROVE  Decided(StageOf(q), score) \in Responses
BY SMT DEF Decided, StageAction, StageOf, Responses

LEMMA ExecuteCInv == ASSUME IInv, CInv, NEW t \in Threads, Execute(t) PROVE CInv'
<1>. DEFINE action == Decided(req[t].stage, req[t].score)
            r == [req[t] EXCEPT !.action = action, !.pc = "served"]
<1>1. req[t].pc = "decide" /\ chain' = chain /\ alone' = alone
  BY DEF Execute, At
<1>2. req' = [req EXCEPT ![t] = r]
  BY DEF Execute, IInv, TypeOK
<1>3. req[t].score \in 0..75
  BY <1>1, OwnRequest, RequestScore
<1>4. alone[req[t].ip] /\ req[t].technique \in {"sql", "xss", "traversal"} => action \in Responses
  <2>. SUFFICES ASSUME alone[req[t].ip], req[t].technique \in {"sql", "xss", "traversal"}
                PROVE  action \in Responses
    OBVIOUS
  <2>1. req[t].stage = StageOf(req[t].technique)
    BY <1>1, OwnRequest DEF Kept, Techniques
  <2>. QED  BY <1>3, <2>1, AttackAnswered
<1>. HIDE DEF action
<1>5. r.pc = "served" /\ r.ip = req[t].ip /\ r.technique = req[t].technique /\ r.action = action
  BY <1>1, OwnRequest DEF Requests
<1>. HIDE DEF r
<1>6. alone[req[t].ip] => Kept(r, chain'[req[t].ip])
  BY <1>1, <1>4, <1>5, OwnRequest DEF Kept
<1>. QED  BY <1>1, <1>2, <1>5, <1>6, OwnRequest, OwnChain

\* The chain is left in order.
LEMMA FinishCInv == ASSUME IInv, CInv, NEW t \in Threads, Finish(t) PROVE CInv'
<1>1. /\ req[t].pc = "served" /\ chain' = chain /\ alone' = alone
      /\ \A u \in Threads : req'[u] = IF u = t THEN Idle ELSE req[u]
  BY DEF Finish, At, IInv, TypeOK
<1>2. \A u \in Threads, i \in IPs : Serving(u, i)' <=> (u # t /\ Serving(u, i))
  BY <1>1 DEF Serving, Idle
<1>3. OneAtATime'
  BY <1>1, <1>2 DEF CInv, OneAtATime
<1>4. \A i \in IPs : alone'[i] /\ (\A u \in Threads : ~Serving(u, i)') => InOrder(chain'[i])
  <2>. SUFFICES ASSUME NEW i \in IPs, alone[i], \A u \in Threads : ~Serving(u, i)'
                PROVE  InOrder(chain[i])
    BY <1>1
  <2>1. CASE Serving(t, i)
    <3>1. Kept(req[t], chain[i])
      BY <2>1 DEF CInv
    <3>. QED  BY <3>1, <1>1 DEF Kept
  <2>2. CASE ~Serving(t, i)
    <3>1. \A u \in Threads : ~Serving(u, i)
      BY <2>2, <1>2
    <3>. QED  BY <3>1 DEF CInv
  <2>. QED  BY <2>1, <2>2
<1>5. \A u \in Threads : \A i \in IPs : Serving(u, i)' /\ alone'[i] => Kept(req'[u], chain'[i])
  BY <1>1, <1>2 DEF CInv
<1>. QED  BY <1>3, <1>4, <1>5 DEF CInv

LEMMA NextCInv == IInv /\ CInv /\ [Next]_vars => CInv'
<1>. SUFFICES ASSUME IInv, CInv, [Next]_vars PROVE CInv'
  OBVIOUS
<1>1. CASE UNCHANGED vars
  BY <1>1 DEF CInv, OneAtATime, Serving, vars
<1>2. ASSUME NEW t \in Threads, NEW ip \in IPs, NEW h \in Hashes,
             NEW q \in Techniques \cup {None}, Arrive(t, ip, h, q)
      PROVE  CInv'
  BY <1>2, ArriveCInv
<1>3. ASSUME NEW t \in Threads, Step(t) PROVE CInv'
  BY <1>3, ClusterCInv, DetectCInv, TransitionCInv, RecordCInv, PredictCInv, LookUpCInv,
     WalkCInv, ExecuteCInv, FinishCInv DEF Step
<1>. QED  BY <1>1, <1>2, <1>3 DEF Next

\* Between its moves the chain of an address is in order, however the requests of
\* other addresses interleave with its own, as long as its own come one by one
\* (transition, which no lock protects).
THEOREM ChainStaysInOrder == Spec => []ChainIsInOrder
<1>1. CInv => ChainIsInOrder
  <2>. SUFFICES ASSUME CInv, NEW ip \in IPs, alone[ip],
                       \A t \in Threads : req[t].pc = "record" => req[t].ip # ip
                PROVE  InOrder(chain[ip])
    BY DEF ChainIsInOrder, InOrder
  <2>1. CASE \A t \in Threads : ~Serving(t, ip)
    BY <2>1 DEF CInv
  <2>2. ASSUME NEW t \in Threads, Serving(t, ip) PROVE InOrder(chain[ip])
    <3>1. Kept(req[t], chain[ip]) /\ req[t].pc # "record"
      BY <2>2 DEF CInv, Serving
    <3>. QED  BY <3>1 DEF Kept
  <2>. QED  BY <2>1, <2>2
<1>. QED  BY <1>1, InitIInv, NextIInv, InitCInv, NextCInv, PTL DEF Spec

\* An injection or a traversal is at least slowed down, for any score it collects and
\* whatever the requests of other addresses do, unless another request of its own
\* address moved the chain meanwhile (DetectTechnique, determineCountermeasure).
THEOREM AttacksAreAlwaysAnswered == Spec => []AttacksAreAnswered
<1>1. IInv /\ CInv => AttacksAreAnswered
  <2>. SUFFICES ASSUME IInv, CInv, NEW t \in Threads, req[t].pc = "served", alone[req[t].ip],
                       req[t].technique \in {"sql", "xss", "traversal"}
                PROVE  req[t].action \in Responses
    BY DEF AttacksAreAnswered, Responses
  <2>. QED  BY OwnRequest DEF Kept
<1>. QED  BY <1>1, InitIInv, NextIInv, InitCInv, NextCInv, PTL DEF Spec

-----------------------------------------------------------------------------
(* The clusters, which only grow, and what a request has seen of its own.  *)

Crossed(r, cluster) ==
  /\ r.company \subseteq cluster \ {r.ip}
  /\ r.cross => cluster \ {r.ip} # {}
  /\ r.pc \in {"decide", "served"} /\ r.company # {} => r.cross

XInv == \A t \in Threads : req[t].pc # "idle" => Crossed(req[t], ja3Clusters[req[t].hash])

\* No step takes an address out of a cluster.
LEMMA ClustersGrow ==
  ASSUME IInv, [Next]_vars
  PROVE  \A h \in Hashes : ja3Clusters[h] \subseteq ja3Clusters'[h]
<1>1. ASSUME NEW t \in Threads, Cluster(t)
      PROVE  \A h \in Hashes : ja3Clusters[h] \subseteq ja3Clusters'[h]
  BY <1>1 DEF Cluster, IInv, TypeOK
<1>2. CASE UNCHANGED ja3Clusters
  BY <1>2
<1>. QED
  BY <1>1, <1>2 DEF Next, Step, vars, Arrive, Detect, Transition, Record, Predict, LookUp, Walk,
                    Execute, Finish

\* A cluster that grows takes back nothing that was true of it.
LEMMA CrossedStays ==
  ASSUME NEW r, NEW c, NEW d, c \subseteq d, Crossed(r, c)
  PROVE  Crossed(r, d)
BY DEF Crossed

\* So a step need only be looked at where it changes a request.
LEMMA OwnCluster ==
  ASSUME IInv, XInv, [Next]_vars, NEW t \in Threads, NEW r, req' = [req EXCEPT ![t] = r],
         r.pc # "idle" => Crossed(r, ja3Clusters'[r.hash])
  PROVE  XInv'
<1>. SUFFICES ASSUME NEW u \in Threads, req'[u].pc # "idle"
              PROVE  Crossed(req'[u], ja3Clusters'[req'[u].hash])
  BY DEF XInv
<1>1. req'[u] = IF u = t THEN r ELSE req[u]
  BY DEF IInv, TypeOK
<1>2. CASE u = t
  BY <1>1, <1>2
<1>3. CASE u # t
  <2>1. req'[u] = req[u] /\ req[u].pc # "idle" /\ Crossed(req[u], ja3Clusters[req[u].hash])
    BY <1>1, <1>3 DEF XInv
  <2>2. req[u].hash \in Hashes
    BY <2>1, AtWork DEF Requests
  <2>. QED  BY <2>1, <2>2, ClustersGrow, CrossedStays
<1>. QED  BY <1>2, <1>3

\* A request that keeps what it has seen, and does not reach its decision.
LEMMA SeesTheSame ==
  ASSUME IInv, XInv, [Next]_vars, NEW t \in Threads, NEW r,
         req[t].pc # "idle", req' = [req EXCEPT ![t] = r],
         r.ip = req[t].ip, r.hash = req[t].hash, r.company = req[t].company, r.cross = req[t].cross,
         r.pc \in {"decide", "served"} => req[t].pc \in {"decide", "served"}
  PROVE  XInv'
<1>1. Crossed(req[t], ja3Clusters[req[t].hash]) /\ req[t].hash \in Hashes
  BY AtWork DEF XInv, Requests
<1>2. Crossed(req[t], ja3Clusters'[r.hash])
  BY <1>1, ClustersGrow, CrossedStays
<1>3. Crossed(r, ja3Clusters'[r.hash])
  BY <1>2 DEF Crossed
<1>. QED  BY <1>3, OwnCluster

LEMMA InitXInv == Init => XInv
BY DEF Init, XInv, Idle

\* Two steps tell the request something of its cluster: when it comes in, ...
LEMMA ArriveXInv ==
  ASSUME IInv, XInv, NEW t \in Threads, NEW ip \in IPs, NEW h \in Hashes,
         NEW q \in Techniques \cup {None}, Arrive(t, ip, h, q), [Next]_vars
  PROVE  XInv'
<1>. DEFINE r == [pc |-> "cluster", ip |-> ip, hash |-> h, technique |-> q,
                  score |-> 0, stage |-> None, cross |-> FALSE, seen |-> None,
                  action |-> "pass", company |-> ja3Clusters[h] \ {ip}]
<1>1. req' = [req EXCEPT ![t] = r] /\ ja3Clusters' = ja3Clusters
  BY DEF Arrive, IInv, Blocked
<1>2. Crossed(r, ja3Clusters'[r.hash])
  BY <1>1 DEF Crossed
<1>. QED  BY <1>1, <1>2, OwnCluster

\* ... and when it walks the cluster, which then holds all that it held before.
LEMMA WalkXInv ==
  ASSUME IInv, XInv, NEW t \in Threads, Walk(t), [Next]_vars
  PROVE  XInv'
<1>. DEFINE cluster == ja3Clusters[req[t].hash]
            cross == Company(req[t].ip, cluster) # {}
            score == IF cross THEN req[t].score + CrossScore ELSE req[t].score
            r == [req[t] EXCEPT !.cross = cross, !.pc = "decide", !.score = score]
<1>1. req[t].pc = "walk" /\ ja3Clusters' = ja3Clusters
  BY DEF Walk, At
<1>2. req' = [req EXCEPT ![t] = r]
  BY DEF Walk, IInv, TypeOK
<1>3. Crossed(req[t], cluster)
  BY <1>1 DEF XInv
<1>4. cross = (cluster \ {req[t].ip} # {})
  BY DEF Company
<1>. HIDE DEF score, cross
<1>5. /\ r.ip = req[t].ip /\ r.hash = req[t].hash /\ r.company = req[t].company
      /\ r.cross = cross
  BY <1>1, AtWork DEF Requests
<1>. HIDE DEF r
<1>6. ja3Clusters'[r.hash] = cluster
  BY <1>1, <1>5
<1>. HIDE DEF cluster
<1>7. Crossed(r, cluster)
  BY <1>3, <1>4, <1>5 DEF Crossed
<1>. QED  BY <1>2, <1>6, <1>7, OwnCluster

LEMMA StepXInv ==
  ASSUME IInv, XInv, [Next]_vars, NEW t \in Threads, Step(t)
  PROVE  XInv'
<1>1. req[t].pc # "idle" => req[t] \in Requests
  BY AtWork
<1>2. CASE Cluster(t)
  <2>. DEFINE score == IF req[t].hash \in KnownBad THEN 30 ELSE 0
              r == [req[t] EXCEPT !.pc = "detect", !.score = score]
  <2>1. req' = [req EXCEPT ![t] = r] /\ req[t].pc = "cluster"
    BY <1>2 DEF Cluster, At, IInv, TypeOK
  <2>. HIDE DEF score
  <2>2. /\ r.ip = req[t].ip /\ r.hash = req[t].hash /\ r.company = req[t].company
        /\ r.cross = req[t].cross /\ r.pc = "detect"
    BY <1>1, <2>1 DEF Requests
  <2>. QED  BY <2>1, <2>2, SeesTheSame
<1>3. CASE Detect(t)
  <2>. DEFINE c == chain[req[t].ip]
              pc == IF req[t].technique = None THEN "look"
                    ELSE IF StageOf(req[t].technique) # c.stage THEN "move" ELSE "predict"
              r == [req[t] EXCEPT !.stage = c.stage, !.pc = pc]
  <2>1. req' = [req EXCEPT ![t] = r] /\ req[t].pc = "detect" /\ pc \notin {"decide", "served"}
    BY <1>3 DEF Detect, At, IInv, TypeOK
  <2>. HIDE DEF c, pc
  <2>2. /\ r.ip = req[t].ip /\ r.hash = req[t].hash /\ r.company = req[t].company
        /\ r.cross = req[t].cross /\ r.pc = pc
    BY <1>1, <2>1 DEF Requests
  <2>. QED  BY <2>1, <2>2, SeesTheSame
<1>4. CASE Transition(t)
  <2>. DEFINE seen == [history |-> chain[req[t].ip].history, count |-> chain[req[t].ip].count]
              r == [req[t] EXCEPT !.pc = "record", !.seen = seen]
  <2>1. req' = [req EXCEPT ![t] = r] /\ req[t].pc = "move"
    BY <1>4 DEF Transition, At, IInv, TypeOK
  <2>. HIDE DEF seen
  <2>2. /\ r.ip = req[t].ip /\ r.hash = req[t].hash /\ r.company = req[t].company
        /\ r.cross = req[t].cross /\ r.pc = "record"
    BY <1>1, <2>1 DEF Requests
  <2>. QED  BY <2>1, <2>2, SeesTheSame
<1>5. CASE Record(t)
  <2>. DEFINE r == [req[t] EXCEPT !.pc = "predict", !.seen = None]
  <2>1. req' = [req EXCEPT ![t] = r] /\ req[t].pc = "record"
    BY <1>5 DEF Record, At, IInv, TypeOK
  <2>2. /\ r.ip = req[t].ip /\ r.hash = req[t].hash /\ r.company = req[t].company
        /\ r.cross = req[t].cross /\ r.pc = "predict"
    BY <1>1, <2>1 DEF Requests
  <2>. QED  BY <2>1, <2>2, SeesTheSame
<1>6. CASE Predict(t)
  <2>. DEFINE c == chain[req[t].ip]
              score == req[t].score + 25
              r == [req[t] EXCEPT !.stage = c.stage, !.score = score, !.pc = "look"]
  <2>1. req' = [req EXCEPT ![t] = r] /\ req[t].pc = "predict"
    BY <1>6 DEF Predict, At, IInv, TypeOK
  <2>. HIDE DEF c, score
  <2>2. /\ r.ip = req[t].ip /\ r.hash = req[t].hash /\ r.company = req[t].company
        /\ r.cross = req[t].cross /\ r.pc = "look"
    BY <1>1, <2>1 DEF Requests
  <2>. QED  BY <2>1, <2>2, SeesTheSame
<1>7. CASE LookUp(t)
  <2>. DEFINE r == [req[t] EXCEPT !.pc = "walk"]
  <2>1. req' = [req EXCEPT ![t] = r] /\ req[t].pc = "look"
    BY <1>7 DEF LookUp, At, IInv, TypeOK
  <2>2. /\ r.ip = req[t].ip /\ r.hash = req[t].hash /\ r.company = req[t].company
        /\ r.cross = req[t].cross /\ r.pc = "walk"
    BY <1>1, <2>1 DEF Requests
  <2>. QED  BY <2>1, <2>2, SeesTheSame
<1>8. CASE Walk(t)
  BY <1>8, WalkXInv
<1>9. CASE Execute(t)
  <2>. DEFINE action == Decided(req[t].stage, req[t].score)
              r == [req[t] EXCEPT !.action = action, !.pc = "served"]
  <2>1. req' = [req EXCEPT ![t] = r] /\ req[t].pc = "decide"
    BY <1>9 DEF Execute, At, IInv, TypeOK
  <2>. HIDE DEF action
  <2>2. /\ r.ip = req[t].ip /\ r.hash = req[t].hash /\ r.company = req[t].company
        /\ r.cross = req[t].cross
    BY <1>1, <2>1 DEF Requests
  <2>. QED  BY <2>1, <2>2, SeesTheSame
<1>10. CASE Finish(t)
  BY <1>10, OwnCluster DEF Finish, Idle
<1>. QED  BY <1>2, <1>3, <1>4, <1>5, <1>6, <1>7, <1>8, <1>9, <1>10 DEF Step

LEMMA NextXInv == IInv /\ XInv /\ [Next]_vars => XInv'
<1>. SUFFICES ASSUME IInv, XInv, [Next]_vars PROVE XInv'
  OBVIOUS
<1>1. CASE UNCHANGED vars
  BY <1>1 DEF XInv, vars
<1>2. ASSUME NEW t \in Threads, NEW ip \in IPs, NEW h \in Hashes,
             NEW q \in Techniques \cup {None}, Arrive(t, ip, h, q)
      PROVE  XInv'
  BY <1>2, ArriveXInv
<1>3. ASSUME NEW t \in Threads, Step(t) PROVE XInv'
  BY <1>3, StepXInv
<1>. QED  BY <1>1, <1>2, <1>3 DEF Next

\* A session is crossed only if two addresses have its fingerprint, and is so whenever
\* another had it when the request came in, though the table lets go of its lock
\* before the cluster is walked (clusterJA3, isCrossSession).
THEOREM CrossedIsAlwaysRight == Spec => []CrossedIsRight
<1>1. XInv => CrossedIsRight
  BY DEF XInv, CrossedIsRight, Crossed
<1>. QED  BY <1>1, InitIInv, NextIInv, InitXInv, NextXInv, PTL DEF Spec

-----------------------------------------------------------------------------
(* Proof of work.                                                          *)

Entries == [token : Nat, at : Nat]

TokensTyped ==
  /\ issued \in Seq(Nat)
  /\ tokens \subseteq DOMAIN issued
  /\ now \in Nat
  /\ passed \in Seq(Entries)

\* What a request that names a token is about, and when it was refused.
RequestOK(r) ==
  /\ r.pc \in {"validate", "refused"} => r.token \in 0..Len(issued)
  /\ r.pc = "refused" => r.at \in 0..now

\* An entry of the history was let through in time, with a token that is gone.
EntryOK(e) ==
  /\ e.token \in DOMAIN issued \ tokens
  /\ e.at <= now
  /\ e.at <= issued[e.token] + TokenTTL

Used(k) == \E i \in DOMAIN passed : passed[i].token = k

\* A token is gone because a request used it, or because its time is over.
GoneForCause == \A k \in DOMAIN issued \ tokens : Used(k) \/ PoW!Expired(k)

Distinct == \A i, j \in DOMAIN passed : passed[i].token = passed[j].token => i = j

PowInv ==
  /\ TokensTyped
  /\ DOMAIN req = Threads
  /\ \A t \in Threads : RequestOK(req[t])
  /\ \A i \in DOMAIN passed : EntryOK(passed[i])
  /\ GoneForCause
  /\ Distinct
  /\ PoW!RightAnswersPass

-----------------------------------------------------------------------------
\* Nothing that only moves a request which is not refused afterwards disturbs the
\* invariant.
LEMMA Moved ==
  ASSUME PowInv, UNCHANGED <<tokens, issued, now, passed>>,
         NEW t \in Threads, NEW r, req' = [req EXCEPT ![t] = r],
         r.pc # "refused", r.pc = "validate" => r.token \in 0..Len(issued)
  PROVE  PowInv'
<1>1. TokensTyped' /\ DOMAIN req' = Threads BY DEF PowInv, TokensTyped
<1>2. \A u \in Threads : req'[u] = IF u = t THEN r ELSE req[u] BY DEF PowInv
<1>3. \A u \in Threads : RequestOK(req[u])' BY <1>2 DEF PowInv, RequestOK
<1>4. \A i \in DOMAIN passed' : EntryOK(passed[i])' BY DEF PowInv, EntryOK
<1>5. GoneForCause' /\ Distinct' BY DEF PowInv, GoneForCause, Used, PoW!Expired, Distinct
<1>6. PoW!RightAnswersPass' BY <1>2 DEF PowInv, PoW!RightAnswersPass
<1> QED BY <1>1, <1>3, <1>4, <1>5, <1>6 DEF PowInv

LEMMA ArriveKeeps ==
  ASSUME PowInv, NEW t \in Threads, NEW token \in 0..Len(issued) \cup {None},
         NEW right \in BOOLEAN, PoW!Arrive(t, token, right)
  PROVE  PowInv'
<1> DEFINE r == [pc |-> IF token = None THEN "challenge" ELSE "validate",
                 token |-> token, right |-> right]
<1>1. r.pc # "refused" OBVIOUS
<1>2. r.pc = "validate" => r.token \in 0..Len(issued) OBVIOUS
<1>3. req' = [req EXCEPT ![t] = r] /\ UNCHANGED <<tokens, issued, now, passed>> BY DEF PoW!Arrive
<1> HIDE DEF r
<1> QED BY <1>1, <1>2, <1>3, Moved

LEMMA PassKeeps ==
  ASSUME PowInv, NEW t \in Threads, PoW!Pass(t)
  PROVE  PowInv'
<1>1. PoW!Idle.pc # "refused" /\ PoW!Idle.pc # "validate" BY DEF PoW!Idle
<1>2. req' = [req EXCEPT ![t] = PoW!Idle] /\ UNCHANGED <<tokens, issued, now, passed>> BY DEF PoW!Pass
<1> QED BY <1>1, <1>2, Moved

\* A new challenge is in the table and has no entry.
LEMMA ChallengeKeeps ==
  ASSUME PowInv, PoW!TokenAssumption, NEW t \in Threads, PoW!Challenge(t)
  PROVE  PowInv'
<1> USE DEF PoW!TokenAssumption
<1> DEFINE n == Len(issued) + 1
<1>1. /\ issued' = Append(issued, now) /\ tokens' = tokens \cup {n}
      /\ req' = [req EXCEPT ![t] = PoW!Idle] /\ now' = now /\ passed' = passed
  BY DEF PoW!Challenge
<1>2. TokensTyped BY DEF PowInv
<1>3. /\ DOMAIN issued' = DOMAIN issued \cup {n} /\ n \notin DOMAIN issued
      /\ Len(issued') = n /\ n \in Nat /\ Len(issued) \in Nat
      /\ \A k \in DOMAIN issued : issued'[k] = issued[k]
  BY <1>1, <1>2 DEF TokensTyped
<1>4. TokensTyped' BY <1>1, <1>2, <1>3 DEF TokensTyped
<1>5. \A u \in Threads : req'[u] = IF u = t THEN PoW!Idle ELSE req[u] BY <1>1 DEF PowInv
<1>6. DOMAIN req' = Threads BY <1>1 DEF PowInv
<1>7. \A u \in Threads : RequestOK(req[u])' BY <1>1, <1>3, <1>5 DEF PowInv, RequestOK, PoW!Idle
<1>8. \A i \in DOMAIN passed' : EntryOK(passed[i])' BY <1>1, <1>3 DEF PowInv, EntryOK
<1>9. GoneForCause' BY <1>1, <1>3 DEF PowInv, GoneForCause, Used, PoW!Expired
<1>10. Distinct' BY <1>1 DEF PowInv, Distinct
<1>11. PoW!RightAnswersPass'
  <2> SUFFICES ASSUME NEW u \in Threads, req'[u].pc = "refused", req'[u].right,
                      req'[u].token \in DOMAIN issued'
               PROVE  \/ req'[u].at > issued'[req'[u].token] + TokenTTL
                      \/ \E i \in DOMAIN passed' :
                           passed'[i].token = req'[u].token /\ passed'[i].at <= req'[u].at
    BY DEF PoW!RightAnswersPass
  <2>1. req'[u] = req[u] /\ req[u].pc = "refused" BY <1>5 DEF PoW!Idle
  <2>2. req[u].token \in DOMAIN issued BY <2>1, <1>2, <1>3 DEF PowInv, RequestOK, TokensTyped
  <2> QED BY <2>1, <2>2, <1>1, <1>3 DEF PowInv, PoW!RightAnswersPass
<1> QED BY <1>4, <1>6, <1>7, <1>8, <1>9, <1>10, <1>11 DEF PowInv

\* Time makes tokens expire, and changes nothing else.
LEMMA TickKeeps ==
  ASSUME PowInv, PoW!TokenAssumption, PoW!Tick
  PROVE  PowInv'
<1> USE DEF PoW!TokenAssumption
<1>1. now' = now + 1 /\ UNCHANGED <<tokens, issued, req, passed>> BY DEF PoW!Tick
<1>2. TokensTyped' BY <1>1 DEF PowInv, TokensTyped
<1>3. DOMAIN req' = Threads /\ \A u \in Threads : RequestOK(req[u])'
  BY <1>1 DEF PowInv, RequestOK, TokensTyped
<1>4. \A i \in DOMAIN passed' : EntryOK(passed[i])'
  <2> SUFFICES ASSUME NEW i \in DOMAIN passed PROVE EntryOK(passed[i])' BY <1>1
  <2>1. EntryOK(passed[i]) BY DEF PowInv
  <2>2. passed[i] \in Entries BY DEF PowInv, TokensTyped
  <2>3. passed[i].at \in Nat BY <2>2 DEF Entries
  <2> QED BY <1>1, <2>1, <2>3 DEF EntryOK, PowInv, TokensTyped
<1>5. GoneForCause'
  <2> SUFFICES ASSUME NEW k \in DOMAIN issued \ tokens, ~Used(k) PROVE PoW!Expired(k)'
    BY <1>1 DEF GoneForCause, Used
  <2>1. PoW!Expired(k) /\ issued[k] \in Nat /\ now \in Nat BY DEF PowInv, GoneForCause, TokensTyped
  <2> QED BY <1>1, <2>1 DEF PoW!Expired
<1>6. Distinct' /\ PoW!RightAnswersPass' BY <1>1 DEF PowInv, Distinct, PoW!RightAnswersPass
<1> QED BY <1>2, <1>3, <1>4, <1>5, <1>6 DEF PowInv

-----------------------------------------------------------------------------
\* A request that passes takes its token out; one that is refused found its token
\* gone, or takes it out because its time is over, or has a wrong nonce.
LEMMA ValidateKeeps ==
  ASSUME PowInv, PoW!TokenAssumption, NEW t \in Threads, PoW!Validate(t)
  PROVE  PowInv'
<1> USE DEF PoW!TokenAssumption
<1> DEFINE token == req[t].token
           right == req[t].right
           pass == token \in tokens /\ ~PoW!Expired(token) /\ right
           entry == [token |-> token, at |-> now]
           r == [pc |-> IF pass THEN "pass" ELSE "refused",
                 token |-> token, right |-> right, at |-> now]
<1>1. /\ req[t].pc = "validate"
      /\ tokens' = IF token \in tokens THEN tokens \ PoW!Dropped(token, right) ELSE tokens
      /\ passed' = IF pass THEN Append(passed, entry) ELSE passed
      /\ req' = [req EXCEPT ![t] = r]
      /\ issued' = issued /\ now' = now
  BY DEF PoW!Validate
<1>2. TokensTyped /\ token \in 0..Len(issued) BY <1>1 DEF PowInv, RequestOK
<1>3. \A u \in Threads : req'[u] = IF u = t THEN r ELSE req[u] BY <1>1 DEF PowInv
<1>4. /\ r.token = token /\ r.right = right /\ r.at = now
      /\ r.pc \in {"pass", "refused"} /\ (r.pc = "refused" <=> ~pass)
  OBVIOUS
<1>5. tokens' \subseteq tokens BY <1>1
<1>6. pass => tokens' = tokens \ {token} BY <1>1 DEF PoW!Dropped
<1>7. \A k \in tokens \ tokens' : k = token /\ (PoW!Expired(k) \/ pass) BY <1>1 DEF PoW!Dropped
<1>8. entry.token = token /\ entry.at = now OBVIOUS
<1>9. token \in Nat /\ now \in Nat /\ entry \in Entries BY <1>2 DEF TokensTyped, Entries
<1>10. /\ DOMAIN passed \subseteq DOMAIN passed'
       /\ \A i \in DOMAIN passed : passed'[i] = passed[i]
       /\ \A i \in DOMAIN passed' \ DOMAIN passed : pass /\ passed'[i] = entry /\ i = Len(passed) + 1
       /\ pass => Len(passed) + 1 \in DOMAIN passed' /\ passed'[Len(passed) + 1] = entry
  BY <1>1, <1>2 DEF TokensTyped
<1>11. TokensTyped' BY <1>1, <1>2, <1>5, <1>9 DEF TokensTyped
<1> HIDE DEF token, right, pass, entry, r
<1>12. DOMAIN req' = Threads BY <1>1 DEF PowInv
<1>13. \A u \in Threads : RequestOK(req[u])'
  BY <1>1, <1>2, <1>3, <1>4, <1>9 DEF PowInv, RequestOK
<1>14. \A i \in DOMAIN passed' : EntryOK(passed[i])'
  <2> SUFFICES ASSUME NEW i \in DOMAIN passed' PROVE EntryOK(passed[i])' OBVIOUS
  <2>1. CASE i \in DOMAIN passed
    BY <2>1, <1>1, <1>5, <1>10 DEF PowInv, EntryOK
  <2>2. CASE i \notin DOMAIN passed
    <3>1. pass /\ passed'[i] = entry BY <2>2, <1>10
    <3>2. token \in tokens /\ ~PoW!Expired(token) BY <3>1 DEF pass
    <3>3. token \in DOMAIN issued /\ issued[token] \in Nat BY <3>2, <1>2 DEF TokensTyped
    <3>4. now <= issued[token] + TokenTTL BY <3>2, <3>3, <1>9 DEF PoW!Expired
    <3> QED BY <3>1, <3>3, <3>4, <1>1, <1>6, <1>8, <1>9 DEF EntryOK
  <2> QED BY <2>1, <2>2
<1>15. GoneForCause'
  <2> SUFFICES ASSUME NEW k \in DOMAIN issued \ tokens' PROVE Used(k)' \/ PoW!Expired(k)'
    BY <1>1 DEF GoneForCause
  <2>1. CASE k \notin tokens
    BY <2>1, <1>1, <1>10 DEF PowInv, GoneForCause, Used, PoW!Expired
  <2>2. CASE k \in tokens
    <3>1. k = token /\ (PoW!Expired(k) \/ pass) BY <2>2, <1>7
    <3>2. pass => Used(k)' BY <3>1, <1>8, <1>10 DEF Used
    <3> QED BY <3>1, <3>2, <1>1 DEF PoW!Expired
  <2> QED BY <2>1, <2>2
<1>16. Distinct'
  <2>1. pass => \A i \in DOMAIN passed : passed[i].token # token BY DEF PowInv, EntryOK, pass
  <2> QED BY <2>1, <1>8, <1>10 DEF PowInv, Distinct
<1>17. PoW!RightAnswersPass'
  <2> SUFFICES ASSUME NEW u \in Threads, req'[u].pc = "refused", req'[u].right,
                      req'[u].token \in DOMAIN issued'
               PROVE  \/ req'[u].at > issued'[req'[u].token] + TokenTTL
                      \/ \E i \in DOMAIN passed' :
                           passed'[i].token = req'[u].token /\ passed'[i].at <= req'[u].at
    BY DEF PoW!RightAnswersPass
  <2>1. CASE u # t
    BY <2>1, <1>1, <1>3, <1>10 DEF PowInv, PoW!RightAnswersPass
  <2>2. CASE u = t
    <3>1. req'[u] = r /\ ~pass /\ right /\ token \in DOMAIN issued
      BY <2>2, <1>1, <1>3, <1>4
    <3>2. token \notin tokens \/ PoW!Expired(token) BY <3>1 DEF pass
    <3>3. CASE PoW!Expired(token)
      BY <3>1, <3>3, <1>1, <1>4 DEF PoW!Expired
    <3>4. CASE Used(token)
      BY <3>1, <3>4, <1>1, <1>4, <1>10 DEF Used, PowInv, EntryOK
    <3>5. token \notin tokens => Used(token) \/ PoW!Expired(token) BY <3>1 DEF PowInv, GoneForCause
    <3> QED BY <3>2, <3>3, <3>4, <3>5
  <2> QED BY <2>1, <2>2
<1> QED BY <1>11, <1>12, <1>13, <1>14, <1>15, <1>16, <1>17 DEF PowInv

-----------------------------------------------------------------------------
LEMMA InitHolds == PoW!Init => PowInv
BY DEF PoW!Init, PowInv, TokensTyped, RequestOK, PoW!Idle, GoneForCause, Distinct, PoW!RightAnswersPass

LEMMA StepKeeps ==
  ASSUME PoW!TokenAssumption
  PROVE  PowInv /\ [PoW!Next]_PoW!vars => PowInv'
<1> SUFFICES ASSUME PowInv, [PoW!Next]_PoW!vars PROVE PowInv' OBVIOUS
<1>1. ASSUME NEW t \in Threads, NEW token \in 0..Len(issued) \cup {None},
             NEW right \in BOOLEAN, PoW!Arrive(t, token, right)
      PROVE  PowInv'
  BY <1>1, ArriveKeeps
<1>2. ASSUME NEW t \in Threads, PoW!Validate(t) PROVE PowInv' BY <1>2, ValidateKeeps
<1>3. ASSUME NEW t \in Threads, PoW!Challenge(t) PROVE PowInv' BY <1>3, ChallengeKeeps
<1>4. ASSUME NEW t \in Threads, PoW!Pass(t) PROVE PowInv' BY <1>4, PassKeeps
<1>5. CASE PoW!Tick BY <1>5, TickKeeps
<1>6. CASE UNCHANGED PoW!vars
  BY <1>6 DEF PoW!vars, PowInv, TokensTyped, RequestOK, EntryOK, GoneForCause, Used, PoW!Expired, Distinct,
              PoW!RightAnswersPass
<1> QED BY <1>1, <1>2, <1>3, <1>4, <1>5, <1>6 DEF PoW!Next

LEMMA InvariantCounts == PowInv => PoW!ChallengesCountOnce
BY DEF PowInv, PoW!ChallengesCountOnce, PoW!OncePerToken, Distinct, EntryOK

\* A challenge is worth one request, however many goroutines present its token at
\* once or again, and a right nonce in time is turned away only because another
\* request has used the token (PoWEngine.Validate), for every lifetime of a token.
THEOREM ChallengesAlwaysCountOnce == PoW!Spec => []ChallengesCountOnce
<1>1. PowInv /\ [PoW!Next]_PoW!vars => PowInv'
  BY TokenTTLAssumption, StepKeeps
<1>2. PowInv => ChallengesCountOnce
  BY InvariantCounts DEF ChallengesCountOnce
<1> QED BY InitHolds, <1>1, <1>2, PTL DEF PoW!Spec

-----------------------------------------------------------------------------
(* The detectors' tables.  What the references count of what happened is   *)
(* taken over sequences and finite sets, so their lemmas come first.       *)

\* Induction over the natural numbers.
LEMMA NatSetInduction ==
  ASSUME NEW F, 0 \in F, \A n \in Nat : n \in F => n + 1 \in F
  PROVE  \A n \in Nat : n \in F
<1>. DEFINE B == {n \in Nat : n \notin F}
            R == OpToRel(<, Nat)
<1>1. IsWellFoundedOn(R, Nat)
  BY NatLessThanWellFounded
<1>2. \A m, n \in Nat : m < n => <<m, n>> \in R
  BY DEF OpToRel
<1>3. ASSUME B # {} PROVE FALSE
  <2>1. B \subseteq Nat
    OBVIOUS
  <2>2. PICK n \in B : \A m \in B : <<m, n>> \notin R
    <3>. HIDE DEF B, R
    <3>. QED  BY <1>1, <1>3, <2>1, WFMin
  <2>. HIDE DEF R
  <2>3. n # 0 /\ n \in Nat
    OBVIOUS
  <2>4. n - 1 \in Nat /\ n - 1 < n /\ (n - 1) + 1 = n
    BY <2>3
  <2>5. n - 1 \notin B
    BY <1>2, <2>2, <2>4
  <2>. QED  BY <2>2, <2>4, <2>5
<1>. QED  BY <1>3

\* The places of a sequence are finitely many.
LEMMA SeqPlaces == ASSUME NEW T, NEW s \in Seq(T) PROVE IsFiniteSet(DOMAIN s) /\ DOMAIN s \subseteq Nat
<1>. DEFINE n == Len(s)
<1>1. DOMAIN s = 1..n /\ n \in Nat
  OBVIOUS
<1>. HIDE DEF n
<1>2. IsFiniteSet(1..n)
  BY <1>1, FS_Interval
<1>3. 1..n \subseteq Nat
  BY <1>1
<1>. QED  BY <1>1, <1>2, <1>3

\* Induction over sequences, by the last element.
LEMMA SeqSetInduction ==
  ASSUME NEW T, NEW F, <<>> \in F, \A s \in Seq(T), e \in T : s \in F => Append(s, e) \in F
  PROVE  \A s \in Seq(T) : s \in F
<1>. DEFINE G == {n \in Nat : \A s \in Seq(T) : Len(s) = n => s \in F}
<1>1. 0 \in G
  <2>1. \A s \in Seq(T) : Len(s) = 0 => s = <<>>
    OBVIOUS
  <2>. QED  BY <2>1
<1>2. ASSUME NEW n \in Nat, n \in G PROVE n + 1 \in G
  <2>1. ASSUME NEW s \in Seq(T), Len(s) = n + 1 PROVE s \in F
    <3>. DEFINE f == SubSeq(s, 1, n)  e == s[n + 1]
    <3>1. f \in Seq(T) /\ Len(f) = n /\ e \in T /\ s = Append(f, e)
      BY <2>1
    <3>. HIDE DEF f, e
    <3>2. f \in F
      BY <1>2, <3>1
    <3>. QED  BY <3>1, <3>2
  <2>. QED  BY <2>1
<1>3. \A n \in Nat : n \in G
  <2>. HIDE DEF G
  <2>. QED  BY <1>1, <1>2, NatSetInduction
<1>4. \A s \in Seq(T) : Len(s) \in Nat
  OBVIOUS
<1>. QED  BY <1>3, <1>4

-----------------------------------------------------------------------------
(* Counting.                                                               *)

\* As many units as a weight says, each marked with what weighs.
Units(x, n) == {<<x, m>> : m \in 1..n}

\* A request's units are as many as it adds.
LEMMA UnitsCount ==
  ASSUME NEW x, NEW n \in Nat
  PROVE  IsFiniteSet(Units(x, n)) /\ Cardinality(Units(x, n)) = n
<1>. DEFINE f == [m \in 1..n |-> <<x, m>>]
<1>1. f \in Bijection(1..n, Units(x, n))
  BY DEF Bijection, Injection, Surjection, Units, IsInjective
<1>2. ExistsBijection(1..n, Units(x, n))
  BY <1>1 DEF ExistsBijection
<1>3. IsFiniteSet(1..n) /\ Cardinality(1..n) = n
  BY FS_Interval
<1>. QED  BY <1>2, <1>3, FS_Bijection

\* Units nobody had count on top of the ones there are.
LEMMA UnitsAdded ==
  ASSUME NEW U, IsFiniteSet(U), NEW x, NEW n \in Nat, \A m : <<x, m>> \notin U
  PROVE  /\ IsFiniteSet(U \cup Units(x, n))
         /\ Cardinality(U \cup Units(x, n)) = Cardinality(U) + n
<1>1. U \cap Units(x, n) = {}
  BY DEF Units
<1>2. IsFiniteSet(Units(x, n)) /\ Cardinality(Units(x, n)) = n
  BY UnitsCount
<1>3. /\ IsFiniteSet(U \cup Units(x, n))
      /\ Cardinality(U \cup Units(x, n)) = Cardinality(U) + Cardinality(Units(x, n)) - Cardinality(U \cap Units(x, n))
  BY <1>2, FS_Union
<1>4. Cardinality(U \cap Units(x, n)) = 0
  BY <1>1, FS_EmptySet
<1>5. Cardinality(U) \in Nat
  BY FS_CardinalityType
<1>. QED  BY <1>2, <1>3, <1>4, <1>5

-----------------------------------------------------------------------------
(* What the detectors' references count, by the last of what was seen.     *)

Visits == [at : Nat, path : TablePaths]
Knocks == [at : Nat, attack : BOOLEAN]

\* What the constants' assumptions say of the tables' constants.
LEMMA TableConstants ==
  /\ ConnectionTTL \in Nat /\ SuspiciousPathsCount \in Nat /\ RapidRequests \in Nat
  /\ PortScanWindow \in Nat /\ RunLength \in Nat /\ RunPairs \in Nat /\ FlowWindow \in Nat
  /\ MaxActions \in Nat /\ MaxSensitiveHits \in Nat /\ BlockAnomalies \in Nat \ {0}
  /\ None \notin Nat /\ None \notin IPs /\ IsFiniteSet(Threads)
  /\ DetectorTables \subseteq {"network", "preattack", "logic"}
  /\ PayloadLists \subseteq Seq(BOOLEAN) \ {<<>>} /\ Marks \in [TablePaths -> Nat]
<1>. USE TableAssumption
<1>1. {ConnectionTTL, SuspiciousPathsCount, RapidRequests, PortScanWindow, RunLength, RunPairs,
       FlowWindow, MaxActions, MaxSensitiveHits} \subseteq Nat
  BY DEF Tables!TablesAssumption
<1>2. IsFiniteSet(Threads)
  BY DEF Tables!TablesAssumption, Tables!IsFiniteSet, IsFiniteSet
<1>. QED  BY <1>1, <1>2 DEF Tables!TablesAssumption

\* A list and the same with one thing more.
LEMMA OneMore ==
  ASSUME NEW T, NEW l \in Seq(T), NEW e \in T
  PROVE  LET k == Append(l, e)
         IN  /\ k \in Seq(T) /\ Len(l) \in Nat /\ Len(k) = Len(l) + 1 /\ k # <<>>
             /\ DOMAIN k = DOMAIN l \cup {Len(l) + 1} /\ Len(l) + 1 \notin DOMAIN l
             /\ DOMAIN l = 1..Len(l) /\ DOMAIN l \subseteq Nat
             /\ \A i \in DOMAIN l : k[i] = l[i] /\ l[i] \in T
             /\ k[Len(l) + 1] = e
<1>. DEFINE k == Append(l, e)  n == Len(l)
<1>1. k \in Seq(T) /\ n \in Nat /\ Len(k) = n + 1
  OBVIOUS
<1>2. DOMAIN l = 1..n /\ DOMAIN k = 1..(n + 1)
  BY <1>1
<1>3. \A i \in 1..n : k[i] = l[i] /\ l[i] \in T
  OBVIOUS
<1>4. k[n + 1] = e /\ k # <<>>
  OBVIOUS
<1>. HIDE DEF k, n
<1>5. 1..(n + 1) = (1..n) \cup {n + 1} /\ n + 1 \notin 1..n /\ 1..n \subseteq Nat
  BY <1>1
<1>. QED  BY <1>1, <1>2, <1>3, <1>4, <1>5 DEF k, n

\* A knock more is an attack more if it is one.
LEMMA AttacksAppend ==
  ASSUME NEW l \in Seq(Knocks), NEW e \in Knocks
  PROVE  LET k == Append(l, e)
         IN  /\ Tables!Attacks(l, DOMAIN l) \in Nat
             /\ Tables!Attacks(k, DOMAIN k) = Tables!Attacks(l, DOMAIN l) + IF e.attack THEN 1 ELSE 0
<1>. DEFINE k == Append(l, e)  n == Len(l) + 1
            A == {i \in DOMAIN l : l[i].attack}  B == {i \in DOMAIN k : k[i].attack}
<1>1. /\ DOMAIN k = DOMAIN l \cup {n} /\ n \notin DOMAIN l
      /\ \A i \in DOMAIN l : k[i] = l[i]
      /\ k[n] = e
  BY OneMore
<1>2. IsFiniteSet(A)
  <2>1. IsFiniteSet(DOMAIN l) /\ A \subseteq DOMAIN l
    BY SeqPlaces
  <2>. QED  BY <2>1, FS_Subset
<1>3. Tables!Attacks(l, DOMAIN l) = Cardinality(A) /\ Tables!Attacks(k, DOMAIN k) = Cardinality(B)
  BY DEF Tables!Attacks, Tables!Cardinality, Cardinality
<1>4. Cardinality(A) \in Nat
  BY <1>2, FS_CardinalityType
<1>. HIDE DEF k, n
<1>5. n \notin A
  BY <1>1
<1>6. CASE e.attack
  <2>1. B = A \cup {n}
    BY <1>1, <1>6
  <2>. HIDE DEF A, B
  <2>2. Cardinality(B) = Cardinality(A) + 1
    BY <1>2, <1>5, <2>1, FS_AddElement
  <2>. QED  BY <1>3, <1>4, <1>6, <2>2 DEF k
<1>7. CASE ~e.attack
  <2>1. B = A
    BY <1>1, <1>7
  <2>. HIDE DEF A, B
  <2>. QED  BY <1>3, <1>4, <1>7, <2>1 DEF k
<1>. QED  BY <1>6, <1>7

Recent(l) == Tables!Attacks(l, Tables!SinceQuiet(l))

\* What is seen next adds to what was seen since it was quiet, unless it was quiet again.
LEMMA RecentAppend ==
  ASSUME NEW l \in Seq(Knocks), NEW e \in Knocks
  PROVE  LET k == Append(l, e)  s == IF e.attack THEN 1 ELSE 0
         IN  /\ Recent(l) \in Nat /\ Recent(k) \in Nat
             /\ Recent(k) <= Recent(l) + s
             /\ l = <<>> \/ e.at - l[Len(l)].at > ConnectionTTL => Recent(k) <= s
<1>. DEFINE k == Append(l, e)  n == Len(l) + 1
            S == Tables!SinceQuiet(l)  R == Tables!SinceQuiet(k)
            A == {i \in S : l[i].attack}  B == {i \in R : k[i].attack}
            own == IF e.attack THEN {n} ELSE {}
<1>1. /\ DOMAIN k = DOMAIN l \cup {n} /\ n \notin DOMAIN l /\ DOMAIN l = 1..(n - 1) /\ n \in Nat \ {0}
      /\ \A i \in DOMAIN l : k[i] = l[i]
      /\ k[n] = e /\ k \in Seq(Knocks)
  <2>1. Len(l) \in Nat
    OBVIOUS
  <2>2. n \in Nat \ {0} /\ n - 1 = Len(l)
    BY <2>1
  <2>. QED  BY <2>2, OneMore
<1>2. /\ S = {i \in DOMAIN l : \A j \in DOMAIN l : j > i => l[j].at - l[j - 1].at <= ConnectionTTL}
      /\ R = {i \in DOMAIN k : \A j \in DOMAIN k : j > i => k[j].at - k[j - 1].at <= ConnectionTTL}
  BY DEF Tables!SinceQuiet
<1>3. IsFiniteSet(A) /\ IsFiniteSet(B)
  <2>1. IsFiniteSet(DOMAIN l) /\ IsFiniteSet(DOMAIN k)
    <3>. HIDE DEF k
    <3>. QED  BY <1>1, SeqPlaces
  <2>2. A \subseteq DOMAIN l /\ B \subseteq DOMAIN k
    BY <1>2
  <2>. HIDE DEF A, B
  <2>. QED  BY <2>1, <2>2, FS_Subset
<1>4. Recent(l) = Cardinality(A) /\ Recent(k) = Cardinality(B)
  BY DEF Recent, Tables!Attacks, Tables!Cardinality, Cardinality
<1>5. Cardinality(A) \in Nat /\ Cardinality(B) \in Nat
  BY <1>3, FS_CardinalityType
<1>6. IsFiniteSet(own) /\ Cardinality(own) = IF e.attack THEN 1 ELSE 0
  BY FS_EmptySet, FS_Singleton
<1>. HIDE DEF k, n, S, R
<1>7. ASSUME NEW i \in R, i # n PROVE i \in S
  <2>1. i \in DOMAIN l /\ \A j \in DOMAIN k : j > i => k[j].at - k[j - 1].at <= ConnectionTTL
    BY <1>1, <1>2, <1>7
  <2>2. ASSUME NEW j \in DOMAIN l, j > i PROVE l[j].at - l[j - 1].at <= ConnectionTTL
    <3>1. j - 1 \in DOMAIN l
      BY <1>1, <2>1, <2>2
    <3>2. k[j] = l[j] /\ k[j - 1] = l[j - 1] /\ j \in DOMAIN k
      BY <1>1, <3>1
    <3>. QED  BY <2>1, <2>2, <3>2
  <2>. QED  BY <1>2, <2>1, <2>2
<1>8. B \subseteq A \cup own
  <2>1. ASSUME NEW i \in B PROVE i \in A \cup own
    <3>1. CASE i = n
      BY <1>1, <3>1
    <3>2. CASE i # n
      <4>1. i \in S /\ i \in DOMAIN l
        BY <1>2, <1>7, <3>2
      <4>. QED  BY <1>1, <4>1
    <3>. QED  BY <3>1, <3>2
  <2>. QED  BY <2>1
<1>9. Cardinality(B) <= Cardinality(A) + Cardinality(own)
  <2>. HIDE DEF A, B, own
  <2>1. /\ IsFiniteSet(A \cup own)
        /\ Cardinality(A \cup own) = Cardinality(A) + Cardinality(own) - Cardinality(A \cap own)
    BY <1>3, <1>6, FS_Union
  <2>2. Cardinality(A \cap own) \in Nat
    <3>1. IsFiniteSet(A \cap own)
      BY <1>3, FS_Subset
    <3>. QED  BY <3>1, FS_CardinalityType
  <2>3. Cardinality(B) <= Cardinality(A \cup own)
    BY <1>8, <2>1, FS_Subset
  <2>4. Cardinality(own) \in Nat
    BY <1>6
  <2>. QED  BY <1>5, <2>1, <2>2, <2>3, <2>4
<1>10. l = <<>> \/ e.at - l[n - 1].at > ConnectionTTL => Cardinality(B) <= Cardinality(own)
  <2>1. ASSUME l = <<>> \/ e.at - l[n - 1].at > ConnectionTTL PROVE B \subseteq own
    <3>1. ASSUME NEW i \in R PROVE i = n
      <4>1. CASE l = <<>>
        BY <1>1, <1>2, <4>1
      <4>2. CASE l # <<>> /\ i # n
        <5>1. i \in DOMAIN l /\ n > i /\ n \in DOMAIN k
          BY <1>1, <1>2, <4>2
        <5>2. k[n].at - k[n - 1].at <= ConnectionTTL
          BY <1>2, <5>1
        <5>3. n - 1 \in DOMAIN l
          BY <1>1, <5>1
        <5>4. k[n - 1] = l[n - 1]
          BY <1>1, <5>3
        <5>5. e \in Knocks /\ l[n - 1] \in Knocks
          BY <5>3
        <5>. DEFINE x == e.at  y == l[n - 1].at
        <5>6. x \in Nat /\ y \in Nat /\ x - y <= ConnectionTTL /\ x - y > ConnectionTTL
          BY <1>1, <2>1, <4>2, <5>2, <5>4, <5>5 DEF Knocks
        <5>. HIDE DEF x, y
        <5>. QED  BY <5>6, TableConstants
      <4>. QED  BY <4>1, <4>2
    <3>. QED  BY <1>1, <3>1
  <2>. HIDE DEF B, own
  <2>. QED  BY <1>6, <2>1, FS_Subset
<1>. QED
  <2>1. Len(l) = n - 1
    BY <1>1 DEF n
  <2>. HIDE DEF A, B, own
  <2>. QED  BY <1>4, <1>5, <1>6, <1>9, <1>10, <2>1 DEF k

\* The names in the paths, for a list that is one longer.
LEMMA SuspiciousAppend ==
  ASSUME NEW l \in Seq(Visits), NEW e \in Visits
  PROVE  /\ Tables!Suspicious(l) \in Nat
         /\ Tables!Suspicious(Append(l, e)) = Tables!Suspicious(l) + Marks[e.path]
<1>. DEFINE N(s) == UNION {{i} \X (1..Marks[s[i].path]) : i \in DOMAIN s}
            k == Append(l, e)  n == Len(l) + 1
<1>1. /\ DOMAIN k = DOMAIN l \cup {n} /\ n \notin DOMAIN l
      /\ \A i \in DOMAIN l : k[i] = l[i]
      /\ k[n] = e /\ k \in Seq(Visits)
  BY OneMore
<1>2. \A s \in Seq(Visits) : Tables!Suspicious(s) = Cardinality(N(s))
  BY DEF Tables!Suspicious, Tables!Cardinality, Cardinality
<1>3. Marks[e.path] \in Nat
  BY TableConstants DEF Visits
<1>4. IsFiniteSet(N(l))
  <2>. DEFINE F == {s \in Seq(Visits) : IsFiniteSet(N(s))}
  <2>1. <<>> \in F
    <3>1. N(<<>>) = {} /\ <<>> \in Seq(Visits)
      OBVIOUS
    <3>. HIDE DEF N
    <3>. QED  BY <3>1, FS_EmptySet
  <2>2. ASSUME NEW s \in Seq(Visits), NEW d \in Visits, s \in F PROVE Append(s, d) \in F
    <3>. DEFINE q == Append(s, d)  m == Len(s) + 1
    <3>1. /\ DOMAIN q = DOMAIN s \cup {m} /\ m \notin DOMAIN s
          /\ \A i \in DOMAIN s : q[i] = s[i]
          /\ q[m] = d /\ q \in Seq(Visits)
      BY OneMore
    <3>. HIDE DEF q, m
    <3>2. N(q) = N(s) \cup Units(m, Marks[d.path])
      BY <3>1 DEF Units
    <3>3. \A x : <<m, x>> \notin N(s)
      BY <3>1
    <3>4. Marks[d.path] \in Nat
      BY TableConstants DEF Visits
    <3>5. IsFiniteSet(N(s))
      BY <2>2
    <3>. HIDE DEF N
    <3>6. IsFiniteSet(N(q))
      BY <3>2, <3>3, <3>4, <3>5, UnitsAdded
    <3>. QED  BY <3>1, <3>6 DEF q
  <2>3. l \in F
    <3>. HIDE DEF F
    <3>. QED  BY <2>1, <2>2, SeqSetInduction
  <2>. QED  BY <2>3
<1>. HIDE DEF k, n
<1>5. N(k) = N(l) \cup Units(n, Marks[e.path])
  BY <1>1 DEF Units
<1>6. \A x : <<n, x>> \notin N(l)
  BY <1>1
<1>. HIDE DEF N
<1>7. Cardinality(N(k)) = Cardinality(N(l)) + Marks[e.path]
  BY <1>3, <1>4, <1>5, <1>6, UnitsAdded
<1>8. Cardinality(N(l)) \in Nat
  BY <1>4, FS_CardinalityType
<1>. QED  BY <1>1, <1>2, <1>7, <1>8 DEF k

\* Nothing seen, nothing suspicious.
LEMMA SuspiciousEmpty == Tables!Suspicious(<<>>) = 0
<1>1. UNION {{i} \X (1..Marks[<<>>[i].path]) : i \in DOMAIN <<>>} = {}
  OBVIOUS
<1>. QED  BY <1>1, FS_EmptySet DEF Tables!Suspicious, Tables!Cardinality, Cardinality

\* A visit more is a path more, at the end.
LEMMA PathsOfAppend ==
  ASSUME NEW l \in Seq(Visits), NEW e \in Visits
  PROVE  /\ Tables!PathsOf(l) \in Seq(TablePaths) /\ Len(Tables!PathsOf(l)) = Len(l)
         /\ Tables!PathsOf(Append(l, e)) = Append(Tables!PathsOf(l), e.path)
<1>. DEFINE k == Append(l, e)  n == Len(l) + 1  p == Tables!PathsOf(l)  q == Tables!PathsOf(k)
<1>1. p = [i \in DOMAIN l |-> l[i].path] /\ q = [i \in DOMAIN k |-> k[i].path]
  BY DEF Tables!PathsOf
<1>2. /\ DOMAIN k = DOMAIN l \cup {n} /\ n \notin DOMAIN l /\ DOMAIN l = 1..Len(l) /\ Len(l) \in Nat
      /\ \A i \in DOMAIN l : k[i] = l[i] /\ l[i] \in Visits
      /\ k[n] = e
  BY OneMore
<1>. HIDE DEF k, p, q
<1>3. p \in Seq(TablePaths) /\ Len(p) = Len(l)
  BY <1>1, <1>2 DEF Visits
<1>4. q = Append(p, e.path)
  <2>1. DOMAIN q = 1..n /\ \A i \in 1..n : q[i] = IF i = n THEN e.path ELSE p[i]
    BY <1>1, <1>2
  <2>2. q = [i \in 1..n |-> IF i = n THEN e.path ELSE p[i]]
    BY <1>1, <2>1
  <2>3. Append(p, e.path) = [i \in 1..n |-> IF i = n THEN e.path ELSE p[i]]
    BY <1>2, <1>3
  <2>. QED  BY <2>2, <2>3
<1>. QED  BY <1>3, <1>4 DEF k, p, q

\* A client is hasty once the visits it has made so far have been too many too soon.
LEMMA HastyAppend ==
  ASSUME NEW l \in Seq(Visits), NEW e \in Visits
  PROVE  LET k == Append(l, e)
         IN  Tables!Hasty(k) <=>
               Tables!Hasty(l) \/ (Len(k) > RapidRequests /\ e.at - k[1].at < PortScanWindow)
<1>. DEFINE k == Append(l, e)  n == Len(l) + 1
            Late(s, i) == i > RapidRequests /\ s[i].at - s[1].at < PortScanWindow
<1>1. /\ DOMAIN k = DOMAIN l \cup {n} /\ DOMAIN l = 1..Len(l) /\ Len(l) \in Nat /\ Len(k) = n
      /\ \A i \in DOMAIN l : k[i] = l[i]
      /\ k[n] = e
  BY OneMore
<1>2. \A s : Tables!Hasty(s) <=> \E i \in DOMAIN s : Late(s, i)
  BY DEF Tables!Hasty
<1>. HIDE DEF k, n
<1>3. \A i \in DOMAIN l : Late(k, i) <=> Late(l, i)
  <2>1. ASSUME NEW i \in DOMAIN l PROVE k[i] = l[i] /\ k[1] = l[1]
    BY <1>1
  <2>. QED  BY <2>1
<1>4. Late(k, n) <=> Len(k) > RapidRequests /\ e.at - k[1].at < PortScanWindow
  BY <1>1
<1>. HIDE DEF Late
<1>. QED  BY <1>1, <1>2, <1>3, <1>4 DEF k

\* A client goes upwards once the paths it has visited so far do.
LEMMA UpwardsAppend ==
  ASSUME NEW l \in Seq(Visits), NEW e \in Visits
  PROVE  LET k == Append(l, e)
         IN  Tables!Upwards(k) <=> Tables!Upwards(l) \/ Tables!detectSequentialPaths(Tables!PathsOf(k))
<1>. DEFINE k == Append(l, e)  n == Len(l) + 1
            p == Tables!PathsOf(l)  q == Tables!PathsOf(k)
            Up(s, i) == Tables!detectSequentialPaths(SubSeq(s, 1, i))
<1>1. DOMAIN k = DOMAIN l \cup {n} /\ DOMAIN l = 1..Len(l) /\ Len(l) \in Nat
  BY OneMore
<1>2. p \in Seq(TablePaths) /\ Len(p) = Len(l) /\ q = Append(p, e.path) /\ e.path \in TablePaths
  BY PathsOfAppend DEF Visits
<1>3. /\ Tables!Upwards(l) <=> \E i \in DOMAIN l : Up(p, i)
      /\ Tables!Upwards(k) <=> \E i \in DOMAIN k : Up(q, i)
  BY DEF Tables!Upwards
<1>. HIDE DEF k, p, q
<1>4. ASSUME NEW i \in DOMAIN l PROVE SubSeq(q, 1, i) = SubSeq(p, 1, i)
  <2>1. i \in Nat /\ 1 <= i /\ i <= Len(p)
    BY <1>1, <1>2
  <2>2. SubSeq(q, 1, i) = [j \in 1..i |-> q[j]] /\ SubSeq(p, 1, i) = [j \in 1..i |-> p[j]]
    BY <1>2, <2>1
  <2>3. \A j \in 1..i : q[j] = p[j]
    BY <1>2, <2>1
  <2>. QED  BY <2>2, <2>3
<1>5. SubSeq(q, 1, n) = q
  BY <1>1, <1>2
<1>. HIDE DEF n
<1>6. \A i \in DOMAIN l : Up(q, i) <=> Up(p, i)
  BY <1>4
<1>7. Up(q, n) <=> Tables!detectSequentialPaths(q)
  BY <1>5
<1>. HIDE DEF Up
<1>8. (\E i \in DOMAIN k : Up(q, i)) <=> (\E i \in DOMAIN l : Up(p, i)) \/ Tables!detectSequentialPaths(q)
  BY <1>1, <1>6, <1>7
<1>. QED  BY <1>3, <1>8 DEF k, q

\* Of a client nothing was seen of, nothing is said.
LEMMA HaveNoneYet ==
  /\ ~Tables!Hasty(<<>>) /\ ~Tables!Upwards(<<>>) /\ Tables!PathsOf(<<>>) = <<>>
  /\ Tables!Suspicious(<<>>) = 0 /\ Tables!Attacks(<<>>, DOMAIN <<>>) = 0 /\ Recent(<<>>) = 0
<1>1. ~Tables!Hasty(<<>>) /\ ~Tables!Upwards(<<>>) /\ Tables!PathsOf(<<>>) = <<>>
  BY DEF Tables!Hasty, Tables!Upwards, Tables!PathsOf
<1>2. \A P : Tables!Attacks(<<>>, {}) = 0
  BY FS_EmptySet DEF Tables!Attacks, Tables!Cardinality, Cardinality
<1>3. DOMAIN <<>> = {} /\ Tables!SinceQuiet(<<>>) = {}
  BY DEF Tables!SinceQuiet
<1>. QED  BY <1>1, <1>2, <1>3, SuspiciousEmpty DEF Recent

\* A run of paths is as long as the code asks for.
LEMMA SequentialIsLong ==
  ASSUME NEW p, Tables!detectSequentialPaths(p) PROVE Len(p) >= RunLength
BY DEF Tables!detectSequentialPaths

\* Nobody is refused for less than three suspicious names, and with them either for the
\* number of paths or for haste and order together.
LEMMA BlocksWhen ==
  ASSUME NEW p, p.suspicious \in Nat, Len(p.paths) \in Nat, p.rapid \in BOOLEAN, p.sequential \in BOOLEAN
  PROVE  Tables!Blocks(p) <=>
           p.suspicious >= 3 /\ (Len(p.paths) > SuspiciousPathsCount \/ (p.rapid /\ p.sequential))
<1>. DEFINE s == p.suspicious >= 3  m == Len(p.paths) > SuspiciousPathsCount  r == p.rapid  q == p.sequential
<1>1. Tables!Blocks(p) <=>
        Tables!Tenths(s, 4) + Tables!Tenths(m, 3) + Tables!Tenths(r, 2) + Tables!Tenths(q, 1) >= 7
  BY DEF Tables!Blocks
<1>2. \A n \in Nat : /\ s => Tables!Tenths(s, n) = n
                     /\ ~s => Tables!Tenths(s, n) = 0
                     /\ m => Tables!Tenths(m, n) = n
                     /\ ~m => Tables!Tenths(m, n) = 0
                     /\ r => Tables!Tenths(r, n) = n
                     /\ ~r => Tables!Tenths(r, n) = 0
                     /\ q => Tables!Tenths(q, n) = n
                     /\ ~q => Tables!Tenths(q, n) = 0
  BY DEF Tables!Tenths
<1>3. /\ Tables!Tenths(s, 4) = IF s THEN 4 ELSE 0
      /\ Tables!Tenths(m, 3) = IF m THEN 3 ELSE 0
      /\ Tables!Tenths(r, 2) = IF r THEN 2 ELSE 0
      /\ Tables!Tenths(q, 1) = IF q THEN 1 ELSE 0
  BY <1>2
<1>. HIDE DEF s, m, r, q
<1>4. Tables!Tenths(s, 4) + Tables!Tenths(m, 3) + Tables!Tenths(r, 2) + Tables!Tenths(q, 1) >= 7
        <=> s /\ (m \/ (r /\ q))
  BY <1>3
<1>. QED  BY <1>1, <1>4 DEF s, m, r, q

-----------------------------------------------------------------------------
(* The two detectors whose requests share records without a lock.          *)

Payloads == Seq(BOOLEAN) \ {<<>>}
Pieces(tb) == IF tb = "network" THEN Payloads ELSE TablePaths
Sightings(tb) == IF tb = "network" THEN Knocks ELSE Visits

Connections == [anomalies : Nat, last : Nat]
PatternRecords ==
  {r \in [first : Nat, last : Nat, count : Nat, paths : Seq(TablePaths), suspicious : Nat,
          rapid : BOOLEAN, sequential : BOOLEAN] : Len(r.paths) = r.count}
RecordsOf(tb) == IF tb = "network" THEN Connections ELSE PatternRecords
Readings(tb) == IF tb = "network" THEN Nat ELSE PatternRecords
LateSteps(tb) == IF tb = "network" THEN {"add", "look"} ELSE {"update", "judge"}
LateRequests(tb) ==
  {q \in [pc : LateSteps(tb), client : IPs, work : Pieces(tb), id : Nat, seen : Readings(tb)] :
     q.pc = "add" => Head(q.work)}

SharedRequests(tb) ==
  {Tables!Idle} \cup [pc : {"load"}, client : IPs, work : Pieces(tb)]
    \cup [pc : {"store"}, client : IPs, work : Pieces(tb), id : {None}]
    \cup [pc : {"count"}, client : IPs, work : Pieces(tb), id : Nat]
    \cup LateRequests(tb)
    \cup [pc : {"answer"}, client : IPs, refused : BOOLEAN]

Holding == {"count", "add", "look", "update", "judge"}

SharedTyped ==
  /\ table \in {"network", "preattack"}
  /\ now \in Nat
  /\ states \in [IPs -> Nat \cup {None}]
  /\ heap \in Seq(RecordsOf(table))
  /\ log \in [IPs -> Seq(Sightings(table))]
  /\ alone \in [IPs -> BOOLEAN]
  /\ req \in [Threads -> SharedRequests(table)]
  /\ stale \in IPs \cup {None} /\ (stale # None => table = "network")
  /\ \A c \in IPs : states[c] # None => states[c] \in DOMAIN heap
  /\ \A t \in Threads : req[t].pc \in Holding => req[t].id \in DOMAIN heap

\* A record is one client's: the one whose it is in the table, or whose request has found it.
HoldsRecord(c, i) ==
  states[c] = i \/ \E t \in Threads : req[t].pc \in Holding /\ req[t].client = c /\ req[t].id = i
RecordsOwned ==
  \A c, d \in IPs : \A i \in DOMAIN heap : HoldsRecord(c, i) /\ HoldsRecord(d, i) => c = d

OneByOne ==
  \A t, u \in Threads : \A c \in IPs :
    alone[c] /\ Tables!Serving(t, c) /\ Tables!Serving(u, c) => t = u

\* What a record counts: its counter, what a request adds to it and what was seen of it.
KindsOf(tb) == IF tb = "network" THEN {"attacks"} ELSE {"visits", "names"}
Weight(k, work) ==
  CASE k = "attacks" -> IF Head(work) THEN 1 ELSE 0
    [] k = "visits" -> 1
    [] k = "names" -> Marks[work]
Total(k, l) ==
  CASE k = "attacks" -> Tables!Attacks(l, DOMAIN l)
    [] k = "visits" -> Len(l)
    [] k = "names" -> Tables!Suspicious(l)
Value(k, r) ==
  CASE k = "attacks" -> r.anomalies
    [] k = "visits" -> r.count
    [] k = "names" -> r.suspicious
Reading(k, seen) == IF k = "attacks" THEN seen ELSE Value(k, seen)

\* What was seen and is not in any record yet.
Writing == {"store", "count", "add", "update"}
Pending(c, k) ==
  UNION {Units(t, Weight(k, req[t].work)) :
           t \in {u \in Threads : req[u].pc \in Writing /\ req[u].client = c}}

\* No counter, with what is still to be added to it, says more than was seen.
Bounded(c, k) ==
  LET p == Pending(c, k)
  IN  /\ IsFiniteSet(p)
      /\ Cardinality(p) <= Total(k, log[c])
      /\ \A i \in DOMAIN heap : HoldsRecord(c, i) => Value(k, heap[i]) + Cardinality(p) <= Total(k, log[c])
      /\ \A t \in Threads : req[t].pc \in {"add", "update"} /\ req[t].client = c =>
           Reading(k, req[t].seen) + Cardinality(p) <= Total(k, log[c])

Flagged(c) ==
  table = "preattack" =>
    \A i \in DOMAIN heap : HoldsRecord(c, i) =>
      /\ heap[i].rapid => Len(log[c]) > RapidRequests
      /\ heap[i].sequential => Len(log[c]) >= RunLength

Deserved(c) ==
  \A t \in Threads : req[t].pc = "answer" /\ req[t].client = c /\ req[t].refused => Tables!Earned(log[c])

\* What the record of a client says whose requests come one by one.
Quiet(l) == l = <<>> \/ now - l[Len(l)].at > ConnectionTTL
Current(r, l) == l # <<>> /\ r.last = l[Len(l)].at
Knows(r, l) == r.paths = Tables!PathsOf(l) /\ r.suspicious = Tables!Suspicious(l)
Flags(r, l) == r.rapid = Tables!Hasty(l) /\ r.sequential = Tables!Upwards(l)
Before(l) == SubSeq(l, 1, Len(l) - 1)

Settled(c) ==
  LET l == log[c]  r == heap[states[c]]
  IN  IF states[c] = None THEN IF table = "network" THEN Quiet(l) ELSE l = <<>>
      ELSE /\ Current(r, l)
           /\ table = "network" => r.anomalies >= Recent(l)
           /\ table = "preattack" => r.first = l[1].at /\ Knows(r, l) /\ Flags(r, l)

Storing(t) ==
  LET l == log[req[t].client]
  IN  /\ states[req[t].client] = None
      /\ l # <<>> /\ l[Len(l)].at = now
      /\ table = "network" => Recent(l) <= Weight("attacks", req[t].work)
      /\ table = "preattack" => Len(l) = 1 /\ l[1].path = req[t].work

CountingNetwork(t) ==
  LET r == heap[req[t].id]  l == log[req[t].client]
  IN  /\ r.anomalies + (IF req[t].pc = "look" THEN 0 ELSE Weight("attacks", req[t].work)) >= Recent(l)
      /\ req[t].pc = "add" => req[t].seen = r.anomalies

CountingPaths(t) ==
  LET r == heap[req[t].id]  l == log[req[t].client]
  IN  /\ r.first = l[1].at
      /\ req[t].pc # "judge" => Knows(r, Before(l)) /\ l[Len(l)].path = req[t].work
      /\ req[t].pc = "update" => req[t].seen = r
      /\ req[t].pc = "judge" => Knows(r, l)
      /\ Flags(r, Before(l))

Counting(t) ==
  /\ states[req[t].client] = req[t].id
  /\ Current(heap[req[t].id], log[req[t].client])
  /\ table = "network" => CountingNetwork(t)
  /\ table = "preattack" => CountingPaths(t)

Answering(t) ==
  LET due == Tables!Due(log[req[t].client])
  IN  /\ due => req[t].refused
      /\ table = "preattack" /\ req[t].refused => due

Follows(t) ==
  /\ req[t].pc \in {"load", "answer"} => Settled(req[t].client)
  /\ req[t].pc = "store" => Storing(t)
  /\ req[t].pc \in Holding => Counting(t)
  /\ req[t].pc = "answer" => Answering(t)

Exact(c) ==
  alone[c] =>
    /\ (\A t \in Threads : ~Tables!Serving(t, c)) => Settled(c)
    /\ \A t \in Threads : Tables!Serving(t, c) => Follows(t)
    /\ stale = c => /\ \A t \in Threads : ~Tables!Serving(t, c)
                    /\ states[c] # None /\ heap[states[c]].last < now - ConnectionTTL

Right(c) ==
  /\ \A k \in KindsOf(table) : Bounded(c, k)
  /\ Flagged(c) /\ Deserved(c) /\ Exact(c)

SharedInv == SharedTyped /\ RecordsOwned /\ OneByOne /\ \A c \in IPs : Right(c)

-----------------------------------------------------------------------------
(* The parts of the invariant, as a step of one client finds them: what is *)
(* another client's stays, and what is its own need only be looked at.     *)

\* These are the two detectors whose records are shared.
LEMMA TableOf == ASSUME SharedTyped PROVE table # "logic" /\ (table = "network" \/ table = "preattack")
BY DEF SharedTyped

\* What is known of a request by where it is.
LEMMA RequestAt ==
  ASSUME SharedTyped, NEW t \in Threads
  PROVE  /\ req[t].pc \in {"idle", "load", "store", "count", "add", "look", "update", "judge", "answer"}
         /\ req[t].pc = "idle" => req[t] = Tables!Idle
         /\ req[t].pc = "load" => req[t] \in [pc : {"load"}, client : IPs, work : Pieces(table)]
         /\ req[t].pc = "store" => req[t] \in [pc : {"store"}, client : IPs, work : Pieces(table), id : {None}]
         /\ req[t].pc = "count" => req[t] \in [pc : {"count"}, client : IPs, work : Pieces(table), id : Nat]
         /\ req[t].pc \in {"add", "look", "update", "judge"} =>
              /\ req[t].pc \in LateSteps(table)
              /\ req[t] \in [pc : LateSteps(table), client : IPs, work : Pieces(table), id : Nat, seen : Readings(table)]
         /\ req[t].pc = "add" => Head(req[t].work)
         /\ req[t].pc = "answer" => req[t] \in [pc : {"answer"}, client : IPs, refused : BOOLEAN]
         /\ req[t].pc # "idle" => req[t].client \in IPs
<1>1. req[t] \in SharedRequests(table)
  BY DEF SharedTyped
<1>2. \A q \in LateRequests(table) :
        /\ q \in [pc : LateSteps(table), client : IPs, work : Pieces(table), id : Nat, seen : Readings(table)]
        /\ q.pc \in LateSteps(table) /\ q.pc \in {"add", "look", "update", "judge"}
        /\ q.client \in IPs
        /\ q.pc = "add" => Head(q.work)
  BY DEF LateRequests, LateSteps
<1>3. req[t] = Tables!Idle => req[t].pc = "idle"
  BY DEF Tables!Idle
<1>4. CASE req[t] \in LateRequests(table)
  BY <1>2, <1>4
<1>5. CASE req[t] \notin LateRequests(table)
  BY <1>1, <1>3, <1>5 DEF SharedRequests
<1>. QED  BY <1>4, <1>5

\* A goroutine serves a client while its request is not over.
LEMMA ServingIs ==
  ASSUME SharedTyped, NEW t \in Threads, NEW c \in IPs
  PROVE  /\ Tables!Serving(t, c) <=> req[t].pc # "idle" /\ req[t].client = c
         /\ req[t].pc \in Holding \/ req[t].pc \in Writing => req[t].pc # "idle"
BY DEF Tables!Serving, Holding, Writing

\* What a step of one client's request does, or of the cleanup for one client: it writes
\* records of that client, or new ones.
StepOf(c) ==
  /\ UNCHANGED <<table, now>>
  /\ \A u \in Threads : req'[u] = req[u]
       \/ \A d \in IPs : d # c => ~Tables!Serving(u, d) /\ ~Tables!Serving(u, d)'
  /\ \A d \in IPs : d # c =>
       /\ states'[d] = states[d] /\ log'[d] = log[d] /\ alone'[d] = alone[d]
       /\ (stale' = d) <=> (stale = d)
  /\ heap' \in Seq(RecordsOf(table))
  /\ \A i \in DOMAIN heap : i \in DOMAIN heap' /\ (HoldsRecord(c, i) \/ heap'[i] = heap[i])
  /\ \A i \in DOMAIN heap' : HoldsRecord(c, i)' => HoldsRecord(c, i) \/ i \notin DOMAIN heap

\* A record somebody has found is in the heap.
LEMMA HeldIsThere ==
  ASSUME SharedTyped, NEW d \in IPs, NEW i \in Nat, HoldsRecord(d, i)
  PROVE  i \in DOMAIN heap
BY TableConstants DEF SharedTyped, HoldsRecord

\* A client's step leaves the requests and the records of the others alone.
LEMMA HeldByOther ==
  ASSUME SharedTyped, NEW c \in IPs, StepOf(c), NEW d \in IPs, d # c
  PROVE  /\ \A u \in Threads : Tables!Serving(u, d)' <=> Tables!Serving(u, d)
         /\ \A u \in Threads : Tables!Serving(u, d) => req'[u] = req[u]
         /\ \A i : HoldsRecord(d, i)' <=> HoldsRecord(d, i)
<1>1. \A u \in Threads : Tables!Serving(u, d)' <=> Tables!Serving(u, d)
  BY DEF Tables!Serving, StepOf
<1>2. \A u \in Threads : Tables!Serving(u, d) => req'[u] = req[u]
  BY DEF StepOf
<1>3. ASSUME NEW i PROVE HoldsRecord(d, i)' <=> HoldsRecord(d, i)
  BY <1>1, <1>2 DEF HoldsRecord, Tables!Serving, Holding, StepOf
<1>. QED  BY <1>1, <1>2, <1>3

\* A client's step leaves every record its client's.
LEMMA OwnersStay ==
  ASSUME SharedInv, NEW c \in IPs, StepOf(c)
  PROVE  RecordsOwned'
<1>1. SUFFICES ASSUME NEW d \in IPs, NEW f \in IPs, NEW i \in DOMAIN heap', HoldsRecord(d, i)', HoldsRecord(f, i)', d # f
               PROVE  FALSE
  BY DEF RecordsOwned
<1>2. i \in Nat /\ SharedTyped
  BY DEF StepOf, SharedInv
<1>3. ASSUME NEW g \in IPs, g # c, HoldsRecord(g, i)' PROVE HoldsRecord(g, i) /\ i \in DOMAIN heap
  BY <1>2, <1>3, HeldByOther, HeldIsThere
<1>4. ASSUME HoldsRecord(c, i)', i \in DOMAIN heap PROVE HoldsRecord(c, i)
  BY <1>1, <1>4 DEF StepOf
<1>5. \A g, h \in IPs : HoldsRecord(g, i) /\ HoldsRecord(h, i) /\ i \in DOMAIN heap => g = h
  BY DEF SharedInv, RecordsOwned
<1>. QED  BY <1>1, <1>3, <1>4, <1>5

\* The others are left as they are.
LEMMA OthersStay ==
  ASSUME SharedInv, NEW c \in IPs, StepOf(c)
  PROVE  \A d \in IPs : d # c => Right(d)'
<1>. SUFFICES ASSUME NEW d \in IPs, d # c PROVE Right(d)'
  OBVIOUS
<1>1. Right(d) /\ SharedTyped
  BY DEF SharedInv
<1>2. \A u \in Threads : Tables!Serving(u, d)' <=> Tables!Serving(u, d)
  BY <1>1, HeldByOther
<1>3. \A u \in Threads : Tables!Serving(u, d) => req'[u] = req[u]
  BY <1>1, HeldByOther
<1>4. \A i : HoldsRecord(d, i)' <=> HoldsRecord(d, i)
  BY <1>1, HeldByOther
<1>5. ASSUME NEW i \in DOMAIN heap, HoldsRecord(d, i) PROVE i \in DOMAIN heap' /\ heap'[i] = heap[i]
  BY <1>5 DEF SharedInv, RecordsOwned, StepOf
<1>6. ASSUME NEW i \in DOMAIN heap', HoldsRecord(d, i)' PROVE i \in DOMAIN heap /\ HoldsRecord(d, i) /\ heap'[i] = heap[i]
  <2>1. i \in Nat
    BY DEF StepOf
  <2>. QED  BY <1>1, <1>4, <1>5, <1>6, <2>1, HeldIsThere
<1>. USE DEF StepOf
<1>7. \A k : Pending(d, k)' = Pending(d, k)
  <2>1. {u \in Threads : req'[u].pc \in Writing /\ req'[u].client = d}
          = {u \in Threads : req[u].pc \in Writing /\ req[u].client = d}
    BY <1>2, <1>3 DEF Tables!Serving, Writing
  <2>2. \A u \in Threads : req[u].pc \in Writing /\ req[u].client = d => req'[u].work = req[u].work
    BY <1>3 DEF Tables!Serving, Writing
  <2>. QED  BY <2>1, <2>2 DEF Pending
<1>8. ASSUME NEW k \in KindsOf(table) PROVE Bounded(d, k)'
  <2>. DEFINE n == Cardinality(Pending(d, k))
  <2>1. Bounded(d, k)
    BY <1>1, <1>8 DEF Right
  <2>2. \A i \in DOMAIN heap' : HoldsRecord(d, i)' => Value(k, heap'[i]) + n <= Total(k, log'[d])
    BY <1>6, <2>1 DEF Bounded
  <2>3. \A u \in Threads : req'[u].pc \in {"add", "update"} /\ req'[u].client = d =>
           Reading(k, req'[u].seen) + n <= Total(k, log'[d])
    <3>1. ASSUME NEW u \in Threads, req'[u].pc \in {"add", "update"}, req'[u].client = d PROVE req'[u] = req[u]
      <4>1. Tables!Serving(u, d)'
        BY <3>1 DEF Tables!Serving
      <4>. QED  BY <1>2, <1>3, <4>1
    <3>. QED  BY <2>1, <3>1 DEF Bounded
  <2>. HIDE DEF n
  <2>. QED  BY <1>7, <2>1, <2>2, <2>3 DEF Bounded, n
<1>9. Flagged(d)'
  BY <1>1, <1>6 DEF Right, Flagged
<1>10. Deserved(d)'
  <2>1. SUFFICES ASSUME NEW u \in Threads, req'[u].pc = "answer", req'[u].client = d, req'[u].refused
                 PROVE  Tables!Earned(log[d])'
    BY DEF Deserved
  <2>2. Tables!Serving(u, d)'
    BY <2>1 DEF Tables!Serving
  <2>3. req'[u] = req[u]
    BY <1>2, <1>3, <2>2
  <2>4. Tables!Earned(log[d])
    BY <1>1, <2>1, <2>3 DEF Right, Deserved
  <2>. QED  BY <1>1, <2>4, TableOf DEF Tables!Earned, Tables!InWindow
<1>11. Settled(d)' <=> Settled(d)
  <2>1. states[d] # None => heap'[states[d]] = heap[states[d]]
    BY <1>1, <1>5 DEF SharedTyped, HoldsRecord
  <2>. QED  BY <2>1 DEF Settled, Quiet
<1>12. ASSUME NEW u \in Threads, Tables!Serving(u, d) PROVE Follows(u)' <=> Follows(u)
  <2>1. req'[u] = req[u] /\ req[u].client = d
    BY <1>3, <1>12 DEF Tables!Serving
  <2>2. req[u].pc \in Holding => heap'[req[u].id] = heap[req[u].id]
    BY <1>1, <1>5, <2>1 DEF SharedTyped, HoldsRecord
  <2>3. Storing(u)' <=> Storing(u)
    BY <2>1 DEF Storing
  <2>4. req[u].pc \in Holding => (Counting(u)' <=> Counting(u))
    BY <2>1, <2>2 DEF Counting, CountingNetwork, CountingPaths
  <2>5. Tables!Due(log[d])' <=> Tables!Due(log[d])
    BY <1>1, TableOf DEF Tables!Due, Tables!InWindow
  <2>6. Answering(u)' <=> Answering(u)
    BY <2>1, <2>5 DEF Answering
  <2>. QED  BY <1>11, <2>1, <2>3, <2>4, <2>6 DEF Follows
<1>13. Exact(d)'
  <2>1. Exact(d)
    BY <1>1 DEF Right
  <2>2. states[d] # None => heap'[states[d]] = heap[states[d]]
    BY <1>1, <1>5 DEF SharedTyped, HoldsRecord
  <2>. QED  BY <1>2, <1>11, <1>12, <2>1, <2>2 DEF Exact
<1>. QED  BY <1>8, <1>9, <1>10, <1>13 DEF Right

-----------------------------------------------------------------------------
(* What a request adds to what is counted of its client, and what of the   *)
(* invariant stays when nothing but one request, or one record, moves.     *)

\* What a request adds, what a record says and what a request has read are numbers.
LEMMA WeightType ==
  ASSUME SharedTyped, NEW k \in KindsOf(table), NEW w \in Pieces(table)
  PROVE  Weight(k, w) \in Nat
<1>1. table = "network" => k = "attacks"
  BY DEF KindsOf
<1>2. table # "network" => k \in {"visits", "names"} /\ w \in TablePaths
  BY DEF KindsOf, Pieces
<1>. QED  BY <1>1, <1>2, TableConstants DEF Weight

LEMMA ValueType ==
  ASSUME SharedTyped, NEW k \in KindsOf(table), NEW r \in RecordsOf(table)
  PROVE  Value(k, r) \in Nat
BY DEF Value, KindsOf, RecordsOf, Connections, PatternRecords

LEMMA ReadingType ==
  ASSUME SharedTyped, NEW k \in KindsOf(table), NEW seen \in Readings(table)
  PROVE  Reading(k, seen) \in Nat
<1>1. CASE table = "network"
  <2>1. k = "attacks" /\ seen \in Nat
    BY <1>1 DEF KindsOf, Readings
  <2>. QED  BY <2>1 DEF Reading
<1>2. CASE table # "network"
  <2>1. k # "attacks" /\ seen \in RecordsOf(table)
    BY <1>2 DEF KindsOf, Readings, RecordsOf
  <2>. QED  BY <2>1, ValueType DEF Reading
<1>. QED  BY <1>1, <1>2

\* What is seen of a piece.
Sees(e, w) == IF table = "network" THEN e.attack = Head(w) ELSE e.path = w

\* One sighting more counts for what its request adds.
LEMMA TotalAppend ==
  ASSUME SharedTyped, NEW k \in KindsOf(table), NEW l \in Seq(Sightings(table)), NEW e \in Sightings(table),
         NEW w \in Pieces(table), Sees(e, w)
  PROVE  Total(k, l) \in Nat /\ Total(k, Append(l, e)) = Total(k, l) + Weight(k, w)
<1>1. CASE table = "network"
  <2>1. k = "attacks" /\ l \in Seq(Knocks) /\ e \in Knocks /\ e.attack = Head(w)
    BY <1>1 DEF KindsOf, Sightings, Sees
  <2>. QED  BY <2>1, AttacksAppend DEF Total, Weight
<1>2. CASE table # "network"
  <2>1. k \in {"visits", "names"} /\ l \in Seq(Visits) /\ e \in Visits /\ e.path = w
    BY <1>2 DEF KindsOf, Sightings, Sees
  <2>2. CASE k = "visits"
    <3>1. Len(l) \in Nat /\ Len(Append(l, e)) = Len(l) + 1
      BY <2>1
    <3>. QED  BY <2>2, <3>1 DEF Total, Weight
  <2>3. CASE k = "names"
    BY <2>1, <2>3, SuspiciousAppend DEF Total, Weight
  <2>. QED  BY <2>1, <2>2, <2>3
<1>. QED  BY <1>1, <1>2

\* How what is pending changes with the step of one request.
LEMMA PendingStep ==
  ASSUME SharedTyped, NEW t \in Threads, NEW c \in IPs, NEW r \in SharedRequests(table),
         req' = [req EXCEPT ![t] = r], NEW k \in KindsOf(table), IsFiniteSet(Pending(c, k))
  PROVE  LET before == req[t].pc \in Writing /\ req[t].client = c
             after == r.pc \in Writing /\ r.client = c
             n == Cardinality(Pending(c, k))  m == Cardinality(Pending(c, k)')
         IN  /\ n \in Nat /\ m \in Nat /\ IsFiniteSet(Pending(c, k)')
             /\ before /\ after /\ r.work = req[t].work => m = n
             /\ ~before /\ ~after => m = n
             /\ ~before /\ after => m = n + Weight(k, r.work)
             /\ before /\ ~after => n = m + Weight(k, req[t].work)
<1>. DEFINE before == req[t].pc \in Writing /\ req[t].client = c
            after == r.pc \in Writing /\ r.client = c
            P == Pending(c, k)  Q == Pending(c, k)'
            B == UNION {Units(u, Weight(k, req[u].work)) :
                          u \in {v \in Threads \ {t} : req[v].pc \in Writing /\ req[v].client = c}}
            own == Units(t, Weight(k, req[t].work))  new == Units(t, Weight(k, r.work))
<1>1. \A u \in Threads : req'[u] = IF u = t THEN r ELSE req[u]
  BY DEF SharedTyped
<1>2. P = B \cup (IF before THEN own ELSE {})
  BY DEF Pending
<1>3. Q = B \cup (IF after THEN new ELSE {})
  <2>1. Q = UNION {Units(u, Weight(k, req'[u].work)) :
                     u \in {v \in Threads : req'[v].pc \in Writing /\ req'[v].client = c}}
    BY DEF Pending
  <2>. HIDE DEF Q
  <2>. QED  BY <1>1, <2>1
<1>4. \A m : <<t, m>> \notin B
  BY DEF Units
<1>5. before => req[t].work \in Pieces(table)
  BY RequestAt DEF Writing
<1>6. after => r.work \in Pieces(table)
  <2>1. \A q \in LateRequests(table) : q.work \in Pieces(table)
    BY DEF LateRequests
  <2>. QED  BY <2>1 DEF SharedRequests, Writing, Tables!Idle
<1>. HIDE DEF P, Q, B, before, after
<1>7. IsFiniteSet(B) /\ Cardinality(B) \in Nat
  <2>1. IsFiniteSet(P) /\ B \subseteq P
    BY <1>2 DEF P
  <2>. QED  BY <2>1, FS_Subset, FS_CardinalityType
<1>8. before => Cardinality(P) = Cardinality(B) + Weight(k, req[t].work)
  BY <1>2, <1>4, <1>5, <1>7, WeightType, UnitsAdded
<1>9. after => Cardinality(Q) = Cardinality(B) + Weight(k, r.work) /\ IsFiniteSet(Q)
  BY <1>3, <1>4, <1>6, <1>7, WeightType, UnitsAdded
<1>10. (~before => P = B) /\ (~after => Q = B)
  BY <1>2, <1>3
<1>11. IsFiniteSet(P) /\ Cardinality(P) \in Nat
  <2>1. IsFiniteSet(P)
    BY DEF P
  <2>. QED  BY <2>1, FS_CardinalityType
<1>12. IsFiniteSet(Q) /\ Cardinality(Q) \in Nat
  <2>1. IsFiniteSet(Q)
    BY <1>7, <1>9, <1>10
  <2>. QED  BY <2>1, FS_CardinalityType
<1>13. /\ before /\ after /\ r.work = req[t].work => Cardinality(Q) = Cardinality(P)
       /\ ~before /\ ~after => Cardinality(Q) = Cardinality(P)
       /\ ~before /\ after => Cardinality(Q) = Cardinality(P) + Weight(k, r.work)
       /\ before /\ ~after => Cardinality(P) = Cardinality(Q) + Weight(k, req[t].work)
  BY <1>8, <1>9, <1>10
<1>. QED  BY <1>11, <1>12, <1>13 DEF P, Q, before, after

\* A step of a request keeps the invariant if it keeps what it says of its own client.
LEMMA RequestStep ==
  ASSUME SharedInv, NEW t \in Threads, NEW c \in IPs, req[t].pc # "idle" => req[t].client = c,
         NEW r \in SharedRequests(table), r.pc # "idle" => r.client = c, req' = [req EXCEPT ![t] = r],
         UNCHANGED <<table, now, stale>>,
         alone' \in [IPs -> BOOLEAN], \A d \in IPs : d # c => alone'[d] = alone[d],
         alone'[c] => alone[c] /\ (req[t].pc # "idle" \/ \A u \in Threads : ~Tables!Serving(u, c)),
         states' \in [IPs -> Nat \cup {None}], log' \in [IPs -> Seq(Sightings(table))],
         heap' \in Seq(RecordsOf(table)),
         \A d \in IPs : d # c => states'[d] = states[d] /\ log'[d] = log[d],
         \A i \in DOMAIN heap : i \in DOMAIN heap' /\ (HoldsRecord(c, i) \/ heap'[i] = heap[i]),
         states'[c] # None => states'[c] \in DOMAIN heap' /\ (HoldsRecord(c, states'[c]) \/ states'[c] \notin DOMAIN heap),
         r.pc \in Holding => r.id \in DOMAIN heap' /\ (HoldsRecord(c, r.id) \/ r.id \notin DOMAIN heap),
         Right(c)'
  PROVE  SharedInv'
<1>1. SharedTyped
  BY DEF SharedInv
<1>2. req' \in [Threads -> SharedRequests(table)] /\ \A u \in Threads : req'[u] = IF u = t THEN r ELSE req[u]
  BY <1>1 DEF SharedTyped
<1>3. \A i : HoldsRecord(c, i)' => HoldsRecord(c, i) \/ i = states'[c] \/ (r.pc \in Holding /\ i = r.id)
  BY <1>2 DEF HoldsRecord
<1>4. StepOf(c)
  <2>1. ASSUME NEW u \in Threads, NEW d \in IPs, req'[u] # req[u], d # c
        PROVE  ~Tables!Serving(u, d) /\ ~Tables!Serving(u, d)'
    BY <1>2, <2>1 DEF Tables!Serving
  <2>2. \A i \in DOMAIN heap' : HoldsRecord(c, i)' => HoldsRecord(c, i) \/ i \notin DOMAIN heap
    <3>1. None \notin DOMAIN heap'
      <4>1. DOMAIN heap' \subseteq Nat
        OBVIOUS
      <4>. QED  BY <4>1, TableConstants
    <3>. QED  BY <1>3, <3>1
  <2>3. \A u \in Threads : req'[u] = req[u] \/ \A d \in IPs : d # c => ~Tables!Serving(u, d) /\ ~Tables!Serving(u, d)'
    BY <2>1
  <2>. QED  BY <2>2, <2>3 DEF StepOf
<1>5. SharedTyped'
  <2>1. \A d \in IPs : states'[d] # None => states'[d] \in DOMAIN heap'
    BY <1>1 DEF SharedTyped
  <2>2. \A u \in Threads : req'[u].pc \in Holding => req'[u].id \in DOMAIN heap'
    BY <1>1, <1>2 DEF SharedTyped
  <2>. QED  BY <1>1, <1>2, <2>1, <2>2 DEF SharedTyped
<1>6. OneByOne'
  <2>1. SUFFICES ASSUME NEW u \in Threads, NEW v \in Threads, NEW d \in IPs, alone'[d],
                        Tables!Serving(u, d)', Tables!Serving(v, d)', u # v
                 PROVE  FALSE
    BY DEF OneByOne
  <2>2. alone[d] /\ \A w \in Threads : w # t => (Tables!Serving(w, d)' <=> Tables!Serving(w, d))
    BY <1>2, <2>1 DEF Tables!Serving
  <2>3. Tables!Serving(t, d)' => d = c
    BY <1>2 DEF Tables!Serving
  <2>4. CASE u # t /\ v # t
    BY <2>1, <2>2, <2>4 DEF SharedInv, OneByOne
  <2>5. CASE u = t \/ v = t
    <3>1. d = c
      BY <2>1, <2>3, <2>5
    <3>2. PICK w \in Threads : w # t /\ Tables!Serving(w, c) /\ alone'[c] /\ alone[c]
      BY <2>1, <2>2, <2>5, <3>1
    <3>3. req[t].pc # "idle"
      BY <3>2
    <3>4. Tables!Serving(t, c)
      BY <3>3 DEF Tables!Serving
    <3>. QED  BY <3>2, <3>4 DEF SharedInv, OneByOne
  <2>. QED  BY <2>4, <2>5
<1>7. RecordsOwned'
  BY <1>4, OwnersStay
<1>8. \A d \in IPs : d # c => Right(d)'
  BY <1>4, OthersStay
<1>. QED  BY <1>5, <1>6, <1>7, <1>8 DEF SharedInv

\* What was seen counts as a number, and so do the recent attacks.
LEMMA TotalType ==
  ASSUME SharedTyped, NEW k \in KindsOf(table), NEW l \in Seq(Sightings(table))
  PROVE  Total(k, l) \in Nat
<1>1. CASE table = "network"
  <2>1. k = "attacks" /\ l \in Seq(Knocks)
    BY <1>1 DEF KindsOf, Sightings
  <2>2. [at |-> 0, attack |-> TRUE] \in Knocks
    BY DEF Knocks
  <2>. QED  BY <2>1, <2>2, AttacksAppend DEF Total
<1>2. CASE table # "network"
  <2>1. k \in {"visits", "names"} /\ l \in Seq(Visits)
    BY <1>2 DEF KindsOf, Sightings
  <2>2. CASE k = "visits"
    BY <2>1, <2>2 DEF Total
  <2>3. CASE k = "names" /\ l = <<>>
    BY <2>3, SuspiciousEmpty DEF Total
  <2>4. CASE k = "names" /\ l # <<>>
    <3>1. l[1] \in Visits
      BY <2>1, <2>4
    <3>. QED  BY <2>1, <2>4, <3>1, SuspiciousAppend DEF Total
  <2>. QED  BY <2>1, <2>2, <2>3, <2>4
<1>. QED  BY <1>1, <1>2

LEMMA RecentType ==
  ASSUME SharedTyped, table = "network", NEW c \in IPs
  PROVE  Recent(log[c]) \in Nat
<1>1. log[c] \in Seq(Knocks) /\ [at |-> 0, attack |-> TRUE] \in Knocks
  BY DEF SharedTyped, Sightings, Knocks
<1>. QED  BY <1>1, RecentAppend

\* What was seen of a client calls for a refusal, and still does when more is seen.
LEMMA EarnedGrows ==
  ASSUME SharedTyped, NEW l \in Seq(Sightings(table)), NEW e \in Sightings(table), Tables!Earned(l)
  PROVE  Tables!Earned(Append(l, e))
<1>1. CASE table = "network"
  <2>1. l \in Seq(Knocks) /\ e \in Knocks
    BY <1>1 DEF Sightings
  <2>2. Tables!Attacks(l, DOMAIN l) >= BlockAnomalies
    BY <1>1 DEF Tables!Earned
  <2>3. Tables!Attacks(Append(l, e), DOMAIN Append(l, e)) >= BlockAnomalies
    BY <2>1, <2>2, AttacksAppend, TableConstants
  <2>. QED  BY <1>1, <2>3 DEF Tables!Earned
<1>2. CASE table = "preattack"
  <2>1. l \in Seq(Visits) /\ e \in Visits
    BY <1>2 DEF Sightings
  <2>. DEFINE k == Append(l, e)
  <2>2. Len(l) \in Nat /\ Len(k) = Len(l) + 1
    BY <2>1
  <2>3. Tables!Suspicious(k) = Tables!Suspicious(l) + Marks[e.path] /\ Tables!Suspicious(l) \in Nat
    BY <2>1, SuspiciousAppend
  <2>4. Marks[e.path] \in Nat
    BY <2>1, TableConstants DEF Visits
  <2>5. /\ Tables!Suspicious(l) >= 3
        /\ Len(l) > SuspiciousPathsCount \/ (Len(l) > RapidRequests /\ Len(l) >= RunLength)
    BY <1>2 DEF Tables!Earned
  <2>. HIDE DEF k
  <2>6. Tables!Suspicious(k) >= 3
    BY <2>3, <2>4, <2>5
  <2>7. Len(k) > SuspiciousPathsCount \/ (Len(k) > RapidRequests /\ Len(k) >= RunLength)
    BY <2>2, <2>5, TableConstants
  <2>. QED  BY <1>2, <2>6, <2>7 DEF Tables!Earned, k
<1>. QED  BY <1>1, <1>2, TableOf

\* No record says more than before, and what is pending has not grown by more than was seen.
LEMMA BoundedKept ==
  ASSUME SharedInv, NEW c \in IPs, NEW k \in KindsOf(table), Bounded(c, k), UNCHANGED table,
         IsFiniteSet(Pending(c, k)'), Cardinality(Pending(c, k))' \in Nat,
         Total(k, log[c])' \in Nat,
         Cardinality(Pending(c, k))' + Total(k, log[c]) <= Cardinality(Pending(c, k)) + Total(k, log[c])',
         \A i \in DOMAIN heap' : HoldsRecord(c, i)' =>
           Value(k, heap'[i]) = 0
             \/ \E j \in DOMAIN heap : HoldsRecord(c, j) /\ Value(k, heap'[i]) = Value(k, heap[j]),
         \A u \in Threads : req'[u].pc \in {"add", "update"} /\ req'[u].client = c =>
           req'[u] = req[u]
             \/ \E j \in DOMAIN heap : HoldsRecord(c, j) /\ Reading(k, req'[u].seen) = Value(k, heap[j])
  PROVE  Bounded(c, k)'
<1>. DEFINE n == Cardinality(Pending(c, k))  m == Cardinality(Pending(c, k))'
            x == Total(k, log[c])  y == Total(k, log[c])'
<1>1. n \in Nat /\ m \in Nat /\ x \in Nat /\ y \in Nat /\ m + x <= n + y /\ n <= x
  <2>1. log[c] \in Seq(Sightings(table)) /\ SharedTyped
    BY DEF SharedInv, SharedTyped
  <2>2. x \in Nat
    BY <2>1, TotalType
  <2>3. n \in Nat /\ n <= x
    BY FS_CardinalityType DEF Bounded
  <2>. QED  BY <2>2, <2>3
<1>2. \A j \in DOMAIN heap : HoldsRecord(c, j) => Value(k, heap[j]) \in Nat /\ Value(k, heap[j]) + n <= x
  <2>1. ASSUME NEW j \in DOMAIN heap PROVE heap[j] \in RecordsOf(table)
    BY DEF SharedInv, SharedTyped
  <2>. QED  BY <2>1, ValueType DEF Bounded, SharedInv
<1>3. \A u \in Threads : req[u].pc \in {"add", "update"} /\ req[u].client = c =>
        Reading(k, req[u].seen) \in Nat /\ Reading(k, req[u].seen) + n <= x
  BY RequestAt, ReadingType DEF Bounded, SharedInv
<1>. HIDE DEF n, m, x, y
<1>4. ASSUME NEW v \in Nat, v + n <= x PROVE v + m <= y
  BY <1>1, <1>4
<1>5. m <= y
  BY <1>1
<1>6. \A i \in DOMAIN heap' : HoldsRecord(c, i)' => Value(k, heap'[i]) + m <= y
  <2>1. SUFFICES ASSUME NEW i \in DOMAIN heap', HoldsRecord(c, i)' PROVE Value(k, heap'[i]) + m <= y
    OBVIOUS
  <2>2. CASE Value(k, heap'[i]) = 0
    BY <1>1, <1>5, <2>2
  <2>3. CASE \E j \in DOMAIN heap : HoldsRecord(c, j) /\ Value(k, heap'[i]) = Value(k, heap[j])
    BY <1>2, <1>4, <2>3
  <2>. QED  BY <2>1, <2>2, <2>3
<1>7. \A u \in Threads : req'[u].pc \in {"add", "update"} /\ req'[u].client = c =>
        Reading(k, req'[u].seen) + m <= y
  <2>1. SUFFICES ASSUME NEW u \in Threads, req'[u].pc \in {"add", "update"}, req'[u].client = c
                 PROVE  Reading(k, req'[u].seen) + m <= y
    OBVIOUS
  <2>2. CASE req'[u] = req[u]
    BY <1>3, <1>4, <2>1, <2>2
  <2>3. CASE \E j \in DOMAIN heap : HoldsRecord(c, j) /\ Reading(k, req'[u].seen) = Value(k, heap[j])
    BY <1>2, <1>4, <2>3
  <2>. QED  BY <2>1, <2>2, <2>3
<1>. QED  BY <1>5, <1>6, <1>7 DEF Bounded, m, y

\* The flags stay deserved where a record takes on none, or one it has earned.
LEMMA FlaggedKept ==
  ASSUME SharedInv, NEW c \in IPs, UNCHANGED table, Len(log[c]) <= Len(log'[c]),
         log[c] \in Seq(Sightings(table)), log'[c] \in Seq(Sightings(table)),
         table = "preattack" =>
           \A i \in DOMAIN heap' : HoldsRecord(c, i)' =>
             \/ ~heap'[i].rapid /\ ~heap'[i].sequential
             \/ \E j \in DOMAIN heap : HoldsRecord(c, j) /\ heap'[i].rapid = heap[j].rapid
                                       /\ heap'[i].sequential = heap[j].sequential
  PROVE  Flagged(c)'
<1>. SUFFICES ASSUME table = "preattack", NEW i \in DOMAIN heap', HoldsRecord(c, i)'
              PROVE  /\ heap'[i].rapid => Len(log'[c]) > RapidRequests
                     /\ heap'[i].sequential => Len(log'[c]) >= RunLength
  BY DEF Flagged
<1>1. Len(log[c]) \in Nat /\ Len(log'[c]) \in Nat /\ RapidRequests \in Nat /\ RunLength \in Nat
  BY TableConstants
<1>2. ASSUME NEW j \in DOMAIN heap, HoldsRecord(c, j)
      PROVE  /\ heap[j].rapid => Len(log[c]) > RapidRequests
             /\ heap[j].sequential => Len(log[c]) >= RunLength
  BY <1>2 DEF SharedInv, Right, Flagged
<1>. QED  BY <1>1, <1>2

\* The answers stay deserved where only one request moves, and what it answers is.
LEMMA DeservedKept ==
  ASSUME SharedInv, NEW c \in IPs, NEW t \in Threads, \A u \in Threads : u # t => req'[u] = req[u],
         Tables!Earned(log[c]) => Tables!Earned(log[c])',
         req'[t].pc = "answer" /\ req'[t].client = c /\ req'[t].refused => Tables!Earned(log[c])'
  PROVE  Deserved(c)'
<1>1. Deserved(c)
  BY DEF SharedInv, Right
<1>2. ASSUME NEW u \in Threads, req'[u].pc = "answer", req'[u].client = c, req'[u].refused
      PROVE  Tables!Earned(log[c])'
  BY <1>1, <1>2 DEF Deserved
<1>. QED  BY <1>2 DEF Deserved

\* Of a client whose requests come one by one there is the request that takes the step,
\* and no cleanup has found its record old.
LEMMA ExactKept ==
  ASSUME SharedInv, NEW c \in IPs, NEW t \in Threads, Tables!Serving(t, c),
         \A u \in Threads : u # t => req'[u] = req[u], UNCHANGED <<stale, alone>>,
         Tables!Serving(t, c)', alone[c] => Follows(t)'
  PROVE  Exact(c)'
<1>1. SUFFICES ASSUME alone[c]
               PROVE  /\ (\A u \in Threads : ~Tables!Serving(u, c)') => Settled(c)'
                      /\ \A u \in Threads : Tables!Serving(u, c)' => Follows(u)'
                      /\ stale # c
  BY DEF Exact
<1>2. Exact(c)
  BY DEF SharedInv, Right
<1>3. stale # c
  BY <1>1, <1>2 DEF Exact
<1>4. ASSUME NEW u \in Threads, Tables!Serving(u, c)' PROVE u = t
  <2>1. CASE u # t
    <3>1. Tables!Serving(u, c)
      BY <1>4, <2>1 DEF Tables!Serving
    <3>. QED  BY <1>1, <3>1 DEF SharedInv, OneByOne
  <2>. QED  BY <2>1
<1>. QED  BY <1>1, <1>3, <1>4

\* A client whose requests come one by one has its one request in step with its record.
LEMMA FollowsNow ==
  ASSUME SharedInv, NEW c \in IPs, NEW t \in Threads, Tables!Serving(t, c), alone[c]
  PROVE  Follows(t)
BY DEF SharedInv, Right, Exact

\* What the invariant says of one client.
LEMMA RightParts ==
  ASSUME SharedInv, NEW c \in IPs
  PROVE  /\ SharedTyped /\ Right(c) /\ Flagged(c) /\ Deserved(c) /\ Exact(c)
         /\ \A k \in KindsOf(table) : Bounded(c, k) /\ IsFiniteSet(Pending(c, k))
         /\ log[c] \in Seq(Sightings(table))
         /\ \A k \in KindsOf(table) : Total(k, log[c]) \in Nat /\ Cardinality(Pending(c, k)) \in Nat
         /\ \A i \in DOMAIN heap : heap[i] \in RecordsOf(table)
<1>1. SharedTyped /\ Right(c)
  BY DEF SharedInv
<1>2. Flagged(c) /\ Deserved(c) /\ Exact(c) /\ \A k \in KindsOf(table) : Bounded(c, k)
  BY <1>1 DEF Right
<1>3. log[c] \in Seq(Sightings(table)) /\ \A i \in DOMAIN heap : heap[i] \in RecordsOf(table)
  BY <1>1 DEF SharedTyped
<1>4. ASSUME NEW k \in KindsOf(table) PROVE IsFiniteSet(Pending(c, k)) /\ Cardinality(Pending(c, k)) \in Nat
  <2>1. IsFiniteSet(Pending(c, k))
    BY <1>2 DEF Bounded
  <2>. QED  BY <2>1, FS_CardinalityType
<1>. QED  BY <1>1, <1>2, <1>3, <1>4, TotalType

\* What a client has earned is read off its log.
LEMMA EarnedSame ==
  ASSUME SharedTyped, NEW c \in IPs, UNCHANGED <<table, log>>
  PROVE  (Tables!Earned(log[c])' <=> Tables!Earned(log[c])) /\ (Tables!Due(log[c])' <=> Tables!Due(log[c]))
BY TableOf DEF Tables!Earned, Tables!Due, Tables!InWindow

\* A request of the client's own that has not begun, or is over, counts nowhere.
LEMMA SharedArrive ==
  ASSUME SharedInv, NEW t \in Threads, NEW c \in IPs, NEW w \in Pieces(table), Tables!Arrive(t, c, w)
  PROVE  SharedInv'
<1>. DEFINE r == [pc |-> "load", client |-> c, work |-> w]
<1>1. /\ req[t].pc = "idle" /\ req' = [req EXCEPT ![t] = r]
      /\ alone' = [alone EXCEPT ![c] = @ /\ ~Tables!Meets(c) /\ stale # c]
      /\ UNCHANGED <<table, states, heap, stale, now, log>>
  BY DEF Tables!Arrive, Tables!At
<1>2. r \in SharedRequests(table) /\ r.pc = "load" /\ r.client = c
  BY DEF SharedRequests
<1>. HIDE DEF r
<1>3. SharedTyped /\ Right(c) /\ Flagged(c) /\ Deserved(c) /\ Exact(c)
  BY RightParts
<1>4. \A u \in Threads : req'[u] = IF u = t THEN r ELSE req[u]
  BY <1>1, <1>2, <1>3 DEF SharedTyped
<1>5. /\ alone' \in [IPs -> BOOLEAN] /\ \A d \in IPs : d # c => alone'[d] = alone[d]
      /\ alone'[c] => alone[c] /\ stale # c /\ \A u \in Threads : ~Tables!Serving(u, c)
  BY <1>1, <1>3 DEF SharedTyped, Tables!Meets
<1>6. \A i : HoldsRecord(c, i)' => HoldsRecord(c, i)
  BY <1>1, <1>2, <1>4 DEF HoldsRecord, Holding
<1>7. ASSUME NEW k \in KindsOf(table) PROVE Bounded(c, k)'
  <2>1. /\ IsFiniteSet(Pending(c, k)') /\ Cardinality(Pending(c, k))' = Cardinality(Pending(c, k))
        /\ Cardinality(Pending(c, k)) \in Nat /\ Total(k, log[c]) \in Nat
    BY <1>1, <1>2, <1>3, RightParts, PendingStep DEF Writing
  <2>2. Total(k, log[c])' = Total(k, log[c])
    BY <1>1
  <2>3. Cardinality(Pending(c, k))' + Total(k, log[c]) <= Cardinality(Pending(c, k)) + Total(k, log[c])'
    BY <2>1, <2>2
  <2>4. \A u \in Threads : req'[u].pc \in {"add", "update"} => req'[u] = req[u]
    BY <1>2, <1>4
  <2>5. \A i \in DOMAIN heap' : HoldsRecord(c, i)' => HoldsRecord(c, i) /\ i \in DOMAIN heap /\ Value(k, heap'[i]) = Value(k, heap[i])
    BY <1>1, <1>6
  <2>6. Bounded(c, k)
    BY RightParts
  <2>. QED  BY <1>1, <2>1, <2>2, <2>3, <2>4, <2>5, <2>6, BoundedKept
<1>8. Flagged(c)'
  BY <1>1, <1>3, <1>6 DEF Flagged
<1>9. Deserved(c)'
  BY <1>1, <1>2, <1>3, <1>4, EarnedSame, DeservedKept
<1>10. Exact(c)'
  <2>1. SUFFICES ASSUME alone'[c]
                 PROVE  /\ \E u \in Threads : Tables!Serving(u, c)'
                        /\ \A u \in Threads : Tables!Serving(u, c)' => Follows(u)'
                        /\ stale' # c
    BY DEF Exact
  <2>2. stale # c /\ Settled(c) /\ \A u \in Threads : ~Tables!Serving(u, c)
    BY <1>3, <1>5, <2>1 DEF Exact
  <2>3. Tables!Serving(t, c)' /\ \A u \in Threads : Tables!Serving(u, c)' => u = t
    BY <1>2, <1>4, <2>2 DEF Tables!Serving
  <2>4. Settled(c)'
    BY <1>1, <2>2 DEF Settled, Quiet
  <2>5. Follows(t)'
    BY <1>2, <1>4, <2>4 DEF Follows, Holding
  <2>. QED  BY <1>1, <2>2, <2>3, <2>5
<1>11. Right(c)'
  BY <1>1, <1>7, <1>8, <1>9, <1>10 DEF Right
<1>12. /\ states' \in [IPs -> Nat \cup {None}] /\ log' \in [IPs -> Seq(Sightings(table))]
       /\ heap' \in Seq(RecordsOf(table))
       /\ \A d \in IPs : d # c => states'[d] = states[d] /\ log'[d] = log[d]
       /\ \A i \in DOMAIN heap : i \in DOMAIN heap' /\ heap'[i] = heap[i]
       /\ states'[c] # None => states'[c] \in DOMAIN heap' /\ HoldsRecord(c, states'[c])
  BY <1>1, <1>3 DEF SharedTyped, HoldsRecord
<1>13. r.pc \notin Holding
  BY <1>2 DEF Holding
<1>. QED  BY <1>1, <1>2, <1>5, <1>11, <1>12, <1>13, RequestStep

\* An answer given is forgotten.
LEMMA SharedFinish ==
  ASSUME SharedInv, NEW t \in Threads, NEW c \in IPs, req[t].client = c, Tables!Finish(t)
  PROVE  SharedInv'
<1>. DEFINE r == Tables!Idle
<1>1. /\ req[t].pc = "answer" /\ req' = [req EXCEPT ![t] = r]
      /\ UNCHANGED <<table, states, heap, stale, now, log, alone>>
  BY DEF Tables!Finish, Tables!At
<1>2. r \in SharedRequests(table) /\ r.pc = "idle"
  BY DEF SharedRequests, Tables!Idle
<1>. HIDE DEF r
<1>3. SharedTyped
  BY DEF SharedInv
<1>4. Right(c) /\ Flagged(c) /\ Deserved(c) /\ Exact(c) /\ Tables!Serving(t, c)
  BY <1>1, <1>3, RightParts DEF Tables!Serving
<1>5. \A u \in Threads : req'[u] = IF u = t THEN r ELSE req[u]
  BY <1>1, <1>2, <1>3 DEF SharedTyped
<1>6. \A i : HoldsRecord(c, i)' => HoldsRecord(c, i)
  BY <1>1, <1>2, <1>5 DEF HoldsRecord, Holding
<1>7. ASSUME NEW k \in KindsOf(table) PROVE Bounded(c, k)'
  <2>1. /\ IsFiniteSet(Pending(c, k)') /\ Cardinality(Pending(c, k))' = Cardinality(Pending(c, k))
        /\ Cardinality(Pending(c, k)) \in Nat /\ Total(k, log[c]) \in Nat
    BY <1>1, <1>2, <1>3, RightParts, PendingStep DEF Writing
  <2>2. Total(k, log[c])' = Total(k, log[c])
    BY <1>1
  <2>3. Cardinality(Pending(c, k))' + Total(k, log[c]) <= Cardinality(Pending(c, k)) + Total(k, log[c])'
    BY <2>1, <2>2
  <2>4. \A u \in Threads : req'[u].pc \in {"add", "update"} => req'[u] = req[u]
    BY <1>2, <1>5
  <2>5. \A i \in DOMAIN heap' : HoldsRecord(c, i)' => HoldsRecord(c, i) /\ i \in DOMAIN heap /\ Value(k, heap'[i]) = Value(k, heap[i])
    BY <1>1, <1>6
  <2>6. Bounded(c, k)
    BY <1>3, RightParts
  <2>. QED  BY <1>1, <1>3, <2>1, <2>2, <2>3, <2>4, <2>5, <2>6, BoundedKept
<1>8. Flagged(c)'
  BY <1>1, <1>4, <1>6 DEF Flagged
<1>9. Deserved(c)'
  BY <1>1, <1>2, <1>3, <1>4, <1>5, EarnedSame, DeservedKept
<1>10. Exact(c)'
  <2>1. SUFFICES ASSUME alone[c]
                 PROVE  /\ Settled(c)'
                        /\ \A u \in Threads : ~Tables!Serving(u, c)'
                        /\ stale # c
    BY <1>1 DEF Exact
  <2>2. stale # c /\ Follows(t)
    BY <1>4, <2>1 DEF Exact
  <2>3. \A u \in Threads : ~Tables!Serving(u, c)'
    <3>1. ASSUME NEW u \in Threads, Tables!Serving(u, c)' PROVE FALSE
      <4>1. u # t /\ Tables!Serving(u, c)
        BY <1>2, <1>5, <3>1 DEF Tables!Serving
      <4>. QED  BY <1>3, <1>4, <2>1, <4>1 DEF SharedInv, OneByOne
    <3>. QED  BY <3>1
  <2>4. Settled(c)
    BY <1>1, <2>2 DEF Follows
  <2>5. Settled(c)'
    BY <1>1, <2>4 DEF Settled, Quiet
  <2>. QED  BY <2>2, <2>3, <2>5
<1>11. Right(c)'
  BY <1>1, <1>7, <1>8, <1>9, <1>10 DEF Right
<1>12. /\ states' \in [IPs -> Nat \cup {None}] /\ log' \in [IPs -> Seq(Sightings(table))]
       /\ heap' \in Seq(RecordsOf(table)) /\ alone' \in [IPs -> BOOLEAN]
       /\ \A d \in IPs : d # c => states'[d] = states[d] /\ log'[d] = log[d] /\ alone'[d] = alone[d]
       /\ \A i \in DOMAIN heap : i \in DOMAIN heap' /\ heap'[i] = heap[i]
       /\ states'[c] # None => states'[c] \in DOMAIN heap' /\ HoldsRecord(c, states'[c])
       /\ alone'[c] => alone[c]
  BY <1>1, <1>3 DEF SharedTyped, HoldsRecord
<1>13. r.pc \notin Holding /\ req[t].pc # "idle" /\ req[t].client = c
  BY <1>1, <1>2 DEF Holding
<1>. QED  BY <1>1, <1>2, <1>3, <1>11, <1>12, <1>13, RequestStep

\* A step within a request keeps the invariant if it keeps what it says of its own client.
LEMMA OwnStep ==
  ASSUME SharedInv, NEW t \in Threads, NEW c \in IPs, Tables!Serving(t, c),
         NEW r \in SharedRequests(table), r.pc # "idle", r.client = c, req' = [req EXCEPT ![t] = r],
         UNCHANGED <<table, now, stale, alone>>,
         states' \in [IPs -> Nat \cup {None}], log' \in [IPs -> Seq(Sightings(table))],
         heap' \in Seq(RecordsOf(table)),
         \A d \in IPs : d # c => states'[d] = states[d] /\ log'[d] = log[d],
         \A i \in DOMAIN heap : i \in DOMAIN heap' /\ (HoldsRecord(c, i) \/ heap'[i] = heap[i]),
         states'[c] # None => states'[c] \in DOMAIN heap' /\ (HoldsRecord(c, states'[c]) \/ states'[c] \notin DOMAIN heap),
         r.pc \in Holding => r.id \in DOMAIN heap' /\ (HoldsRecord(c, r.id) \/ r.id \notin DOMAIN heap),
         \A k \in KindsOf(table) : Bounded(c, k)',
         Flagged(c)',
         Tables!Earned(log[c]) => Tables!Earned(log[c])',
         r.pc = "answer" /\ r.refused => Tables!Earned(log[c])',
         alone[c] => Follows(t)'
  PROVE  SharedInv'
<1>1. req[t].pc # "idle" /\ req[t].client = c
  BY DEF Tables!Serving
<1>2. SharedTyped /\ alone' \in [IPs -> BOOLEAN]
  BY DEF SharedInv, SharedTyped
<1>3. \A u \in Threads : req'[u] = IF u = t THEN r ELSE req[u]
  BY <1>2 DEF SharedTyped
<1>4. Tables!Serving(t, c)'
  BY <1>3 DEF Tables!Serving
<1>5. Deserved(c)'
  BY <1>3, DeservedKept
<1>6. Exact(c)'
  BY <1>3, <1>4, ExactKept
<1>7. Right(c)'
  BY <1>5, <1>6 DEF Right
<1>. QED  BY <1>1, <1>2, <1>7, RequestStep

\* A step within a request that has its record, and changes at most this one.
Moves(t, c, r, rec) ==
  /\ req[t].client = c /\ req[t].pc \in Holding
  /\ r.pc # "idle" /\ r.client = c /\ req' = [req EXCEPT ![t] = r]
  /\ r.pc \in Holding => r.id = req[t].id
  /\ r.pc \in Writing => req[t].pc \in Writing /\ r.work = req[t].work
  /\ UNCHANGED <<table, now, states, stale, log, alone>>
  /\ heap' \in Seq(RecordsOf(table)) /\ DOMAIN heap' = DOMAIN heap
  /\ \A i \in DOMAIN heap : heap'[i] = IF i = req[t].id THEN rec ELSE heap[i]

\* It writes what it has read, and what it adds.
Adds(t, r, rec) ==
  \A k \in KindsOf(table) :
    /\ \/ Value(k, rec) = Value(k, heap[req[t].id])
       \/ /\ req[t].pc \in {"add", "update"} /\ r.pc \notin Writing
          /\ Value(k, rec) = Reading(k, req[t].seen) + Weight(k, req[t].work)
    /\ r.pc \in {"add", "update"} => Reading(k, r.seen) = Value(k, heap[req[t].id])

Marked(t, c, rec) ==
  table = "preattack" =>
    /\ rec.rapid => heap[req[t].id].rapid \/ Len(log[c]) > RapidRequests
    /\ rec.sequential => heap[req[t].id].sequential \/ Len(log[c]) >= RunLength

\* The step of a request that writes the record it has found.
LEMMA RecordStep ==
  ASSUME SharedInv, NEW t \in Threads, NEW c \in IPs, NEW r \in SharedRequests(table),
         NEW rec \in RecordsOf(table), Moves(t, c, r, rec), Adds(t, r, rec), Marked(t, c, rec),
         r.pc = "answer" /\ r.refused => Tables!Earned(log[c]), alone[c] => Follows(t)'
  PROVE  SharedInv'
<1>. DEFINE n == req[t].id
<1>0. /\ req[t].client = c /\ req[t].pc \in Holding
      /\ r.pc # "idle" /\ r.client = c /\ req' = [req EXCEPT ![t] = r]
      /\ r.pc \in Holding => r.id = n
      /\ r.pc \in Writing => req[t].pc \in Writing /\ r.work = req[t].work
      /\ UNCHANGED <<table, now, states, stale, log, alone>>
      /\ heap' \in Seq(RecordsOf(table)) /\ DOMAIN heap' = DOMAIN heap
      /\ \A i \in DOMAIN heap : heap'[i] = IF i = n THEN rec ELSE heap[i]
  BY DEF Moves
<1>1. SharedTyped /\ Flagged(c) /\ n \in DOMAIN heap /\ Tables!Serving(t, c) /\ HoldsRecord(c, n)
  BY <1>0, RightParts DEF SharedInv, SharedTyped, Tables!Serving, HoldsRecord, Holding
<1>2. \A u \in Threads : req'[u] = IF u = t THEN r ELSE req[u]
  BY <1>0, <1>1 DEF SharedTyped
<1>4. \A i : HoldsRecord(c, i)' => HoldsRecord(c, i)
  BY <1>0, <1>1, <1>2 DEF HoldsRecord
<1>5. ASSUME NEW k \in KindsOf(table) PROVE Bounded(c, k)'
  <2>. DEFINE p == Cardinality(Pending(c, k))  q == Cardinality(Pending(c, k))'
              x == Total(k, log[c])  w == Weight(k, req[t].work)
  <2>1. Bounded(c, k) /\ IsFiniteSet(Pending(c, k)) /\ p \in Nat /\ x \in Nat
    BY RightParts
  <2>2. /\ q \in Nat /\ IsFiniteSet(Pending(c, k)')
        /\ r.pc \in Writing => q = p
        /\ r.pc \notin Writing /\ req[t].pc \in Writing => p = q + w
        /\ r.pc \notin Writing /\ req[t].pc \notin Writing => q = p
    BY <1>0, <1>1, <2>1, PendingStep
  <2>3. req[t].pc \in Writing => w \in Nat
    BY <1>1, RequestAt, WeightType DEF Writing
  <2>4. q <= p
    <3>. HIDE DEF p, q, w
    <3>. QED  BY <2>1, <2>2, <2>3
  <2>5. Total(k, log[c])' = x
    BY <1>0
  <2>6. q + x <= p + Total(k, log[c])'
    <3>. HIDE DEF p, q, x
    <3>. QED  BY <2>1, <2>2, <2>4, <2>5
  <2>7. \A u \in Threads : req'[u].pc \in {"add", "update"} /\ req'[u].client = c =>
          \/ req'[u] = req[u]
          \/ \E j \in DOMAIN heap : HoldsRecord(c, j) /\ Reading(k, req'[u].seen) = Value(k, heap[j])
    BY <1>1, <1>2 DEF Adds
  <2>8. CASE Value(k, rec) = Value(k, heap[n])
    <3>1. \A i \in DOMAIN heap' : HoldsRecord(c, i)' =>
            Value(k, heap'[i]) = 0
              \/ \E j \in DOMAIN heap : HoldsRecord(c, j) /\ Value(k, heap'[i]) = Value(k, heap[j])
      BY <1>1, <1>0, <1>4, <2>8
    <3>. QED  BY <2>1, <2>2, <2>5, <2>6, <2>7, <3>1, <1>0, BoundedKept
  <2>9. CASE /\ req[t].pc \in {"add", "update"} /\ r.pc \notin Writing
             /\ Value(k, rec) = Reading(k, req[t].seen) + w
    <3>1. Reading(k, req[t].seen) + p <= x /\ p = q + w /\ p <= x
      BY <1>0, <2>1, <2>2, <2>9 DEF Bounded, Writing
    <3>2. Value(k, rec) \in Nat /\ w \in Nat
      BY <1>1, <2>3, <2>9, ValueType DEF Writing
    <3>3. \A v : v + p <= x /\ v \in Nat => v + q <= x
      BY <2>1, <2>2, <2>4
    <3>4. Reading(k, req[t].seen) \in Nat
      BY <1>1, <2>9, RequestAt, ReadingType
    <3>5. Value(k, rec) + q <= x
      <4>. DEFINE v == Reading(k, req[t].seen)  z == Value(k, rec)
      <4>1. v \in Nat /\ z = v + w /\ v + p <= x
        BY <2>9, <3>1, <3>4
      <4>. HIDE DEF v, z, p, q, w, x
      <4>2. z + q <= x
        BY <2>1, <2>2, <3>1, <3>2, <4>1
      <4>. QED  BY <4>2 DEF z
    <3>6. \A i \in DOMAIN heap : HoldsRecord(c, i) => Value(k, heap[i]) + p <= x /\ Value(k, heap[i]) \in Nat
      BY <1>1, <2>1, RightParts, ValueType DEF Bounded
    <3>7. \A i \in DOMAIN heap' : HoldsRecord(c, i)' => Value(k, heap'[i]) + q <= x
      BY <1>0, <1>4, <3>3, <3>5, <3>6
    <3>8. \A u \in Threads : req'[u].pc \in {"add", "update"} /\ req'[u].client = c =>
            Reading(k, req'[u].seen) + q <= x
      <4>1. ASSUME NEW u \in Threads, req'[u].pc \in {"add", "update"}, req'[u].client = c
            PROVE  Reading(k, req'[u].seen) + q <= x
        <5>1. u # t /\ req'[u] = req[u]
          BY <1>2, <2>9, <4>1 DEF Writing
        <5>2. Reading(k, req[u].seen) + p <= x
          BY <2>1, <4>1, <5>1 DEF Bounded
        <5>3. Reading(k, req[u].seen) \in Nat
          BY <1>1, <4>1, <5>1, RequestAt, ReadingType
        <5>. QED  BY <3>3, <5>1, <5>2, <5>3
      <4>. QED  BY <4>1
    <3>9. q <= x
      <4>. HIDE DEF p, q, w, x
      <4>. QED  BY <2>1, <2>2, <2>4, <3>1
    <3>. QED  BY <2>2, <2>5, <3>7, <3>8, <3>9, <1>0 DEF Bounded
  <2>. QED  BY <2>8, <2>9 DEF Adds
<1>6. Flagged(c)'
  <2>1. SUFFICES ASSUME table = "preattack", NEW i \in DOMAIN heap', HoldsRecord(c, i)'
                 PROVE  /\ heap'[i].rapid => Len(log[c]) > RapidRequests
                        /\ heap'[i].sequential => Len(log[c]) >= RunLength
    BY <1>0 DEF Flagged
  <2>2. \A j \in DOMAIN heap : HoldsRecord(c, j) =>
          /\ heap[j].rapid => Len(log[c]) > RapidRequests
          /\ heap[j].sequential => Len(log[c]) >= RunLength
    BY <1>1, <2>1 DEF Flagged
  <2>. QED  BY <1>0, <1>1, <1>4, <2>1, <2>2 DEF Marked
<1>7. /\ states' \in [IPs -> Nat \cup {None}] /\ log' \in [IPs -> Seq(Sightings(table))]
      /\ \A d \in IPs : d # c => states'[d] = states[d] /\ log'[d] = log[d]
      /\ \A i \in DOMAIN heap : i \in DOMAIN heap' /\ (HoldsRecord(c, i) \/ heap'[i] = heap[i])
      /\ states'[c] # None => states'[c] \in DOMAIN heap' /\ HoldsRecord(c, states'[c])
      /\ r.pc \in Holding => r.id \in DOMAIN heap' /\ HoldsRecord(c, r.id)
  BY <1>1, <1>0 DEF SharedTyped, HoldsRecord
<1>8. Tables!Earned(log[c]) <=> Tables!Earned(log[c])'
  BY <1>0, <1>1, EarnedSame
<1>. QED  BY <1>0, <1>1, <1>2, <1>5, <1>6, <1>7, <1>8, OwnStep

-----------------------------------------------------------------------------
(* The steps of a request of the network detector, then of the             *)
(* pre-attack detector.                                                    *)

\* A request of the network detector has read the record's counter (DetectExploitation),
LEMMA SharedReadAnomalies ==
  ASSUME SharedInv, NEW t \in Threads, NEW c \in IPs, req[t].client = c, Tables!ReadAnomalies(t)
  PROVE  SharedInv'
<1>. DEFINE q == req[t]  rec == heap[q.id]
            r == [pc |-> IF Head(q.work) THEN "add" ELSE "look", client |-> q.client, work |-> q.work,
                  id |-> q.id, seen |-> rec.anomalies]
<1>1. /\ table = "network" /\ q.pc = "count" /\ req' = [req EXCEPT ![t] = r]
      /\ UNCHANGED <<table, states, heap, stale, now, log, alone>>
  BY DEF Tables!ReadAnomalies, Tables!Read, Tables!At
<1>2. SharedTyped /\ q \in [pc : {"count"}, client : IPs, work : Payloads, id : Nat]
  BY <1>1, RequestAt DEF SharedInv, Pieces
<1>3. q.id \in DOMAIN heap /\ rec \in Connections
  <2>1. q.id \in DOMAIN heap /\ heap \in Seq(RecordsOf(table)) /\ RecordsOf(table) = Connections
    BY <1>1, <1>2 DEF SharedTyped, RecordsOf, Holding
  <2>. QED  BY <2>1
<1>4. r \in SharedRequests(table)
  <2>1. r.pc \in {"add", "look"} /\ r.seen \in Nat /\ (r.pc = "add" => Head(r.work))
    BY <1>3 DEF Connections
  <2>2. r \in LateRequests(table)
    BY <1>1, <1>2, <2>1 DEF LateRequests, LateSteps, Readings, Pieces
  <2>. QED  BY <2>2 DEF SharedRequests
<1>5. /\ r.pc = (IF Head(q.work) THEN "add" ELSE "look") /\ r.client = c /\ r.work = q.work /\ r.id = q.id
      /\ r.seen = rec.anomalies
  OBVIOUS
<1>. HIDE DEF r
<1>6. req'[t] = r
  BY <1>1, <1>2 DEF SharedTyped
<1>7. ASSUME alone[c] PROVE Follows(t)'
  <2>1. Follows(t) /\ Counting(t) /\ CountingNetwork(t)
    BY <1>1, <1>7, FollowsNow DEF Tables!Serving, Follows, Counting, Holding
  <2>2. q.pc # "look" /\ rec.anomalies + Weight("attacks", q.work) >= Recent(log[c])
    BY <1>1, <2>1 DEF CountingNetwork
  <2>3. Weight("attacks", q.work) = IF Head(q.work) THEN 1 ELSE 0
    BY DEF Weight
  <2>4. ~Head(q.work) => rec.anomalies + 0 >= Recent(log[c])
    BY <2>2, <2>3
  <2>5. CountingNetwork(t)'
    BY <1>1, <1>5, <1>6, <2>2, <2>4 DEF CountingNetwork
  <2>6. Current(heap[req[t].id], log[req[t].client])' /\ states'[c] = r.id
    BY <1>1, <1>5, <1>6, <2>1 DEF Counting, Current
  <2>7. Counting(t)'
    BY <1>1, <1>5, <1>6, <2>5, <2>6 DEF Counting
  <2>. QED  BY <1>5, <1>6, <2>7 DEF Follows, Holding
<1>8. KindsOf(table) = {"attacks"}
  BY <1>1 DEF KindsOf
<1>9. Adds(t, r, rec)
  BY <1>5, <1>8 DEF Adds, Reading, Value
<1>10. /\ heap' \in Seq(RecordsOf(table)) /\ rec \in RecordsOf(table) /\ DOMAIN heap' = DOMAIN heap
       /\ \A i \in DOMAIN heap : heap'[i] = IF i = req[t].id THEN rec ELSE heap[i]
  BY <1>1, <1>2, <1>3 DEF SharedTyped, RecordsOf
<1>11. Moves(t, c, r, rec)
  BY <1>1, <1>5, <1>10 DEF Moves, Holding, Writing
<1>12. Marked(t, c, rec) /\ r.pc # "answer"
  BY <1>1, <1>5 DEF Marked
<1>. HIDE DEF q, rec
<1>. QED  BY <1>4, <1>7, <1>9, <1>10, <1>11, <1>12, RecordStep

\* it writes the counter it read, one more: others' additions since are lost,
LEMMA SharedAddAnomaly ==
  ASSUME SharedInv, NEW t \in Threads, NEW c \in IPs, req[t].client = c, Tables!AddAnomaly(t)
  PROVE  SharedInv'
<1>. DEFINE q == req[t]  r == [q EXCEPT !.pc = "look"]  rec == [heap[q.id] EXCEPT !.anomalies = q.seen + 1]
<1>1. /\ q.pc = "add" /\ req' = [req EXCEPT ![t].pc = "look"]
      /\ heap' = [heap EXCEPT ![q.id].anomalies = q.seen + 1]
      /\ UNCHANGED <<table, states, stale, now, log, alone>>
  BY DEF Tables!AddAnomaly, Tables!At
<1>2. /\ SharedTyped /\ table = "network"
      /\ q \in [pc : LateSteps(table), client : IPs, work : Payloads, id : Nat, seen : Nat]
  <2>1. SharedTyped /\ q.pc \in LateSteps(table)
    BY <1>1, RequestAt DEF SharedInv
  <2>2. table = "network"
    BY <1>1, <2>1 DEF LateSteps
  <2>. QED  BY <1>1, <2>1, <2>2, RequestAt DEF Pieces, Readings
<1>3. q.id \in DOMAIN heap /\ heap[q.id] \in Connections /\ q.seen + 1 \in Nat
  BY <1>1, <1>2 DEF SharedTyped, RecordsOf, Holding
<1>4. /\ r \in SharedRequests(table) /\ r.pc = "look" /\ r.client = c /\ r.work = q.work /\ r.id = q.id
      /\ req' = [req EXCEPT ![t] = r] /\ req'[t] = r
  <2>1. r \in [pc : LateSteps(table), client : IPs, work : Payloads, id : Nat, seen : Nat] /\ r.pc = "look"
    BY <1>2 DEF LateSteps
  <2>2. r \in LateRequests(table)
    BY <1>2, <2>1 DEF LateRequests, Readings, Pieces
  <2>. QED  BY <1>1, <1>2, <2>1, <2>2 DEF SharedRequests, SharedTyped
<1>5. /\ rec \in RecordsOf(table) /\ rec.anomalies = q.seen + 1 /\ rec.last = heap[q.id].last
      /\ heap' \in Seq(RecordsOf(table)) /\ DOMAIN heap' = DOMAIN heap
      /\ \A i \in DOMAIN heap : heap'[i] = IF i = req[t].id THEN rec ELSE heap[i]
  <2>1. /\ rec \in Connections /\ rec.anomalies = q.seen + 1 /\ rec.last = heap[q.id].last
        /\ heap' = [heap EXCEPT ![q.id] = rec]
    BY <1>1, <1>3 DEF Connections
  <2>2. heap \in Seq(Connections) /\ RecordsOf(table) = Connections
    BY <1>2 DEF SharedTyped, RecordsOf
  <2>. HIDE DEF rec, r
  <2>. QED  BY <1>3, <2>1, <2>2
<1>. HIDE DEF r, rec
<1>6. ASSUME alone[c] PROVE Follows(t)'
  <2>1. Follows(t) /\ Counting(t) /\ CountingNetwork(t)
    BY <1>1, <1>2, <1>6, FollowsNow DEF Tables!Serving, Follows, Counting, Holding
  <2>2. /\ heap[q.id].anomalies + Weight("attacks", q.work) >= Recent(log[c])
        /\ q.seen = heap[q.id].anomalies /\ Head(q.work)
    BY <1>1, <1>2, <2>1, RequestAt DEF CountingNetwork
  <2>3. rec.anomalies + 0 >= Recent(log[c])
    <3>1. Weight("attacks", q.work) = 1
      BY <2>2 DEF Weight
    <3>2. heap[q.id].anomalies \in Nat /\ Recent(log[c]) \in Int
      BY <1>2, <1>3, RecentType DEF Connections
    <3>3. \A m, n \in Int : m + 1 >= n => (m + 1) + 0 >= n
      OBVIOUS
    <3>4. rec.anomalies = heap[q.id].anomalies + 1 /\ heap[q.id].anomalies + 1 >= Recent(log[c])
      BY <1>5, <2>2, <3>1
    <3>. QED  BY <3>2, <3>3, <3>4
  <2>4. CountingNetwork(t)'
    BY <1>1, <1>4, <1>5, <2>3 DEF CountingNetwork
  <2>5. Current(heap[req[t].id], log[req[t].client])' /\ states'[c] = r.id
    BY <1>1, <1>4, <1>5, <2>1 DEF Counting, Current
  <2>6. Counting(t)'
    BY <1>1, <1>2, <1>4, <2>4, <2>5 DEF Counting
  <2>. QED  BY <1>4, <2>6 DEF Follows, Holding
<1>7. KindsOf(table) = {"attacks"}
  BY <1>2 DEF KindsOf
<1>8. Adds(t, r, rec)
  <2>1. Head(q.work)
    BY <1>1, <1>2, RequestAt
  <2>2. r.pc \notin Writing
    BY <1>4 DEF Writing
  <2>. QED  BY <1>1, <1>4, <1>5, <1>7, <2>1, <2>2 DEF Adds, Value, Reading, Weight
<1>9. Moves(t, c, r, rec)
  BY <1>1, <1>4, <1>5 DEF Moves, Holding, Writing
<1>10. Marked(t, c, rec) /\ r.pc # "answer"
  BY <1>2, <1>4 DEF Marked
<1>. QED  BY <1>4, <1>5, <1>6, <1>8, <1>9, <1>10, RecordStep

\* and looks at the counter, for its answer or for the next payload.
LEMMA SharedLook ==
  ASSUME SharedInv, NEW t \in Threads, NEW c \in IPs, req[t].client = c, Tables!Look(t)
  PROVE  SharedInv'
<1>. DEFINE q == req[t]  rec == heap[q.id]  n == rec.anomalies  rest == Tail(q.work)
            over == n >= BlockAnomalies \/ rest = <<>>
            answer == [pc |-> "answer", client |-> q.client, refused |-> n >= BlockAnomalies]
            load == [pc |-> "load", client |-> q.client, work |-> rest]
            r == IF over THEN answer ELSE load
<1>1. /\ q.pc = "look" /\ UNCHANGED <<table, states, heap, stale, now, log, alone>>
      /\ req' = IF over THEN [req EXCEPT ![t] = answer] ELSE [req EXCEPT ![t] = load]
  BY DEF Tables!Look, Tables!Answer, Tables!At
<1>2. /\ SharedTyped /\ table = "network"
      /\ q \in [pc : LateSteps(table), client : IPs, work : Payloads, id : Nat, seen : Nat]
  <2>1. SharedTyped /\ q.pc \in LateSteps(table)
    BY <1>1, RequestAt DEF SharedInv
  <2>2. table = "network"
    BY <1>1, <2>1 DEF LateSteps
  <2>. QED  BY <1>1, <2>1, <2>2, RequestAt DEF Pieces, Readings
<1>3. q.id \in DOMAIN heap /\ rec \in Connections /\ heap \in Seq(RecordsOf(table)) /\ rec \in RecordsOf(table)
  <2>1. q.id \in DOMAIN heap /\ heap \in Seq(RecordsOf(table)) /\ RecordsOf(table) = Connections
    BY <1>1, <1>2 DEF SharedTyped, RecordsOf, Holding
  <2>. QED  BY <2>1
<1>4. n \in Nat /\ (~over => rest \in Payloads)
  <2>1. rest \in Seq(BOOLEAN)
    <3>1. q.work \in Seq(BOOLEAN) /\ q.work # <<>>
      BY <1>2 DEF Payloads
    <3>2. \A s \in Seq(BOOLEAN) : s # <<>> => Tail(s) \in Seq(BOOLEAN)
      OBVIOUS
    <3>. QED  BY <3>1, <3>2
  <2>. QED  BY <1>3, <2>1 DEF Connections, Payloads
<1>5. answer \in SharedRequests(table) /\ (~over => load \in SharedRequests(table))
  <2>1. answer \in [pc : {"answer"}, client : IPs, refused : BOOLEAN]
    BY <1>2
  <2>2. ~over => load \in [pc : {"load"}, client : IPs, work : Pieces(table)]
    BY <1>2, <1>4 DEF Pieces
  <2>. HIDE DEF answer, load, over
  <2>. QED  BY <2>1, <2>2 DEF SharedRequests
<1>6. /\ r \in SharedRequests(table) /\ r.pc = (IF over THEN "answer" ELSE "load") /\ r.client = c
      /\ over => (r.refused <=> n >= BlockAnomalies)
      /\ req' = [req EXCEPT ![t] = r] /\ req'[t] = r
  <2>1. /\ answer.pc = "answer" /\ load.pc = "load" /\ answer.client = c /\ load.client = c
        /\ answer.refused <=> n >= BlockAnomalies
    OBVIOUS
  <2>. HIDE DEF answer, load, over
  <2>. QED  BY <1>1, <1>2, <1>5, <2>1 DEF SharedTyped
<1>. HIDE DEF r, answer, load
<1>7. ASSUME alone[c] PROVE Follows(t)'
  <2>1. Follows(t) /\ Counting(t) /\ CountingNetwork(t)
    BY <1>1, <1>2, <1>7, FollowsNow DEF Tables!Serving, Follows, Counting, Holding
  <2>2. n >= Recent(log[c])
    <3>1. n + 0 >= Recent(log[c]) /\ Recent(log[c]) \in Nat
      BY <1>1, <1>2, <2>1, RecentType DEF CountingNetwork
    <3>. QED  BY <1>4, <3>1
  <2>3. Settled(c)
    <3>1. states[c] = q.id /\ q.id # None /\ Current(rec, log[c])
      BY <1>2, <2>1, TableConstants DEF Counting
    <3>. QED  BY <1>2, <2>2, <3>1 DEF Settled
  <2>4. Settled(c)'
    BY <1>1, <2>3 DEF Settled, Quiet
  <2>5. over => Answering(t)'
    <3>1. SUFFICES ASSUME over PROVE Answering(t)'
      OBVIOUS
    <3>2. Tables!Due(log[c])' <=> Recent(log[c]) >= BlockAnomalies
      BY <1>1, <1>2 DEF Tables!Due, Recent
    <3>3. Recent(log[c]) >= BlockAnomalies => n >= BlockAnomalies
      BY <1>2, <1>4, <2>2, RecentType, TableConstants
    <3>4. Tables!Due(log[c])' => r.refused
      BY <1>6, <3>1, <3>2, <3>3
    <3>. QED  BY <1>1, <1>2, <1>6, <3>4 DEF Answering
  <2>. QED  BY <1>6, <2>4, <2>5 DEF Follows, Holding
<1>8. ASSUME r.pc = "answer", r.refused PROVE Tables!Earned(log[c])
  <2>. DEFINE p == Cardinality(Pending(c, "attacks"))  x == Total("attacks", log[c])
  <2>1. "attacks" \in KindsOf(table) /\ HoldsRecord(c, q.id)
    BY <1>1, <1>2 DEF KindsOf, HoldsRecord, Holding
  <2>2. n + p <= x /\ p \in Nat /\ x \in Nat
    BY <1>3, <2>1, RightParts DEF Bounded, Value
  <2>3. n >= BlockAnomalies
    BY <1>6, <1>8
  <2>4. x >= BlockAnomalies
    <3>. HIDE DEF n, p, x
    <3>. QED  BY <1>4, <2>2, <2>3, TableConstants
  <2>. QED  BY <1>2, <2>4 DEF Tables!Earned, Total
<1>9. Adds(t, r, rec)
  <2>1. ~(r.pc \in {"add", "update"})
    BY <1>6
  <2>. QED  BY <2>1 DEF Adds
<1>10. Moves(t, c, r, rec)
  <2>1. r.pc \notin Holding /\ r.pc \notin Writing /\ q.pc \in Holding /\ r.pc # "idle"
    BY <1>1, <1>6 DEF Holding, Writing
  <2>. QED  BY <1>1, <1>3, <1>6, <2>1 DEF Moves
<1>11. Marked(t, c, rec)
  BY <1>2 DEF Marked
<1>. HIDE DEF rec, q, n
<1>. QED  BY <1>3, <1>6, <1>7, <1>8, <1>9, <1>10, <1>11, RecordStep

\* A request of the pre-attack detector has read the record (detector.go),
LEMMA SharedReadPattern ==
  ASSUME SharedInv, NEW t \in Threads, NEW c \in IPs, req[t].client = c, Tables!ReadPattern(t)
  PROVE  SharedInv'
<1>. DEFINE q == req[t]  rec == heap[q.id]
            r == [pc |-> "update", client |-> q.client, work |-> q.work, id |-> q.id, seen |-> rec]
<1>1. /\ table = "preattack" /\ q.pc = "count" /\ req' = [req EXCEPT ![t] = r]
      /\ UNCHANGED <<table, states, heap, stale, now, log, alone>>
  BY DEF Tables!ReadPattern, Tables!Read, Tables!At
<1>2. SharedTyped /\ q \in [pc : {"count"}, client : IPs, work : TablePaths, id : Nat]
  BY <1>1, RequestAt DEF SharedInv, Pieces
<1>3. q.id \in DOMAIN heap /\ rec \in RecordsOf(table) /\ rec \in PatternRecords /\ heap \in Seq(RecordsOf(table))
  <2>1. q.id \in DOMAIN heap /\ heap \in Seq(RecordsOf(table)) /\ RecordsOf(table) = PatternRecords
    BY <1>1, <1>2 DEF SharedTyped, RecordsOf, Holding
  <2>. QED  BY <2>1
<1>4. r \in SharedRequests(table)
  <2>1. r \in [pc : LateSteps(table), client : IPs, work : Pieces(table), id : Nat, seen : Readings(table)]
    <3>. HIDE DEF rec
    <3>. QED  BY <1>1, <1>2, <1>3 DEF LateSteps, Readings, Pieces
  <2>2. r.pc # "add"
    OBVIOUS
  <2>. HIDE DEF r
  <2>. QED  BY <2>1, <2>2 DEF SharedRequests, LateRequests
<1>5. r.pc = "update" /\ r.client = c /\ r.work = q.work /\ r.id = q.id /\ r.seen = rec
  OBVIOUS
<1>. HIDE DEF r
<1>6. req'[t] = r
  BY <1>1, <1>2 DEF SharedTyped
<1>7. ASSUME alone[c] PROVE Follows(t)'
  <2>1. Follows(t) /\ Counting(t) /\ CountingPaths(t)
    BY <1>1, <1>7, FollowsNow DEF Tables!Serving, Follows, Counting, Holding
  <2>2. CountingPaths(t)'
    BY <1>1, <1>5, <1>6, <2>1 DEF CountingPaths
  <2>3. Current(heap[req[t].id], log[req[t].client])' /\ states'[c] = r.id
    BY <1>1, <1>5, <1>6, <2>1 DEF Counting, Current
  <2>4. Counting(t)'
    BY <1>1, <1>5, <1>6, <2>2, <2>3 DEF Counting
  <2>. QED  BY <1>5, <1>6, <2>4 DEF Follows, Holding
<1>8. Adds(t, r, rec)
  BY <1>1, <1>5 DEF Adds, Reading, Value, KindsOf
<1>9. Moves(t, c, r, rec)
  <2>1. /\ q.pc \in Holding /\ r.pc # "idle" /\ q.pc \in Writing
    BY <1>1, <1>5 DEF Holding, Writing
  <2>. QED  BY <1>1, <1>3, <1>5, <2>1 DEF Moves
<1>10. Marked(t, c, rec) /\ r.pc # "answer"
  <2>1. rec.rapid \in BOOLEAN /\ rec.sequential \in BOOLEAN
    BY <1>3 DEF PatternRecords
  <2>. QED  BY <1>5, <2>1 DEF Marked
<1>. HIDE DEF rec, q
<1>. QED  BY <1>3, <1>4, <1>7, <1>8, <1>9, <1>10, RecordStep

\* A log is its last visit after what came before.
LEMMA LastVisit ==
  ASSUME NEW l \in Seq(Visits), l # <<>>
  PROVE  /\ Before(l) \in Seq(Visits) /\ l[Len(l)] \in Visits /\ l = Append(Before(l), l[Len(l)])
         /\ Len(l) \in Nat \ {0} /\ Len(l) = Len(Before(l)) + 1
<1>. DEFINE n == Len(l)  b == Before(l)  e == l[n]  k == Append(b, e)
<1>1. n \in Nat \ {0} /\ e \in Visits /\ DOMAIN l = 1..n
  OBVIOUS
<1>2. b \in Seq(Visits) /\ Len(b) = n - 1 /\ \A i \in 1..(n - 1) : b[i] = l[i]
  BY <1>1 DEF Before
<1>. HIDE DEF b, e
<1>3. /\ k \in Seq(Visits) /\ Len(k) = Len(b) + 1 /\ k[Len(b) + 1] = e
      /\ DOMAIN b = 1..Len(b) /\ \A i \in DOMAIN b : k[i] = b[i]
  <2>1. b \in Seq(Visits) /\ e \in Visits
    BY <1>1, <1>2
  <2>. HIDE DEF n
  <2>. QED  BY <2>1, OneMore
<1>. HIDE DEF n, k
<1>4. k = [i \in 1..n |-> k[i]]
  <2>1. Len(k) = n
    BY <1>1, <1>2, <1>3
  <2>. QED  BY <1>3, <2>1
<1>5. ASSUME NEW i \in 1..n PROVE k[i] = l[i]
  <2>1. CASE i = n
    BY <1>1, <1>2, <1>3, <2>1 DEF e
  <2>2. CASE i # n
    <3>1. i \in 1..(n - 1)
      BY <1>1, <2>2
    <3>. QED  BY <1>2, <1>3, <3>1
  <2>. QED  BY <2>1, <2>2
<1>6. l = [i \in 1..n |-> l[i]]
  BY <1>1
<1>7. l = Append(b, e)
  BY <1>4, <1>5, <1>6 DEF k
<1>8. n = Len(b) + 1
  BY <1>1, <1>2
<1>. QED  BY <1>1, <1>2, <1>7, <1>8 DEF b, e, n

\* it writes what it read, with its own path: others' paths since are lost,
LEMMA SharedUpdatePattern ==
  ASSUME SharedInv, NEW t \in Threads, NEW c \in IPs, req[t].client = c, Tables!UpdatePattern(t)
  PROVE  SharedInv'
<1>. DEFINE q == req[t]  r == [q EXCEPT !.pc = "judge"]
            rec == [heap[q.id] EXCEPT !.count = q.seen.count + 1, !.paths = Append(q.seen.paths, q.work),
                                      !.suspicious = q.seen.suspicious + Marks[q.work]]
            old == heap[q.id]
<1>1. /\ q.pc = "update" /\ req' = [req EXCEPT ![t].pc = "judge"]
      /\ heap' = [heap EXCEPT ![q.id] =
           [@ EXCEPT !.count = q.seen.count + 1, !.paths = Append(q.seen.paths, q.work),
                     !.suspicious = q.seen.suspicious + Marks[q.work]]]
      /\ UNCHANGED <<table, states, stale, now, log, alone>>
  BY DEF Tables!UpdatePattern, Tables!At
<1>2. /\ SharedTyped /\ table = "preattack"
      /\ q \in [pc : LateSteps(table), client : IPs, work : TablePaths, id : Nat, seen : PatternRecords]
  <2>1. SharedTyped /\ q.pc \in LateSteps(table)
    BY <1>1, RequestAt DEF SharedInv
  <2>2. table = "preattack"
    BY <1>1, <2>1, TableOf DEF LateSteps
  <2>. QED  BY <1>1, <2>1, <2>2, RequestAt DEF Pieces, Readings
<1>3. /\ q.id \in DOMAIN heap /\ old \in PatternRecords /\ q.seen \in PatternRecords
      /\ Marks[q.work] \in Nat /\ q.work \in TablePaths
      /\ heap \in Seq(PatternRecords) /\ RecordsOf(table) = PatternRecords
  <2>1. q.id \in DOMAIN heap /\ heap \in Seq(PatternRecords) /\ RecordsOf(table) = PatternRecords
    BY <1>1, <1>2 DEF SharedTyped, RecordsOf, Holding
  <2>. QED  BY <1>2, <2>1, TableConstants
<1>4. /\ r \in SharedRequests(table) /\ r.pc = "judge" /\ r.client = c /\ r.work = q.work /\ r.id = q.id
      /\ req' = [req EXCEPT ![t] = r] /\ req'[t] = r
  <2>1. r \in [pc : LateSteps(table), client : IPs, work : TablePaths, id : Nat, seen : PatternRecords] /\ r.pc = "judge"
    BY <1>2 DEF LateSteps
  <2>2. r \in LateRequests(table)
    BY <1>2, <2>1 DEF LateRequests, Readings, Pieces
  <2>. QED  BY <1>1, <1>2, <2>1, <2>2 DEF SharedRequests, SharedTyped
<1>5. /\ rec \in PatternRecords /\ rec.count = q.seen.count + 1 /\ rec.paths = Append(q.seen.paths, q.work)
      /\ rec.suspicious = q.seen.suspicious + Marks[q.work]
      /\ rec.first = old.first /\ rec.last = old.last /\ rec.rapid = old.rapid /\ rec.sequential = old.sequential
  <2>. DEFINE n == q.seen.count + 1  ps == Append(q.seen.paths, q.work)  m == q.seen.suspicious + Marks[q.work]
  <2>1. n \in Nat /\ ps \in Seq(TablePaths) /\ m \in Nat /\ Len(ps) = n
    <3>1. /\ q.seen.count \in Nat /\ q.seen.paths \in Seq(TablePaths) /\ q.seen.suspicious \in Nat
          /\ Len(q.seen.paths) = q.seen.count
      BY <1>3 DEF PatternRecords
    <3>2. \A v \in Seq(TablePaths), w \in TablePaths : Append(v, w) \in Seq(TablePaths) /\ Len(Append(v, w)) = Len(v) + 1
      OBVIOUS
    <3>3. ps \in Seq(TablePaths) /\ Len(ps) = n
      BY <1>3, <3>1, <3>2
    <3>4. \A v, w \in Nat : v + w \in Nat
      OBVIOUS
    <3>5. n \in Nat /\ m \in Nat
      BY <1>3, <3>1, <3>4
    <3>. QED  BY <3>3, <3>5
  <2>2. /\ old \in [first : Nat, last : Nat, count : Nat, paths : Seq(TablePaths), suspicious : Nat,
                    rapid : BOOLEAN, sequential : BOOLEAN]
        /\ rec = [old EXCEPT !.count = n, !.paths = ps, !.suspicious = m]
    BY <1>3 DEF PatternRecords
  <2>. HIDE DEF n, ps, m, rec, old
  <2>3. /\ rec.count = n /\ rec.paths = ps /\ rec.suspicious = m
        /\ rec.first = old.first /\ rec.last = old.last /\ rec.rapid = old.rapid /\ rec.sequential = old.sequential
        /\ rec \in [first : Nat, last : Nat, count : Nat, paths : Seq(TablePaths), suspicious : Nat,
                    rapid : BOOLEAN, sequential : BOOLEAN]
    BY <2>1, <2>2
  <2>. QED  BY <2>1, <2>3 DEF PatternRecords, n, ps, m
<1>6. /\ heap' \in Seq(RecordsOf(table)) /\ DOMAIN heap' = DOMAIN heap
      /\ \A i \in DOMAIN heap : heap'[i] = IF i = req[t].id THEN rec ELSE heap[i]
  <2>1. heap' = [heap EXCEPT ![q.id] = rec]
    BY <1>1, <1>3
  <2>. HIDE DEF rec, r
  <2>. QED  BY <1>3, <1>5, <2>1
<1>. HIDE DEF r, rec
<1>7. ASSUME alone[c] PROVE Follows(t)'
  <2>. DEFINE l == log[c]  b == Before(l)  e == l[Len(l)]
  <2>1. Follows(t) /\ Counting(t) /\ CountingPaths(t)
    BY <1>1, <1>2, <1>7, FollowsNow DEF Tables!Serving, Follows, Counting, Holding
  <2>2. /\ old.first = l[1].at /\ Knows(old, b) /\ e.path = q.work /\ q.seen = old /\ Flags(old, b)
        /\ states[c] = q.id /\ Current(old, l)
    BY <1>1, <2>1 DEF CountingPaths, Counting
  <2>3. l \in Seq(Visits) /\ l # <<>>
    BY <1>2, <2>2 DEF SharedTyped, Sightings, Current
  <2>4. b \in Seq(Visits) /\ e \in Visits /\ l = Append(b, e)
    BY <2>3, LastVisit
  <2>5. Knows(rec, l)
    <3>1. Tables!PathsOf(l) = Append(Tables!PathsOf(b), e.path)
      BY <2>4, PathsOfAppend
    <3>2. Tables!Suspicious(l) = Tables!Suspicious(b) + Marks[e.path]
      BY <2>4, SuspiciousAppend
    <3>. QED  BY <1>5, <2>2, <3>1, <3>2 DEF Knows
  <2>6. Flags(rec, b)
    BY <1>5, <2>2 DEF Flags
  <2>7. Current(rec, l) /\ rec.first = l[1].at
    BY <1>5, <2>2 DEF Current
  <2>8. heap'[q.id] = rec
    BY <1>3, <1>6
  <2>9. CountingPaths(t)'
    BY <1>1, <1>4, <2>5, <2>6, <2>7, <2>8 DEF CountingPaths
  <2>10. Counting(t)'
    BY <1>1, <1>2, <1>4, <2>2, <2>7, <2>8, <2>9 DEF Counting, Current
  <2>. QED  BY <1>4, <2>10 DEF Follows, Holding
<1>8. Adds(t, r, rec)
  <2>1. KindsOf(table) = {"visits", "names"}
    BY <1>2 DEF KindsOf
  <2>2. r.pc \notin Writing
    BY <1>4 DEF Writing
  <2>3. \A k \in {"visits", "names"} : Value(k, rec) = Reading(k, q.seen) + Weight(k, q.work)
    BY <1>5 DEF Value, Reading, Weight
  <2>. QED  BY <1>1, <1>4, <2>1, <2>2, <2>3 DEF Adds
<1>9. Moves(t, c, r, rec)
  <2>1. /\ q.pc \in Holding /\ r.pc # "idle" /\ q.pc \in Writing /\ r.pc \notin Writing
    BY <1>1, <1>4 DEF Holding, Writing
  <2>. QED  BY <1>1, <1>3, <1>4, <1>6, <2>1 DEF Moves
<1>10. Marked(t, c, rec) /\ r.pc # "answer"
  <2>1. rec.rapid \in BOOLEAN /\ rec.sequential \in BOOLEAN
    BY <1>5 DEF PatternRecords
  <2>. QED  BY <1>4, <1>5, <2>1 DEF Marked
<1>. HIDE DEF q
<1>. QED  BY <1>3, <1>4, <1>5, <1>7, <1>8, <1>9, <1>10, RecordStep

\* and raises the flags and decides by the record as it is then.
LEMMA SharedJudge ==
  ASSUME SharedInv, NEW t \in Threads, NEW c \in IPs, req[t].client = c, Tables!Judge(t)
  PROVE  SharedInv'
<1>. DEFINE q == req[t]  old == heap[q.id]  l == log[c]
            haste == old.last - old.first < PortScanWindow /\ old.count > RapidRequests
            order == Tables!detectSequentialPaths(old.paths)
            rec == [old EXCEPT !.rapid = @ \/ haste, !.sequential = @ \/ order]
            r == [pc |-> "answer", client |-> q.client, refused |-> Tables!Blocks(rec)]
<1>1. /\ q.pc = "judge" /\ req' = [req EXCEPT ![t] = r] /\ heap' = [heap EXCEPT ![q.id] = rec]
      /\ UNCHANGED <<table, states, stale, now, log, alone>>
  BY DEF Tables!Judge, Tables!At, Tables!Answer
<1>2. /\ SharedTyped /\ table = "preattack"
      /\ q \in [pc : LateSteps(table), client : IPs, work : TablePaths, id : Nat, seen : PatternRecords]
  <2>1. SharedTyped /\ q.pc \in LateSteps(table)
    BY <1>1, RequestAt DEF SharedInv
  <2>2. table = "preattack"
    BY <1>1, <2>1, TableOf DEF LateSteps
  <2>. QED  BY <1>1, <2>1, <2>2, RequestAt DEF Pieces, Readings
<1>3. /\ q.id \in DOMAIN heap /\ old \in PatternRecords /\ HoldsRecord(c, q.id)
      /\ heap \in Seq(PatternRecords) /\ RecordsOf(table) = PatternRecords
  <2>1. q.id \in DOMAIN heap /\ heap \in Seq(PatternRecords) /\ RecordsOf(table) = PatternRecords
    BY <1>1, <1>2 DEF SharedTyped, RecordsOf, Holding
  <2>2. HoldsRecord(c, q.id)
    BY <1>1 DEF HoldsRecord, Holding
  <2>. QED  BY <2>1, <2>2
<1>4. haste \in BOOLEAN /\ order \in BOOLEAN
  BY DEF Tables!detectSequentialPaths
<1>5. /\ old.first \in Nat /\ old.last \in Nat /\ old.count \in Nat /\ old.paths \in Seq(TablePaths)
      /\ old.suspicious \in Nat /\ old.rapid \in BOOLEAN /\ old.sequential \in BOOLEAN /\ Len(old.paths) = old.count
  BY <1>3 DEF PatternRecords
<1>6. /\ rec \in PatternRecords /\ rec.count = old.count /\ rec.paths = old.paths
      /\ rec.suspicious = old.suspicious /\ rec.first = old.first /\ rec.last = old.last
      /\ rec.rapid \in BOOLEAN /\ rec.sequential \in BOOLEAN
      /\ rec.rapid <=> old.rapid \/ haste
      /\ rec.sequential <=> old.sequential \/ order
  <2>. HIDE DEF haste, order
  <2>. QED  BY <1>3, <1>4 DEF PatternRecords
<1>7. Tables!Blocks(rec) \in BOOLEAN
  BY DEF Tables!Blocks
<1>8. /\ r \in SharedRequests(table) /\ r.pc = "answer" /\ r.client = c
      /\ r.refused <=> Tables!Blocks(rec)
      /\ req'[t] = r
  <2>. HIDE DEF rec
  <2>1. r \in [pc : {"answer"}, client : IPs, refused : BOOLEAN]
    BY <1>2, <1>7
  <2>. QED  BY <1>1, <1>2, <2>1 DEF SharedRequests, SharedTyped
<1>9. /\ heap' \in Seq(RecordsOf(table)) /\ DOMAIN heap' = DOMAIN heap
      /\ \A i \in DOMAIN heap : heap'[i] = IF i = req[t].id THEN rec ELSE heap[i]
  <2>. HIDE DEF rec, r
  <2>. QED  BY <1>1, <1>3, <1>6
<1>10. Tables!Blocks(rec) <=>
         rec.suspicious >= 3 /\ (Len(rec.paths) > SuspiciousPathsCount \/ (rec.rapid /\ rec.sequential))
  <2>. HIDE DEF rec, r
  <2>. QED  BY <1>5, <1>6, BlocksWhen
<1>. HIDE DEF rec, r
<1>11. /\ old.count <= Len(l) /\ old.suspicious <= Tables!Suspicious(l) /\ Len(l) \in Nat /\ Tables!Suspicious(l) \in Nat
  <2>1. "visits" \in KindsOf(table) /\ "names" \in KindsOf(table)
    BY <1>2 DEF KindsOf
  <2>. DEFINE p == Cardinality(Pending(c, "visits"))  m == Cardinality(Pending(c, "names"))
              x == Len(l)  y == Tables!Suspicious(l)
  <2>2. old.count + p <= x /\ p \in Nat /\ x \in Nat
    BY <1>3, <2>1, RightParts DEF Bounded, Value, Total
  <2>3. old.suspicious + m <= y /\ m \in Nat /\ y \in Nat
    BY <1>3, <2>1, RightParts DEF Bounded, Value, Total
  <2>. HIDE DEF p, m, x, y
  <2>4. old.count <= x /\ old.suspicious <= y
    <3>1. \A u, v, d \in Nat : u + d <= v => u <= v
      OBVIOUS
    <3>. QED  BY <1>5, <2>2, <2>3, <3>1
  <2>. QED  BY <2>2, <2>3, <2>4 DEF x, y
<1>12. /\ rec.rapid => Len(l) > RapidRequests
       /\ rec.sequential => Len(l) >= RunLength
  <2>1. /\ old.rapid => Len(l) > RapidRequests
        /\ old.sequential => Len(l) >= RunLength
    BY <1>2, <1>3, RightParts DEF Flagged
  <2>2. haste => Len(l) > RapidRequests
    BY <1>5, <1>11, TableConstants
  <2>3. order => Len(l) >= RunLength
    <3>1. order => old.count >= RunLength
      BY <1>5, SequentialIsLong
    <3>. QED  BY <1>5, <1>11, <3>1, TableConstants
  <2>. QED  BY <1>6, <2>1, <2>2, <2>3
<1>13. Marked(t, c, rec)
  BY <1>12 DEF Marked
<1>14. ASSUME r.pc = "answer", r.refused PROVE Tables!Earned(l)
  <2>1. rec.suspicious >= 3 /\ (Len(rec.paths) > SuspiciousPathsCount \/ (rec.rapid /\ rec.sequential))
    BY <1>8, <1>10, <1>14
  <2>2. Tables!Suspicious(l) >= 3
    BY <1>5, <1>6, <1>11, <2>1
  <2>3. Len(rec.paths) > SuspiciousPathsCount => Len(l) > SuspiciousPathsCount
    BY <1>5, <1>6, <1>11, TableConstants
  <2>. HIDE DEF l
  <2>. QED  BY <1>2, <1>12, <2>1, <2>2, <2>3 DEF Tables!Earned
<1>15. ASSUME alone[c] PROVE Follows(t)'
  <2>. DEFINE b == Before(l)  e == l[Len(l)]
  <2>1. Follows(t) /\ Counting(t) /\ CountingPaths(t)
    BY <1>1, <1>2, <1>15, FollowsNow DEF Tables!Serving, Follows, Counting, Holding
  <2>2. /\ old.first = l[1].at /\ Knows(old, l) /\ Flags(old, b)
        /\ states[c] = q.id /\ q.id # None /\ Current(old, l)
    BY <1>1, <1>2, <2>1, TableConstants DEF CountingPaths, Counting
  <2>3. l \in Seq(Visits) /\ l # <<>> /\ old.last = e.at
    BY <1>2, <2>2 DEF SharedTyped, Sightings, Current
  <2>4. b \in Seq(Visits) /\ e \in Visits /\ l = Append(b, e)
    BY <2>3, LastVisit
  <2>5. old.paths = Tables!PathsOf(l) /\ old.suspicious = Tables!Suspicious(l) /\ old.count = Len(l)
    <3>1. Len(Tables!PathsOf(l)) = Len(l)
      BY <2>3, <2>4, PathsOfAppend
    <3>. QED  BY <1>5, <2>2, <3>1 DEF Knows
  <2>6. rec.rapid = Tables!Hasty(l)
    <3>1. Tables!Hasty(l) <=> Tables!Hasty(b) \/ (Len(l) > RapidRequests /\ e.at - l[1].at < PortScanWindow)
      BY <2>4, HastyAppend
    <3>2. old.rapid = Tables!Hasty(b)
      BY <2>2 DEF Flags
    <3>3. Tables!Hasty(l) \in BOOLEAN /\ Tables!Hasty(b) \in BOOLEAN
      BY DEF Tables!Hasty
    <3>4. haste <=> (Len(l) > RapidRequests /\ e.at - l[1].at < PortScanWindow)
      BY <2>2, <2>3, <2>5
    <3>. QED  BY <1>6, <3>1, <3>2, <3>3, <3>4
  <2>7. rec.sequential = Tables!Upwards(l)
    <3>1. Tables!Upwards(l) <=> Tables!Upwards(b) \/ Tables!detectSequentialPaths(Tables!PathsOf(l))
      BY <2>4, UpwardsAppend
    <3>2. old.sequential = Tables!Upwards(b)
      BY <2>2 DEF Flags
    <3>3. Tables!Upwards(l) \in BOOLEAN /\ Tables!Upwards(b) \in BOOLEAN
      BY DEF Tables!Upwards
    <3>4. order <=> Tables!detectSequentialPaths(Tables!PathsOf(l))
      BY <2>5
    <3>. QED  BY <1>6, <3>1, <3>2, <3>3, <3>4
  <2>8. heap'[q.id] = rec
    BY <1>3, <1>9
  <2>9. Current(rec, l) /\ rec.first = l[1].at /\ Knows(rec, l) /\ Flags(rec, l)
    BY <1>6, <2>2, <2>6, <2>7 DEF Current, Knows, Flags
  <2>10. Settled(c)'
    BY <1>1, <1>2, <2>2, <2>8, <2>9 DEF Settled, Current
  <2>11. Tables!Due(l)' <=>
           Tables!Suspicious(l) >= 3 /\ (Len(l) > SuspiciousPathsCount \/ (Tables!Hasty(l) /\ Tables!Upwards(l)))
    BY <1>1, <1>2 DEF Tables!Due
  <2>12. r.refused <=> Tables!Due(l)'
    BY <1>5, <1>6, <1>8, <1>10, <2>5, <2>6, <2>7, <2>11
  <2>13. Answering(t)'
    BY <1>1, <1>8, <2>12 DEF Answering
  <2>. QED  BY <1>8, <2>10, <2>13 DEF Follows, Holding
<1>16. Adds(t, r, rec)
  <2>1. KindsOf(table) = {"visits", "names"}
    BY <1>2 DEF KindsOf
  <2>2. \A k \in {"visits", "names"} : Value(k, rec) = Value(k, old)
    BY <1>6 DEF Value
  <2>. QED  BY <1>8, <2>1, <2>2 DEF Adds
<1>17. Moves(t, c, r, rec)
  <2>1. /\ q.pc \in Holding /\ r.pc # "idle" /\ r.pc \notin Writing /\ r.pc \notin Holding
    BY <1>1, <1>8 DEF Holding, Writing
  <2>. QED  BY <1>1, <1>3, <1>8, <1>9, <2>1 DEF Moves
<1>. HIDE DEF q
<1>. QED  BY <1>3, <1>6, <1>8, <1>13, <1>14, <1>15, <1>16, <1>17, RecordStep

\* Before the last visit is what there was before it.
LEMMA BeforeAppend ==
  ASSUME NEW T, NEW l \in Seq(T), NEW e \in T
  PROVE  Before(Append(l, e)) = l
<1>. DEFINE k == Append(l, e)  n == Len(l)  b == SubSeq(k, 1, n)
<1>1. k \in Seq(T) /\ n \in Nat /\ Len(k) = n + 1 /\ \A i \in DOMAIN l : k[i] = l[i]
  BY OneMore
<1>2. (n + 1) - 1 = n
  BY <1>1
<1>3. Before(k) = b
  BY <1>1, <1>2 DEF Before
<1>4. b = [i \in 1..n |-> k[i]] /\ l = [i \in 1..n |-> l[i]] /\ DOMAIN l = 1..n
  <2>1. l = [i \in 1..n |-> l[i]] /\ DOMAIN l = 1..n
    OBVIOUS
  <2>. HIDE DEF n, k
  <2>2. b = [i \in 1..n |-> k[i]]
    BY <1>1
  <2>. QED  BY <2>1, <2>2
<1>. HIDE DEF k, n
<1>5. b = l
  BY <1>1, <1>4
<1>. QED  BY <1>3, <1>5 DEF k

\* A request has found the record of its client, or that there is none.
LEMMA SharedLoad ==
  ASSUME SharedInv, NEW t \in Threads, NEW c \in IPs, req[t].client = c,
         NEW e \in Sightings(table), e.at = now, Sees(e, req[t].work), Tables!Load(t, e)
  PROVE  SharedInv'
<1>. DEFINE q == req[t]  id == states[c]  l == log[c]  k == Append(l, e)
            r == [pc |-> IF id = None THEN "store" ELSE "count", client |-> c, work |-> q.work, id |-> id]
<1>1. /\ q.pc = "load" /\ req' = [req EXCEPT ![t] = r]
      /\ log' = [log EXCEPT ![c] = k]
      /\ heap' = IF id = None THEN heap ELSE [heap EXCEPT ![id].last = now]
      /\ UNCHANGED <<table, states, stale, now, alone>>
  BY DEF Tables!Load, Tables!At, Tables!Seen
<1>2. SharedTyped /\ q \in [pc : {"load"}, client : IPs, work : Pieces(table)] /\ Tables!Serving(t, c)
  BY <1>1, RequestAt DEF SharedInv, Tables!Serving
<1>3. /\ id \in Nat \cup {None} /\ l \in Seq(Sightings(table)) /\ now \in Nat
      /\ id # None => id \in DOMAIN heap
  BY <1>2 DEF SharedTyped
<1>4. /\ r \in SharedRequests(table) /\ r.pc = (IF id = None THEN "store" ELSE "count")
      /\ r.client = c /\ r.work = q.work /\ r.id = id
  <2>1. id = None => r \in [pc : {"store"}, client : IPs, work : Pieces(table), id : {None}]
    BY <1>2
  <2>2. id # None => r \in [pc : {"count"}, client : IPs, work : Pieces(table), id : Nat]
    BY <1>2, <1>3
  <2>. QED  BY <2>1, <2>2 DEF SharedRequests
<1>. HIDE DEF r
<1>5. \A u \in Threads : req'[u] = IF u = t THEN r ELSE req[u]
  BY <1>1, <1>2 DEF SharedTyped
<1>6. k \in Seq(Sightings(table)) /\ k # <<>> /\ k[Len(k)] = e /\ Len(k) = Len(l) + 1 /\ Len(l) \in Nat
  BY <1>3, OneMore
<1>. HIDE DEF k
<1>7. /\ log' \in [IPs -> Seq(Sightings(table))] /\ log'[c] = k
      /\ \A d \in IPs : d # c => log'[d] = log[d] /\ states'[d] = states[d]
      /\ states' \in [IPs -> Nat \cup {None}] /\ states'[c] = id
  BY <1>1, <1>2, <1>6 DEF SharedTyped
<1>8. /\ heap' \in Seq(RecordsOf(table)) /\ DOMAIN heap' = DOMAIN heap
      /\ \A i \in DOMAIN heap : /\ heap'[i] = IF i = id THEN [heap[i] EXCEPT !.last = now] ELSE heap[i]
                                /\ heap[i] \in RecordsOf(table)
  <2>1. heap \in Seq(RecordsOf(table)) /\ \A i \in DOMAIN heap : heap[i] \in RecordsOf(table)
    BY <1>2 DEF SharedTyped
  <2>2. \A x \in RecordsOf(table) : [x EXCEPT !.last = now] \in RecordsOf(table)
    BY <1>3 DEF RecordsOf, Connections, PatternRecords
  <2>3. CASE id = None
    BY <1>1, <2>1, <2>3, TableConstants
  <2>4. CASE id # None
    <3>. DEFINE x == [heap[id] EXCEPT !.last = now]
    <3>1. heap' = [heap EXCEPT ![id] = x] /\ x \in RecordsOf(table)
      BY <1>1, <1>3, <2>1, <2>2, <2>4
    <3>2. heap[id] = heap[id]
      OBVIOUS
    <3>. HIDE DEF x
    <3>3. /\ heap' \in Seq(RecordsOf(table)) /\ DOMAIN heap' = DOMAIN heap
          /\ \A i \in DOMAIN heap : heap'[i] = IF i = id THEN x ELSE heap[i]
      BY <1>3, <2>1, <2>4, <3>1
    <3>. QED  BY <2>1, <3>3 DEF x
  <2>. QED  BY <2>3, <2>4
<1>9. \A i \in DOMAIN heap :
        /\ table = "network" => heap'[i].anomalies = heap[i].anomalies
        /\ table = "preattack" =>
             /\ heap'[i].count = heap[i].count /\ heap'[i].suspicious = heap[i].suspicious
             /\ heap'[i].rapid = heap[i].rapid /\ heap'[i].sequential = heap[i].sequential
             /\ heap'[i].first = heap[i].first /\ heap'[i].paths = heap[i].paths
  BY <1>8 DEF RecordsOf, Connections, PatternRecords
<1>10. id # None => HoldsRecord(c, id)
  BY DEF HoldsRecord
<1>11. \A i \in DOMAIN heap' : HoldsRecord(c, i)' => HoldsRecord(c, i)
  <2>1. SUFFICES ASSUME NEW i \in DOMAIN heap', HoldsRecord(c, i)' PROVE HoldsRecord(c, i)
    OBVIOUS
  <2>2. i # None
    <3>1. DOMAIN heap' \subseteq Nat
      BY <1>8
    <3>. QED  BY <3>1, TableConstants
  <2>. QED  BY <1>1, <1>4, <1>5, <1>10, <2>1, <2>2 DEF HoldsRecord, Holding
<1>12. ASSUME NEW f \in KindsOf(table) PROVE Bounded(c, f)'
  <2>. DEFINE n == Cardinality(Pending(c, f))  m == Cardinality(Pending(c, f))'
              x == Total(f, l)  y == Total(f, log[c])'  w == Weight(f, q.work)
  <2>1. /\ m = n + w /\ m \in Nat /\ n \in Nat /\ IsFiniteSet(Pending(c, f)') /\ Bounded(c, f)
    <3>1. req[t].pc \notin Writing /\ r.pc \in Writing
      BY <1>1, <1>4 DEF Writing
    <3>2. Bounded(c, f) /\ IsFiniteSet(Pending(c, f))
      BY RightParts
    <3>3. req' = [req EXCEPT ![t] = r] /\ r \in SharedRequests(table) /\ r.client = c /\ SharedTyped
      BY <1>1, <1>2, <1>4
    <3>4. /\ m = n + Weight(f, r.work) /\ m \in Nat /\ n \in Nat /\ IsFiniteSet(Pending(c, f)')
      <4>. HIDE DEF q
      <4>. QED  BY <3>1, <3>2, <3>3, PendingStep DEF q
    <3>. QED  BY <1>4, <3>2, <3>4
  <2>2. x \in Nat /\ y = x + w /\ w \in Nat
    <3>1. y = Total(f, k)
      BY <1>7
    <3>2. w \in Nat
      BY <1>2, WeightType
    <3>. QED  BY <1>2, <1>3, <3>1, <3>2, TotalAppend DEF k
  <2>3. m + x <= n + y /\ y \in Nat
    <3>. HIDE DEF n, m, x, y, w
    <3>. QED  BY <2>1, <2>2
  <2>4. \A i \in DOMAIN heap : Value(f, heap'[i]) = Value(f, heap[i])
    <3>1. (table = "network" => f = "attacks") /\ (table # "network" => f \in {"visits", "names"})
      BY <1>12 DEF KindsOf
    <3>. QED  BY <1>2, <1>9, <3>1, TableOf DEF Value
  <2>5. \A i \in DOMAIN heap' : HoldsRecord(c, i)' =>
          Value(f, heap'[i]) = 0
            \/ \E j \in DOMAIN heap : HoldsRecord(c, j) /\ Value(f, heap'[i]) = Value(f, heap[j])
    BY <1>8, <1>11, <2>4
  <2>6. \A u \in Threads : req'[u].pc \in {"add", "update"} /\ req'[u].client = c =>
          req'[u] = req[u]
            \/ \E j \in DOMAIN heap : HoldsRecord(c, j) /\ Reading(f, req'[u].seen) = Value(f, heap[j])
    BY <1>4, <1>5
  <2>. QED  BY <1>1, <2>1, <2>3, <2>5, <2>6, BoundedKept
<1>13. Flagged(c)'
  <2>1. Len(log[c]) <= Len(log'[c])
    BY <1>6, <1>7
  <2>2. log[c] \in Seq(Sightings(table)) /\ log'[c] \in Seq(Sightings(table)) /\ UNCHANGED table
    BY <1>1, <1>3, <1>6, <1>7
  <2>3. table = "preattack" =>
          \A i \in DOMAIN heap' : HoldsRecord(c, i)' =>
            \/ ~heap'[i].rapid /\ ~heap'[i].sequential
            \/ \E j \in DOMAIN heap : HoldsRecord(c, j) /\ heap'[i].rapid = heap[j].rapid
                                      /\ heap'[i].sequential = heap[j].sequential
    BY <1>8, <1>9, <1>11
  <2>. QED  BY <2>1, <2>2, <2>3, FlaggedKept
<1>14. Tables!Earned(log[c]) => Tables!Earned(log[c])'
  <2>1. Tables!Earned(l) => Tables!Earned(k)
    BY <1>2, <1>3, EarnedGrows DEF k
  <2>2. Tables!Earned(log[c])' <=> Tables!Earned(k)
    BY <1>1, <1>2, <1>7, TableOf DEF Tables!Earned, Tables!InWindow
  <2>. QED  BY <2>1, <2>2
<1>15. ASSUME alone[c] PROVE Follows(t)'
  <2>1. Settled(c)
    BY <1>1, <1>2, <1>15, FollowsNow DEF Follows
  <2>2. table = "network" =>
          /\ l \in Seq(Knocks) /\ Recent(l) \in Nat /\ Recent(k) \in Nat
          /\ Weight("attacks", q.work) \in Nat
          /\ Recent(k) <= Recent(l) + Weight("attacks", q.work)
          /\ Quiet(l) => Recent(k) <= Weight("attacks", q.work)
    <3>1. SUFFICES ASSUME table = "network"
                   PROVE  /\ l \in Seq(Knocks) /\ Recent(l) \in Nat /\ Recent(k) \in Nat
                          /\ Weight("attacks", q.work) \in Nat
                          /\ Recent(k) <= Recent(l) + Weight("attacks", q.work)
                          /\ Quiet(l) => Recent(k) <= Weight("attacks", q.work)
      OBVIOUS
    <3>2. l \in Seq(Knocks) /\ e \in Knocks /\ e.attack = Head(q.work)
      BY <1>3, <3>1 DEF Sightings, Sees
    <3>3. Weight("attacks", q.work) = IF e.attack THEN 1 ELSE 0
      BY <3>2 DEF Weight
    <3>4. Quiet(l) <=> l = <<>> \/ e.at - l[Len(l)].at > ConnectionTTL
      BY DEF Quiet
    <3>. QED  BY <3>2, <3>3, <3>4, RecentAppend DEF k
  <2>3. table = "preattack" => l \in Seq(Visits) /\ e \in Visits /\ e.path = q.work
    BY <1>3 DEF Sightings, Sees
  <2>4. Before(k) = l
    BY <1>3, BeforeAppend DEF k
  <2>5. CASE id = None
    <3>1. table = "network" => Recent(k) <= Weight("attacks", q.work)
      BY <2>1, <2>2, <2>5 DEF Settled
    <3>2. table = "preattack" => Len(k) = 1 /\ k[1].path = q.work
      <4>1. table = "preattack" => l = <<>>
        BY <2>1, <2>5 DEF Settled
      <4>2. l = <<>> => Len(l) = 0
        OBVIOUS
      <4>3. l = <<>> => Len(k) = 1
        BY <1>6, <4>2
      <4>. QED  BY <1>6, <2>3, <4>1, <4>3
    <3>3. Storing(t)'
      BY <1>1, <1>4, <1>5, <1>6, <1>7, <2>5, <3>1, <3>2 DEF Storing
    <3>. QED  BY <1>4, <1>5, <2>5, <3>3 DEF Follows, Holding
  <2>6. CASE id # None
    <3>. DEFINE old == heap[id]  rec == heap'[id]
    <3>1. /\ Current(old, l)
          /\ table = "network" => old.anomalies >= Recent(l)
          /\ table = "preattack" => old.first = l[1].at /\ Knows(old, l) /\ Flags(old, l)
      BY <2>1, <2>6 DEF Settled
    <3>2. rec.last = now
      <4>1. \A x \in RecordsOf(table) : [x EXCEPT !.last = now].last = now
        BY DEF RecordsOf, Connections, PatternRecords
      <4>. QED  BY <1>3, <1>8, <2>6, <4>1
    <3>3. Current(rec, k)
      BY <1>6, <3>2 DEF Current
    <3>4. table = "network" => rec.anomalies + Weight("attacks", q.work) >= Recent(k)
      <4>1. table = "network" => rec.anomalies = old.anomalies /\ old.anomalies \in Nat
        BY <1>3, <1>8, <1>9, <2>6 DEF RecordsOf, Connections
      <4>2. \A a, b, d, w \in Nat : a >= b /\ d <= b + w => a + w >= d
        OBVIOUS
      <4>. QED  BY <2>2, <3>1, <4>1, <4>2
    <3>5. table = "preattack" =>
            /\ rec.first = k[1].at /\ Knows(rec, Before(k)) /\ k[Len(k)].path = q.work /\ Flags(rec, Before(k))
      <4>1. SUFFICES ASSUME table = "preattack"
                     PROVE  rec.first = k[1].at /\ Knows(rec, l) /\ k[Len(k)].path = q.work /\ Flags(rec, l)
        BY <2>4
      <4>2. /\ rec.first = old.first /\ rec.paths = old.paths /\ rec.suspicious = old.suspicious
            /\ rec.rapid = old.rapid /\ rec.sequential = old.sequential
        BY <1>3, <1>9, <2>6, <4>1
      <4>3. k[1] = l[1]
        <5>1. 1 \in DOMAIN l
          BY <1>3, <3>1 DEF Current
        <5>. QED  BY <1>3, <5>1, OneMore DEF k
      <4>. QED  BY <1>6, <2>3, <3>1, <4>1, <4>2, <4>3 DEF Knows, Flags
    <3>. HIDE DEF rec, old
    <3>6. CountingNetwork(t)' \/ table # "network"
      BY <1>1, <1>4, <1>5, <1>7, <2>6, <3>4 DEF CountingNetwork, rec
    <3>7. CountingPaths(t)' \/ table # "preattack"
      BY <1>1, <1>4, <1>5, <1>7, <2>6, <3>5 DEF CountingPaths, rec
    <3>8. Counting(t)'
      BY <1>1, <1>4, <1>5, <1>7, <3>3, <3>6, <3>7 DEF Counting, rec
    <3>. QED  BY <1>4, <1>5, <2>6, <3>8 DEF Follows, Holding
  <2>. QED  BY <2>5, <2>6
<1>16. /\ \A i \in DOMAIN heap : i \in DOMAIN heap' /\ (HoldsRecord(c, i) \/ heap'[i] = heap[i])
       /\ states'[c] # None => states'[c] \in DOMAIN heap' /\ HoldsRecord(c, states'[c])
       /\ r.pc \in Holding => r.id \in DOMAIN heap' /\ HoldsRecord(c, r.id)
  <2>1. \A i \in DOMAIN heap : i \in DOMAIN heap' /\ (HoldsRecord(c, i) \/ heap'[i] = heap[i])
    BY <1>8, <1>10, TableConstants
  <2>2. r.pc \in Holding => id # None
    BY <1>4 DEF Holding
  <2>3. id # None => id \in DOMAIN heap' /\ HoldsRecord(c, id)
    BY <1>3, <1>8, <1>10
  <2>. HIDE DEF id
  <2>. QED  BY <1>4, <1>7, <2>1, <2>2, <2>3
<1>17. r.pc # "idle" /\ r.pc # "answer"
  BY <1>4
<1>. HIDE DEF q, id, l
<1>. QED  BY <1>1, <1>2, <1>4, <1>7, <1>8, <1>12, <1>13, <1>14, <1>15, <1>16, <1>17, OwnStep

\* A request that found no record stores a new one, over another's as it may be.
LEMMA SharedStoreNew ==
  ASSUME SharedInv, NEW t \in Threads, NEW c \in IPs, req[t].client = c, Tables!StoreNew(t)
  PROVE  SharedInv'
<1>. DEFINE q == req[t]  n == Len(heap) + 1  l == log[c]  new == Tables!NewRecord
            r == [q EXCEPT !.id = n, !.pc = "count"]
<1>1. /\ q.pc = "store" /\ req' = [req EXCEPT ![t].id = n, ![t].pc = "count"]
      /\ heap' = Append(heap, new) /\ states' = [states EXCEPT ![c] = n]
      /\ UNCHANGED <<table, stale, now, log, alone>>
  BY DEF Tables!StoreNew, Tables!At
<1>2. SharedTyped /\ q \in [pc : {"store"}, client : IPs, work : Pieces(table), id : {None}] /\ Tables!Serving(t, c)
  BY <1>1, RequestAt DEF SharedInv, Tables!Serving
<1>3. heap \in Seq(RecordsOf(table)) /\ n \in Nat /\ now \in Nat /\ l \in Seq(Sightings(table))
  <2>1. heap \in Seq(RecordsOf(table)) /\ now \in Nat /\ l \in Seq(Sightings(table))
    BY <1>2 DEF SharedTyped
  <2>. QED  BY <2>1
<1>4. /\ r \in SharedRequests(table) /\ r.pc = "count" /\ r.client = c /\ r.work = q.work /\ r.id = n
      /\ req' = [req EXCEPT ![t] = r]
  <2>1. /\ r \in [pc : {"count"}, client : IPs, work : Pieces(table), id : Nat]
        /\ r.pc = "count" /\ r.client = c /\ r.work = q.work /\ r.id = n
    <3>. HIDE DEF n
    <3>. QED  BY <1>2, <1>3
  <2>2. req' = [req EXCEPT ![t] = r]
    BY <1>1, <1>2 DEF SharedTyped
  <2>. QED  BY <2>1, <2>2 DEF SharedRequests
<1>. HIDE DEF r
<1>5. \A u \in Threads : req'[u] = IF u = t THEN r ELSE req[u]
  BY <1>2, <1>4 DEF SharedTyped
<1>6. /\ new \in RecordsOf(table) /\ new.last = now
      /\ table = "network" => new.anomalies = 0
      /\ table = "preattack" => /\ new.first = now /\ new.count = 0 /\ new.paths = <<>> /\ new.suspicious = 0
                                /\ new.rapid = FALSE /\ new.sequential = FALSE
  <2>1. CASE table = "network"
    BY <1>3, <2>1 DEF Tables!NewRecord, RecordsOf, Connections
  <2>2. CASE table = "preattack"
    <3>1. new = [first |-> now, last |-> now, count |-> 0, paths |-> <<>>, suspicious |-> 0,
                 rapid |-> FALSE, sequential |-> FALSE]
      BY <2>2 DEF Tables!NewRecord
    <3>2. Len(<<>>) = 0 /\ <<>> \in Seq(TablePaths)
      OBVIOUS
    <3>. HIDE DEF new
    <3>. QED  BY <1>3, <2>2, <3>1, <3>2 DEF RecordsOf, PatternRecords
  <2>. QED  BY <1>2, <2>1, <2>2, TableOf
<1>. HIDE DEF new
<1>7. /\ heap' \in Seq(RecordsOf(table)) /\ DOMAIN heap' = DOMAIN heap \cup {n} /\ n \notin DOMAIN heap
      /\ heap'[n] = new /\ \A i \in DOMAIN heap : heap'[i] = heap[i]
  BY <1>1, <1>3, <1>6, OneMore
<1>. HIDE DEF n
<1>8. /\ states' \in [IPs -> Nat \cup {None}] /\ states'[c] = n /\ \A d \in IPs : d # c => states'[d] = states[d]
  BY <1>1, <1>2, <1>3 DEF SharedTyped
<1>9. \A i \in DOMAIN heap' : HoldsRecord(c, i)' => HoldsRecord(c, i) \/ i = n
  BY <1>4, <1>5, <1>8 DEF HoldsRecord
<1>10. \A i : HoldsRecord(c, i) /\ i \in Nat => i \in DOMAIN heap
  BY <1>2, HeldIsThere
<1>11. \A i \in DOMAIN heap' : HoldsRecord(c, i)' => i = n \/ (i \in DOMAIN heap /\ HoldsRecord(c, i))
  BY <1>7, <1>9
<1>12. ASSUME NEW f \in KindsOf(table) PROVE Bounded(c, f)'
  <2>. DEFINE p == Cardinality(Pending(c, f))  m == Cardinality(Pending(c, f))'  x == Total(f, l)
  <2>1. /\ m = p /\ m \in Nat /\ p \in Nat /\ IsFiniteSet(Pending(c, f)') /\ Bounded(c, f) /\ x \in Nat
    <3>1. req[t].pc \in Writing /\ r.pc \in Writing
      BY <1>1, <1>4 DEF Writing
    <3>2. Bounded(c, f) /\ IsFiniteSet(Pending(c, f)) /\ x \in Nat
      BY RightParts
    <3>3. req' = [req EXCEPT ![t] = r] /\ r \in SharedRequests(table) /\ r.client = c /\ SharedTyped /\ r.work = req[t].work
      BY <1>2, <1>4
    <3>4. m = p /\ m \in Nat /\ p \in Nat /\ IsFiniteSet(Pending(c, f)')
      <4>. HIDE DEF q
      <4>. QED  BY <3>1, <3>2, <3>3, PendingStep
    <3>. QED  BY <3>2, <3>4
  <2>2. Total(f, log[c])' = x
    BY <1>1
  <2>3. m + x <= p + Total(f, log[c])' /\ Total(f, log[c])' \in Nat
    <3>. HIDE DEF m, x, p
    <3>. QED  BY <2>1, <2>2
  <2>4. Value(f, new) = 0
    <3>1. (table = "network" => f = "attacks") /\ (table # "network" => f \in {"visits", "names"})
      BY <1>12 DEF KindsOf
    <3>. QED  BY <1>2, <1>6, <3>1, TableOf DEF Value
  <2>5. \A i \in DOMAIN heap' : HoldsRecord(c, i)' =>
          Value(f, heap'[i]) = 0
            \/ \E j \in DOMAIN heap : HoldsRecord(c, j) /\ Value(f, heap'[i]) = Value(f, heap[j])
    BY <1>7, <1>11, <2>4
  <2>6. \A u \in Threads : req'[u].pc \in {"add", "update"} /\ req'[u].client = c =>
          req'[u] = req[u]
            \/ \E j \in DOMAIN heap : HoldsRecord(c, j) /\ Reading(f, req'[u].seen) = Value(f, heap[j])
    BY <1>4, <1>5
  <2>. QED  BY <1>1, <2>1, <2>3, <2>5, <2>6, BoundedKept
<1>13. Flagged(c)'
  <2>1. Len(log[c]) <= Len(log'[c]) /\ UNCHANGED table
        /\ log[c] \in Seq(Sightings(table)) /\ log'[c] \in Seq(Sightings(table))
    BY <1>1, <1>3
  <2>2. table = "preattack" =>
          \A i \in DOMAIN heap' : HoldsRecord(c, i)' =>
            \/ ~heap'[i].rapid /\ ~heap'[i].sequential
            \/ \E j \in DOMAIN heap : HoldsRecord(c, j) /\ heap'[i].rapid = heap[j].rapid
                                      /\ heap'[i].sequential = heap[j].sequential
    BY <1>6, <1>7, <1>11
  <2>. QED  BY <2>1, <2>2, FlaggedKept
<1>14. Tables!Earned(log[c]) <=> Tables!Earned(log[c])'
  BY <1>1, <1>2, EarnedSame
<1>15. ASSUME alone[c] PROVE Follows(t)'
  <2>1. Storing(t)
    BY <1>1, <1>2, <1>15, FollowsNow DEF Follows
  <2>2. /\ l # <<>> /\ l[Len(l)].at = now
        /\ table = "network" => Recent(l) <= Weight("attacks", q.work)
        /\ table = "preattack" => Len(l) = 1 /\ l[1].path = q.work
    BY <2>1 DEF Storing
  <2>3. Current(new, l)
    BY <1>6, <2>2 DEF Current
  <2>4. table = "network" => new.anomalies + Weight("attacks", q.work) >= Recent(l)
    <3>1. table = "network" => Weight("attacks", q.work) \in {0, 1} /\ Recent(l) \in Nat /\ new.anomalies = 0
      BY <1>2, <1>6, RecentType DEF Weight
    <3>. QED  BY <2>2, <3>1
  <2>5. table = "preattack" =>
          new.first = l[1].at /\ Knows(new, Before(l)) /\ l[Len(l)].path = q.work /\ Flags(new, Before(l))
    <3>1. SUFFICES ASSUME table = "preattack"
                   PROVE  new.first = l[1].at /\ Knows(new, Before(l)) /\ l[Len(l)].path = q.work /\ Flags(new, Before(l))
      OBVIOUS
    <3>2. Len(l) = 1
      BY <2>2, <3>1
    <3>3. Before(l) = <<>>
      <4>1. Len(l) - 1 = 0
        BY <3>2
      <4>2. SubSeq(l, 1, 0) = <<>>
        BY <1>3
      <4>. QED  BY <4>1, <4>2 DEF Before
    <3>4. Knows(new, <<>>)
      BY <1>6, <3>1, HaveNoneYet DEF Knows
    <3>5. Flags(new, <<>>)
      <4>1. Tables!Hasty(<<>>) = FALSE /\ Tables!Upwards(<<>>) = FALSE
        BY HaveNoneYet
      <4>. QED  BY <1>6, <3>1, <4>1 DEF Flags
    <3>. QED  BY <1>6, <2>2, <3>1, <3>2, <3>3, <3>4, <3>5
  <2>6. CountingNetwork(t)' \/ table # "network"
    BY <1>1, <1>4, <1>5, <1>7, <2>4 DEF CountingNetwork
  <2>7. CountingPaths(t)' \/ table # "preattack"
    BY <1>1, <1>4, <1>5, <1>7, <2>5 DEF CountingPaths
  <2>8. Counting(t)'
    BY <1>1, <1>4, <1>5, <1>7, <1>8, <2>3, <2>6, <2>7 DEF Counting
  <2>. QED  BY <1>4, <1>5, <2>8 DEF Follows, Holding
<1>16. /\ \A i \in DOMAIN heap : i \in DOMAIN heap' /\ heap'[i] = heap[i]
       /\ n \in DOMAIN heap' /\ n \notin DOMAIN heap
  BY <1>7
<1>17. r.pc # "idle" /\ r.pc # "answer" /\ log' \in [IPs -> Seq(Sightings(table))]
       /\ \A d \in IPs : d # c => log'[d] = log[d]
  BY <1>1, <1>2, <1>4 DEF SharedTyped
<1>. HIDE DEF q, l
<1>. QED  BY <1>1, <1>2, <1>4, <1>7, <1>8, <1>12, <1>13, <1>14, <1>15, <1>16, <1>17, OwnStep

\* The cleanup takes a step for one client.
LEMMA SweepStep ==
  ASSUME SharedInv, NEW c \in IPs, table = "network", UNCHANGED <<table, heap, req, now, log>>,
         states' \in [IPs -> Nat \cup {None}], alone' \in [IPs -> BOOLEAN],
         \A d \in IPs : d # c => states'[d] = states[d] /\ alone'[d] = alone[d],
         states'[c] \in {states[c], None}, alone'[c] => alone[c],
         stale \in {c, None}, stale' \in {c, None}, Exact(c)'
  PROVE  SharedInv'
<1>1. SharedTyped /\ Flagged(c) /\ Deserved(c)
  BY RightParts
<1>2. \A i \in DOMAIN heap : HoldsRecord(c, i)' => HoldsRecord(c, i)
  <2>1. None \notin DOMAIN heap
    <3>1. DOMAIN heap \subseteq Nat
      BY <1>1 DEF SharedTyped
    <3>. QED  BY <3>1, TableConstants
  <2>. QED  BY <2>1 DEF HoldsRecord
<1>3. StepOf(c)
  <2>1. \A d \in IPs : d # c => (stale' = d <=> stale = d)
    BY TableConstants
  <2>2. heap' \in Seq(RecordsOf(table))
    BY <1>1 DEF SharedTyped
  <2>. QED  BY <1>2, <2>1, <2>2 DEF StepOf
<1>4. SharedTyped'
  BY <1>1 DEF SharedTyped
<1>5. RecordsOwned' /\ \A d \in IPs : d # c => Right(d)'
  BY <1>3, OwnersStay, OthersStay
<1>6. OneByOne'
  <2>1. \A d \in IPs : alone'[d] => alone[d]
    OBVIOUS
  <2>. QED  BY <2>1 DEF SharedInv, OneByOne, Tables!Serving
<1>7. ASSUME NEW k \in KindsOf(table) PROVE Bounded(c, k)'
  <2>1. Bounded(c, k)
    BY RightParts
  <2>2. Pending(c, k)' = Pending(c, k)
    BY DEF Pending
  <2>. QED  BY <1>2, <2>1, <2>2 DEF Bounded
<1>8. Flagged(c)' /\ Deserved(c)'
  <2>1. Tables!Earned(log[c])' <=> Tables!Earned(log[c])
    BY <1>1, EarnedSame
  <2>2. Deserved(c)'
    BY <1>1, <2>1 DEF Deserved
  <2>. QED  BY <2>2 DEF Flagged
<1>9. Right(c)'
  BY <1>7, <1>8 DEF Right
<1>. QED  BY <1>4, <1>5, <1>6, <1>9 DEF SharedInv

-----------------------------------------------------------------------------
(* The cleanup and the clock, and the invariant of the two detectors.      *)

\* The cleanup finds a record that is too old,
LEMMA SharedFindStale ==
  ASSUME SharedInv, NEW c \in IPs, Tables!FindStale(c)
  PROVE  SharedInv'
<1>1. /\ table = "network" /\ stale = None /\ states[c] # None
      /\ heap[states[c]].last < now - ConnectionTTL /\ stale' = c
      /\ alone' = [alone EXCEPT ![c] = @ /\ ~Tables!Meets(c)]
      /\ UNCHANGED <<table, states, heap, req, now, log>>
  BY DEF Tables!FindStale, Tables!Expired
<1>2. SharedTyped /\ Exact(c)
  BY RightParts
<1>3. /\ alone' \in [IPs -> BOOLEAN] /\ \A d \in IPs : d # c => alone'[d] = alone[d]
      /\ alone'[c] => alone[c] /\ \A u \in Threads : ~Tables!Serving(u, c)
  BY <1>1, <1>2 DEF SharedTyped, Tables!Meets
<1>4. Exact(c)'
  <2>1. SUFFICES ASSUME alone'[c]
                 PROVE  /\ Settled(c)'
                        /\ \A u \in Threads : ~Tables!Serving(u, c)'
                        /\ states'[c] # None /\ heap'[states'[c]].last < now' - ConnectionTTL
    BY DEF Exact
  <2>2. Settled(c)
    BY <1>2, <1>3, <2>1 DEF Exact
  <2>3. Settled(c)'
    BY <1>1, <2>2 DEF Settled, Quiet
  <2>. QED  BY <1>1, <1>3, <2>1, <2>3 DEF Tables!Serving
<1>5. states' \in [IPs -> Nat \cup {None}]
  BY <1>1, <1>2 DEF SharedTyped
<1>. QED  BY <1>1, <1>3, <1>4, <1>5, SweepStep

\* and deletes whatever the table has for that client by then.
LEMMA SharedDeleteStale ==
  ASSUME SharedInv, Tables!DeleteStale
  PROVE  SharedInv'
<1>1. SharedTyped
  BY DEF SharedInv
<1>2. PICK c \in IPs : c = stale
  BY <1>1 DEF Tables!DeleteStale, SharedTyped
<1>3. /\ table = "network" /\ stale = c /\ stale' = None /\ c # None
      /\ states' = [states EXCEPT ![c] = None]
      /\ UNCHANGED <<table, heap, req, now, log, alone>>
  BY <1>1, <1>2 DEF Tables!DeleteStale, SharedTyped
<1>4. /\ states' \in [IPs -> Nat \cup {None}] /\ states'[c] = None
      /\ \A d \in IPs : d # c => states'[d] = states[d]
  BY <1>1, <1>3 DEF SharedTyped
<1>5. Exact(c)'
  <2>1. SUFFICES ASSUME alone[c]
                 PROVE  Settled(c)' /\ \A u \in Threads : ~Tables!Serving(u, c)'
    BY <1>3 DEF Exact
  <2>2. /\ \A u \in Threads : ~Tables!Serving(u, c)
        /\ states[c] # None /\ heap[states[c]].last < now - ConnectionTTL /\ Settled(c)
    <3>1. Exact(c)
      BY RightParts
    <3>. QED  BY <1>3, <2>1, <3>1 DEF Exact
  <2>3. Current(heap[states[c]], log[c])
    BY <2>2 DEF Settled
  <2>4. log[c] \in Seq(Knocks) /\ log[c] # <<>> /\ heap[states[c]].last = log[c][Len(log[c])].at /\ now \in Nat
    BY <1>1, <1>3, <2>3 DEF SharedTyped, Sightings, Current
  <2>5. log[c][Len(log[c])].at \in Nat
    <3>1. log[c][Len(log[c])] \in Knocks
      BY <2>4
    <3>. QED  BY <3>1 DEF Knocks
  <2>6. now - log[c][Len(log[c])].at > ConnectionTTL
    BY <2>2, <2>4, <2>5, TableConstants
  <2>7. Quiet(log[c])'
    BY <1>3, <2>6 DEF Quiet
  <2>8. Settled(c)'
    BY <1>3, <1>4, <2>7 DEF Settled
  <2>. QED  BY <1>3, <2>2, <2>8 DEF Tables!Serving
<1>6. alone' \in [IPs -> BOOLEAN]
  BY <1>1, <1>3 DEF SharedTyped
<1>. QED  BY <1>3, <1>4, <1>5, <1>6, SweepStep

\* Time passes.
LEMMA SharedTick ==
  ASSUME SharedInv, Tables!Tick
  PROVE  SharedInv'
<1>1. /\ stale = None /\ now' = now + 1 /\ \A t \in Threads : req[t] = Tables!Idle
      /\ UNCHANGED <<table, states, heap, req, stale, log, alone>>
  BY DEF Tables!Tick
<1>2. SharedTyped /\ SharedTyped'
  <2>1. SharedTyped
    BY DEF SharedInv
  <2>. QED  BY <1>1, <2>1 DEF SharedTyped
<1>3. RecordsOwned' /\ OneByOne'
  BY <1>1 DEF SharedInv, RecordsOwned, OneByOne, HoldsRecord, Tables!Serving
<1>4. \A t \in Threads : req[t].pc = "idle"
  BY <1>1 DEF Tables!Idle
<1>5. ASSUME NEW c \in IPs PROVE Right(c)'
  <2>1. ASSUME NEW k \in KindsOf(table) PROVE Bounded(c, k)'
    <3>1. Bounded(c, k)
      BY <2>1, RightParts
    <3>. QED  BY <1>1, <3>1 DEF Bounded, Pending, HoldsRecord
  <2>2. Flagged(c)'
    <3>1. Flagged(c)
      BY RightParts
    <3>. QED  BY <1>1, <3>1 DEF Flagged, HoldsRecord
  <2>3. Deserved(c)'
    BY <1>1, <1>4 DEF Deserved
  <2>4. Exact(c)'
    <3>1. SUFFICES ASSUME alone[c] PROVE Settled(c)'
      BY <1>1, <1>4, TableConstants DEF Exact, Tables!Serving
    <3>2. Settled(c)
      <4>1. Exact(c)
        BY RightParts
      <4>. QED  BY <1>4, <3>1, <4>1 DEF Exact, Tables!Serving
    <3>3. table = "network" /\ Quiet(log[c]) => Quiet(log[c])'
      <4>1. SUFFICES ASSUME table = "network", Quiet(log[c]) PROVE Quiet(log[c])'
        OBVIOUS
      <4>2. CASE log[c] = <<>>
        BY <1>1, <4>2 DEF Quiet
      <4>3. CASE log[c] # <<>>
        <5>. DEFINE a == log[c][Len(log[c])].at
        <5>1. now - a > ConnectionTTL /\ now \in Nat
          BY <1>2, <4>1, <4>3 DEF Quiet, SharedTyped
        <5>2. a \in Nat
          <6>1. log[c] \in Seq(Knocks)
            BY <1>2, <4>1 DEF SharedTyped, Sightings
          <6>2. log[c][Len(log[c])] \in Knocks
            BY <4>3, <6>1
          <6>. QED  BY <6>2 DEF Knocks
        <5>3. now' - a > ConnectionTTL
          <6>. HIDE DEF a
          <6>. QED  BY <1>1, <5>1, <5>2, TableConstants
        <5>. QED  BY <1>1, <5>3 DEF Quiet
      <4>. QED  BY <4>2, <4>3
    <3>. QED  BY <1>1, <3>2, <3>3 DEF Settled
  <2>. QED  BY <1>1, <2>1, <2>2, <2>3, <2>4 DEF Right
<1>. QED  BY <1>2, <1>3, <1>5 DEF SharedInv

\* Nothing happens.
LEMMA SharedStays == ASSUME SharedInv, UNCHANGED Tables!vars PROVE SharedInv'
<1>1. UNCHANGED <<table, states, heap, req, stale, now, log, alone>>
  BY DEF Tables!vars
<1>2. SharedTyped'
  BY <1>1 DEF SharedInv, SharedTyped
<1>3. RecordsOwned' /\ OneByOne'
  BY <1>1 DEF SharedInv, RecordsOwned, OneByOne, HoldsRecord, Tables!Serving
<1>4. ASSUME NEW c \in IPs PROVE Right(c)'
  <2>1. SharedTyped /\ Right(c)
    BY RightParts
  <2>2. \A k : Bounded(c, k) => Bounded(c, k)'
    BY <1>1 DEF Bounded, Pending, HoldsRecord
  <2>3. Flagged(c) => Flagged(c)'
    BY <1>1 DEF Flagged, HoldsRecord
  <2>4. Deserved(c) => Deserved(c)'
    BY <1>1, <2>1, EarnedSame DEF Deserved
  <2>5. Settled(c) <=> Settled(c)'
    BY <1>1 DEF Settled, Quiet
  <2>6. ASSUME NEW t \in Threads, req[t].client = c PROVE Follows(t) => Follows(t)'
    <3>1. Storing(t) => Storing(t)'
      BY <1>1 DEF Storing
    <3>2. Counting(t) => Counting(t)'
      BY <1>1 DEF Counting, CountingNetwork, CountingPaths
    <3>3. Answering(t) => Answering(t)'
      BY <1>1, <2>1, <2>6, EarnedSame DEF Answering
    <3>. QED  BY <1>1, <2>5, <2>6, <3>1, <3>2, <3>3 DEF Follows
  <2>7. Exact(c) => Exact(c)'
    BY <1>1, <2>5, <2>6 DEF Exact, Tables!Serving
  <2>. QED  BY <1>1, <2>1, <2>2, <2>3, <2>4, <2>7 DEF Right
<1>. QED  BY <1>2, <1>3, <1>4 DEF SharedInv

\* At the start nothing is in the table and nobody asks.
LEMMA SharedInit == ASSUME Tables!Init, table # "logic" PROVE SharedInv
<1>1. /\ table \in {"network", "preattack"} /\ states = [c \in IPs |-> None] /\ heap = <<>>
      /\ req = [t \in Threads |-> Tables!Idle] /\ stale = None /\ now = 0
      /\ log = [c \in IPs |-> <<>>] /\ alone = [c \in IPs |-> TRUE]
  BY TableConstants DEF Tables!Init
<1>2. \A t \in Threads : req[t] = Tables!Idle /\ req[t].pc = "idle"
  BY <1>1 DEF Tables!Idle
<1>3. DOMAIN heap = {} /\ heap \in Seq(RecordsOf(table)) /\ <<>> \in Seq(Sightings(table))
  BY <1>1
<1>4. SharedTyped
  <2>1. Tables!Idle \in SharedRequests(table)
    BY DEF SharedRequests
  <2>2. req \in [Threads -> SharedRequests(table)]
    BY <1>1, <2>1
  <2>3. log \in [IPs -> Seq(Sightings(table))]
    BY <1>1, <1>3
  <2>. QED  BY <1>1, <1>2, <1>3, <2>2, <2>3 DEF SharedTyped, Holding
<1>5. RecordsOwned /\ OneByOne
  BY <1>2, <1>3 DEF RecordsOwned, OneByOne, Tables!Serving
<1>6. ASSUME NEW c \in IPs PROVE Right(c)
  <2>1. ASSUME NEW k \in KindsOf(table) PROVE Bounded(c, k)
    <3>1. Pending(c, k) = {}
      BY <1>2 DEF Pending, Writing
    <3>2. IsFiniteSet(Pending(c, k)) /\ Cardinality(Pending(c, k)) = 0
      BY <3>1, FS_EmptySet
    <3>3. Total(k, log[c]) \in Nat
      BY <1>1, <1>3, <1>4, <2>1, TotalType
    <3>. QED  BY <1>2, <1>3, <3>2, <3>3 DEF Bounded
  <2>2. Flagged(c) /\ Deserved(c)
    BY <1>2, <1>3 DEF Flagged, Deserved
  <2>3. Exact(c)
    <3>1. Settled(c)
      BY <1>1 DEF Settled, Quiet
    <3>. QED  BY <1>1, <1>2, <3>1, TableConstants DEF Exact, Tables!Serving
  <2>. QED  BY <2>1, <2>2, <2>3 DEF Right
<1>. QED  BY <1>4, <1>5, <1>6 DEF SharedInv

\* Every step keeps the invariant of the two detectors.
LEMMA SharedStep == ASSUME SharedInv, [Tables!Next]_(Tables!vars) PROVE SharedInv'
<1>1. SharedTyped /\ table # "logic" /\ (table = "network" \/ table = "preattack")
  <2>1. SharedTyped
    BY DEF SharedInv
  <2>. QED  BY <2>1, TableOf
<1>2. ASSUME NEW t \in Threads, NEW c \in IPs, NEW w \in PayloadLists, table = "network", Tables!Arrive(t, c, w)
      PROVE  SharedInv'
  <2>1. w \in Pieces(table)
    BY <1>2, TableConstants DEF Pieces, Payloads
  <2>. QED  BY <1>2, <2>1, SharedArrive
<1>3. ASSUME NEW t \in Threads, NEW c \in IPs, NEW w \in TablePaths, table # "network", Tables!Arrive(t, c, w)
      PROVE  SharedInv'
  <2>1. w \in Pieces(table)
    BY <1>3 DEF Pieces
  <2>. QED  BY <1>3, <2>1, SharedArrive
<1>4. ASSUME NEW t \in Threads,
             \/ Tables!StoreNew(t) \/ Tables!Finish(t)
             \/ Tables!TrackConnection(t) \/ Tables!ReadAnomalies(t) \/ Tables!AddAnomaly(t) \/ Tables!Look(t)
             \/ Tables!Analyze(t) \/ Tables!ReadPattern(t) \/ Tables!UpdatePattern(t) \/ Tables!Judge(t)
      PROVE  SharedInv'
  <2>1. req[t].pc # "idle"
    BY <1>4 DEF Tables!StoreNew, Tables!Finish, Tables!TrackConnection, Tables!ReadAnomalies, Tables!AddAnomaly,
                Tables!Look, Tables!Analyze, Tables!ReadPattern, Tables!UpdatePattern, Tables!Judge, Tables!Load,
                Tables!At
  <2>2. PICK c \in IPs : req[t].client = c
    BY <1>1, <2>1, RequestAt
  <2>3. CASE Tables!TrackConnection(t)
    <3>. DEFINE e == [at |-> now, attack |-> Head(req[t].work)]
    <3>1. Tables!Load(t, e) /\ table = "network" /\ req[t].pc = "load"
      BY <2>3 DEF Tables!TrackConnection, Tables!Load, Tables!At
    <3>2. e \in Sightings(table) /\ e.at = now /\ Sees(e, req[t].work)
      <4>1. req[t].work \in Seq(BOOLEAN) /\ req[t].work # <<>> /\ now \in Nat
        BY <1>1, <3>1, RequestAt DEF Pieces, Payloads, SharedTyped
      <4>2. Head(req[t].work) \in BOOLEAN
        BY <4>1
      <4>. QED  BY <3>1, <4>1, <4>2 DEF Sightings, Knocks, Sees
    <3>. HIDE DEF e
    <3>. QED  BY <2>2, <3>1, <3>2, SharedLoad
  <2>4. CASE Tables!Analyze(t)
    <3>. DEFINE e == [at |-> now, path |-> req[t].work]
    <3>1. Tables!Load(t, e) /\ table = "preattack" /\ req[t].pc = "load"
      BY <2>4 DEF Tables!Analyze, Tables!Load, Tables!At
    <3>2. e \in Sightings(table) /\ e.at = now /\ Sees(e, req[t].work)
      <4>1. req[t].work \in TablePaths /\ now \in Nat
        BY <1>1, <3>1, RequestAt DEF Pieces, SharedTyped
      <4>. QED  BY <3>1, <4>1 DEF Sightings, Visits, Sees
    <3>. HIDE DEF e
    <3>. QED  BY <2>2, <3>1, <3>2, SharedLoad
  <2>. QED  BY <1>4, <2>2, <2>3, <2>4, SharedStoreNew, SharedFinish, SharedReadAnomalies, SharedAddAnomaly,
               SharedLook, SharedReadPattern, SharedUpdatePattern, SharedJudge
<1>5. ASSUME NEW t \in Threads, Tables!Track(t) PROVE SharedInv'
  BY <1>1, <1>5 DEF Tables!Track
<1>6. ASSUME Tables!CleanFlows PROVE SharedInv'
  BY <1>1, <1>6 DEF Tables!CleanFlows
<1>7. ASSUME UNCHANGED Tables!vars PROVE SharedInv'
  BY <1>7, SharedStays
<1>. QED  BY <1>2, <1>3, <1>4, <1>5, <1>6, <1>7, SharedFindStale, SharedDeleteStale, SharedTick DEF Tables!Next

\* With it every answer is right.
LEMMA SharedRight == ASSUME SharedInv PROVE Tables!RefusalsAreEarned
<1>. SUFFICES ASSUME NEW t \in Threads, req[t].pc = "answer"
              PROVE  LET c == req[t].client
                     IN  /\ req[t].refused => Tables!Earned(log[c])
                         /\ alone[c] /\ Tables!Due(log[c]) => req[t].refused
                         /\ alone[c] /\ req[t].refused /\ table = "preattack" => Tables!Due(log[c])
  BY DEF Tables!RefusalsAreEarned, Tables!At
<1>1. PICK c \in IPs : req[t].client = c
  BY RequestAt DEF SharedInv
<1>2. req[t].refused => Tables!Earned(log[c])
  <2>1. Deserved(c)
    BY RightParts
  <2>. QED  BY <1>1, <2>1 DEF Deserved
<1>3. alone[c] => Answering(t)
  BY <1>1, FollowsNow DEF Follows, Tables!Serving
<1>. QED  BY <1>1, <1>2, <1>3 DEF Answering

-----------------------------------------------------------------------------
(* The business logic guard.  What it keeps of a list is a recursive       *)
(* function too, by the place in the list.                                 *)

NewerStep(s, cutoff, f, i) ==
  IF i = 0 THEN <<>> ELSE IF s[i].at > cutoff THEN Append(f[i - 1], s[i]) ELSE f[i - 1]
IsNewer(s, cutoff, f) == f = [i \in 0..Len(s) |-> NewerStep(s, cutoff, f, i)]
NewerOf(s, cutoff) == CHOOSE f : IsNewer(s, cutoff, f)

\* What is kept of a list is the last value of a function on its places; there is one.
LEMMA NewerIs == ASSUME NEW s, NEW cutoff PROVE Tables!Newer(s, cutoff) = NewerOf(s, cutoff)[Len(s)]
BY DEF Tables!Newer, IsNewer, NewerStep, NewerOf

LEMMA NewerExists ==
  ASSUME NEW s, NEW cutoff, Len(s) \in Nat PROVE IsNewer(s, cutoff, NewerOf(s, cutoff))
<1>. DEFINE Solves(f, n) == f = [i \in 0..n |-> NewerStep(s, cutoff, f, i)]
            F == {n \in Nat : \E f : Solves(f, n)}
<1>1. 0 \in F
  <2>1. Solves([i \in 0..0 |-> <<>>], 0)
    BY DEF NewerStep
  <2>. HIDE DEF Solves
  <2>. QED  BY <2>1
<1>2. ASSUME NEW n \in Nat, n \in F PROVE n + 1 \in F
  <2>1. PICK f : Solves(f, n)
    BY <1>2
  <2>. DEFINE h == [i \in 0..(n + 1) |-> IF i <= n THEN f[i] ELSE NewerStep(s, cutoff, f, i)]
  <2>2. ASSUME NEW i \in 0..(n + 1) PROVE h[i] = NewerStep(s, cutoff, h, i)
    <3>1. i # 0 => h[i - 1] = f[i - 1]
      OBVIOUS
    <3>2. i <= n => f[i] = NewerStep(s, cutoff, f, i)
      BY <2>1
    <3>3. h[i] = NewerStep(s, cutoff, f, i)
      BY <3>2
    <3>. HIDE DEF h
    <3>. QED  BY <3>1, <3>3 DEF NewerStep
  <2>3. Solves(h, n + 1)
    <3>1. h = [i \in 0..(n + 1) |-> h[i]]
      OBVIOUS
    <3>. HIDE DEF h
    <3>. QED  BY <2>2, <3>1
  <2>. HIDE DEF Solves, h
  <2>. QED  BY <2>3
<1>3. Len(s) \in F
  <2>. HIDE DEF F
  <2>. QED  BY <1>1, <1>2, NatSetInduction
<1>4. PICK f : Solves(f, Len(s))
  BY <1>3
<1>5. IsNewer(s, cutoff, f)
  BY <1>4 DEF IsNewer
<1>. QED  BY <1>5 DEF NewerOf

\* Of nothing, nothing is kept.
LEMMA NewerEmpty == ASSUME NEW cutoff PROVE Tables!Newer(<<>>, cutoff) = <<>>
<1>. DEFINE f == NewerOf(<<>>, cutoff)
<1>1. IsNewer(<<>>, cutoff, f) /\ Len(<<>>) = 0
  BY NewerExists
<1>. HIDE DEF f
<1>2. f[0] = <<>>
  BY <1>1 DEF IsNewer, NewerStep
<1>. QED  BY <1>1, <1>2, NewerIs DEF f

\* One action more is kept at the end, if it is new enough.
LEMMA NewerAppend ==
  ASSUME NEW T, NEW s \in Seq(T), NEW e \in T, NEW cutoff
  PROVE  Tables!Newer(Append(s, e), cutoff)
           = IF e.at > cutoff THEN Append(Tables!Newer(s, cutoff), e) ELSE Tables!Newer(s, cutoff)
<1>. DEFINE l == Append(s, e)  n == Len(s)
            f == NewerOf(s, cutoff)  g == NewerOf(l, cutoff)
<1>1. n \in Nat /\ Len(l) = n + 1 /\ l[n + 1] = e /\ \A i \in 1..n : l[i] = s[i]
  OBVIOUS
<1>2. IsNewer(s, cutoff, f) /\ IsNewer(l, cutoff, g)
  BY <1>1, NewerExists
<1>3. Tables!Newer(s, cutoff) = f[n] /\ Tables!Newer(l, cutoff) = g[n + 1]
  BY <1>1, NewerIs
<1>. HIDE DEF f, g, l
<1>4. /\ \A i \in 0..n : f[i] = NewerStep(s, cutoff, f, i)
      /\ \A i \in 0..(n + 1) : g[i] = NewerStep(l, cutoff, g, i)
  <2>1. \A i \in 0..n : f[i] = NewerStep(s, cutoff, f, i)
    BY <1>2 DEF IsNewer
  <2>2. \A i \in 0..Len(l) : g[i] = NewerStep(l, cutoff, g, i)
    BY <1>2 DEF IsNewer
  <2>. QED  BY <1>1, <2>1, <2>2
<1>. HIDE DEF n
<1>. DEFINE F == {i \in Nat : i <= n => g[i] = f[i]}
<1>5. 0 \in F
  <2>1. f[0] = <<>> /\ g[0] = <<>>
    BY <1>1, <1>4 DEF NewerStep
  <2>. QED  BY <2>1
<1>6. ASSUME NEW i \in Nat, i \in F PROVE i + 1 \in F
  <2>1. CASE i + 1 <= n
    <3>1. i + 1 \in 0..n /\ i + 1 \in 1..n /\ i + 1 \in 0..(n + 1) /\ i + 1 # 0 /\ (i + 1) - 1 = i
      BY <1>1, <2>1
    <3>2. g[i] = f[i]
      BY <1>1, <1>6, <2>1
    <3>3. g[i + 1] = NewerStep(l, cutoff, g, i + 1) /\ f[i + 1] = NewerStep(s, cutoff, f, i + 1)
      BY <1>4, <3>1
    <3>4. l[i + 1] = s[i + 1]
      BY <1>1, <3>1
    <3>5. g[i + 1] = f[i + 1]
      BY <3>1, <3>2, <3>3, <3>4 DEF NewerStep
    <3>. QED  BY <3>5
  <2>2. CASE ~(i + 1 <= n)
    BY <2>2
  <2>. QED  BY <2>1, <2>2
<1>7. n \in F
  <2>. HIDE DEF F
  <2>. QED  BY <1>1, <1>5, <1>6, NatSetInduction
<1>8. g[n + 1] = NewerStep(l, cutoff, g, n + 1) /\ n + 1 # 0 /\ (n + 1) - 1 = n
  BY <1>1, <1>4
<1>. QED  BY <1>1, <1>3, <1>7, <1>8 DEF NewerStep, l

\* What is kept of a list is a list of its elements.
LEMMA NewerType == ASSUME NEW T, NEW s \in Seq(T), NEW cutoff PROVE Tables!Newer(s, cutoff) \in Seq(T)
<1>. DEFINE F == {l \in Seq(T) : Tables!Newer(l, cutoff) \in Seq(T)}
<1>1. <<>> \in F
  <2>1. <<>> \in Seq(T)
    OBVIOUS
  <2>2. Tables!Newer(<<>>, cutoff) \in Seq(T)
    BY <2>1, NewerEmpty
  <2>. QED  BY <2>1, <2>2
<1>2. ASSUME NEW l \in Seq(T), NEW e \in T, l \in F PROVE Append(l, e) \in F
  <2>. DEFINE k == Tables!Newer(l, cutoff)
  <2>1. k \in Seq(T)
    BY <1>2
  <2>2. Tables!Newer(Append(l, e), cutoff) = IF e.at > cutoff THEN Append(k, e) ELSE k
    BY NewerAppend
  <2>. HIDE DEF k
  <2>3. Append(k, e) \in Seq(T) /\ Append(l, e) \in Seq(T)
    BY <2>1
  <2>4. Tables!Newer(Append(l, e), cutoff) \in Seq(T)
    BY <2>1, <2>2, <2>3
  <2>. QED  BY <2>3, <2>4
<1>3. s \in F
  <2>. HIDE DEF F
  <2>. QED  BY <1>1, <1>2, SeqSetInduction
<1>. QED  BY <1>3

\* A later cutoff makes an earlier one superfluous.
LEMMA NewerTwice ==
  ASSUME NEW T, \A e \in T : e.at \in Int, NEW s \in Seq(T), NEW x \in Int, NEW y \in Int, x <= y
  PROVE  Tables!Newer(Tables!Newer(s, x), y) = Tables!Newer(s, y)
<1>. DEFINE F == {l \in Seq(T) : Tables!Newer(Tables!Newer(l, x), y) = Tables!Newer(l, y)}
<1>1. <<>> \in F
  BY NewerEmpty
<1>2. ASSUME NEW l \in Seq(T), NEW e \in T, l \in F PROVE Append(l, e) \in F
  <2>. DEFINE k == Tables!Newer(l, x)
  <2>1. k \in Seq(T)
    BY NewerType
  <2>2. Tables!Newer(Append(l, e), x) = IF e.at > x THEN Append(k, e) ELSE k
    BY NewerAppend
  <2>3. Tables!Newer(Append(l, e), y) = IF e.at > y THEN Append(Tables!Newer(l, y), e) ELSE Tables!Newer(l, y)
    BY NewerAppend
  <2>4. Tables!Newer(k, y) = Tables!Newer(l, y)
    BY <1>2
  <2>. HIDE DEF k
  <2>5. Tables!Newer(Append(k, e), y) = IF e.at > y THEN Append(Tables!Newer(k, y), e) ELSE Tables!Newer(k, y)
    BY <2>1, NewerAppend
  <2>6. e.at > y => e.at > x
    OBVIOUS
  <2>7. Tables!Newer(Tables!Newer(Append(l, e), x), y) = Tables!Newer(Append(l, e), y)
    BY <2>2, <2>3, <2>4, <2>5, <2>6
  <2>. QED  BY <2>7
<1>3. s \in F
  <2>. HIDE DEF F
  <2>. QED  BY <1>1, <1>2, SeqSetInduction
<1>. QED  BY <1>3

\* Of what is old nothing is kept.
LEMMA NewerNone ==
  ASSUME NEW T, NEW s \in Seq(T), NEW cutoff, \A i \in DOMAIN s : ~(s[i].at > cutoff)
  PROVE  Tables!Newer(s, cutoff) = <<>>
<1>. DEFINE F == {l \in Seq(T) : (\A i \in DOMAIN l : ~(l[i].at > cutoff)) => Tables!Newer(l, cutoff) = <<>>}
<1>1. <<>> \in F
  BY NewerEmpty
<1>2. ASSUME NEW l \in Seq(T), NEW e \in T, l \in F PROVE Append(l, e) \in F
  <2>1. CASE \A i \in DOMAIN Append(l, e) : ~(Append(l, e)[i].at > cutoff)
    <3>1. (\A i \in DOMAIN l : ~(l[i].at > cutoff)) /\ ~(e.at > cutoff)
      <4>1. ASSUME NEW i \in DOMAIN l PROVE ~(l[i].at > cutoff)
        <5>1. i \in DOMAIN Append(l, e) /\ Append(l, e)[i] = l[i]
          OBVIOUS
        <5>. QED  BY <2>1, <5>1
      <4>2. Len(l) + 1 \in DOMAIN Append(l, e) /\ Append(l, e)[Len(l) + 1] = e
        OBVIOUS
      <4>. QED  BY <2>1, <4>1, <4>2
    <3>2. Tables!Newer(Append(l, e), cutoff) = <<>>
      BY <1>2, <3>1, NewerAppend
    <3>. QED  BY <3>2
  <2>2. CASE ~(\A i \in DOMAIN Append(l, e) : ~(Append(l, e)[i].at > cutoff))
    <3>1. Append(l, e) \in Seq(T)
      OBVIOUS
    <3>. QED  BY <2>2, <3>1
  <2>. QED  BY <2>1, <2>2
<1>3. s \in F
  <2>. HIDE DEF F
  <2>. QED  BY <1>1, <1>2, SeqSetInduction
<1>. QED  BY <1>3

Flows == [last : Nat, actions : Seq(Visits)]

\* A guard's request; of a client whose requests come one by one there is one.
LogicRequests ==
  {Tables!Idle} \cup [pc : {"load"}, client : IPs, work : TablePaths]
    \cup [pc : {"answer"}, client : IPs, refused : BOOLEAN]

\* A flow is what is new enough of all its client did; where there is none, nothing is.
FlowFits(c) ==
  IF states[c] = None THEN \A i \in DOMAIN log[c] : log[c][i].at <= now - FlowWindow
  ELSE /\ states[c] \in DOMAIN heap
       /\ heap[states[c]].last <= now
       /\ heap[states[c]].actions = Tables!Newer(log[c], heap[states[c]].last - FlowWindow)
       /\ \A i \in DOMAIN log[c] : log[c][i].at <= heap[states[c]].last
FlowsFit == \A c \in IPs : FlowFits(c)

Guarded ==
  \A t \in Threads : req[t].pc = "answer" =>
    LET c == req[t].client  due == Tables!detect(Tables!InWindow(log[c]))
    IN  (req[t].refused => due) /\ (alone[c] /\ due => req[t].refused)

LogicInv ==
  /\ table = "logic"
  /\ now \in Nat
  /\ states \in [IPs -> Nat \cup {None}]
  /\ heap \in Seq(Flows)
  /\ log \in [IPs -> Seq(Visits)]
  /\ alone \in [IPs -> BOOLEAN]
  /\ req \in [Threads -> LogicRequests]
  /\ stale = None
  /\ OneByOne
  /\ \A c, d \in IPs : states[c] = states[d] /\ states[c] # None => c = d
  /\ FlowsFit
  /\ Guarded

\* One action more does not make a flow look better.
LEMMA DetectGrows ==
  ASSUME NEW k \in Seq(Visits), NEW a \in Visits, Tables!detect(k)
  PROVE  Tables!detect(Append(k, a))
<1>. DEFINE S(l) == {i \in DOMAIN l : l[i].path \in SensitivePaths}  l == Append(k, a)
<1>1. MaxActions \in Nat /\ MaxSensitiveHits \in Nat
  BY TableConstants
<1>2. \A q : Tables!Sensitive(q) = Cardinality(S(q))
  BY DEF Tables!Sensitive, Tables!Cardinality, Cardinality
<1>3. Len(l) = Len(k) + 1 /\ Len(k) \in Nat /\ DOMAIN k \subseteq DOMAIN l
  OBVIOUS
<1>4. S(k) \subseteq S(l)
  OBVIOUS
<1>5. IsFiniteSet(S(l))
  <2>1. l \in Seq(Visits) /\ S(l) \subseteq DOMAIN l
    OBVIOUS
  <2>2. IsFiniteSet(DOMAIN l)
    <3>. HIDE DEF l
    <3>. QED  BY <2>1, SeqPlaces
  <2>. HIDE DEF S, l
  <2>. QED  BY <2>1, <2>2, FS_Subset
<1>6. Cardinality(S(k)) <= Cardinality(S(l)) /\ Cardinality(S(l)) \in Nat /\ Cardinality(S(k)) \in Nat
  <2>. HIDE DEF S
  <2>. QED  BY <1>4, <1>5, FS_Subset, FS_CardinalityType
<1>. HIDE DEF S
<1>7. Len(k) >= MaxActions \/ Cardinality(S(k)) >= MaxSensitiveHits
  BY <1>2 DEF Tables!detect
<1>8. Len(l) >= MaxActions \/ Cardinality(S(l)) >= MaxSensitiveHits
  <2>. HIDE DEF l
  <2>. QED  BY <1>1, <1>3, <1>6, <1>7
<1>. QED  BY <1>2, <1>8 DEF Tables!detect

\* At the start there is no flow.
LEMMA LogicInit == ASSUME Tables!Init, table = "logic" PROVE LogicInv
<1>1. /\ states = [c \in IPs |-> None] /\ heap = <<>> /\ req = [t \in Threads |-> Tables!Idle]
      /\ stale = None /\ now = 0 /\ log = [c \in IPs |-> <<>>] /\ alone = [c \in IPs |-> TRUE]
  BY DEF Tables!Init
<1>2. req \in [Threads -> LogicRequests] /\ \A t \in Threads : req[t].pc = "idle"
  BY <1>1 DEF LogicRequests, Tables!Idle
<1>3. OneByOne /\ Guarded
  BY <1>2 DEF OneByOne, Guarded, Tables!Serving
<1>4. FlowsFit
  BY <1>1 DEF FlowsFit, FlowFits
<1>5. heap \in Seq(Flows) /\ log \in [IPs -> Seq(Visits)]
  BY <1>1
<1>. QED  BY <1>1, <1>2, <1>3, <1>4, <1>5 DEF LogicInv

\* What only the requests change keeps the flows as they are.
LEMMA LogicArrive ==
  ASSUME LogicInv, NEW t \in Threads, NEW c \in IPs, NEW p \in TablePaths,
         Tables!Arrive(t, c, p)
  PROVE  LogicInv'
<1>. DEFINE r == [pc |-> "load", client |-> c, work |-> p]
<1>1. /\ req[t].pc = "idle" /\ req' = [req EXCEPT ![t] = r]
      /\ alone' = [alone EXCEPT ![c] = @ /\ ~Tables!Meets(c) /\ stale # c]
      /\ UNCHANGED <<table, states, heap, stale, now, log>>
  BY DEF Tables!Arrive, Tables!At
<1>2. r \in LogicRequests /\ r.pc = "load" /\ r.client = c
  BY DEF LogicRequests
<1>. HIDE DEF r
<1>3. req' \in [Threads -> LogicRequests] /\ \A u \in Threads : req'[u] = IF u = t THEN r ELSE req[u]
  BY <1>1, <1>2 DEF LogicInv
<1>4. /\ alone' \in [IPs -> BOOLEAN] /\ \A d \in IPs : alone'[d] => alone[d]
      /\ alone'[c] => \A u \in Threads : ~Tables!Serving(u, c)
  BY <1>1 DEF LogicInv, Tables!Meets
<1>5. OneByOne'
  <2>1. SUFFICES ASSUME NEW u \in Threads, NEW v \in Threads, NEW d \in IPs, alone'[d],
                        Tables!Serving(u, d)', Tables!Serving(v, d)'
                 PROVE  u = v
    BY DEF OneByOne
  <2>2. CASE u # t /\ v # t
    <3>1. Tables!Serving(u, d) /\ Tables!Serving(v, d) /\ alone[d]
      BY <1>3, <1>4, <2>1, <2>2 DEF Tables!Serving
    <3>. QED  BY <3>1 DEF LogicInv, OneByOne
  <2>3. CASE u = t /\ v # t
    <3>1. d = c /\ Tables!Serving(v, c)
      BY <1>2, <1>3, <2>1, <2>3 DEF Tables!Serving
    <3>. QED  BY <1>4, <2>1, <3>1
  <2>4. CASE v = t /\ u # t
    <3>1. d = c /\ Tables!Serving(u, c)
      BY <1>2, <1>3, <2>1, <2>4 DEF Tables!Serving
    <3>. QED  BY <1>4, <2>1, <3>1
  <2>. QED  BY <2>2, <2>3, <2>4
<1>6. FlowsFit'
  BY <1>1 DEF LogicInv, FlowsFit, FlowFits
<1>7. Guarded'
  <2>1. SUFFICES ASSUME NEW u \in Threads, req'[u].pc = "answer"
                 PROVE  LET d == req'[u].client  due == Tables!detect(Tables!InWindow(log[d]))
                        IN  (req'[u].refused => due) /\ (alone'[d] /\ due => req'[u].refused)
    BY <1>1 DEF Guarded, Tables!InWindow
  <2>2. u # t /\ req'[u] = req[u]
    BY <1>2, <1>3, <2>1
  <2>3. req[u].client \in IPs
    BY <2>1, <2>2 DEF LogicInv, LogicRequests, Tables!Idle
  <2>. QED  BY <1>4, <2>1, <2>2, <2>3 DEF LogicInv, Guarded
<1>. QED  BY <1>1, <1>3, <1>4, <1>5, <1>6, <1>7 DEF LogicInv

\* What a request that answers or goes does to the requests under way.
LEMMA LogicRequest ==
  ASSUME LogicInv, NEW t \in Threads, req[t].pc # "idle", NEW r \in LogicRequests,
         r.pc # "idle" => r.client = req[t].client, req' = [req EXCEPT ![t] = r], UNCHANGED alone
  PROVE  /\ req' \in [Threads -> LogicRequests] /\ \A u \in Threads : req'[u] = IF u = t THEN r ELSE req[u]
         /\ OneByOne'
<1>1. req' \in [Threads -> LogicRequests] /\ \A u \in Threads : req'[u] = IF u = t THEN r ELSE req[u]
  BY DEF LogicInv
<1>2. \A u \in Threads, d \in IPs : Tables!Serving(u, d)' => Tables!Serving(u, d)
  BY <1>1 DEF Tables!Serving
<1>3. OneByOne'
  BY <1>2 DEF OneByOne, LogicInv
<1>. QED  BY <1>1, <1>3

\* An answer given is forgotten.
LEMMA LogicFinish ==
  ASSUME LogicInv, NEW t \in Threads, Tables!Finish(t)
  PROVE  LogicInv'
<1>1. /\ req[t].pc = "answer" /\ req' = [req EXCEPT ![t] = Tables!Idle]
      /\ UNCHANGED <<table, states, heap, stale, now, log, alone>>
  BY DEF Tables!Finish, Tables!At
<1>2. Tables!Idle \in LogicRequests /\ Tables!Idle.pc = "idle"
  BY DEF LogicRequests, Tables!Idle
<1>3. /\ req' \in [Threads -> LogicRequests] /\ \A u \in Threads : req'[u] = IF u = t THEN Tables!Idle ELSE req[u]
      /\ OneByOne'
  BY <1>1, <1>2, LogicRequest
<1>4. FlowsFit'
  BY <1>1 DEF LogicInv, FlowsFit, FlowFits
<1>5. Guarded'
  BY <1>1, <1>2, <1>3 DEF LogicInv, Guarded, Tables!InWindow
<1>. QED  BY <1>1, <1>3, <1>4, <1>5 DEF LogicInv

\* A request is tracked under the lock, and its answer decided with it (TrackRequest).
LEMMA LogicTrack ==
  ASSUME LogicInv, NEW t \in Threads, Tables!Track(t)
  PROVE  LogicInv'
<1>. DEFINE c == req[t].client  id == states[c]
            a == [at |-> now, path |-> req[t].work]
            k == IF id = None THEN <<>> ELSE heap[id].actions
            acts == Tables!InWindow(Append(k, a))
            flow == [last |-> now, actions |-> acts]
            x == now - FlowWindow
            r == [pc |-> "answer", client |-> c, refused |-> Tables!detect(acts)]
            spot == IF id = None THEN Len(heap) + 1 ELSE id
<1>1. /\ req[t].pc = "load"
      /\ log' = [log EXCEPT ![c] = Append(@, a)]
      /\ heap' = IF id = None THEN Append(heap, flow) ELSE [heap EXCEPT ![id] = flow]
      /\ states' = [states EXCEPT ![c] = spot]
      /\ req' = [req EXCEPT ![t] = r]
      /\ UNCHANGED <<table, stale, now, alone>>
  BY DEF Tables!Track, Tables!At, Tables!Seen, Tables!Answer
<1>2. c \in IPs /\ req[t].work \in TablePaths /\ now \in Nat /\ FlowWindow \in Nat /\ x \in Int
  BY <1>1, TableConstants DEF LogicInv, LogicRequests, Tables!Idle
<1>3. a \in Visits /\ log[c] \in Seq(Visits) /\ \A e \in Visits : e.at \in Int
  <2>1. a \in Visits
    BY <1>2 DEF Visits
  <2>2. log[c] \in Seq(Visits)
    BY <1>2 DEF LogicInv
  <2>3. \A e \in Visits : e.at \in Int
    BY DEF Visits
  <2>. QED  BY <2>1, <2>2, <2>3
<1>4. id # None => /\ id \in DOMAIN heap /\ heap[id] \in Flows /\ heap[id].last <= now
                       /\ heap[id].actions = Tables!Newer(log[c], heap[id].last - FlowWindow)
                       /\ \A i \in DOMAIN log[c] : log[c][i].at <= heap[id].last
  BY <1>2 DEF LogicInv, FlowsFit, FlowFits
<1>5. k \in Seq(Visits)
  BY <1>4 DEF Flows
<1>. HIDE DEF a
<1>6. Tables!Newer(k, x) = Tables!Newer(log[c], x)
  <2>1. CASE id = None
    <3>1. \A i \in DOMAIN log[c] : log[c][i].at <= x
      BY <1>2, <2>1 DEF LogicInv, FlowsFit, FlowFits
    <3>2. \A i \in DOMAIN log[c] : log[c][i].at \in Int
      BY <1>3
    <3>3. \A i \in DOMAIN log[c] : ~(log[c][i].at > x)
      <4>. HIDE DEF x
      <4>. QED  BY <1>2, <3>1, <3>2
    <3>4. Tables!Newer(log[c], x) = <<>>
      BY <1>3, <3>3, NewerNone
    <3>. QED  BY <2>1, <3>4, NewerEmpty
  <2>2. CASE id # None
    <3>. DEFINE y == heap[id].last - FlowWindow
    <3>1. y \in Int /\ y <= x
      <4>1. heap[id].last \in Nat /\ heap[id].last <= now
        BY <1>4, <2>2 DEF Flows
      <4>. DEFINE z == heap[id].last
      <4>. HIDE DEF z, c, id
      <4>. QED  BY <1>2, <4>1 DEF z
    <3>2. k = Tables!Newer(log[c], y)
      BY <1>4, <2>2
    <3>. HIDE DEF x, y, k
    <3>. QED  BY <1>2, <1>3, <3>1, <3>2, NewerTwice
  <2>. QED  BY <2>1, <2>2
<1>7. acts = Tables!Newer(log'[c], x) /\ acts \in Seq(Visits)
  <2>1. log'[c] = Append(log[c], a)
    BY <1>1, <1>2 DEF LogicInv
  <2>2. acts = Tables!Newer(Append(k, a), x)
    BY DEF Tables!InWindow
  <2>. HIDE DEF x, k
  <2>3. Append(k, a) \in Seq(Visits)
    BY <1>3, <1>5
  <2>4. Tables!Newer(Append(k, a), x) = Tables!Newer(Append(log[c], a), x)
    <3>1. Tables!Newer(Append(k, a), x)
            = IF a.at > x THEN Append(Tables!Newer(k, x), a) ELSE Tables!Newer(k, x)
      BY <1>3, <1>5, NewerAppend
    <3>2. Tables!Newer(Append(log[c], a), x)
            = IF a.at > x THEN Append(Tables!Newer(log[c], x), a) ELSE Tables!Newer(log[c], x)
      BY <1>3, NewerAppend
    <3>. QED  BY <1>6, <3>1, <3>2
  <2>5. Tables!Newer(Append(k, a), x) \in Seq(Visits)
    BY <2>3, NewerType
  <2>. QED  BY <2>1, <2>2, <2>4, <2>5
<1>8. flow \in Flows
  BY <1>2, <1>7 DEF Flows
<1>9. /\ spot \in DOMAIN heap' /\ heap'[spot] = flow /\ heap' \in Seq(Flows)
      /\ \A d \in IPs : d # c /\ states[d] # None =>
           states[d] # spot /\ states[d] \in DOMAIN heap' /\ heap'[states[d]] = heap[states[d]]
  <2>1. heap \in Seq(Flows)
    BY DEF LogicInv
  <2>2. \A d \in IPs : states[d] # None => states[d] \in DOMAIN heap
    BY DEF LogicInv, FlowsFit, FlowFits
  <2>3. \A d \in IPs : d # c /\ states[d] # None => states[d] # id
    BY <1>2 DEF LogicInv
  <2>. HIDE DEF flow
  <2>4. CASE id = None
    BY <1>1, <1>8, <2>1, <2>2, <2>4
  <2>5. CASE id # None
    <3>. HIDE DEF id
    <3>. QED  BY <1>1, <1>4, <1>8, <2>1, <2>2, <2>3, <2>5
  <2>. QED  BY <2>4, <2>5
<1>10. /\ states' \in [IPs -> Nat \cup {None}] /\ spot \in Nat
       /\ \A d \in IPs : states'[d] = IF d = c THEN spot ELSE states[d]
  <2>1. spot \in Nat
    BY <1>2, <1>4 DEF LogicInv
  <2>. HIDE DEF spot
  <2>. QED  BY <1>1, <1>2, <2>1 DEF LogicInv
<1>11. /\ log' \in [IPs -> Seq(Visits)] /\ log'[c] = Append(log[c], a)
       /\ \A d \in IPs : d # c => log'[d] = log[d]
  <2>1. Append(log[c], a) \in Seq(Visits)
    BY <1>3
  <2>2. log \in [IPs -> Seq(Visits)]
    BY DEF LogicInv
  <2>3. log' \in [IPs -> Seq(Visits)]
    BY <1>1, <1>2, <2>1, <2>2
  <2>4. log'[c] = Append(log[c], a)
    BY <1>1, <1>2, <2>2
  <2>5. \A d \in IPs : d # c => log'[d] = log[d]
    BY <1>1, <2>2
  <2>. QED  BY <2>3, <2>4, <2>5
<1>12. r \in LogicRequests
  BY <1>2 DEF LogicRequests, Tables!detect
<1>. HIDE DEF r, flow, spot
<1>13. /\ req' \in [Threads -> LogicRequests] /\ \A u \in Threads : req'[u] = IF u = t THEN r ELSE req[u]
       /\ OneByOne'
  BY <1>1, <1>12, LogicRequest DEF r
<1>14. \A d, f \in IPs : states'[d] = states'[f] /\ states'[d] # None => d = f
  BY <1>9, <1>10 DEF LogicInv
<1>15. \A i \in DOMAIN log'[c] : log'[c][i].at <= now
  <2>1. \A i \in DOMAIN log[c] : log[c][i].at <= now
    <3>. SUFFICES ASSUME NEW i \in DOMAIN log[c] PROVE log[c][i].at <= now
      OBVIOUS
    <3>. DEFINE w == log[c][i].at
    <3>1. w \in Int
      BY <1>3
    <3>2. CASE id = None
      <4>1. w <= x
        BY <1>2, <3>2 DEF LogicInv, FlowsFit, FlowFits
      <4>. HIDE DEF w
      <4>. QED  BY <1>2, <3>1, <4>1 DEF w
    <3>3. CASE id # None
      <4>. DEFINE z == heap[id].last
      <4>1. w <= z /\ z <= now /\ z \in Int
        BY <1>4, <3>3 DEF Flows
      <4>. HIDE DEF w, z
      <4>. QED  BY <1>2, <3>1, <4>1 DEF w
    <3>. QED  BY <3>2, <3>3
  <2>2. a.at <= now
    BY <1>2 DEF a
  <2>3. ASSUME NEW i \in DOMAIN log'[c] PROVE log'[c][i].at <= now
    <3>. DEFINE l == log[c]
    <3>1. l \in Seq(Visits) /\ log'[c] = Append(l, a)
      BY <1>3, <1>11
    <3>2. \A j \in DOMAIN l : l[j].at <= now
      BY <2>1
    <3>. HIDE DEF l
    <3>3. i \in DOMAIN l \/ i = Len(l) + 1
      BY <3>1
    <3>4. i \in DOMAIN l => Append(l, a)[i] = l[i]
      BY <3>1
    <3>5. i = Len(l) + 1 => Append(l, a)[i] = a
      BY <3>1
    <3>. QED  BY <2>2, <3>1, <3>2, <3>3, <3>4, <3>5
  <2>. QED  BY <2>3
<1>16. FlowsFit'
  <2>1. SUFFICES ASSUME NEW d \in IPs PROVE FlowFits(d)'
    BY DEF FlowsFit
  <2>2. CASE d = c
    <3>1. states'[d] = spot /\ spot # None
      BY <1>10, <2>2, TableConstants
    <3>2. heap'[spot].last = now /\ heap'[spot].actions = acts
      BY <1>9 DEF flow
    <3>. HIDE DEF acts
    <3>3. heap'[spot].last <= now
      BY <1>2, <3>2
    <3>4. heap'[spot].actions = Tables!Newer(log'[c], heap'[spot].last - FlowWindow)
      BY <1>7, <3>2
    <3>5. \A i \in DOMAIN log'[c] : log'[c][i].at <= heap'[spot].last
      BY <1>15, <3>2
    <3>. HIDE DEF c, id, x
    <3>. QED  BY <1>1, <1>9, <2>2, <3>1, <3>3, <3>4, <3>5 DEF FlowFits
  <2>3. CASE d # c
    <3>1. states'[d] = states[d] /\ log'[d] = log[d]
      BY <1>10, <1>11, <2>3
    <3>2. states[d] # None => states[d] \in DOMAIN heap' /\ heap'[states[d]] = heap[states[d]]
      BY <1>9, <2>3
    <3>. QED  BY <1>1, <3>1, <3>2 DEF LogicInv, FlowsFit, FlowFits
  <2>. QED  BY <2>2, <2>3
<1>17. Guarded'
  <2>1. SUFFICES ASSUME NEW u \in Threads, req'[u].pc = "answer"
                 PROVE  LET d == req'[u].client  due == Tables!detect(Tables!InWindow(log'[d]))
                        IN  (req'[u].refused => due) /\ (alone[d] /\ due => req'[u].refused)
    BY <1>1 DEF Guarded, Tables!InWindow
  <2>2. CASE u = t
    <3>1. req'[u].client = c /\ req'[u].refused = Tables!detect(acts)
      BY <1>13, <2>2 DEF r
    <3>2. Tables!InWindow(log'[c]) = acts
      BY <1>7 DEF Tables!InWindow
    <3>. QED  BY <3>1, <3>2
  <2>3. CASE u # t
    <3>. DEFINE d == req[u].client
    <3>1. req'[u] = req[u] /\ d \in IPs
      BY <1>13, <2>1, <2>3 DEF LogicInv, LogicRequests, Tables!Idle
    <3>2. CASE d # c
      <4>1. log'[d] = log[d]
        BY <1>11, <3>1, <3>2
      <4>. QED  BY <2>1, <3>1, <4>1 DEF LogicInv, Guarded
    <3>3. CASE d = c
      <4>1. ~alone[c]
        <5>1. Tables!Serving(t, c) /\ Tables!Serving(u, c)
          BY <1>1, <2>1, <3>1, <3>3 DEF Tables!Serving
        <5>. QED  BY <1>2, <2>3, <5>1 DEF LogicInv, OneByOne
      <4>2. Tables!detect(Tables!InWindow(log[c])) => Tables!detect(Tables!InWindow(log'[c]))
        <5>. DEFINE q == Tables!Newer(log[c], x)
        <5>1. q \in Seq(Visits)
          BY <1>3, NewerType
        <5>2. Tables!InWindow(log[c]) = q
          BY DEF Tables!InWindow
        <5>3. Tables!InWindow(log'[c]) = IF a.at > x THEN Append(q, a) ELSE q
          <6>1. Tables!InWindow(log'[c]) = Tables!Newer(Append(log[c], a), x)
            BY <1>11 DEF Tables!InWindow
          <6>. HIDE DEF x
          <6>2. Tables!Newer(Append(log[c], a), x)
                  = IF a.at > x THEN Append(Tables!Newer(log[c], x), a) ELSE Tables!Newer(log[c], x)
            BY <1>3, NewerAppend
          <6>. QED  BY <6>1, <6>2
        <5>. HIDE DEF q
        <5>. QED  BY <1>3, <5>1, <5>2, <5>3, DetectGrows
      <4>. QED  BY <2>1, <3>1, <3>3, <4>1, <4>2 DEF LogicInv, Guarded
    <3>. QED  BY <3>2, <3>3
  <2>. QED  BY <2>2, <2>3
<1>. QED  BY <1>1, <1>9, <1>10, <1>11, <1>13, <1>14, <1>16, <1>17 DEF LogicInv

\* A flow is deleted when nothing of it counts any more.
LEMMA LogicClean ==
  ASSUME LogicInv, Tables!CleanFlows
  PROVE  LogicInv'
<1>1. /\ states' = [c \in IPs |-> IF Tables!OldFlow(c) THEN None ELSE states[c]]
      /\ UNCHANGED <<table, heap, req, stale, now, log, alone>>
  BY DEF Tables!CleanFlows
<1>2. /\ states' \in [IPs -> Nat \cup {None}]
      /\ \A c \in IPs : states'[c] = IF Tables!OldFlow(c) THEN None ELSE states[c]
  <2>. DEFINE P(c) == Tables!OldFlow(c)
  <2>. HIDE DEF P
  <2>1. states' = [c \in IPs |-> IF P(c) THEN None ELSE states[c]]
    BY <1>1 DEF P
  <2>2. states' \in [IPs -> Nat \cup {None}] /\ \A c \in IPs : states'[c] = IF P(c) THEN None ELSE states[c]
    BY <2>1 DEF LogicInv
  <2>. QED  BY <2>2 DEF P
<1>3. FlowsFit'
  <2>1. SUFFICES ASSUME NEW c \in IPs PROVE FlowFits(c)'
    BY DEF FlowsFit
  <2>2. CASE Tables!OldFlow(c)
    <3>1. states'[c] = None /\ states[c] # None /\ heap[states[c]].last < now - 2 * FlowWindow
      BY <1>2, <2>2 DEF Tables!OldFlow, Tables!Expired
    <3>2. /\ states[c] \in DOMAIN heap /\ heap[states[c]] \in Flows
          /\ \A i \in DOMAIN log[c] : log[c][i].at <= heap[states[c]].last
      BY <3>1 DEF LogicInv, FlowsFit, FlowFits
    <3>. DEFINE z == heap[states[c]].last
    <3>3. z \in Nat /\ z < now - 2 * FlowWindow /\ now \in Nat /\ FlowWindow \in Nat
      BY <3>1, <3>2, TableConstants DEF Flows, LogicInv
    <3>4. ASSUME NEW i \in DOMAIN log[c] PROVE log[c][i].at <= now - FlowWindow
      <4>. DEFINE w == log[c][i].at
      <4>1. w <= z /\ w \in Nat
        <5>1. log[c] \in Seq(Visits)
          BY DEF LogicInv
        <5>2. log[c][i] \in Visits
          BY <5>1
        <5>. QED  BY <3>2, <5>2 DEF Visits
      <4>. HIDE DEF w, z
      <4>2. w <= now - FlowWindow
        BY <3>3, <4>1
      <4>. QED  BY <4>2 DEF w
    <3>. QED  BY <1>1, <3>1, <3>4 DEF FlowFits
  <2>3. CASE ~Tables!OldFlow(c)
    BY <1>1, <1>2, <2>3 DEF LogicInv, FlowsFit, FlowFits
  <2>. QED  BY <2>2, <2>3
<1>4. \A c, d \in IPs : states'[c] = states'[d] /\ states'[c] # None => c = d
  BY <1>2 DEF LogicInv
<1>5. OneByOne' /\ Guarded'
  BY <1>1 DEF LogicInv, OneByOne, Guarded, Tables!Serving, Tables!InWindow
<1>. QED  BY <1>1, <1>2, <1>3, <1>4, <1>5 DEF LogicInv

\* Time passes.
LEMMA LogicTick ==
  ASSUME LogicInv, Tables!Tick
  PROVE  LogicInv'
<1>1. /\ \A t \in Threads : req[t] = Tables!Idle
      /\ now' = now + 1 /\ now \in Nat
      /\ UNCHANGED <<table, states, heap, req, stale, log, alone>>
  BY DEF Tables!Tick, LogicInv
<1>2. FlowsFit'
  <2>1. SUFFICES ASSUME NEW c \in IPs PROVE FlowFits(c)'
    BY DEF FlowsFit
  <2>2. CASE states[c] = None
    <3>1. ASSUME NEW i \in DOMAIN log[c] PROVE log[c][i].at <= (now + 1) - FlowWindow
      <4>. DEFINE w == log[c][i].at
      <4>1. log[c] \in Seq(Visits) /\ FlowWindow \in Nat
        BY TableConstants DEF LogicInv
      <4>2. log[c][i] \in Visits
        BY <4>1
      <4>3. w <= now - FlowWindow /\ w \in Nat
        BY <2>2, <4>2 DEF LogicInv, FlowsFit, FlowFits, Visits
      <4>. HIDE DEF w
      <4>4. w <= (now + 1) - FlowWindow
        BY <1>1, <4>1, <4>3
      <4>. QED  BY <4>4 DEF w
    <3>. QED  BY <1>1, <2>2, <3>1 DEF FlowFits
  <2>3. CASE states[c] # None
    <3>1. /\ states[c] \in DOMAIN heap /\ heap[states[c]] \in Flows
          /\ heap[states[c]].last <= now
          /\ heap[states[c]].actions = Tables!Newer(log[c], heap[states[c]].last - FlowWindow)
          /\ \A i \in DOMAIN log[c] : log[c][i].at <= heap[states[c]].last
      BY <2>3 DEF LogicInv, FlowsFit, FlowFits
    <3>. DEFINE z == heap[states[c]].last
    <3>2. z \in Nat /\ z <= now
      BY <3>1 DEF Flows
    <3>3. z <= now + 1
      <4>. HIDE DEF z
      <4>. QED  BY <1>1, <3>2
    <3>. QED  BY <1>1, <2>3, <3>1, <3>3 DEF FlowFits
  <2>. QED  BY <2>2, <2>3
<1>3. OneByOne' /\ Guarded'
  BY <1>1 DEF LogicInv, OneByOne, Guarded, Tables!Serving, Tables!Idle
<1>. QED  BY <1>1, <1>2, <1>3 DEF LogicInv

\* Every step keeps the guard's invariant.
LEMMA LogicStep ==
  ASSUME LogicInv, [Tables!Next]_Tables!vars
  PROVE  LogicInv'
<1>1. table = "logic" /\ stale = None
      /\ \A t \in Threads : req[t].pc \in {"idle", "load", "answer"}
  BY DEF LogicInv, LogicRequests, Tables!Idle
<1>2. CASE \E t \in Threads, c \in IPs : \E p \in TablePaths : Tables!Arrive(t, c, p)
  BY <1>2, LogicArrive
<1>3. CASE \E t \in Threads : Tables!Finish(t)
  BY <1>3, LogicFinish
<1>4. CASE \E t \in Threads : Tables!Track(t)
  BY <1>4, LogicTrack
<1>5. CASE Tables!CleanFlows
  BY <1>5, LogicClean
<1>6. CASE Tables!Tick
  BY <1>6, LogicTick
<1>7. CASE UNCHANGED Tables!vars
  <2>1. UNCHANGED <<table, states, heap, req, stale, now, log, alone>>
    BY <1>7 DEF Tables!vars
  <2>2. FlowsFit' /\ OneByOne' /\ Guarded'
    BY <2>1 DEF LogicInv, FlowsFit, FlowFits, OneByOne, Guarded, Tables!Serving, Tables!InWindow
  <2>. QED  BY <2>1, <2>2 DEF LogicInv
<1>8. \A t \in Threads :
        ~(Tables!StoreNew(t) \/ Tables!TrackConnection(t) \/ Tables!ReadAnomalies(t) \/ Tables!AddAnomaly(t)
            \/ Tables!Look(t) \/ Tables!Analyze(t) \/ Tables!ReadPattern(t) \/ Tables!UpdatePattern(t) \/ Tables!Judge(t))
  BY <1>1 DEF Tables!StoreNew, Tables!TrackConnection, Tables!ReadAnomalies, Tables!AddAnomaly, Tables!Look,
     Tables!Analyze, Tables!ReadPattern, Tables!UpdatePattern, Tables!Judge, Tables!At
<1>9. ~Tables!DeleteStale /\ \A c \in IPs : ~Tables!FindStale(c)
  BY <1>1 DEF Tables!DeleteStale, Tables!FindStale
<1>. QED  BY <1>1, <1>2, <1>3, <1>4, <1>5, <1>6, <1>7, <1>8, <1>9 DEF Tables!Next

\* With it every answer is right.
LEMMA LogicRight == ASSUME LogicInv PROVE Tables!RefusalsAreEarned
<1>1. SUFFICES ASSUME NEW t \in Threads, req[t].pc = "answer"
               PROVE  LET c == req[t].client
                      IN /\ req[t].refused => Tables!Earned(log[c])
                         /\ alone[c] /\ Tables!Due(log[c]) => req[t].refused
                         /\ alone[c] /\ req[t].refused /\ table = "preattack" => Tables!Due(log[c])
  BY DEF Tables!RefusalsAreEarned, Tables!At
<1>. DEFINE c == req[t].client  due == Tables!detect(Tables!InWindow(log[c]))
<1>2. (req[t].refused => due) /\ (alone[c] /\ due => req[t].refused) /\ table = "logic"
  BY <1>1 DEF LogicInv, Guarded
<1>3. Tables!Earned(log[c]) <=> due
  BY <1>2 DEF Tables!Earned
<1>4. Tables!Due(log[c]) <=> due
  BY <1>2 DEF Tables!Due
<1>. HIDE DEF due
<1>. QED  BY <1>2, <1>3, <1>4

\* A client is refused for what it did itself, and for enough of it, and one whose
\* requests come one by one is refused when its requests call for it: whatever the
\* requests, the payloads, the paths and the limits, and however the requests of
\* a client overlap with each other and with the cleanup
\* (internal/detect/network_attack.go, internal/preattack/detector.go,
\* internal/logic/abuse.go).
THEOREM RefusalsAreAlwaysEarned == Tables!Spec => []RefusalsAreEarned
<1>. DEFINE Inv == SharedInv \/ LogicInv
<1>1. Tables!Init => Inv
  BY SharedInit, LogicInit
<1>2. Inv /\ [Tables!Next]_(Tables!vars) => Inv'
  BY SharedStep, LogicStep
<1>3. Inv => RefusalsAreEarned
  BY SharedRight, LogicRight DEF RefusalsAreEarned
<1>. HIDE DEF Inv
<1>. QED  BY <1>1, <1>2, <1>3, PTL DEF Tables!Spec
================================================================================
