------------------------ MODULE RequestPipelineProofs ------------------------
(***************************************************************************)
(* A block in force since a request came in keeps it from the handler, no  *)
(* large body is scanned, and nobody pays for another: for any number of   *)
(* goroutines and addresses and any set of middlewares.  Of the engine     *)
(* behind the ddos middleware: for every window of whole seconds, every    *)
(* threshold and duration, no request blocks, and a phase lasts.  Of the   *)
(* way back: for any limit of the captures, any bodies and statuses, the   *)
(* client gets one whole response, and no leak that a capture can hold and *)
(* the scan can read.                                                      *)
(* Of the egress scanner: for every window, limit and multiplier, however  *)
(* many clients and scans, what it says went out did.                      *)
(***************************************************************************)
EXTENDS MCRequests, MCDdosEngine, SequenceTheorems, FiniteSetTheorems, TLAPS

\* A request has not passed the gate that looks at a block it is barred by, and that block
\* is still in force.
Shut(r) ==
  /\ "cm" \in r.barred => r.ip \in cm
  /\ "actor" \in r.barred => r.ip \in actor
  /\ "ioc" \in r.barred => r.ip \in ioc
Before(r) ==
  /\ "countermeasures" \in Enabled /\ "cm" \in r.barred => r.at <= 18
  /\ "actorTracking" \in Enabled /\ "actor" \in r.barred => r.at <= 19
  /\ "intelHub" \in Enabled /\ "ioc" \in r.barred /\ r.kind \notin {"health", "intel"} => r.at <= 2

Held(r) == r.phase # "idle" => r \in Requests /\ Shut(r) /\ (r.phase = "in" => Before(r))

IInv ==
  /\ DOMAIN req = Threads /\ req = [t \in Threads |-> req[t]]
  /\ \A t \in Threads : req[t] \in Requests \cup {Idle}
  /\ \A t \in Threads : Held(req[t])

LEMMA ChainFacts ==
  /\ Handler = 23 /\ Len(Chain) = 22
  /\ Chain[2] = "intelHub" /\ Chain[18] = "countermeasures" /\ Chain[19] = "actorTracking"
BY DEF Handler, Chain

\* The next gate is not past one that is on.
LEMMA FollowsFacts ==
  ASSUME NEW i \in 0..22, NEW j \in 1..Handler, Follows(i, j)
  PROVE  /\ i < j
         /\ "intelHub" \in Enabled /\ i < 2 => j <= 2
         /\ "countermeasures" \in Enabled /\ i < 18 => j <= 18
         /\ "actorTracking" \in Enabled /\ i < 19 => j <= 19
<1>1. j \in Nat /\ i \in Nat
  BY ChainFacts
<1>. QED  BY <1>1, ChainFacts DEF Follows

\* How a request may be changed, and what that leaves alone.
SameRequest(r, q) == r.barred = q.barred /\ r.ip = q.ip /\ r.kind = q.kind /\ r.at = q.at /\ r.phase = q.phase

LEMMA RequestFields ==
  \A r \in Requests : /\ r.phase \in {"in", "out"} /\ r.at \in 1..Handler /\ r.ip \in IPs
                      /\ r.barred \subseteq {"ioc", "cm", "actor"} /\ SameRequest(r, r)
BY DEF Requests, SameRequest

LEMMA NamedSeq == ASSUME NEW n \in IPs \cup {None} PROVE Named(n) \in Seq(IPs)
BY DEF Named

\* However a request comes, and whatever it says of itself, it counts for who sent it.
LEMMA AttributedIsSender == ASSUME NEW r \in Requests PROVE Attributed(r) = r.ip
<1>1. r.ip \in IPs /\ r.from \in Senders(r.ip)
  BY DEF Requests
<1>2. ASSUME NEW c \in Claims, r.from = Direct(r.ip, c)
      PROVE  Attributed(r) = r.ip
  <2>1. r.from.peer = r.ip
    BY <1>2 DEF Direct
  <2>. QED  BY <1>1, <2>1, ClaimsAssumption DEF Attributed
<1>3. ASSUME NEW c \in Claims, NEW real \in {r.ip, None}, r.from = Proxied(r.ip, real, c)
      PROVE  Attributed(r) = r.ip
  <2>. DEFINE s == Named(c.forwardedFor)
              f == Append(s, r.ip)
  <2>1. s \in Seq(IPs)
    BY NamedSeq, ClaimsAssumption
  <2>2. r.from.peer = Loopback /\ r.from.realIP = real /\ r.from.forwardedFor = f
    BY <1>3 DEF Proxied
  <2>. HIDE DEF s
  <2>3. f # <<>> /\ f[Len(f)] = r.ip
    BY <1>1, <2>1, AppendProperties
  <2>. HIDE DEF f
  <2>. QED  BY <1>1, <2>2, <2>3, ClaimsAssumption DEF Attributed
<1>. QED  BY <1>1, <1>2, <1>3 DEF Senders

LEMMA RequestOut ==
  ASSUME NEW r \in Requests
  PROVE  /\ [r EXCEPT !.phase = "out"] \in Requests
         /\ [r EXCEPT !.phase = "out"].phase = "out"
         /\ [r EXCEPT !.phase = "out"].barred = r.barred
         /\ [r EXCEPT !.phase = "out"].ip = r.ip
BY DEF Requests

LEMMA RequestScanned ==
  ASSUME NEW r \in Requests
  PROVE  [r EXCEPT !.scanned = TRUE] \in Requests /\ SameRequest([r EXCEPT !.scanned = TRUE], r)
BY DEF Requests, SameRequest

LEMMA RequestDiverted ==
  ASSUME NEW r \in Requests, NEW d \in BOOLEAN
  PROVE  [r EXCEPT !.diverted = d] \in Requests /\ SameRequest([r EXCEPT !.diverted = d], r)
BY DEF Requests, SameRequest

LEMMA RequestMoved ==
  ASSUME NEW r \in Requests, NEW j \in 1..Handler
  PROVE  /\ [r EXCEPT !.at = j] \in Requests
         /\ [r EXCEPT !.at = j].barred = r.barred
         /\ [r EXCEPT !.at = j].ip = r.ip
         /\ [r EXCEPT !.at = j].kind = r.kind
         /\ [r EXCEPT !.at = j].at = j
         /\ [r EXCEPT !.at = j].phase = r.phase
BY DEF Requests

LEMMA RequestLifted ==
  ASSUME NEW r \in Requests, NEW b
  PROVE  /\ [r EXCEPT !.barred = r.barred \ {b}] \in Requests
         /\ [r EXCEPT !.barred = r.barred \ {b}].barred = r.barred \ {b}
         /\ [r EXCEPT !.barred = r.barred \ {b}].ip = r.ip
         /\ [r EXCEPT !.barred = r.barred \ {b}].kind = r.kind
         /\ [r EXCEPT !.barred = r.barred \ {b}].at = r.at
         /\ [r EXCEPT !.barred = r.barred \ {b}].phase = r.phase
BY DEF Requests

\* Blocks are only added to the tables.
Grow == cm \subseteq cm' /\ actor \subseteq actor' /\ ioc \subseteq ioc'

\* A step that changes one request and lifts no block need only be looked at there.
LEMMA OneRequest ==
  ASSUME IInv, NEW t \in Threads, NEW r \in Requests \cup {Idle}, req' = [req EXCEPT ![t] = r],
         Grow, r.phase # "idle" => r \in Requests /\ Shut(r) /\ (r.phase = "in" => Before(r))
  PROVE  IInv'
<1>1. \A u \in Threads : req'[u] = IF u = t THEN r ELSE req[u]
  BY DEF IInv
<1>2. DOMAIN req' = Threads /\ req' = [u \in Threads |-> req'[u]]
  BY DEF IInv
<1>3. \A u \in Threads : Held(req'[u])
  BY <1>1 DEF IInv, Held
<1>4. ASSUME NEW u \in Threads PROVE Held(req[u])'
  <2>1. CASE req'[u].phase = "idle"
    BY <2>1 DEF Held
  <2>2. CASE req'[u].phase # "idle"
    <3>1. req'[u] \in Requests /\ Shut(req'[u]) /\ (req'[u].phase = "in" => Before(req'[u]))
      BY <1>3, <2>2 DEF Held
    <3>2. req[u]' \in Requests'
      BY <3>1 DEF Requests
    <3>3. Shut(req[u])'
      BY <3>1 DEF Shut, Grow
    <3>4. req[u]'.phase = "in" => Before(req[u])'
      BY <3>1 DEF Before
    <3>. QED  BY <3>2, <3>3, <3>4 DEF Held
  <2>. QED  BY <2>1, <2>2
<1>5. \A u \in Threads : (req[u] \in Requests \cup {Idle})'
  BY <1>1 DEF IInv, Requests, Idle
<1>. QED  BY <1>2, <1>4, <1>5 DEF IInv

LEMMA AnswersKeeps ==
  ASSUME IInv, NEW t \in Threads, req[t].phase # "idle", Answers(t), Grow
  PROVE  IInv'
<1>. DEFINE r == [req[t] EXCEPT !.phase = "out"]
<1>1. req[t] \in Requests /\ Shut(req[t])
  BY DEF IInv, Held
<1>2. r \in Requests /\ r.phase = "out" /\ r.barred = req[t].barred /\ r.ip = req[t].ip
  BY <1>1, RequestOut
<1>3. req' = [req EXCEPT ![t] = r]
  BY DEF Answers
<1>4. Shut(r)
  BY <1>1, <1>2 DEF Shut
<1>. HIDE DEF r
<1>. QED  BY <1>2, <1>3, <1>4, OneRequest

\* A request passes a gate that does not look at a block, or finds none.
LEMMA PassesKeeps ==
  ASSUME IInv, NEW t \in Threads, req[t].phase = "in", req[t].at < Handler,
         NEW r \in Requests, SameRequest(r, req[t]), Passes(t, r), Grow,
         req[t].at = 2 => "ioc" \notin req[t].barred \/ req[t].kind \in {"health", "intel"},
         req[t].at = 18 => "cm" \notin req[t].barred,
         req[t].at = 19 => "actor" \notin req[t].barred
  PROVE  IInv'
<1>1. PICK j \in 1..Handler : Follows(r.at, j) /\ req' = [req EXCEPT ![t] = [r EXCEPT !.at = j]]
  BY DEF Passes
<1>. DEFINE q == [r EXCEPT !.at = j]
<1>2. req[t] \in Requests /\ Shut(req[t]) /\ Before(req[t])
  BY DEF IInv, Held
<1>3. q \in Requests /\ q.barred = r.barred /\ q.ip = r.ip /\ q.kind = r.kind /\ q.at = j
  BY RequestMoved
<1>4. r.at \in 1..Handler /\ r.at \in 0..22 /\ j \in Nat /\ r.at \in Nat
  BY <1>2, RequestFields, ChainFacts DEF SameRequest
<1>5. /\ "intelHub" \in Enabled /\ r.at < 2 => j <= 2
      /\ "countermeasures" \in Enabled /\ r.at < 18 => j <= 18
      /\ "actorTracking" \in Enabled /\ r.at < 19 => j <= 19
  BY <1>1, <1>4, FollowsFacts
<1>. HIDE DEF q
<1>6. Shut(q)
  BY <1>2, <1>3 DEF Shut, SameRequest
<1>7. Before(q)
  <2>1. "countermeasures" \in Enabled /\ "cm" \in q.barred => q.at <= 18
    BY <1>2, <1>3, <1>4, <1>5 DEF Before, SameRequest
  <2>2. "actorTracking" \in Enabled /\ "actor" \in q.barred => q.at <= 19
    BY <1>2, <1>3, <1>4, <1>5 DEF Before, SameRequest
  <2>3. "intelHub" \in Enabled /\ "ioc" \in q.barred /\ q.kind \notin {"health", "intel"} => q.at <= 2
    BY <1>2, <1>3, <1>4, <1>5 DEF Before, SameRequest
  <2>. QED  BY <2>1, <2>2, <2>3 DEF Before
<1>8. req' = [req EXCEPT ![t] = q]
  BY <1>1 DEF q
<1>. QED  BY <1>3, <1>6, <1>7, <1>8, OneRequest

\* A middleware other than the three gates.
Moves(t) == Answers(t) \/ \E r \in Requests : SameRequest(r, req[t]) /\ Passes(t, r)

LEMMA Elsewhere ==
  ASSUME IInv, NEW t \in Threads, NEW gate, At(t, gate), Moves(t), Grow,
         gate \notin {"intelHub", "countermeasures", "actorTracking"}
  PROVE  IInv'
<1>1. req[t].at # 2 /\ req[t].at # 18 /\ req[t].at # 19
  BY ChainFacts DEF At
<1>2. CASE Answers(t)
  BY <1>2, AnswersKeeps DEF At
<1>3. ASSUME NEW r \in Requests, SameRequest(r, req[t]), Passes(t, r) PROVE IInv'
  BY <1>1, <1>3, PassesKeeps DEF At
<1>. QED  BY <1>2, <1>3 DEF Moves

\* The ways a middleware may end.
LEMMA Ways ==
  ASSUME IInv, NEW t \in Threads, req[t].phase = "in"
  PROVE  /\ req[t] \in Requests
         /\ SameRequest(req[t], req[t])
         /\ SameRequest([req[t] EXCEPT !.scanned = TRUE], req[t])
         /\ [req[t] EXCEPT !.scanned = TRUE] \in Requests
         /\ \A d \in BOOLEAN : /\ SameRequest([req[t] EXCEPT !.diverted = d], req[t])
                               /\ [req[t] EXCEPT !.diverted = d] \in Requests
<1>1. req[t] \in Requests
  BY DEF IInv, Held
<1>2. \A d \in BOOLEAN : /\ SameRequest([req[t] EXCEPT !.diverted = d], req[t])
                         /\ [req[t] EXCEPT !.diverted = d] \in Requests
  BY <1>1, RequestDiverted
<1>. QED  BY <1>1, <1>2, RequestFields, RequestScanned

LEMMA PassesOnlyMoves ==
  ASSUME IInv, NEW t \in Threads, req[t].phase = "in", PassesOnly(t)
  PROVE  Moves(t) /\ Grow
BY Ways DEF PassesOnly, Moves, Grow, tables

LEMMA AnswersOnlyMoves ==
  ASSUME NEW t \in Threads, AnswersOnly(t)
  PROVE  Moves(t) /\ Grow /\ Answers(t)
BY DEF AnswersOnly, Moves, Grow, tables

LEMMA RefusesMoves ==
  ASSUME NEW t \in Threads, Refuses(t)
  PROVE  Moves(t) /\ Answers(t)
BY DEF Refuses, Moves

LEMMA InspectKeeps ==
  ASSUME IInv, NEW t \in Threads, NEW gate, NEW a \in BOOLEAN, NEW e \in BOOLEAN,
         Inspect(t, gate, a, e), gate \notin {"intelHub", "countermeasures", "actorTracking"}
  PROVE  IInv'
<1>1. At(t, gate) /\ Grow
  BY DEF Inspect, Grow
<1>2. Passes(t, req[t]) \/ Passes(t, [req[t] EXCEPT !.scanned = TRUE]) \/ Refuses(t)
  BY DEF Inspect
<1>3. Moves(t)
  BY <1>1, <1>2, Ways, RefusesMoves DEF Moves, At
<1>. QED  BY <1>1, <1>3, Elsewhere

\* The middlewares that are no gates, in four groups by what they do to the tables.
LEMMA ScannersKeep ==
  ASSUME IInv, NEW t \in Threads,
         \/ SemanticPayload(t) \/ MalwareBehavior(t) \/ ExploitationDetector(t)
         \/ EvasionDetector(t) \/ NetworkAttackDetector(t) \/ AdAttackDetector(t) \/ Stix(t)
  PROVE  IInv'
BY InspectKeeps DEF SemanticPayload, MalwareBehavior, ExploitationDetector,
   EvasionDetector, NetworkAttackDetector, AdAttackDetector, Stix

LEMMA PlainOnesKeep ==
  ASSUME IInv, NEW t \in Threads,
         \/ RateLimit(t) \/ HoneypotPass(t) \/ BehavioralDetector(t) \/ BusinessLogic(t)
         \/ BodySizeLimit(t) \/ ProtocolGuard(t) \/ ProofOfWork(t)
  PROVE  IInv'
<1>1. PICK gate \in {"rateLimit", "honeypot", "behavioralDetector", "businessLogic",
                     "bodySizeLimit", "protocolGuard", "proofOfWork"} : At(t, gate)
  BY DEF RateLimit, HoneypotPass, BehavioralDetector, BusinessLogic, BodySizeLimit,
         ProtocolGuard, ProofOfWork
<1>2. PassesOnly(t) \/ AnswersOnly(t) \/ (Refuses(t) /\ UNCHANGED tables)
  BY DEF RateLimit, HoneypotPass, BehavioralDetector, BusinessLogic, BodySizeLimit,
         ProtocolGuard, ProofOfWork
<1>3. Moves(t) /\ Grow
  <2>1. CASE PassesOnly(t)
    BY <1>1, <2>1, PassesOnlyMoves DEF At
  <2>2. CASE AnswersOnly(t)
    BY <2>2, AnswersOnlyMoves
  <2>3. CASE Refuses(t) /\ UNCHANGED tables
    BY <2>3, RefusesMoves DEF Grow, tables
  <2>. QED  BY <1>2, <2>1, <2>2, <2>3
<1>. QED  BY <1>1, <1>3, Elsewhere

LEMMA BlockersKeep ==
  ASSUME IInv, NEW t \in Threads,
         HoneypotTrap(t) \/ BehavioralBaseline(t) \/ PreAttack(t) \/ ActiveDefense(t) \/ Waf(t) \/ Ddos(t)
  PROVE  IInv'
<1>1. PICK gate \in {"honeypot", "behavioralBaseline", "preAttack", "activeDefense", "waf", "ddos"} : At(t, gate)
  BY DEF HoneypotTrap, BehavioralBaseline, PreAttack, ActiveDefense, Waf, Ddos
<1>2. req[t].phase = "in"
  BY <1>1 DEF At
<1>3. Moves(t) /\ Grow
  <2>1. CASE HoneypotTrap(t)
    BY <2>1 DEF HoneypotTrap, Trapped, TempBlocks, Moves, Grow
  <2>2. CASE BehavioralBaseline(t)
    <3>1. PassesOnly(t) \/ (Refuses(t) /\ Grow)
      BY <2>2 DEF BehavioralBaseline, Grow
    <3>. QED  BY <1>2, <3>1, PassesOnlyMoves, RefusesMoves
  <2>3. CASE PreAttack(t)
    <3>1. PassesOnly(t) \/ (Refuses(t) /\ Grow)
      BY <2>3 DEF PreAttack, Grow
    <3>. QED  BY <1>2, <3>1, PassesOnlyMoves, RefusesMoves
  <2>4. CASE ActiveDefense(t)
    <3>1. PICK d \in BOOLEAN : Passes(t, [req[t] EXCEPT !.diverted = d])
      BY <2>4 DEF ActiveDefense
    <3>2. Grow
      BY <2>4 DEF ActiveDefense, Grow, tables
    <3>. QED  BY <1>2, <3>1, <3>2, Ways DEF Moves
  <2>5. CASE Waf(t)
    <3>1. \/ PassesOnly(t)
          \/ Passes(t, [req[t] EXCEPT !.scanned = TRUE]) /\ Grow
          \/ Refuses(t) /\ Grow
      BY <2>5 DEF Waf, ActorBlocks, Grow
    <3>. QED  BY <1>2, <3>1, PassesOnlyMoves, RefusesMoves, Ways DEF Moves
  <2>6. CASE Ddos(t)
    <3>1. PassesOnly(t) \/ AnswersOnly(t) \/ (Refuses(t) /\ Grow)
      BY <2>6 DEF Ddos, ActorBlocks, Grow
    <3>. QED  BY <1>2, <3>1, PassesOnlyMoves, AnswersOnlyMoves, RefusesMoves
  <2>. QED  BY <2>1, <2>2, <2>3, <2>4, <2>5, <2>6
<1>. QED  BY <1>1, <1>3, Elsewhere

\* The gates: a request that passes one is not barred by what it looks at.
LEMMA GateKeeps ==
  ASSUME IInv, NEW t \in Threads, NEW gate, At(t, gate),
         \/ /\ PassesOnly(t)
            /\ req[t].at = 2 => "ioc" \notin req[t].barred \/ req[t].kind \in {"health", "intel"}
            /\ req[t].at = 18 => "cm" \notin req[t].barred
            /\ req[t].at = 19 => "actor" \notin req[t].barred
         \/ Refuses(t) /\ UNCHANGED tables
  PROVE  IInv'
<1>1. req[t].phase = "in" /\ req[t].at < Handler
  BY DEF At
<1>2. CASE /\ PassesOnly(t)
           /\ req[t].at = 2 => "ioc" \notin req[t].barred \/ req[t].kind \in {"health", "intel"}
           /\ req[t].at = 18 => "cm" \notin req[t].barred
           /\ req[t].at = 19 => "actor" \notin req[t].barred
  <2>1. Passes(t, req[t]) /\ Grow
    BY <1>2 DEF PassesOnly, Grow, tables
  <2>. QED  BY <1>1, <1>2, <2>1, Ways, PassesKeeps
<1>3. CASE Refuses(t) /\ UNCHANGED tables
  <2>1. Answers(t) /\ Grow
    BY <1>3 DEF Refuses, Grow, tables
  <2>. QED  BY <1>1, <2>1, AnswersKeeps
<1>. QED  BY <1>2, <1>3

LEMMA GatesKeep ==
  ASSUME IInv, NEW t \in Threads, IntelHub(t) \/ Countermeasures(t) \/ ActorTracking(t)
  PROVE  IInv'
<1>1. req[t].phase = "in"
  BY DEF IntelHub, Countermeasures, ActorTracking, At
<1>2. Shut(req[t])
  BY <1>1 DEF IInv, Held
<1>0. Attributed(req[t]) = req[t].ip
  BY <1>1, AttributedIsSender DEF IInv, Held
<1>3. CASE IntelHub(t)
  <2>1. At(t, "intelHub") /\ req[t].at # 18 /\ req[t].at # 19
    BY <1>3, ChainFacts DEF IntelHub, At
  <2>. QED  BY <1>0, <1>2, <1>3, <2>1, GateKeeps DEF IntelHub, Shut
<1>4. CASE Countermeasures(t)
  <2>1. At(t, "countermeasures") /\ req[t].at # 2 /\ req[t].at # 19
    BY <1>4, ChainFacts DEF Countermeasures, At
  <2>. QED  BY <1>0, <1>2, <1>4, <2>1, GateKeeps DEF Countermeasures, Shut
<1>5. CASE ActorTracking(t)
  <2>1. At(t, "actorTracking") /\ req[t].at # 2 /\ req[t].at # 18
    BY <1>5, ChainFacts DEF ActorTracking, At
  <2>. QED  BY <1>0, <1>2, <1>5, <2>1, GateKeeps DEF ActorTracking, Shut
<1>. QED  BY <1>3, <1>4, <1>5

LEMMA ServeKeeps == ASSUME IInv, NEW t \in Threads, Serve(t) PROVE IInv'
<1>1. Answers(t) /\ Grow /\ req[t].phase # "idle"
  BY DEF Serve, AnswersOnly, Trapped, TempBlocks, Grow, tables
<1>. QED  BY <1>1, AnswersKeeps

LEMMA LeaveKeeps == ASSUME IInv, NEW t \in Threads, Leave(t) PROVE IInv'
<1>1. req' = [req EXCEPT ![t] = Idle] /\ Grow /\ Idle.phase = "idle"
  BY DEF Leave, Grow, Idle
<1>. QED  BY <1>1, OneRequest

\* A request that enters is barred by the blocks there are, and has passed no gate.
LEMMA ArriveKeeps ==
  ASSUME IInv, NEW t \in Threads, NEW ip \in Clients, NEW kind \in Kinds, NEW direct \in BOOLEAN,
         NEW body \in {"small", "large"}, NEW from \in Senders(ip), Arrive(t, ip, from, kind, direct, body)
  PROVE  IInv'
<1>1. PICK j \in 1..Handler :
        /\ Follows(0, j)
        /\ req' = [req EXCEPT ![t] =
             [phase |-> "in", at |-> j, ip |-> ip, from |-> from, kind |-> kind, body |-> body,
              barred |-> BlocksOf(ip), scanned |-> FALSE, diverted |-> FALSE]]
  BY DEF Arrive
<1>. DEFINE r == [phase |-> "in", at |-> j, ip |-> ip, from |-> from, kind |-> kind, body |-> body,
                  barred |-> BlocksOf(ip), scanned |-> FALSE, diverted |-> FALSE]
<1>2. r \in Requests
  BY ClientsAssumption DEF Requests, BlocksOf
<1>3. Shut(r)
  BY DEF Shut, BlocksOf
<1>4. Before(r)
  <2>1. /\ "intelHub" \in Enabled => j <= 2
        /\ "countermeasures" \in Enabled => j <= 18
        /\ "actorTracking" \in Enabled => j <= 19
    BY <1>1, FollowsFacts, ChainFacts
  <2>. QED  BY <2>1 DEF Before
<1>5. Grow
  BY DEF Arrive, Grow, tables
<1>. HIDE DEF r
<1>. QED  BY <1>1, <1>2, <1>3, <1>4, <1>5, OneRequest DEF r

\* A block is lifted: nobody's claims rest on it any more.
LEMMA LiftedKeeps ==
  ASSUME IInv, NEW ip \in IPs, NEW b \in {"ioc", "cm", "actor"}, Lifted(ip, b),
         cm' = (IF b = "cm" THEN cm \ {ip} ELSE cm),
         actor' = (IF b = "actor" THEN actor \ {ip} ELSE actor),
         ioc' = (IF b = "ioc" THEN ioc \ {ip} ELSE ioc)
  PROVE  IInv'
<1>1. req' = [u \in Threads |->
         IF req[u].phase # "idle" /\ req[u].ip = ip
         THEN [req[u] EXCEPT !.barred = req[u].barred \ {b}] ELSE req[u]]
  BY DEF Lifted
<1>2. ASSUME NEW u \in Threads PROVE (req[u] \in Requests \cup {Idle})' /\ Held(req[u])'
  <2>1. CASE req[u].phase = "idle"
    <3>1. req'[u] = req[u] /\ req[u] \in Requests \cup {Idle}
      BY <1>1, <2>1 DEF IInv
    <3>. QED  BY <2>1, <3>1 DEF Held, Requests, Idle
  <2>2. CASE req[u].phase # "idle"
    <3>1. req[u] \in Requests /\ Shut(req[u]) /\ (req[u].phase = "in" => Before(req[u]))
      BY <2>2 DEF IInv, Held
    <3>2. CASE req[u].ip # ip
      <4>1. req'[u] = req[u]
        BY <1>1, <3>2
      <4>2. Shut(req[u])'
        BY <3>1, <3>2, <4>1 DEF Shut
      <4>3. req[u]'.phase = "in" => Before(req[u])'
        BY <3>1, <4>1 DEF Before
      <4>4. (req[u] \in Requests)'
        BY <3>1, <4>1 DEF Requests
      <4>. QED  BY <4>2, <4>3, <4>4 DEF Held
    <3>3. CASE req[u].ip = ip
      <4>1. req'[u] = [req[u] EXCEPT !.barred = req[u].barred \ {b}]
        BY <1>1, <2>2, <3>3
      <4>2. /\ req'[u] \in Requests /\ req'[u].barred = req[u].barred \ {b}
            /\ req'[u].ip = req[u].ip /\ req'[u].kind = req[u].kind
            /\ req'[u].at = req[u].at /\ req'[u].phase = req[u].phase
        BY <3>1, <4>1, RequestLifted
      <4>3. Shut(req[u])'
        BY <3>1, <4>2 DEF Shut
      <4>4. req[u]'.phase = "in" => Before(req[u])'
        BY <3>1, <4>2 DEF Before
      <4>5. (req[u] \in Requests)'
        BY <4>2 DEF Requests
      <4>. QED  BY <4>3, <4>4, <4>5 DEF Held
    <3>. QED  BY <3>2, <3>3
  <2>. QED  BY <2>1, <2>2
<1>3. (DOMAIN req = Threads /\ req = [t \in Threads |-> req[t]])'
  BY <1>1
<1>. QED  BY <1>2, <1>3 DEF IInv

\* A step that changes no request and lifts no block.
LEMMA GrowKeeps == ASSUME IInv, UNCHANGED req, Grow PROVE IInv'
<1>1. ASSUME NEW u \in Threads PROVE Held(req[u])'
  <2>1. Held(req[u])
    BY DEF IInv
  <2>2. Shut(req[u]) => Shut(req[u])'
    BY DEF Shut, Grow
  <2>3. Before(req[u]) => Before(req[u])'
    BY DEF Before
  <2>. QED  BY <2>1, <2>2, <2>3 DEF Held, Requests
<1>. QED  BY <1>1 DEF IInv, Requests, Idle

LEMMA OthersKeep ==
  ASSUME IInv, NEW ip \in IPs,
         \/ BlockIP(ip) \/ UnblockIP(ip) \/ IntelBlockIOC(ip) \/ IntelUnblockIOC(ip) \/ BlockExpires(ip)
  PROVE  IInv'
<1>1. CASE BlockIP(ip)
  BY <1>1, GrowKeeps DEF BlockIP, TempBlocks, Grow
<1>2. CASE UnblockIP(ip)
  BY <1>2, LiftedKeeps DEF UnblockIP
<1>3. CASE IntelBlockIOC(ip)
  BY <1>3, GrowKeeps DEF IntelBlockIOC, Grow
<1>4. CASE IntelUnblockIOC(ip)
  BY <1>4, LiftedKeeps DEF IntelUnblockIOC
<1>5. CASE BlockExpires(ip)
  <2>1. \/ cm' = cm \ {ip} /\ Lifted(ip, "cm") /\ actor' = actor /\ ioc' = ioc
        \/ actor' = actor \ {ip} /\ Lifted(ip, "actor") /\ cm' = cm /\ ioc' = ioc
    BY <1>5 DEF BlockExpires
  <2>. QED  BY <2>1, LiftedKeeps
<1>. QED  BY <1>1, <1>2, <1>3, <1>4, <1>5

LEMMA NextIInv == IInv /\ [Next]_vars => IInv'
<1>. SUFFICES ASSUME IInv, [Next]_vars PROVE IInv'
  OBVIOUS
<1>1. ASSUME NEW t \in Threads, NEW ip \in Clients, NEW kind \in Kinds, NEW direct \in BOOLEAN,
             NEW body \in {"small", "large"}, NEW from \in Senders(ip), Arrive(t, ip, from, kind, direct, body)
      PROVE  IInv'
  BY <1>1, ArriveKeeps
<1>2. ASSUME NEW t \in Threads, Middleware(t) PROVE IInv'
  BY <1>2, ScannersKeep, PlainOnesKeep, BlockersKeep, GatesKeep, ServeKeeps, LeaveKeeps DEF Middleware
<1>3. ASSUME NEW ip \in IPs,
             \/ BlockIP(ip) \/ UnblockIP(ip) \/ IntelBlockIOC(ip) \/ IntelUnblockIOC(ip) \/ BlockExpires(ip)
      PROVE  IInv'
  BY <1>3, OthersKeep
<1>4. CASE UNCHANGED vars
  BY <1>4, GrowKeeps DEF vars, Grow
<1>. QED  BY <1>1, <1>2, <1>3, <1>4 DEF Next

LEMMA InitIInv == Init => IInv
BY DEF Init, IInv, Held, Idle

\* Behind the last gate nobody is barred.
LEMMA IInvHolds == IInv => BlocksHold
<1>. SUFFICES ASSUME IInv, NEW t \in Threads, req[t].phase = "in", req[t].at = Handler
     PROVE  /\ "countermeasures" \in Enabled => "cm" \notin req[t].barred
            /\ "actorTracking" \in Enabled => "actor" \notin req[t].barred
            /\ "intelHub" \in Enabled /\ req[t].kind \notin {"health", "intel"} => "ioc" \notin req[t].barred
  BY DEF BlocksHold
<1>1. Before(req[t]) /\ req[t].at = 23
  BY ChainFacts DEF IInv, Held
<1>. QED  BY <1>1 DEF Before

\* A block that was in force when a request came in and still is keeps the request from
\* the handler, whatever else happens meanwhile and whichever middlewares are on.
THEOREM BlocksAlwaysHold == Spec => []BlocksHold
BY InitIInv, NextIInv, IInvHolds, PTL DEF Spec

-----------------------------------------------------------------------------
(* The limit on bodies stands before everything that scans one.            *)

\* A request with a large body has not come past the limit, and nothing has scanned it.
Clean(r) == r.body = "small" \/ (~r.scanned /\ r.at <= 7)

SInv ==
  "bodySizeLimit" \in Enabled => \A t \in Threads : req[t].phase = "in" => Clean(req[t])

LEMMA LimitFacts ==
  /\ Chain[7] = "bodySizeLimit"
  /\ \A i \in 1..7 : Chain[i] \notin {"semanticPayload", "malwareBehavior", "exploitation",
       "evasion", "networkAttack", "adAttack", "stix", "activeDefense", "waf"}
BY DEF Chain

LEMMA LimitFollows ==
  ASSUME NEW i \in 0..22, NEW j \in 1..Handler, Follows(i, j), "bodySizeLimit" \in Enabled, i < 7
  PROVE  j <= 7
<1>1. j \in Nat /\ i \in Nat
  BY ChainFacts
<1>. QED  BY <1>1, ChainFacts, LimitFacts DEF Follows

\* The parts of a request that the limit is about.
LEMMA Bodies ==
  ASSUME NEW r \in Requests
  PROVE  /\ r.at \in 1..Handler
         /\ [r EXCEPT !.scanned = TRUE].at = r.at /\ [r EXCEPT !.scanned = TRUE].body = r.body
         /\ \A d \in BOOLEAN :
              /\ [r EXCEPT !.diverted = d].at = r.at /\ [r EXCEPT !.diverted = d].body = r.body
              /\ [r EXCEPT !.diverted = d].scanned = r.scanned
         /\ \A j \in 1..Handler :
              /\ [r EXCEPT !.at = j].at = j /\ [r EXCEPT !.at = j].body = r.body
              /\ [r EXCEPT !.at = j].scanned = r.scanned
         /\ \A b : /\ [r EXCEPT !.barred = r.barred \ {b}].at = r.at
                   /\ [r EXCEPT !.barred = r.barred \ {b}].body = r.body
                   /\ [r EXCEPT !.barred = r.barred \ {b}].scanned = r.scanned
                   /\ [r EXCEPT !.barred = r.barred \ {b}].phase = r.phase
BY DEF Requests

LEMMA OneClean ==
  ASSUME IInv, SInv, NEW t \in Threads, NEW r, req' = [req EXCEPT ![t] = r],
         "bodySizeLimit" \in Enabled /\ r.phase = "in" => Clean(r)
  PROVE  SInv'
<1>1. \A u \in Threads : req'[u] = IF u = t THEN r ELSE req[u]
  BY DEF IInv
<1>. QED  BY <1>1 DEF SInv, Clean

\* A request that goes on is looked at by the limit, or has been; it is scanned behind it.
LEMMA PassesClean ==
  ASSUME IInv, SInv, NEW t \in Threads, req[t].phase = "in", req[t].at < Handler,
         NEW r \in Requests, r.at = req[t].at, r.body = req[t].body, Passes(t, r),
         req[t].at = 7 => req[t].body = "small",
         r.scanned => req[t].scanned \/ req[t].at > 7
  PROVE  SInv'
<1>1. PICK j \in 1..Handler : Follows(r.at, j) /\ req' = [req EXCEPT ![t] = [r EXCEPT !.at = j]]
  BY DEF Passes
<1>. DEFINE q == [r EXCEPT !.at = j]
<1>2. q.at = j /\ q.body = r.body /\ q.scanned = r.scanned
  BY Bodies
<1>3. r.at \in 0..22 /\ r.at \in Nat /\ j \in Nat
  BY Bodies, ChainFacts
<1>4. "bodySizeLimit" \in Enabled => Clean(req[t])
  BY DEF SInv
<1>5. "bodySizeLimit" \in Enabled /\ r.at < 7 => j <= 7
  BY <1>1, <1>3, LimitFollows
<1>. HIDE DEF q
<1>6. "bodySizeLimit" \in Enabled => Clean(q)
  BY <1>2, <1>3, <1>4, <1>5 DEF Clean
<1>7. req' = [req EXCEPT ![t] = q]
  BY <1>1 DEF q
<1>. QED  BY <1>6, <1>7, OneClean

\* What a middleware may do with the request itself.
Onward(t) ==
  /\ req[t].phase = "in" /\ req[t].at < Handler
  /\ \/ Passes(t, req[t]) /\ (req[t].at = 7 => req[t].body = "small")
     \/ Passes(t, [req[t] EXCEPT !.scanned = TRUE]) /\ req[t].at > 7
     \/ (\E d \in BOOLEAN : Passes(t, [req[t] EXCEPT !.diverted = d])) /\ req[t].at > 7

LEMMA BehindLimit ==
  ASSUME IInv, NEW t \in Threads,
         NEW gate \in {"semanticPayload", "malwareBehavior", "exploitation", "evasion",
                       "networkAttack", "adAttack", "stix", "activeDefense", "waf"}, At(t, gate)
  PROVE  req[t].at > 7
<1>1. req[t] \in Requests
  BY DEF At, IInv, Held
<1>2. req[t].at \in Nat /\ (req[t].at <= 7 => req[t].at \in 1..7)
  BY <1>1, Bodies, ChainFacts
<1>. QED  BY <1>2, LimitFacts DEF At

LEMMA InspectOnward ==
  ASSUME IInv, NEW t \in Threads, NEW a \in BOOLEAN, NEW e \in BOOLEAN,
         NEW gate \in {"semanticPayload", "malwareBehavior", "exploitation", "evasion",
                       "networkAttack", "adAttack", "stix"},
         Inspect(t, gate, a, e)
  PROVE  Answers(t) \/ Onward(t)
<1>1. At(t, gate) /\ req[t].at > 7 /\ req[t].at # 7
  <2>1. At(t, gate)
    BY DEF Inspect
  <2>2. req[t].at > 7
    BY <2>1, BehindLimit
  <2>3. req[t].at \in Nat
    BY <2>1, Bodies, ChainFacts DEF At, IInv, Held
  <2>. QED  BY <2>1, <2>2, <2>3
<1>2. Passes(t, req[t]) \/ Passes(t, [req[t] EXCEPT !.scanned = TRUE]) \/ Answers(t)
  BY DEF Inspect, Refuses
<1>. QED  BY <1>1, <1>2 DEF Onward, At

LEMMA MiddlewareOnward ==
  ASSUME IInv, NEW t \in Threads, Middleware(t), ~Serve(t), ~Leave(t)
  PROVE  Answers(t) \/ Onward(t)
<1>1. CASE \/ SemanticPayload(t) \/ MalwareBehavior(t) \/ ExploitationDetector(t)
           \/ EvasionDetector(t) \/ NetworkAttackDetector(t) \/ AdAttackDetector(t) \/ Stix(t)
  BY <1>1, InspectOnward DEF SemanticPayload, MalwareBehavior, ExploitationDetector,
     EvasionDetector, NetworkAttackDetector, AdAttackDetector, Stix
<1>2. CASE BodySizeLimit(t)
  BY <1>2 DEF BodySizeLimit, PassesOnly, AnswersOnly, Onward, At
<1>3. CASE ActiveDefense(t)
  BY <1>3, BehindLimit DEF ActiveDefense, Onward, At
<1>4. CASE Waf(t)
  <2>1. At(t, "waf") /\ req[t].at > 7 /\ req[t].at # 7
    BY <1>4, BehindLimit, LimitFacts DEF Waf, At
  <2>2. Passes(t, req[t]) \/ Passes(t, [req[t] EXCEPT !.scanned = TRUE]) \/ Answers(t)
    BY <1>4 DEF Waf, PassesOnly, Refuses
  <2>. QED  BY <2>1, <2>2 DEF Onward, At
<1>5. CASE \/ RateLimit(t) \/ IntelHub(t) \/ HoneypotTrap(t) \/ HoneypotPass(t)
           \/ BehavioralBaseline(t) \/ BehavioralDetector(t) \/ BusinessLogic(t)
           \/ ProtocolGuard(t) \/ PreAttack(t) \/ Countermeasures(t) \/ ActorTracking(t)
           \/ Ddos(t) \/ ProofOfWork(t)
  <2>1. PICK gate \in {"rateLimit", "intelHub", "honeypot", "behavioralBaseline",
          "behavioralDetector", "businessLogic", "protocolGuard", "preAttack", "countermeasures",
          "actorTracking", "ddos", "proofOfWork"} : At(t, gate)
    BY <1>5 DEF RateLimit, IntelHub, HoneypotTrap, HoneypotPass, BehavioralBaseline,
       BehavioralDetector, BusinessLogic, ProtocolGuard, PreAttack, Countermeasures,
       ActorTracking, Ddos, ProofOfWork
  <2>2. req[t].at # 7
    BY <2>1, LimitFacts DEF At
  <2>3. Passes(t, req[t]) \/ Answers(t)
    BY <1>5 DEF RateLimit, IntelHub, HoneypotTrap, Trapped, HoneypotPass, BehavioralBaseline,
       BehavioralDetector, BusinessLogic, ProtocolGuard, PreAttack, Countermeasures,
       ActorTracking, Ddos, ProofOfWork, PassesOnly, AnswersOnly, Refuses
  <2>. QED  BY <2>1, <2>2, <2>3 DEF Onward, At
<1>. QED  BY <1>1, <1>2, <1>3, <1>4, <1>5 DEF Middleware

LEMMA MiddlewareClean ==
  ASSUME IInv, SInv, NEW t \in Threads, Middleware(t)
  PROVE  SInv'
<1>1. CASE Leave(t)
  BY <1>1, OneClean DEF Leave, Idle
<1>2. CASE Answers(t)
  <2>1. req[t].phase # "idle" => req[t] \in Requests
    BY DEF IInv, Held
  <2>2. [req[t] EXCEPT !.phase = "out"].phase # "in"
    BY <2>1, RequestOut DEF IInv, Idle
  <2>. QED  BY <1>2, <2>2, OneClean DEF Answers
<1>3. CASE Onward(t)
  <2>1. req[t] \in Requests /\ req[t].phase = "in" /\ req[t].at < Handler
    BY <1>3 DEF Onward, IInv, Held
  <2>2. CASE Passes(t, req[t]) /\ (req[t].at = 7 => req[t].body = "small")
    BY <2>1, <2>2, PassesClean
  <2>3. CASE Passes(t, [req[t] EXCEPT !.scanned = TRUE]) /\ req[t].at > 7
    <3>1. req[t].at # 7
      BY <2>1, <2>3, Bodies, ChainFacts
    <3>. QED  BY <2>1, <2>3, <3>1, Bodies, RequestScanned, PassesClean
  <2>4. ASSUME NEW d \in BOOLEAN, Passes(t, [req[t] EXCEPT !.diverted = d]), req[t].at > 7
        PROVE  SInv'
    <3>1. req[t].at # 7
      BY <2>1, <2>4, Bodies, ChainFacts
    <3>. QED  BY <2>1, <2>4, <3>1, Bodies, RequestDiverted, PassesClean
  <2>. QED  BY <1>3, <2>2, <2>3, <2>4 DEF Onward
<1>4. CASE Serve(t)
  BY <1>2, <1>4 DEF Serve, AnswersOnly, Trapped
<1>. QED  BY <1>1, <1>2, <1>3, <1>4, MiddlewareOnward

LEMMA NextSInv == IInv /\ SInv /\ [Next]_vars => SInv'
<1>. SUFFICES ASSUME IInv, SInv, [Next]_vars PROVE SInv'
  OBVIOUS
<1>1. ASSUME NEW t \in Threads, NEW ip \in Clients, NEW kind \in Kinds, NEW direct \in BOOLEAN,
             NEW body \in {"small", "large"}, NEW from \in Senders(ip), Arrive(t, ip, from, kind, direct, body)
      PROVE  SInv'
  <2>1. PICK j \in 1..Handler :
          /\ Follows(0, j)
          /\ req' = [req EXCEPT ![t] =
               [phase |-> "in", at |-> j, ip |-> ip, from |-> from, kind |-> kind, body |-> body,
                barred |-> BlocksOf(ip), scanned |-> FALSE, diverted |-> FALSE]]
    BY <1>1 DEF Arrive
  <2>2. "bodySizeLimit" \in Enabled => j <= 7
    BY <2>1, LimitFollows, ChainFacts
  <2>. QED  BY <2>1, <2>2, OneClean DEF Clean
<1>2. ASSUME NEW t \in Threads, Middleware(t) PROVE SInv'
  BY <1>2, MiddlewareClean
<1>3. ASSUME NEW ip \in IPs, NEW b, Lifted(ip, b) PROVE SInv'
  <2>. SUFFICES ASSUME "bodySizeLimit" \in Enabled, NEW u \in Threads, req'[u].phase = "in"
                PROVE  Clean(req'[u])
    BY DEF SInv, Clean
  <2>1. req'[u] = IF req[u].phase # "idle" /\ req[u].ip = ip
                  THEN [req[u] EXCEPT !.barred = req[u].barred \ {b}] ELSE req[u]
    BY <1>3 DEF Lifted
  <2>2. req[u].phase # "idle" => req[u] \in Requests
    BY DEF IInv, Held
  <2>3. req[u].phase = "in" => Clean(req[u])
    BY DEF SInv
  <2>. QED  BY <2>1, <2>2, <2>3, Bodies DEF Clean
<1>4. CASE UNCHANGED req
  BY <1>4 DEF SInv, Clean
<1>5. ASSUME NEW ip \in IPs,
             \/ BlockIP(ip) \/ UnblockIP(ip) \/ IntelBlockIOC(ip) \/ IntelUnblockIOC(ip) \/ BlockExpires(ip)
      PROVE  SInv'
  BY <1>3, <1>4, <1>5 DEF BlockIP, UnblockIP, IntelBlockIOC, IntelUnblockIOC, BlockExpires
<1>. QED  BY <1>1, <1>2, <1>4, <1>5 DEF Next, vars

\* Nothing scans a body over the limit, whichever of the middlewares are on beside the
\* limit: it comes before every one that scans (setupMiddleware, bodySizeLimitMiddleware).
THEOREM LargeBodiesAreNeverScanned == Spec => []OnlySmallBodiesAreScanned
<1>1. SInv => OnlySmallBodiesAreScanned
  <2>. SUFFICES ASSUME SInv, "bodySizeLimit" \in Enabled, NEW t \in Threads,
                       req[t].phase = "in", req[t].scanned
                PROVE  req[t].body = "small"
    BY DEF OnlySmallBodiesAreScanned
  <2>. QED  BY DEF SInv, Clean
<1>2. Init => SInv
  BY DEF Init, SInv, Idle
<1>. QED  BY <1>1, <1>2, InitIInv, NextIInv, NextSInv, PTL DEF Spec

-----------------------------------------------------------------------------
(* Nobody pays for another.                                                *)

\* The tables grow only by an address that is named in the same step.
Fair ==
  /\ cause \subseteq cause'
  /\ ioc' \cup cm' \cup actor' \subseteq ioc \cup cm \cup actor \cup cause'
  /\ \A threat \in threats' \ threats : threat.kind = "attack" => threat.ip \in cause'

LEMMA InspectFair ==
  ASSUME NEW t \in Threads, NEW gate, NEW a \in BOOLEAN, NEW e \in BOOLEAN, Inspect(t, gate, a, e),
         Attributed(req[t]) = req[t].ip
  PROVE  Fair
<1>1. UNCHANGED <<ioc, cm, actor>>
  BY DEF Inspect
<1>2. UNCHANGED <<threats, cause>> \/ (Shows(t) /\ (UNCHANGED threats \/ Threatens(req[t].ip)))
  BY DEF Inspect, Refuses
<1>. QED  BY <1>1, <1>2 DEF Fair, Shows, Threatens

LEMMA MiddlewareBusy == ASSUME NEW t \in Threads, Middleware(t) PROVE req[t].phase # "idle"
BY DEF Middleware, RateLimit, IntelHub, HoneypotTrap, HoneypotPass, BehavioralBaseline,
   BehavioralDetector, BusinessLogic, BodySizeLimit, SemanticPayload, MalwareBehavior,
   ExploitationDetector, EvasionDetector, NetworkAttackDetector, AdAttackDetector,
   ProtocolGuard, Stix, PreAttack, ActiveDefense, Countermeasures, ActorTracking, Waf, Ddos,
   ProofOfWork, Serve, Leave, Inspect, At

LEMMA MiddlewareFair ==
  ASSUME IInv, NEW t \in Threads, Middleware(t)
  PROVE  Fair
<1>0. Attributed(req[t]) = req[t].ip
  <2>1. req[t].phase # "idle"
    BY MiddlewareBusy
  <2>. QED  BY <2>1, AttributedIsSender DEF IInv, Held
<1>1. CASE \/ SemanticPayload(t) \/ MalwareBehavior(t) \/ ExploitationDetector(t)
           \/ EvasionDetector(t) \/ NetworkAttackDetector(t) \/ AdAttackDetector(t) \/ Stix(t)
  BY <1>0, <1>1, InspectFair DEF SemanticPayload, MalwareBehavior, ExploitationDetector,
     EvasionDetector, NetworkAttackDetector, AdAttackDetector, Stix
<1>2. CASE \/ RateLimit(t) \/ IntelHub(t) \/ HoneypotPass(t) \/ BehavioralDetector(t)
           \/ BusinessLogic(t) \/ BodySizeLimit(t) \/ ProtocolGuard(t) \/ ActiveDefense(t)
           \/ Countermeasures(t) \/ ActorTracking(t) \/ ProofOfWork(t)
  <2>1. UNCHANGED tables /\ (UNCHANGED cause \/ Shows(t))
    BY <1>2 DEF RateLimit, IntelHub, HoneypotPass, BehavioralDetector, BusinessLogic,
       BodySizeLimit, ProtocolGuard, ActiveDefense, Countermeasures, ActorTracking,
       ProofOfWork, PassesOnly, AnswersOnly, Refuses
  <2>. QED  BY <2>1 DEF Fair, Shows, tables
<1>3. CASE HoneypotTrap(t) \/ Serve(t)
  <2>1. (UNCHANGED tables /\ UNCHANGED cause) \/ Trapped(t)
    BY <1>3 DEF HoneypotTrap, Serve, AnswersOnly
  <2>. QED  BY <1>0, <2>1 DEF Trapped, Shows, TempBlocks, Fair, tables
<1>4. CASE BehavioralBaseline(t)
  BY <1>4 DEF BehavioralBaseline, PassesOnly, Refuses, Deviates, Shows, Fair, tables
<1>5. CASE PreAttack(t)
  BY <1>0, <1>5 DEF PreAttack, PassesOnly, Refuses, Threatens, Shows, Fair, tables
<1>6. CASE Waf(t)
  BY <1>0, <1>6 DEF Waf, PassesOnly, Refuses, Threatens, ActorBlocks, Shows, Fair, tables
<1>7. CASE Ddos(t)
  BY <1>0, <1>7 DEF Ddos, PassesOnly, AnswersOnly, Refuses, ActorBlocks, Shows, Fair, tables
<1>8. CASE Leave(t)
  BY <1>0, <1>8 DEF Leave, Threatens, Shows, Fair
<1>. QED  BY <1>1, <1>2, <1>3, <1>4, <1>5, <1>6, <1>7, <1>8 DEF Middleware

LEMMA NextFair == IInv /\ [Next]_vars => Fair
<1>. SUFFICES ASSUME IInv, [Next]_vars PROVE Fair
  OBVIOUS
<1>1. ASSUME NEW t \in Threads, NEW ip \in Clients, NEW kind \in Kinds, NEW direct \in BOOLEAN,
             NEW body \in {"small", "large"}, NEW from \in Senders(ip), Arrive(t, ip, from, kind, direct, body)
      PROVE  Fair
  BY <1>1 DEF Arrive, Fair, tables
<1>2. ASSUME NEW t \in Threads, Middleware(t) PROVE Fair
  BY <1>2, MiddlewareFair
<1>3. ASSUME NEW ip \in IPs,
             \/ BlockIP(ip) \/ UnblockIP(ip) \/ IntelBlockIOC(ip) \/ IntelUnblockIOC(ip) \/ BlockExpires(ip)
      PROVE  Fair
  BY <1>3 DEF BlockIP, UnblockIP, IntelBlockIOC, IntelUnblockIOC, BlockExpires, Ordered,
     TempBlocks, Fair
<1>4. CASE UNCHANGED vars
  BY <1>4 DEF vars, Fair
<1>. QED  BY <1>1, <1>2, <1>3, <1>4 DEF Next

\* Whatever a request says of itself in the headers that name an address, and whether it
\* comes from its sender or through the proxy, its sender alone is blocked for it or has
\* an attack held against him, and only what an operator orders comes on top
\* (trustedClientIP, which every middleware that blocks goes by).
THEOREM NobodyEverPaysForAnother == Spec => []NobodyPaysForAnother
<1>1. Init => NobodyPaysForAnother
  BY DEF Init, NobodyPaysForAnother
<1>2. IInv /\ NobodyPaysForAnother /\ [Next]_vars => NobodyPaysForAnother'
  <2>. SUFFICES ASSUME NobodyPaysForAnother, Fair PROVE NobodyPaysForAnother'
    BY NextFair
  <2>. QED  BY DEF NobodyPaysForAnother, Fair
<1>. QED  BY <1>1, <1>2, InitIInv, NextIInv, PTL DEF Spec

-----------------------------------------------------------------------------
(* The DDoS engine.                                                        *)

LEMMA EngineConstants ==
  /\ Window \in Nat \ {0} /\ Stale \in Nat
  /\ challengeThreshold \in Nat /\ throttleThreshold \in Nat /\ blockThreshold \in Nat
  /\ challengeDuration \in Nat /\ throttleDuration \in Nat /\ blockDuration \in Nat
  /\ EngineOps \subseteq {"check", "pass", "fail", "block", "unblock"}
BY RatesAssumption DEF Engine!EngineAssumption

\* One request never counts for more than one per millisecond.
LEMMA InstantBounded == \A idle \in Nat : Engine!Instant(idle) \in Engine!Rates
<1>1. ASSUME NEW n \in Nat \ {0} PROVE 1000 \div n \in 0..1000
  BY SMT
<1>2. QED
  BY <1>1 DEF Engine!Instant, Engine!Rates

LEMMA QuotientBounded ==
  ASSUME NEW a \in Nat, NEW b \in Nat \ {0}, a <= b * 1000
  PROVE  a \div b \in 0..1000
BY SMT

Mean(i, r, w) == (2 * i + (w - 1) * r) \div (w + 1)

\* A weighted mean of two numbers up to 1000 is up to 1000.
LEMMA MeanBounded ==
  ASSUME NEW i \in Engine!Rates, NEW r \in Engine!Rates, NEW w \in Nat \ {0}
  PROVE  Mean(i, r, w) \in Engine!Rates
<1>. DEFINE total == 2 * i + (w - 1) * r
            weight == w + 1
<1>0. i \in 0..1000 /\ r \in 0..1000
  BY DEF Engine!Rates
<1>1. (w - 1) * r \in Nat /\ (w - 1) * r <= (w - 1) * 1000
  BY <1>0, SMT
<1>2. total \in Nat /\ weight \in Nat \ {0} /\ total <= weight * 1000
  BY <1>0, <1>1, SMT
<1>3. total \div weight \in 0..1000
  <2>. HIDE DEF total, weight
  <2>. QED  BY <1>2, QuotientBounded
<1>. QED  BY <1>3 DEF Mean, Engine!Rates

LEMMA AverageBounded == ASSUME NEW s \in Engine!IPState PROVE Engine!Average(s) \in Engine!Rates
<1>1. Engine!Instant(s.idle) \in Engine!Rates /\ s.rate \in Engine!Rates
  BY InstantBounded DEF Engine!IPState
<1>2. Window \in Nat \ {0}
  BY EngineConstants
<1>3. Mean(Engine!Instant(s.idle), s.rate, Window) \in Engine!Rates
  BY <1>1, <1>2, MeanBounded
<1>. QED  BY <1>3 DEF Engine!Average, Mean

\* Whatever operation takes the lock, the state it leaves is well-formed.
LEMMA WrittenTyped ==
  ASSUME NEW s \in Engine!IPState, NEW op \in EngineOps
  PROVE  Engine!Written(op, s) \in Engine!IPState
<1>1. op \in {"check", "pass", "fail", "block", "unblock"}
  BY EngineConstants
<1>2. CASE op = "check"
  <2>1. Engine!Average(s) \in Engine!Rates
    BY AverageBounded
  <2>2. Engine!determinePhase(Engine!Average(s)) \in Engine!Phases
    BY DEF Engine!determinePhase, Engine!Phases
  <2>3. Engine!DurationOf(Engine!determinePhase(Engine!Average(s))) \in Nat
    BY <2>2, EngineConstants DEF Engine!DurationOf, Engine!Phases
  <2>4. Engine!Checked(s) \in Engine!IPState
    <3>. DEFINE rate == Engine!Average(s)
                stage == Engine!determinePhase(rate)
                flag == IF stage = "normal" THEN FALSE ELSE s.blocked \/ stage = "block"
    <3>0. rate \in Engine!Rates
      BY <2>1
    <3>1. flag \in BOOLEAN
      BY DEF Engine!IPState
    <3>2. [s EXCEPT !.rate = rate, !.idle = 0] \in Engine!IPState
      <4>. HIDE DEF rate
      <4>. QED  BY <3>0 DEF Engine!IPState
    <3>3. [rate |-> rate, phase |-> stage, left |-> Engine!DurationOf(stage), idle |-> 0,
           blocked |-> flag] \in Engine!IPState
      <4>. HIDE DEF rate, stage, flag
      <4>. QED  BY <2>1, <2>2, <2>3, <3>1 DEF Engine!IPState, rate, stage
    <3>. QED  BY <3>2, <3>3 DEF Engine!Checked
  <2>5. QED
    BY <1>2, <2>4 DEF Engine!Written
<1>3. CASE op \in {"pass", "fail", "block", "unblock"}
  BY <1>3, EngineConstants DEF Engine!Written, Engine!IPState, Engine!Phases
<1>4. QED
  BY <1>1, <1>2, <1>3

-----------------------------------------------------------------------------
\* What Collect keeps is what is pointed to, unchanged.
LEMMA CollectKeeps ==
  ASSUME NEW h, heap' = Engine!Collect(h)
  PROVE  /\ DOMAIN heap' \subseteq DOMAIN h
         /\ \A p \in DOMAIN heap' : heap'[p] = h[p]
         /\ \A ip \in DOMAIN states' : states'[ip] \in DOMAIN h => states'[ip] \in DOMAIN heap'
         /\ \A c \in Callers : (call'[c] # Engine!Idle /\ call'[c].state \in DOMAIN h)
                               => call'[c].state \in DOMAIN heap'
BY DEF Engine!Collect, Engine!Restrict

LEMMA CallsTyped ==
  ASSUME NEW callers \in [Callers -> {Engine!Idle} \cup [op : EngineOps, state : DOMAIN heap]], NEW c \in Callers
  PROVE  callers[c] = Engine!Idle \/ (callers[c].op \in EngineOps /\ callers[c].state \in DOMAIN heap)
BY DEF Engine!Idle

\* The type invariant is inductive.
LEMMA EngineTypeStep == Engine!TypeOK /\ [Engine!Next]_Engine!vars => Engine!TypeOK'
<1>. SUFFICES ASSUME Engine!TypeOK, [Engine!Next]_Engine!vars PROVE Engine!TypeOK'
  OBVIOUS
<1>1. ASSUME NEW c \in Callers, NEW op \in EngineOps, NEW ip \in Sources, Engine!Lookup(c, op, ip)
      PROVE  Engine!TypeOK'
  <2>. DEFINE p == IF ip \in DOMAIN states THEN states[ip] ELSE Engine!New
  <2>1. /\ states' = Engine!Put(states, ip, p)
        /\ call' = [call EXCEPT ![c] = [op |-> op, state |-> p]]
        /\ heap' = IF p \in DOMAIN heap THEN heap ELSE Engine!Put(heap, p, Engine!Fresh)
    BY <1>1 DEF Engine!Lookup
  <2>. HIDE DEF p
  <2>2. /\ DOMAIN heap' = DOMAIN heap \cup {p}
        /\ \A q \in DOMAIN heap' : heap'[q] \in Engine!IPState
    <3>1. Engine!Fresh \in Engine!IPState
      BY DEF Engine!Fresh, Engine!IPState, Engine!Phases, Engine!Rates
    <3>. QED  BY <2>1, <3>1 DEF Engine!TypeOK, Engine!Put
  <2>3. DOMAIN states' \subseteq Sources /\ \A i \in DOMAIN states' : states'[i] \in DOMAIN heap'
    BY <2>1, <2>2 DEF Engine!TypeOK, Engine!Put
  <2>4. call' \in [Callers -> {Engine!Idle} \cup [op : EngineOps, state : DOMAIN heap']]
    BY <2>1, <2>2 DEF Engine!TypeOK
  <2>5. alone' \in BOOLEAN
    BY <1>1 DEF Engine!Lookup, Engine!TypeOK
  <2>. QED  BY <2>2, <2>3, <2>4, <2>5 DEF Engine!TypeOK
<1>2. ASSUME NEW c \in Callers, Engine!Locked(c) PROVE Engine!TypeOK'
  <2>. DEFINE h == [heap EXCEPT ![call[c].state] = Engine!Written(call[c].op, @)]
  <2>1. call[c].op \in EngineOps /\ call[c].state \in DOMAIN heap
    BY <1>2, CallsTyped DEF Engine!Locked, Engine!TypeOK
  <2>2. Engine!Written(call[c].op, heap[call[c].state]) \in Engine!IPState
    BY <2>1, WrittenTyped DEF Engine!TypeOK
  <2>3. DOMAIN h = DOMAIN heap /\ \A p \in DOMAIN h : h[p] \in Engine!IPState
    BY <2>1, <2>2 DEF Engine!TypeOK
  <2>4. heap' = Engine!Collect(h) /\ states' = states /\ call' = [call EXCEPT ![c] = Engine!Idle] /\ alone' = alone
    BY <1>2 DEF Engine!Locked
  <2>. HIDE DEF h
  <2>5. \A p \in DOMAIN heap' : heap'[p] \in Engine!IPState
    BY <2>3, <2>4, CollectKeeps
  <2>6. DOMAIN states' \subseteq Sources /\ \A i \in DOMAIN states' : states'[i] \in DOMAIN heap'
    BY <2>3, <2>4, CollectKeeps DEF Engine!TypeOK
  <2>7. ASSUME NEW d \in Callers
        PROVE  call'[d] \in {Engine!Idle} \cup [op : EngineOps, state : DOMAIN heap']
    <3>1. CASE d = c
      BY <3>1, <2>4 DEF Engine!TypeOK
    <3>2. CASE d # c
      <4>1. call'[d] = call[d] /\ call[d] \in {Engine!Idle} \cup [op : EngineOps, state : DOMAIN heap]
        BY <3>2, <2>4 DEF Engine!TypeOK
      <4>2. CASE call[d] # Engine!Idle
        <5>1. call[d] \in [op : EngineOps, state : DOMAIN heap]
          BY <4>1, <4>2
        <5>2. call'[d].state \in DOMAIN heap'
          BY <4>1, <4>2, <5>1, <2>3, <2>4, CollectKeeps
        <5>. QED  BY <4>1, <5>1, <5>2
      <4>. QED  BY <4>1, <4>2
    <3>. QED  BY <3>1, <3>2
  <2>8. call' \in [Callers -> {Engine!Idle} \cup [op : EngineOps, state : DOMAIN heap']]
    BY <2>4, <2>7 DEF Engine!TypeOK
  <2>. QED  BY <2>4, <2>5, <2>6, <2>8 DEF Engine!TypeOK
<1>3. ASSUME NEW ip \in Sources, Engine!LookAt(ip) PROVE Engine!TypeOK'
  BY <1>3 DEF Engine!LookAt, Engine!TypeOK
<1>4. ASSUME Engine!Delete PROVE Engine!TypeOK'
  <2>1. /\ DOMAIN states' \subseteq DOMAIN states
        /\ \A ip \in DOMAIN states' : states'[ip] = states[ip]
        /\ heap' = Engine!Collect(heap) /\ call' = call /\ alone' = alone
    BY <1>4 DEF Engine!Delete, Engine!Restrict
  <2>2. \A p \in DOMAIN heap' : heap'[p] \in Engine!IPState
    BY <2>1, CollectKeeps DEF Engine!TypeOK
  <2>3. DOMAIN states' \subseteq Sources /\ \A i \in DOMAIN states' : states'[i] \in DOMAIN heap'
    BY <2>1, CollectKeeps DEF Engine!TypeOK
  <2>4. ASSUME NEW d \in Callers
        PROVE  call'[d] \in {Engine!Idle} \cup [op : EngineOps, state : DOMAIN heap']
    <3>1. call'[d] = call[d] /\ call[d] \in {Engine!Idle} \cup [op : EngineOps, state : DOMAIN heap]
      BY <2>1 DEF Engine!TypeOK
    <3>2. CASE call[d] # Engine!Idle
      <4>1. call[d] \in [op : EngineOps, state : DOMAIN heap]
        BY <3>1, <3>2
      <4>2. call'[d].state \in DOMAIN heap'
        BY <3>1, <3>2, <4>1, <2>1, CollectKeeps
      <4>. QED  BY <3>1, <4>1, <4>2
    <3>. QED  BY <3>1, <3>2
  <2>5. call' \in [Callers -> {Engine!Idle} \cup [op : EngineOps, state : DOMAIN heap']]
    BY <2>1, <2>4 DEF Engine!TypeOK
  <2>. QED  BY <2>1, <2>2, <2>3, <2>5 DEF Engine!TypeOK
<1>5. ASSUME Engine!Tick PROVE Engine!TypeOK'
  <2>1. /\ DOMAIN heap' = DOMAIN heap /\ states' = states /\ call' = call /\ alone' = alone
        /\ \A p \in DOMAIN heap : heap'[p] \in Engine!IPState
    <3>1. ASSUME NEW r \in Engine!IPState PROVE Engine!Older(r) \in Engine!IPState
      <4>. DEFINE left == IF r.left > 0 THEN r.left - 1 ELSE 0
                  idle == IF r.idle <= Stale THEN r.idle + 1 ELSE r.idle
      <4>1. left \in Nat /\ idle \in Nat
        BY EngineConstants DEF Engine!IPState
      <4>. HIDE DEF left, idle
      <4>2. [r EXCEPT !.left = left, !.idle = idle] \in Engine!IPState
        BY <4>1 DEF Engine!IPState
      <4>. QED  BY <4>2 DEF Engine!Older, left, idle
    <3>. QED  BY <1>5, <3>1 DEF Engine!Tick, Engine!TypeOK
  <2>. QED  BY <2>1 DEF Engine!TypeOK
<1>6. CASE UNCHANGED Engine!vars
  BY <1>6 DEF Engine!vars, Engine!TypeOK
<1>. QED  BY <1>1, <1>2, <1>3, <1>4, <1>5, <1>6 DEF Engine!Next

\* Type correctness of the engine (TypeOK): with it, the bound on the average
\* that a request every millisecond gives, for every window of whole seconds.
THEOREM EngineTypeCorrect == Engine!Spec => []Engine!TypeOK
<1>1. Engine!Init => Engine!TypeOK
  BY DEF Engine!Init, Engine!TypeOK, Engine!Idle
<1>. QED  BY <1>1, EngineTypeStep, PTL DEF Engine!Spec

-----------------------------------------------------------------------------
Free(s) == s.phase # "block" /\ s.blocked = FALSE

\* No average reaches a threshold above 1000, so a request does not block.
LEMMA CheckedFree ==
  ASSUME NEW s \in Engine!IPState, Free(s), blockThreshold > 1000
  PROVE  Free(Engine!Checked(s))
<1>. DEFINE rate == Engine!Average(s)
            stage == Engine!determinePhase(rate)
<1>1. stage # "block"
  <2>1. rate \in 0..1000
    BY AverageBounded DEF Engine!Rates
  <2>2. ~(rate >= blockThreshold)
    <3>. HIDE DEF rate
    <3>. QED  BY <2>1, EngineConstants
  <2>. HIDE DEF rate
  <2>. QED  BY <2>2 DEF Engine!determinePhase
<1>2. CASE s.left > 0
  <2>1. Engine!Checked(s) = [s EXCEPT !.rate = rate, !.idle = 0]
    BY <1>2 DEF Engine!Checked
  <2>. HIDE DEF rate
  <2>. QED  BY <2>1 DEF Free, Engine!IPState
<1>3. CASE ~(s.left > 0)
  <2>. DEFINE flag == IF stage = "normal" THEN FALSE ELSE s.blocked \/ stage = "block"
  <2>1. flag = FALSE
    BY <1>1 DEF Free
  <2>2. Engine!Checked(s) = [rate |-> rate, phase |-> stage, left |-> Engine!DurationOf(stage), idle |-> 0,
                      blocked |-> flag]
    BY <1>3 DEF Engine!Checked
  <2>. HIDE DEF rate, stage, flag
  <2>. QED  BY <1>1, <2>1, <2>2 DEF Free
<1>. QED  BY <1>2, <1>3

\* What a step may do to the state that a pointer leads to.
Explained(p) ==
  \/ p \in DOMAIN heap /\ ~Free(heap[p])
  \/ \E c \in Callers : /\ call[c] # Engine!Idle /\ call'[c] = Engine!Idle
                        /\ call[c].op = "block" /\ call[c].state = p

\* Of the five operations only Block ends anywhere but where it began.
LEMMA WrittenFree ==
  ASSUME NEW s \in Engine!IPState, Free(s), blockThreshold > 1000,
         NEW op \in {"check", "pass", "fail", "unblock"}
  PROVE  Free(Engine!Written(op, s))
<1>1. CASE op = "check"
  BY <1>1, CheckedFree DEF Engine!Written
<1>2. CASE op \in {"pass", "fail", "unblock"}
  BY <1>2 DEF Engine!Written, Free, Engine!IPState
<1>. QED  BY <1>1, <1>2

LEMMA StepExplained ==
  ASSUME blockThreshold > 1000, Engine!TypeOK, [Engine!Next]_Engine!vars, NEW p \in DOMAIN heap', ~Free(heap'[p])
  PROVE  Explained(p)
<1>1. ASSUME NEW c \in Callers, NEW op \in EngineOps, NEW ip \in Sources, Engine!Lookup(c, op, ip)
      PROVE  Explained(p)
  <2>. DEFINE q == IF ip \in DOMAIN states THEN states[ip] ELSE Engine!New
  <2>1. heap' = IF q \in DOMAIN heap THEN heap ELSE Engine!Put(heap, q, Engine!Fresh)
    BY <1>1 DEF Engine!Lookup
  <2>2. Free(Engine!Fresh)
    BY DEF Free, Engine!Fresh
  <2>. HIDE DEF q
  <2>. QED  BY <2>1, <2>2 DEF Engine!Put, Explained
<1>2. ASSUME NEW c \in Callers, Engine!Locked(c) PROVE Explained(p)
  <2>. DEFINE h == [heap EXCEPT ![call[c].state] = Engine!Written(call[c].op, @)]
  <2>1. call[c].op \in EngineOps /\ call[c].state \in DOMAIN heap
    BY <1>2, CallsTyped DEF Engine!Locked, Engine!TypeOK
  <2>2. heap' = Engine!Collect(h) /\ call[c] # Engine!Idle /\ call'[c] = Engine!Idle
    BY <1>2 DEF Engine!Locked, Engine!TypeOK
  <2>3. p \in DOMAIN h /\ heap'[p] = h[p]
    <3>. HIDE DEF h
    <3>. QED  BY <2>2, CollectKeeps
  <2>4. CASE p # call[c].state
    BY <2>1, <2>3, <2>4 DEF Explained
  <2>5. CASE p = call[c].state
    <3>1. heap[p] \in Engine!IPState /\ h[p] = Engine!Written(call[c].op, heap[p]) /\ p \in DOMAIN heap
      BY <2>1, <2>5 DEF Engine!TypeOK
    <3>2. CASE call[c].op = "block"
      BY <2>2, <2>5, <3>2 DEF Explained
    <3>3. CASE call[c].op # "block"
      <4>1. call[c].op \in {"check", "pass", "fail", "unblock"}
        BY <2>1, <3>3, EngineConstants
      <4>2. ~Free(heap[p])
        <5>. HIDE DEF h
        <5>. QED  BY <2>3, <3>1, <4>1, WrittenFree
      <4>. QED  BY <3>1, <4>2 DEF Explained
    <3>. QED  BY <3>2, <3>3
  <2>. QED  BY <2>4, <2>5
<1>3. ASSUME NEW ip \in Sources, Engine!LookAt(ip) PROVE Explained(p)
  BY <1>3 DEF Engine!LookAt, Explained
<1>4. ASSUME Engine!Delete PROVE Explained(p)
  <2>1. heap' = Engine!Collect(heap)
    BY <1>4 DEF Engine!Delete
  <2>. QED  BY <2>1, CollectKeeps DEF Explained
<1>5. ASSUME Engine!Tick PROVE Explained(p)
  <2>1. ASSUME NEW r \in Engine!IPState, Free(r) PROVE Free(Engine!Older(r))
    <3>. DEFINE left == IF r.left > 0 THEN r.left - 1 ELSE 0
                idle == IF r.idle <= Stale THEN r.idle + 1 ELSE r.idle
    <3>1. Engine!Older(r) = [r EXCEPT !.left = left, !.idle = idle]
      BY DEF Engine!Older
    <3>. HIDE DEF left, idle
    <3>. QED  BY <2>1, <3>1 DEF Free, Engine!IPState
  <2>2. p \in DOMAIN heap /\ heap'[p] = Engine!Older(heap[p]) /\ heap[p] \in Engine!IPState
    BY <1>5 DEF Engine!Tick, Engine!TypeOK
  <2>. QED  BY <2>1, <2>2 DEF Explained
<1>6. CASE UNCHANGED Engine!vars
  BY <1>6 DEF Engine!vars, Explained
<1>. QED  BY <1>1, <1>2, <1>3, <1>4, <1>5, <1>6 DEF Engine!Next

\* With the thresholds server.New derives from the shipped threshold_rps, or any
\* others above one request per millisecond, no request of any client, from any
\* goroutine, brings a state to the engine's third phase or its flag up
\* (RequestsDoNotBlock).
THEOREM FloodsAreNotBlocked == Engine!Spec => RequestsDoNotBlock
<1>1. ASSUME Engine!TypeOK, [Engine!Next]_Engine!vars, blockThreshold > 1000, NEW p \in DOMAIN heap',
             heap'[p].phase = "block" \/ heap'[p].blocked
      PROVE  \/ p \in DOMAIN heap /\ (heap[p].phase = "block" \/ heap[p].blocked)
             \/ \E c \in Callers : /\ call[c] # Engine!Idle /\ call'[c] = Engine!Idle
                                   /\ call[c].op = "block" /\ call[c].state = p
  <2>1. ~Free(heap'[p])
    BY <1>1 DEF Free
  <2>2. Explained(p)
    BY <1>1, <2>1, StepExplained
  <2>3. p \in DOMAIN heap => heap[p].blocked \in BOOLEAN
    BY <1>1 DEF Engine!TypeOK, Engine!IPState
  <2>. QED  BY <2>2, <2>3 DEF Explained, Free
<1>2. Engine!TypeOK /\ [Engine!Next]_Engine!vars =>
        [blockThreshold > 1000 =>
           \A p \in DOMAIN heap' : heap'[p].phase = "block" \/ heap'[p].blocked =>
              \/ p \in DOMAIN heap /\ (heap[p].phase = "block" \/ heap[p].blocked)
              \/ \E c \in Callers : /\ call[c] # Engine!Idle /\ call'[c] = Engine!Idle
                                    /\ call[c].op = "block" /\ call[c].state = p]_Engine!vars
  BY <1>1
<1>. QED  BY <1>2, EngineTypeCorrect, PTL DEF Engine!Spec, RequestsDoNotBlock, Engine!RequestsDoNotBlock

-----------------------------------------------------------------------------
\* While calls and deletions come one at a time, a deletion waits alone, and the
\* state behind its key is still what cleanup saw: down and idle for too long.
DeletionIsDue ==
  alone => \/ cleaner = Engine!None
           \/ /\ \A c \in Callers : call[c] = Engine!Idle
              /\ \A ip \in cleaner.key : ip \in DOMAIN states /\ Engine!StaleState(Engine!State(ip))

\* Of the clock, what a state keeps: its rate, phase and flag, its time left but
\* for one, and that it is stale.
LEMMA OlderKeeps ==
  ASSUME NEW s \in Engine!IPState
  PROVE  /\ Engine!Older(s).phase = s.phase /\ Engine!Older(s).blocked = s.blocked
         /\ s.left > 0 => Engine!Older(s).left = s.left - 1
         /\ s.idle > Stale => Engine!Older(s).idle = s.idle
<1>. DEFINE left == IF s.left > 0 THEN s.left - 1 ELSE 0
            idle == IF s.idle <= Stale THEN s.idle + 1 ELSE s.idle
<1>1. Engine!Older(s) = [s EXCEPT !.left = left, !.idle = idle]
  BY DEF Engine!Older
<1>2. s.left > 0 => left = s.left - 1
  OBVIOUS
<1>3. s.idle > Stale => idle = s.idle
  BY EngineConstants DEF Engine!IPState
<1>. HIDE DEF left, idle
<1>. QED  BY <1>1, <1>2, <1>3 DEF Engine!IPState

LEMMA DeletionStep == Engine!TypeOK /\ DeletionIsDue /\ [Engine!Next]_Engine!vars => DeletionIsDue'
<1>. SUFFICES ASSUME Engine!TypeOK, DeletionIsDue, [Engine!Next]_Engine!vars, alone', cleaner' # Engine!None
              PROVE  /\ \A c \in Callers : call'[c] = Engine!Idle
                     /\ \A ip \in cleaner'.key : ip \in DOMAIN states' /\ Engine!StaleState(Engine!State(ip))'
  BY DEF DeletionIsDue
<1>1. ASSUME NEW c \in Callers, NEW op \in EngineOps, NEW ip \in Sources, Engine!Lookup(c, op, ip) PROVE FALSE
  BY <1>1 DEF Engine!Lookup, Engine!Quiet
<1>2. ASSUME NEW c \in Callers, Engine!Locked(c) PROVE FALSE
  BY <1>2 DEF Engine!Locked, DeletionIsDue
<1>3. ASSUME NEW ip \in Sources, Engine!LookAt(ip)
      PROVE  /\ \A c \in Callers : call'[c] = Engine!Idle
             /\ \A i \in cleaner'.key : i \in DOMAIN states' /\ Engine!StaleState(Engine!State(i))'
  BY <1>3 DEF Engine!LookAt, Engine!Quiet, Engine!State, Engine!StaleState
<1>4. ASSUME Engine!Delete PROVE FALSE
  BY <1>4 DEF Engine!Delete
<1>5. ASSUME Engine!Tick
      PROVE  /\ \A c \in Callers : call'[c] = Engine!Idle
             /\ \A i \in cleaner'.key : i \in DOMAIN states' /\ Engine!StaleState(Engine!State(i))'
  <2>1. UNCHANGED <<states, call, cleaner, alone>>
    BY <1>5 DEF Engine!Tick
  <2>2. \A c \in Callers : call[c] = Engine!Idle
    BY <2>1 DEF DeletionIsDue
  <2>3. ASSUME NEW i \in cleaner.key
        PROVE  i \in DOMAIN states /\ Engine!StaleState(heap'[states[i]])
    <3>1. i \in DOMAIN states /\ Engine!StaleState(heap[states[i]])
      BY <2>1 DEF DeletionIsDue, Engine!State
    <3>2. heap[states[i]] \in Engine!IPState /\ heap'[states[i]] = Engine!Older(heap[states[i]])
      BY <1>5, <3>1 DEF Engine!Tick, Engine!TypeOK
    <3>. QED  BY <3>1, <3>2, OlderKeeps DEF Engine!StaleState
  <2>. QED  BY <2>1, <2>2, <2>3 DEF Engine!State
<1>6. ASSUME UNCHANGED Engine!vars
      PROVE  /\ \A c \in Callers : call'[c] = Engine!Idle
             /\ \A i \in cleaner'.key : i \in DOMAIN states' /\ Engine!StaleState(Engine!State(i))'
  BY <1>6 DEF Engine!vars, DeletionIsDue, Engine!State, Engine!StaleState
<1>. QED  BY <1>1, <1>2, <1>3, <1>4, <1>5, <1>6 DEF Engine!Next

\* What becomes of the state that a pointer leads to, in a step that writes at
\* most that of one call: nothing, one request, or one tick.
Spared(s, t) == \/ t = s
                \/ t = Engine!Checked(s)
                \/ t = Engine!Older(s)

LEMMA SparedLasts ==
  ASSUME NEW s \in Engine!IPState, NEW t, Spared(s, t), s.left > 0
  PROVE  t.phase = s.phase /\ t.blocked = s.blocked /\ t.left \in {s.left, s.left - 1}
<1>1. CASE t = s
  BY <1>1
<1>2. CASE t = Engine!Checked(s)
  <2>. DEFINE rate == Engine!Average(s)
  <2>1. t = [s EXCEPT !.rate = rate, !.idle = 0]
    BY <1>2 DEF Engine!Checked
  <2>. HIDE DEF rate
  <2>. QED  BY <2>1 DEF Engine!IPState
<1>3. CASE t = Engine!Older(s)
  BY <1>3, OlderKeeps
<1>. QED  BY <1>1, <1>2, <1>3 DEF Spared

LEMMA StepSpares ==
  ASSUME Engine!TypeOK, DeletionIsDue, [Engine!Next]_Engine!vars, alone,
         NEW ip \in DOMAIN states, ~Engine!Ending(ip), Engine!State(ip).blocked \/ Engine!State(ip).idle <= Stale
  PROVE  ip \in DOMAIN states' /\ Spared(heap[states[ip]], heap'[states'[ip]])
<1>. DEFINE q == states[ip]
<1>0. q \in DOMAIN heap /\ heap[q] \in Engine!IPState
  BY DEF Engine!TypeOK
<1>1. ASSUME NEW c \in Callers, NEW op \in EngineOps, NEW i \in Sources, Engine!Lookup(c, op, i)
      PROVE  ip \in DOMAIN states' /\ Spared(heap[states[ip]], heap'[states'[ip]])
  <2>. DEFINE p == IF i \in DOMAIN states THEN states[i] ELSE Engine!New
  <2>1. /\ states' = Engine!Put(states, i, p)
        /\ heap' = IF p \in DOMAIN heap THEN heap ELSE Engine!Put(heap, p, Engine!Fresh)
    BY <1>1 DEF Engine!Lookup
  <2>2. i = ip => p = q
    OBVIOUS
  <2>. HIDE DEF p
  <2>3. ip \in DOMAIN states' /\ states'[ip] = q
    BY <2>1, <2>2 DEF Engine!Put
  <2>4. heap'[q] = heap[q]
    BY <2>1, <1>0 DEF Engine!Put
  <2>. QED  BY <2>3, <2>4 DEF Spared
<1>2. ASSUME NEW c \in Callers, Engine!Locked(c)
      PROVE  ip \in DOMAIN states' /\ Spared(heap[states[ip]], heap'[states'[ip]])
  <2>. DEFINE h == [heap EXCEPT ![call[c].state] = Engine!Written(call[c].op, @)]
  <2>1. /\ heap' = Engine!Collect(h) /\ states' = states
        /\ call[c] # Engine!Idle /\ call'[c] = Engine!Idle
        /\ call[c].state \in DOMAIN heap
    BY <1>2, CallsTyped DEF Engine!Locked, Engine!TypeOK
  <2>2. DOMAIN h = DOMAIN heap
    OBVIOUS
  <2>3. heap'[q] = h[q]
    <3>. HIDE DEF h
    <3>. QED  BY <1>0, <2>1, <2>2, CollectKeeps
  <2>4. CASE call[c].state # q
    BY <1>0, <2>1, <2>3, <2>4 DEF Spared
  <2>5. CASE call[c].state = q
    <3>1. call[c].op = "check"
      BY <2>1, <2>5 DEF Engine!Ending
    <3>2. h[q] = Engine!Checked(heap[q])
      BY <1>0, <2>5, <3>1 DEF Engine!Written
    <3>. QED  BY <2>1, <2>3, <3>2 DEF Spared
  <2>. QED  BY <2>4, <2>5
<1>3. ASSUME NEW i \in Sources, Engine!LookAt(i)
      PROVE  ip \in DOMAIN states' /\ Spared(heap[states[ip]], heap'[states'[ip]])
  BY <1>3 DEF Engine!LookAt, Spared
<1>4. ASSUME Engine!Delete
      PROVE  ip \in DOMAIN states' /\ Spared(heap[states[ip]], heap'[states'[ip]])
  <2>1. ip \notin cleaner.key
    <3>1. ASSUME ip \in cleaner.key PROVE Engine!StaleState(heap[q])
      BY <1>4, <3>1 DEF Engine!Delete, DeletionIsDue, Engine!State
    <3>2. ~Engine!StaleState(heap[q])
      BY <1>0, EngineConstants DEF Engine!StaleState, Engine!IPState, Engine!State
    <3>. QED  BY <3>1, <3>2
  <2>2. ip \in DOMAIN states' /\ states'[ip] = q
    BY <1>4, <2>1 DEF Engine!Delete, Engine!Restrict
  <2>3. heap' = Engine!Collect(heap)
    BY <1>4 DEF Engine!Delete
  <2>4. heap'[q] = heap[q]
    BY <1>0, <2>2, <2>3, CollectKeeps
  <2>. QED  BY <2>2, <2>4 DEF Spared
<1>5. ASSUME Engine!Tick
      PROVE  ip \in DOMAIN states' /\ Spared(heap[states[ip]], heap'[states'[ip]])
  BY <1>0, <1>5 DEF Engine!Tick, Spared
<1>6. ASSUME UNCHANGED Engine!vars
      PROVE  ip \in DOMAIN states' /\ Spared(heap[states[ip]], heap'[states'[ip]])
  BY <1>6 DEF Engine!vars, Spared
<1>. QED  BY <1>1, <1>2, <1>3, <1>4, <1>5, <1>6 DEF Engine!Next

\* A phase lasts (PhasesLast): with calls and deletions one at a time, neither a
\* request of any client nor cleanup ends the phase of a state that is in use or
\* whose flag is up, for any number of IPs and goroutines and any thresholds.
THEOREM PhasesAlwaysLast == Engine!Spec => PhasesLast
<1>. DEFINE Lasts ==
       \A ip \in DOMAIN states :
         /\ alone /\ Engine!State(ip).left > 0 /\ ~Engine!Ending(ip)
         /\ Engine!State(ip).blocked \/ Engine!State(ip).idle <= Stale
         =>
           /\ ip \in DOMAIN states'
           /\ Engine!State(ip)'.phase = Engine!State(ip).phase /\ Engine!State(ip)'.blocked = Engine!State(ip).blocked
           /\ Engine!State(ip)'.left \in {Engine!State(ip).left, Engine!State(ip).left - 1}
<1>1. Engine!Init => DeletionIsDue
  BY DEF Engine!Init, DeletionIsDue
<1>2. Engine!TypeOK /\ DeletionIsDue /\ [Engine!Next]_Engine!vars => [Lasts]_Engine!vars
  <2>. SUFFICES ASSUME Engine!TypeOK, DeletionIsDue, [Engine!Next]_Engine!vars, NEW ip \in DOMAIN states,
                       alone, Engine!State(ip).left > 0, ~Engine!Ending(ip),
                       Engine!State(ip).blocked \/ Engine!State(ip).idle <= Stale
                PROVE  /\ ip \in DOMAIN states'
                       /\ Engine!State(ip)'.phase = Engine!State(ip).phase
                       /\ Engine!State(ip)'.blocked = Engine!State(ip).blocked
                       /\ Engine!State(ip)'.left \in {Engine!State(ip).left, Engine!State(ip).left - 1}
    OBVIOUS
  <2>1. ip \in DOMAIN states' /\ Spared(heap[states[ip]], heap'[states'[ip]])
    BY StepSpares
  <2>2. heap[states[ip]] \in Engine!IPState
    BY DEF Engine!TypeOK
  <2>. QED  BY <2>1, <2>2, SparedLasts DEF Engine!State
<1>. QED  BY <1>1, <1>2, EngineTypeCorrect, DeletionStep, PTL DEF Engine!Spec, PhasesLast, Engine!PhasesLast

-----------------------------------------------------------------------------
(* The way of a response.  What a layer has after a status and a body have  *)
(* come to it, in whatever pieces.                                          *)

\* The response under way, by its parts.
Wrap(h, e, n, f, c) == [headers |-> h, egress |-> e, encrypt |-> n, front |-> f, conn |-> c]

Conn(st, h, b) == [status |-> st, headers |-> h, sent |-> b]
Yes == TRUE
No == FALSE
Capture(st, b, p) == [status |-> st, buffer |-> b, passthrough |-> p]

LEMMA OpenedParts ==
  ASSUME NEW st, NEW b, NEW p, NEW x
  PROVE  Response!Opened(Capture(st, b, p), x) = Capture(st, Response!Kept(b, x), Yes)
<1>1. Capture(st, b, p).status = st /\ Capture(st, b, p).buffer = b
  BY DEF Capture
<1>2. \A z : [status |-> Capture(st, b, p).status, buffer |-> Response!Kept(Capture(st, b, p).buffer, x), passthrough |-> z]
               = Capture(st, Response!Kept(b, x), z)
  BY <1>1 DEF Capture
<1>. QED  BY <1>2 DEF Response!Opened, Yes

LEMMA EncryptParts ==
  ASSUME NEW r, NEW h, NEW e, NEW f, NEW c, NEW st, NEW b, NEW p, r = Wrap(h, e, Capture(st, b, p), f, c)
  PROVE  r["encrypt"].status = st /\ r["encrypt"].buffer = b /\ r["encrypt"].passthrough = p
<1>1. r["encrypt"] = Capture(st, b, p)
  BY DEF Wrap
<1>. QED  BY <1>1 DEF Capture

LEMMA EncryptStatus ==
  ASSUME NEW r, NEW h, NEW e, NEW f, NEW c, NEW st, NEW b, NEW p, NEW x, r = Wrap(h, e, Capture(st, b, p), f, c)
  PROVE  [r EXCEPT !["encrypt"].status = x] = Wrap(h, e, Capture(x, b, p), f, c)
<1>1. [Wrap(h, e, Capture(st, b, p), f, c) EXCEPT !["encrypt"].status = x] = Wrap(h, e, Capture(x, b, p), f, c)
  BY DEF Wrap, Capture
<1>. QED  BY <1>1

LEMMA EncryptOpened ==
  ASSUME NEW r, NEW h, NEW e, NEW f, NEW c, NEW st, NEW b, NEW p, NEW x, r = Wrap(h, e, Capture(st, b, p), f, c)
  PROVE  [r EXCEPT !["encrypt"] = Response!Opened(@, x)] = Wrap(h, e, Capture(st, Response!Kept(b, x), Yes), f, c)
<1>1. \A z : [Wrap(h, e, Capture(st, b, p), f, c) EXCEPT !["encrypt"] = z] = Wrap(h, e, z, f, c)
  BY DEF Wrap
<1>2. r["encrypt"] = Capture(st, b, p)
  BY DEF Wrap
<1>3. Response!Opened(Capture(st, b, p), x) = Capture(st, Response!Kept(b, x), Yes)
  BY OpenedParts
<1>. QED  BY <1>1, <1>2, <1>3

LEMMA EgressParts ==
  ASSUME NEW r, NEW h, NEW n, NEW f, NEW c, NEW st, NEW b, NEW p, r = Wrap(h, Capture(st, b, p), n, f, c)
  PROVE  r["egress"].status = st /\ r["egress"].buffer = b /\ r["egress"].passthrough = p
<1>1. r["egress"] = Capture(st, b, p)
  BY DEF Wrap
<1>. QED  BY <1>1 DEF Capture

LEMMA EgressStatus ==
  ASSUME NEW r, NEW h, NEW n, NEW f, NEW c, NEW st, NEW b, NEW p, NEW x, r = Wrap(h, Capture(st, b, p), n, f, c)
  PROVE  [r EXCEPT !["egress"].status = x] = Wrap(h, Capture(x, b, p), n, f, c)
<1>1. [Wrap(h, Capture(st, b, p), n, f, c) EXCEPT !["egress"].status = x] = Wrap(h, Capture(x, b, p), n, f, c)
  BY DEF Wrap, Capture
<1>. QED  BY <1>1

LEMMA EgressOpened ==
  ASSUME NEW r, NEW h, NEW n, NEW f, NEW c, NEW st, NEW b, NEW p, NEW x, r = Wrap(h, Capture(st, b, p), n, f, c)
  PROVE  [r EXCEPT !["egress"] = Response!Opened(@, x)] = Wrap(h, Capture(st, Response!Kept(b, x), Yes), n, f, c)
<1>1. \A z : [Wrap(h, Capture(st, b, p), n, f, c) EXCEPT !["egress"] = z] = Wrap(h, z, n, f, c)
  BY DEF Wrap
<1>2. r["egress"] = Capture(st, b, p)
  BY DEF Wrap
<1>3. Response!Opened(Capture(st, b, p), x) = Capture(st, Response!Kept(b, x), Yes)
  BY OpenedParts
<1>. QED  BY <1>1, <1>2, <1>3

-----------------------------------------------------------------------------
(* The writer that is in front, and the connection behind it.              *)

Ok == 200
Said(st) == IF st = None THEN Ok ELSE st
Shown(st, b) == IF Response!BodyAllowed(Said(st)) THEN b ELSE <<>>

\* Nothing has come to the front; status st and body b have; or nothing at all is both.
Untold(r, h, e, n) == r = Wrap(h, e, n, Response!NewWriter, Conn(None, Response!NoHeaders, <<>>))
Told(r, h, e, n, st, b) == r = Wrap(h, e, n, Response!Noted(Said(st)), Conn(Said(st), h, Shown(st, b)))
FrontHas(r, h, e, n, st, b) == Told(r, h, e, n, st, b) \/ (st = None /\ b = <<>> /\ Untold(r, h, e, n))

\* The length that is announced, if one is, holds what has been sent and what follows.
Fits(h, b, x) == h.length = None \/ (h.length \in Nat /\ Len(b) + Len(x) <= h.length)

LEMMA PathConstants ==
  /\ Limit \in Nat \ {0} /\ Expansion \in Nat \ {0} /\ None \notin Nat
  /\ ResponseStatuses \subseteq 200..599 /\ ResponseBodies \subseteq Seq({"plain", "leak"})
BY ResponseAssumption DEF Response!PathAssumption

LEMMA WriterParts ==
  ASSUME NEW st, NEW h, NEW b
  PROVE  /\ Response!Noted(st).status = st /\ Response!Noted(st).wroteHeader
         /\ Response!NewWriter.status = Ok /\ ~Response!NewWriter.wroteHeader
         /\ Conn(st, h, b).status = st /\ Conn(st, h, b).headers = h /\ Conn(st, h, b).sent = b
<1>1. Response!Noted(st).status = st /\ Response!Noted(st).wroteHeader
  BY DEF Response!Noted
<1>2. Response!NewWriter.status = Ok /\ ~Response!NewWriter.wroteHeader
  BY DEF Response!NewWriter, Ok
<1>. QED  BY <1>1, <1>2 DEF Conn

\* The connection sends the first status with the headers.
LEMMA ConnHeaderFirst ==
  ASSUME NEW h, NEW e, NEW n, NEW f, NEW h2, NEW b, NEW code
  PROVE  Response!ConnHeader(Wrap(h, e, n, f, Conn(None, h2, b)), code) = Wrap(h, e, n, f, Conn(code, h, <<>>))
<1>1. Wrap(h, e, n, f, Conn(None, h2, b)).conn.status = None
  BY DEF Wrap, Conn
<1>2. [Wrap(h, e, n, f, Conn(None, h2, b)) EXCEPT
         !.conn = [status |-> code, headers |-> Wrap(h, e, n, f, Conn(None, h2, b)).headers, sent |-> <<>>]]
        = Wrap(h, e, n, f, Conn(code, h, <<>>))
  BY DEF Wrap, Conn
<1>. QED  BY <1>1, <1>2 DEF Response!ConnHeader

LEMMA ConnHeaderAgain ==
  ASSUME NEW h, NEW e, NEW n, NEW f, NEW h2, NEW b, NEW st, st # None, NEW code
  PROVE  Response!ConnHeader(Wrap(h, e, n, f, Conn(st, h2, b)), code) = Wrap(h, e, n, f, Conn(st, h2, b))
<1>1. Wrap(h, e, n, f, Conn(st, h2, b)).conn.status = st
  BY DEF Wrap, Conn
<1>. QED  BY <1>1 DEF Response!ConnHeader

\* A write on what has been begun.
LEMMA ConnWriteMore ==
  ASSUME NEW r, NEW h, NEW e, NEW n, NEW f, NEW st, NEW b, NEW x,
         Response!ConnHeader(r, Ok) = Wrap(h, e, n, f, Conn(st, h, b)),
         Response!BodyAllowed(st), Fits(h, b, x)
  PROVE  Response!ConnWrite(r, x) = Wrap(h, e, n, f, Conn(st, h, b \o x))
<1>. DEFINE w == Wrap(h, e, n, f, Conn(st, h, b))
<1>1. w.conn.status = st /\ w.conn.headers.length = h.length /\ w.conn.sent = b
  BY DEF Wrap, Conn
<1>2. \A y : [w EXCEPT !.conn.sent = y] = Wrap(h, e, n, f, Conn(st, h, y))
  BY DEF Wrap, Conn
<1>3. [w EXCEPT !.conn.sent = @ \o x] = Wrap(h, e, n, f, Conn(st, h, b \o x))
  <2>. HIDE DEF w
  <2>. QED  BY <1>1, <1>2
<1>. HIDE DEF w
<1>4. Response!ConnHeader(r, 200) = w
  BY DEF Ok, w
<1>5. Response!BodyAllowed(Response!ConnHeader(r, 200).conn.status)
  BY <1>1, <1>4
<1>6. \/ Response!ConnHeader(r, 200).conn.headers.length = None
      \/ Len(Response!ConnHeader(r, 200).conn.sent) + Len(x) <= Response!ConnHeader(r, 200).conn.headers.length
  BY <1>1, <1>4 DEF Fits
<1>7. [Response!ConnHeader(r, 200) EXCEPT !.conn.sent = @ \o x] = Wrap(h, e, n, f, Conn(st, h, b \o x))
  BY <1>3, <1>4
<1>. QED  BY <1>5, <1>6, <1>7 DEF Response!ConnWrite

LEMMA ConnWriteNone ==
  ASSUME NEW r, NEW h, NEW e, NEW n, NEW f, NEW st, NEW h2, NEW b, NEW x,
         Response!ConnHeader(r, Ok) = Wrap(h, e, n, f, Conn(st, h2, b)),
         ~Response!BodyAllowed(st)
  PROVE  Response!ConnWrite(r, x) = Wrap(h, e, n, f, Conn(st, h2, b))
<1>. DEFINE w == Wrap(h, e, n, f, Conn(st, h2, b))
<1>1. w.conn.status = st
  BY DEF Wrap, Conn
<1>. HIDE DEF w
<1>2. Response!ConnHeader(r, 200) = w
  BY DEF Ok, w
<1>. QED  BY <1>1, <1>2 DEF Response!ConnWrite, w

LEMMA FrontHeaderTells ==
  ASSUME NEW r, NEW h, NEW e, NEW n, NEW code, code # None, Untold(r, h, e, n)
  PROVE  Told(Response!FrontHeader(r, code), h, e, n, code, <<>>)
<1>. DEFINE c == Conn(None, Response!NoHeaders, <<>>)
<1>1. \A y : [Wrap(h, e, n, Response!NewWriter, c) EXCEPT !.front = y] = Wrap(h, e, n, y, c)
  BY DEF Wrap
<1>2. [r EXCEPT !.front = Response!Noted(code)] = Wrap(h, e, n, Response!Noted(code), c)
  BY <1>1 DEF Untold
<1>3. Response!ConnHeader(Wrap(h, e, n, Response!Noted(code), c), code)
        = Wrap(h, e, n, Response!Noted(code), Conn(code, h, <<>>))
  BY ConnHeaderFirst
<1>4. Said(code) = code /\ Shown(code, <<>>) = <<>>
  BY DEF Said, Shown
<1>. QED  BY <1>2, <1>3, <1>4 DEF Response!FrontHeader, Told

\* A write sends status 200 if none was sent, and all of what is written if a body may be sent.
LEMMA FrontWriteTells ==
  ASSUME NEW r, NEW h, NEW e, NEW n, NEW st, NEW b, NEW x,
         FrontHas(r, h, e, n, st, b), Fits(h, b, x)
  PROVE  Told(Response!FrontWrite(r, x), h, e, n, st, b \o x)
<1>. DEFINE f1 == Response!Noted(Said(st))
            w == [r EXCEPT !.front = Response!Noted(@.status)]
<1>0. Ok # None
  BY PathConstants DEF Ok
<1>1. PICK f, c :
        /\ r = Wrap(h, e, n, f, c)
        /\ \/ f = f1 /\ c = Conn(Said(st), h, Shown(st, b))
           \/ st = None /\ b = <<>> /\ f = Response!NewWriter /\ c = Conn(None, Response!NoHeaders, <<>>)
  BY DEF FrontHas, Told, Untold
<1>2. w = Wrap(h, e, n, f1, c)
  <2>1. f.status = Said(st)
    BY <1>1, WriterParts DEF Said
  <2>2. r.front = f
    BY <1>1 DEF Wrap
  <2>3. \A y : [Wrap(h, e, n, f, c) EXCEPT !.front = y] = Wrap(h, e, n, y, c)
    BY DEF Wrap
  <2>. QED  BY <1>1, <2>1, <2>2, <2>3
<1>. HIDE DEF w, f1
<1>3. Response!ConnHeader(w, Ok) = Wrap(h, e, n, f1, Conn(Said(st), h, Shown(st, b)))
  <2>1. CASE c = Conn(Said(st), h, Shown(st, b))
    <3>1. Said(st) # None
      BY <1>0 DEF Said
    <3>2. Response!ConnHeader(Wrap(h, e, n, f1, Conn(Said(st), h, Shown(st, b))), Ok)
            = Wrap(h, e, n, f1, Conn(Said(st), h, Shown(st, b)))
      BY <3>1, ConnHeaderAgain
    <3>. QED  BY <1>2, <2>1, <3>2
  <2>2. CASE st = None /\ b = <<>> /\ c = Conn(None, Response!NoHeaders, <<>>)
    <3>1. Response!ConnHeader(Wrap(h, e, n, f1, Conn(None, Response!NoHeaders, <<>>)), Ok)
            = Wrap(h, e, n, f1, Conn(Ok, h, <<>>))
      BY ConnHeaderFirst
    <3>2. Said(st) = Ok /\ Shown(st, b) = <<>>
      BY <2>2 DEF Said, Shown
    <3>. QED  BY <1>2, <2>2, <3>1, <3>2
  <2>. QED  BY <1>1, <2>1, <2>2
<1>4. Response!ConnWrite(w, x) = Wrap(h, e, n, f1, Conn(Said(st), h, Shown(st, b \o x)))
  <2>1. CASE Response!BodyAllowed(Said(st))
    <3>1. Shown(st, b) = b /\ Shown(st, b \o x) = b \o x
      BY <2>1 DEF Shown
    <3>2. Response!ConnHeader(w, Ok) = Wrap(h, e, n, f1, Conn(Said(st), h, b))
      BY <1>3, <3>1
    <3>3. Response!ConnWrite(w, x) = Wrap(h, e, n, f1, Conn(Said(st), h, b \o x))
      BY <2>1, <3>2, ConnWriteMore
    <3>. QED  BY <3>1, <3>3
  <2>2. CASE ~Response!BodyAllowed(Said(st))
    <3>1. Shown(st, b) = <<>> /\ Shown(st, b \o x) = <<>>
      BY <2>2 DEF Shown
    <3>2. Response!ConnWrite(w, x) = Wrap(h, e, n, f1, Conn(Said(st), h, Shown(st, b)))
      BY <1>3, <2>2, ConnWriteNone
    <3>. QED  BY <3>1, <3>2
  <2>. QED  BY <2>1, <2>2
<1>5. Response!FrontWrite(r, x) = Response!ConnWrite(w, x)
  BY DEF Response!FrontWrite, w
<1>. QED  BY <1>4, <1>5 DEF Told, f1

-----------------------------------------------------------------------------
(* The captures.                                                           *)

Scanned(b) == Response!FirstUnits(b, Limit)

LEMMA YesNo == Yes = TRUE /\ No = FALSE
BY DEF Yes, No

\* Sequences of units, and what a write makes of the one a capture holds.
Grows(b, x) == Len(b \o x) = Len(b) + Len(x) /\ Len(b) \in Nat /\ Len(x) \in Nat

LEMMA GrowsAlways ==
  ASSUME NEW S, NEW b \in Seq(S), NEW x \in Seq(S)
  PROVE  Grows(b, x) /\ <<>> \o b = b
BY ConcatProperties, LenProperties DEF Grows

LEMMA ScannedGrows ==
  ASSUME NEW S, NEW b \in Seq(S), NEW x \in Seq(S), Len(b) <= Limit, Len(b) + Len(x) > Limit
  PROVE  Response!Kept(b, x) = Scanned(b \o x)
<1>. DEFINE k == Limit - Len(b)
            y == SubSeq(x, 1, k)
<1>0. Limit \in Nat /\ Len(b) \in Nat /\ Len(x) \in Nat /\ k \in Nat /\ k < Len(x)
  BY PathConstants, LenProperties
<1>1. Response!Kept(b, x) = b \o y
  BY <1>0 DEF Response!Kept, Response!FirstUnits
<1>2. Scanned(b \o x) = SubSeq(b \o x, 1, Limit)
  <2>. Len(b \o x) = Len(b) + Len(x)
    BY ConcatProperties
  <2>. QED  BY <1>0 DEF Scanned, Response!FirstUnits
<1>3. y \in Seq(S) /\ Len(y) = k /\ \A i \in 1..k : y[i] = x[i]
  BY <1>0, SubSeqProperties, LenProperties
<1>4. /\ b \o y \in Seq(S) /\ Len(b \o y) = Limit
      /\ \A i \in 1..Limit : (b \o y)[i] = IF i <= Len(b) THEN b[i] ELSE y[i - Len(b)]
  BY <1>0, <1>3, ConcatProperties
<1>5. /\ b \o x \in Seq(S) /\ Len(b \o x) = Len(b) + Len(x)
      /\ \A i \in 1..Len(b) + Len(x) : (b \o x)[i] = IF i <= Len(b) THEN b[i] ELSE x[i - Len(b)]
  BY <1>0, ConcatProperties
<1>6. /\ SubSeq(b \o x, 1, Limit) \in Seq(S) /\ Len(SubSeq(b \o x, 1, Limit)) = Limit
      /\ \A i \in 1..Limit : SubSeq(b \o x, 1, Limit)[i] = (b \o x)[i]
  <2>. Limit <= Len(b \o x)
    BY <1>0, <1>5
  <2>. QED  BY <1>0, <1>5, SubSeqProperties, LenProperties
<1>7. \A i \in 1..Limit : (b \o y)[i] = SubSeq(b \o x, 1, Limit)[i]
  <2>. TAKE i \in 1..Limit
  <2>1. CASE i <= Len(b)
    BY <2>1, <1>0, <1>4, <1>5, <1>6
  <2>2. CASE i > Len(b)
    <3>. i - Len(b) \in 1..k
      BY <2>2, <1>0
    <3>. QED  BY <2>2, <1>0, <1>3, <1>4, <1>5, <1>6
  <2>. QED  BY <2>1, <2>2, <1>0
<1>. HIDE DEF y
<1>8. b \o y = SubSeq(b \o x, 1, Limit)
  BY <1>0, <1>4, <1>6, <1>7, SeqEqual
<1>. QED  BY <1>1, <1>2, <1>8

LEMMA ScannedStays ==
  ASSUME NEW S, NEW b \in Seq(S), NEW x \in Seq(S), Len(b) > Limit
  PROVE  Scanned(b \o x) = Scanned(b)
<1>0. Limit \in Nat /\ Len(b) \in Nat /\ Len(x) \in Nat
  BY PathConstants, LenProperties
<1>1. /\ b \o x \in Seq(S) /\ Len(b \o x) = Len(b) + Len(x)
      /\ \A i \in 1..Limit : (b \o x)[i] = b[i]
  BY <1>0, ConcatProperties
<1>2. Scanned(b \o x) = SubSeq(b \o x, 1, Limit) /\ Scanned(b) = SubSeq(b, 1, Limit)
  BY <1>0, <1>1 DEF Scanned, Response!FirstUnits
<1>3. /\ SubSeq(b \o x, 1, Limit) \in Seq(S) /\ Len(SubSeq(b \o x, 1, Limit)) = Limit
      /\ \A i \in 1..Limit : SubSeq(b \o x, 1, Limit)[i] = (b \o x)[i]
  <2>. Limit <= Len(b \o x)
    BY <1>0, <1>1
  <2>. QED  BY <1>0, <1>1, SubSeqProperties, LenProperties
<1>4. /\ SubSeq(b, 1, Limit) \in Seq(S) /\ Len(SubSeq(b, 1, Limit)) = Limit
      /\ \A i \in 1..Limit : SubSeq(b, 1, Limit)[i] = b[i]
  BY <1>0, SubSeqProperties, LenProperties
<1>5. SubSeq(b \o x, 1, Limit) = SubSeq(b, 1, Limit)
  BY <1>0, <1>1, <1>3, <1>4, SeqEqual
<1>. QED  BY <1>2, <1>5

\* What encryption and the layers before it have after status st and body b.
EncryptHas(r, h, e, st, b) ==
  \/ cfg.encrypt /\ Len(b) <= Limit /\ Untold(r, h, e, Capture(st, b, No))
  \/ cfg.encrypt /\ Len(b) > Limit /\ Told(r, h, e, Capture(st, Scanned(b), Yes), st, b)
  \/ ~cfg.encrypt /\ FrontHas(r, h, e, Capture(None, <<>>, No), st, b)

\* The same of egress.
EgressHas(r, h, st, b) ==
  \/ cfg.egress /\ Len(b) <= Limit /\ Untold(r, h, Capture(st, b, No), Capture(None, <<>>, No))
  \/ cfg.egress /\ Len(b) > Limit /\ EncryptHas(r, h, Capture(st, Scanned(b), Yes), st, b)
  \/ ~cfg.egress /\ EncryptHas(r, h, Capture(None, <<>>, No), st, b)

LEMMA EmptyFits == Len(<<>>) = 0 /\ Len(<<>>) <= Limit
BY PathConstants

LEMMA EncryptHeaderHas ==
  ASSUME NEW r, NEW h, NEW e, NEW code, code # None, Untold(r, h, e, Capture(None, <<>>, No))
  PROVE  EncryptHas(Response!EncryptHeader(r, code), h, e, code, <<>>)
<1>1. CASE cfg.encrypt
  <2>. DEFINE f == Response!NewWriter
              c == Conn(None, Response!NoHeaders, <<>>)
  <2>1. r = Wrap(h, e, Capture(None, <<>>, No), f, c)
    BY DEF Untold
  <2>. HIDE DEF f, c
  <2>2. [r EXCEPT !["encrypt"].status = code] = Wrap(h, e, Capture(code, <<>>, No), f, c)
    BY <2>1, EncryptStatus
  <2>3. r["encrypt"].passthrough = FALSE
    BY <2>1, EncryptParts, YesNo
  <2>4. Response!EncryptHeader(r, code) = Wrap(h, e, Capture(code, <<>>, No), f, c)
    BY <1>1, <2>2, <2>3 DEF Response!EncryptHeader, Response!CaptureHeader
  <2>. QED  BY <1>1, <2>4, EmptyFits DEF EncryptHas, Untold, f, c
<1>2. CASE ~cfg.encrypt
  <2>1. Told(Response!FrontHeader(r, code), h, e, Capture(None, <<>>, No), code, <<>>)
    BY FrontHeaderTells
  <2>2. Response!EncryptHeader(r, code) = Response!FrontHeader(r, code)
    BY <1>2 DEF Response!EncryptHeader, Response!CaptureHeader
  <2>. QED  BY <1>2, <2>1, <2>2 DEF EncryptHas, FrontHas
<1>. QED  BY <1>1, <1>2

\* What a capture does with a write it can hold.
LEMMA EncryptHolds ==
  ASSUME NEW r, NEW h, NEW e, NEW f, NEW c, NEW st, NEW b, NEW x, r = Wrap(h, e, Capture(st, b, No), f, c),
         cfg.encrypt, Len(b) + Len(x) <= Limit
  PROVE  Response!EncryptWrite(r, x) = Wrap(h, e, Capture(st, b \o x, No), f, c)
<1>1. [r EXCEPT !["encrypt"].buffer = @ \o x] = Wrap(h, e, Capture(st, b \o x, No), f, c)
  <2>1. \A z : [Wrap(h, e, Capture(st, b, No), f, c) EXCEPT !["encrypt"].buffer = z] = Wrap(h, e, Capture(st, z, No), f, c)
    BY DEF Wrap, Capture
  <2>2. r["encrypt"].buffer = b
    BY EncryptParts
  <2>. QED  BY <2>1, <2>2
<1>2. r["encrypt"].buffer = b /\ r["encrypt"].passthrough = FALSE
  BY EncryptParts, YesNo
<1>. QED  BY <1>1, <1>2 DEF Response!EncryptWrite, Response!CaptureWrite

LEMMA EncryptWriteHas ==
  ASSUME NEW S, NEW r, NEW h, NEW e, NEW st, NEW b \in Seq(S), NEW x \in Seq(S),
         EncryptHas(r, h, e, st, b), Fits(h, b, x)
  PROVE  EncryptHas(Response!EncryptWrite(r, x), h, e, st, b \o x)
<1>. DEFINE none == Capture(None, <<>>, No)
            f == Response!NewWriter
            c == Conn(None, Response!NoHeaders, <<>>)
<1>0. /\ Len(b \o x) = Len(b) + Len(x) /\ <<>> \o b = b
      /\ Len(b) \in Nat /\ Len(x) \in Nat /\ Limit \in Nat
  BY GrowsAlways, PathConstants DEF Grows
<1>1. CASE ~cfg.encrypt
  <2>1. FrontHas(r, h, e, none, st, b)
    BY <1>1 DEF EncryptHas
  <2>2. Told(Response!FrontWrite(r, x), h, e, none, st, b \o x)
    BY <2>1, FrontWriteTells
  <2>3. Response!EncryptWrite(r, x) = Response!FrontWrite(r, x)
    BY <1>1 DEF Response!EncryptWrite, Response!CaptureWrite
  <2>. QED  BY <1>1, <2>2, <2>3 DEF EncryptHas, FrontHas
<1>2. CASE cfg.encrypt /\ Len(b) > Limit
  <2>. DEFINE n == Capture(st, Scanned(b), Yes)
  <2>1. Told(r, h, e, n, st, b)
    BY <1>0, <1>2 DEF EncryptHas
  <2>2. Told(Response!FrontWrite(r, x), h, e, n, st, b \o x)
    <3>. HIDE DEF n
    <3>. QED  BY <2>1, FrontWriteTells DEF FrontHas
  <2>3. r["encrypt"].passthrough = TRUE
    <3>1. r["encrypt"].passthrough = Yes
      BY <2>1, EncryptParts DEF Told
    <3>. QED  BY <3>1, YesNo
  <2>4. Response!EncryptWrite(r, x) = Response!FrontWrite(r, x)
    BY <2>3 DEF Response!EncryptWrite, Response!CaptureWrite
  <2>5. Len(b \o x) > Limit /\ Scanned(b \o x) = Scanned(b)
    BY <1>0, <1>2, ScannedStays
  <2>. QED  BY <1>2, <2>2, <2>4, <2>5 DEF EncryptHas
<1>3. CASE cfg.encrypt /\ Len(b) <= Limit
  <2>1. r = Wrap(h, e, Capture(st, b, No), f, c)
    BY <1>0, <1>3 DEF EncryptHas, Untold
  <2>. HIDE DEF f, c
  <2>2. r["encrypt"].status = st /\ r["encrypt"].buffer = b /\ r["encrypt"].passthrough = FALSE
    BY <2>1, EncryptParts, YesNo
  <2>3. CASE Len(b) + Len(x) <= Limit
    <3>1. Response!EncryptWrite(r, x) = Wrap(h, e, Capture(st, b \o x, No), f, c)
      BY <1>3, <2>1, <2>3, EncryptHolds
    <3>. QED  BY <1>0, <1>3, <2>3, <3>1 DEF EncryptHas, Untold, f, c
  <2>4. CASE Len(b) + Len(x) > Limit
    <3>. DEFINE n == Capture(st, Scanned(b \o x), Yes)
                opened == [r EXCEPT !["encrypt"] = Response!Opened(@, x)]
                begun == IF st # None THEN Response!FrontHeader(opened, st) ELSE opened
                headed == IF b # <<>> THEN Response!FrontWrite(begun, b) ELSE begun
    <3>1. Untold(opened, h, e, n)
      <4>1. Response!Kept(b, x) = Scanned(b \o x)
        BY <1>3, <2>4, ScannedGrows
      <4>2. opened = Wrap(h, e, Capture(st, Response!Kept(b, x), Yes), f, c)
        BY <2>1, EncryptOpened
      <4>. QED  BY <4>1, <4>2 DEF Untold, f, c
    <3>. HIDE DEF n, opened
    <3>2. FrontHas(begun, h, e, n, st, <<>>)
      BY <3>1, FrontHeaderTells DEF FrontHas
    <3>3. Fits(h, <<>>, b)
      BY <1>0, EmptyFits DEF Fits
    <3>. HIDE DEF begun
    <3>4. FrontHas(headed, h, e, n, st, b)
      <4>1. CASE b = <<>>
        BY <3>2, <4>1
      <4>2. CASE b # <<>>
        <5>1. Told(Response!FrontWrite(begun, b), h, e, n, st, <<>> \o b)
          BY <3>2, <3>3, FrontWriteTells
        <5>. QED  BY <1>0, <4>2, <5>1 DEF FrontHas
      <4>. QED  BY <4>1, <4>2
    <3>5. Response!EncryptWrite(r, x) = Response!FrontWrite(headed, x)
      BY <1>0, <1>3, <2>2, <2>4 DEF Response!EncryptWrite, Response!CaptureWrite, begun, opened
    <3>. HIDE DEF headed
    <3>6. Told(Response!FrontWrite(headed, x), h, e, n, st, b \o x)
      BY <3>4, FrontWriteTells
    <3>. QED  BY <1>0, <1>3, <2>4, <3>5, <3>6 DEF EncryptHas, n
  <2>. QED  BY <1>0, <2>3, <2>4
<1>. QED  BY <1>0, <1>1, <1>2, <1>3

LEMMA EncryptWrapped ==
  ASSUME NEW r, NEW h, NEW e, NEW st, NEW b, EncryptHas(r, h, e, st, b)
  PROVE  \E n, f, c : r = Wrap(h, e, n, f, c)
BY DEF EncryptHas, FrontHas, Told, Untold

\* Encryption has nothing of its own yet, which is nothing of any response.
LEMMA EncryptFresh ==
  ASSUME NEW r, NEW h, NEW e, Untold(r, h, e, Capture(None, <<>>, No))
  PROVE  EncryptHas(r, h, e, None, <<>>)
BY EmptyFits DEF EncryptHas, FrontHas

LEMMA EgressHeaderHas ==
  ASSUME NEW r, NEW h, NEW code, code # None, Untold(r, h, Capture(None, <<>>, No), Capture(None, <<>>, No))
  PROVE  EgressHas(Response!EgressHeader(r, code), h, code, <<>>)
<1>. DEFINE none == Capture(None, <<>>, No)
            f == Response!NewWriter
            c == Conn(None, Response!NoHeaders, <<>>)
<1>1. CASE cfg.egress
  <2>1. r = Wrap(h, Capture(None, <<>>, No), none, f, c)
    BY DEF Untold
  <2>. HIDE DEF f, c, none
  <2>2. [r EXCEPT !["egress"].status = code] = Wrap(h, Capture(code, <<>>, No), none, f, c)
    BY <2>1, EgressStatus
  <2>3. r["egress"].passthrough = FALSE
    BY <2>1, EgressParts, YesNo
  <2>4. Response!EgressHeader(r, code) = Wrap(h, Capture(code, <<>>, No), none, f, c)
    BY <1>1, <2>2, <2>3 DEF Response!EgressHeader, Response!CaptureHeader
  <2>. QED  BY <1>1, <2>4, EmptyFits DEF EgressHas, Untold, f, c, none
<1>2. CASE ~cfg.egress
  <2>1. EncryptHas(Response!EncryptHeader(r, code), h, none, code, <<>>)
    BY EncryptHeaderHas
  <2>2. Response!EgressHeader(r, code) = Response!EncryptHeader(r, code)
    BY <1>2 DEF Response!EgressHeader, Response!CaptureHeader
  <2>. QED  BY <1>2, <2>1, <2>2 DEF EgressHas
<1>. QED  BY <1>1, <1>2

LEMMA EgressHolds ==
  ASSUME NEW r, NEW h, NEW n, NEW f, NEW c, NEW st, NEW b, NEW x, r = Wrap(h, Capture(st, b, No), n, f, c),
         cfg.egress, Len(b) + Len(x) <= Limit
  PROVE  Response!EgressWrite(r, x) = Wrap(h, Capture(st, b \o x, No), n, f, c)
<1>1. [r EXCEPT !["egress"].buffer = @ \o x] = Wrap(h, Capture(st, b \o x, No), n, f, c)
  <2>1. \A z : [Wrap(h, Capture(st, b, No), n, f, c) EXCEPT !["egress"].buffer = z] = Wrap(h, Capture(st, z, No), n, f, c)
    BY DEF Wrap, Capture
  <2>2. r["egress"].buffer = b
    BY EgressParts
  <2>. QED  BY <2>1, <2>2
<1>2. r["egress"].buffer = b /\ r["egress"].passthrough = FALSE
  BY EgressParts, YesNo
<1>. QED  BY <1>1, <1>2 DEF Response!EgressWrite, Response!CaptureWrite

LEMMA EgressWriteHas ==
  ASSUME NEW S, NEW r, NEW h, NEW st, NEW b \in Seq(S), NEW x \in Seq(S),
         EgressHas(r, h, st, b), Fits(h, b, x)
  PROVE  EgressHas(Response!EgressWrite(r, x), h, st, b \o x)
<1>. DEFINE none == Capture(None, <<>>, No)
            f == Response!NewWriter
            c == Conn(None, Response!NoHeaders, <<>>)
<1>0. /\ Len(b \o x) = Len(b) + Len(x) /\ <<>> \o b = b
      /\ Len(b) \in Nat /\ Len(x) \in Nat /\ Limit \in Nat
  BY GrowsAlways, PathConstants DEF Grows
<1>1. CASE ~cfg.egress
  <2>1. EncryptHas(r, h, none, st, b)
    BY <1>1 DEF EgressHas
  <2>2. EncryptHas(Response!EncryptWrite(r, x), h, none, st, b \o x)
    BY <2>1, EncryptWriteHas
  <2>3. Response!EgressWrite(r, x) = Response!EncryptWrite(r, x)
    BY <1>1 DEF Response!EgressWrite, Response!CaptureWrite
  <2>. QED  BY <1>1, <2>2, <2>3 DEF EgressHas
<1>2. CASE cfg.egress /\ Len(b) > Limit
  <2>. DEFINE e == Capture(st, Scanned(b), Yes)
  <2>1. EncryptHas(r, h, e, st, b)
    BY <1>0, <1>2 DEF EgressHas
  <2>2. EncryptHas(Response!EncryptWrite(r, x), h, e, st, b \o x)
    BY <2>1, EncryptWriteHas
  <2>3. r["egress"].passthrough = TRUE
    <3>1. r["egress"].passthrough = Yes
      BY <2>1, EncryptWrapped, EgressParts
    <3>. QED  BY <3>1, YesNo
  <2>4. Response!EgressWrite(r, x) = Response!EncryptWrite(r, x)
    BY <2>3 DEF Response!EgressWrite, Response!CaptureWrite
  <2>5. Len(b \o x) > Limit /\ Scanned(b \o x) = Scanned(b)
    BY <1>0, <1>2, ScannedStays
  <2>. QED  BY <1>2, <2>2, <2>4, <2>5 DEF EgressHas
<1>3. CASE cfg.egress /\ Len(b) <= Limit
  <2>1. r = Wrap(h, Capture(st, b, No), none, f, c)
    BY <1>0, <1>3 DEF EgressHas, Untold
  <2>. HIDE DEF f, c, none
  <2>2. r["egress"].status = st /\ r["egress"].buffer = b /\ r["egress"].passthrough = FALSE
    BY <2>1, EgressParts, YesNo
  <2>3. CASE Len(b) + Len(x) <= Limit
    <3>1. Response!EgressWrite(r, x) = Wrap(h, Capture(st, b \o x, No), none, f, c)
      BY <1>3, <2>1, <2>3, EgressHolds
    <3>. QED  BY <1>0, <1>3, <2>3, <3>1 DEF EgressHas, Untold, f, c, none
  <2>4. CASE Len(b) + Len(x) > Limit
    <3>. DEFINE e == Capture(st, Scanned(b \o x), Yes)
                opened == [r EXCEPT !["egress"] = Response!Opened(@, x)]
                begun == IF st # None THEN Response!EncryptHeader(opened, st) ELSE opened
                headed == IF b # <<>> THEN Response!EncryptWrite(begun, b) ELSE begun
    <3>1. Untold(opened, h, e, Capture(None, <<>>, No))
      <4>1. Response!Kept(b, x) = Scanned(b \o x)
        BY <1>3, <2>4, ScannedGrows
      <4>2. opened = Wrap(h, Capture(st, Response!Kept(b, x), Yes), none, f, c)
        BY <2>1, EgressOpened
      <4>. QED  BY <4>1, <4>2 DEF Untold, f, c, none
    <3>. HIDE DEF e, opened
    <3>2. EncryptHas(begun, h, e, st, <<>>)
      BY <3>1, EncryptHeaderHas, EncryptFresh
    <3>3. Fits(h, <<>>, b)
      BY <1>0, EmptyFits DEF Fits
    <3>. HIDE DEF begun
    <3>4. EncryptHas(headed, h, e, st, b)
      <4>1. CASE b = <<>>
        BY <3>2, <4>1
      <4>2. CASE b # <<>>
        <5>0. <<>> \in Seq(S)
          OBVIOUS
        <5>1. EncryptHas(Response!EncryptWrite(begun, b), h, e, st, <<>> \o b)
          BY <3>2, <3>3, <5>0, EncryptWriteHas
        <5>. QED  BY <1>0, <4>2, <5>1
      <4>. QED  BY <4>1, <4>2
    <3>5. Response!EgressWrite(r, x) = Response!EncryptWrite(headed, x)
      BY <1>0, <1>3, <2>2, <2>4 DEF Response!EgressWrite, Response!CaptureWrite, begun, opened
    <3>. HIDE DEF headed
    <3>6. EncryptHas(Response!EncryptWrite(headed, x), h, e, st, b \o x)
      BY <3>4, EncryptWriteHas
    <3>. QED  BY <1>0, <1>3, <2>4, <3>5, <3>6 DEF EgressHas, e
  <2>. QED  BY <1>0, <2>3, <2>4
<1>. QED  BY <1>0, <1>1, <1>2, <1>3

-----------------------------------------------------------------------------
(* Headers.                                                                *)

Headers == Response!HeaderType

LEMMA JsonHeadersFacts ==
  ASSUME NEW h \in Headers
  PROVE  /\ Response!JsonHeaders(h) \in Headers
         /\ Response!JsonHeaders(h).length = h.length
         /\ Response!JsonHeaders(h).label = h.label
         /\ ~Response!JsonHeaders(h).html
BY DEF Headers, Response!HeaderType, Response!Codings, Response!JsonHeaders

LEMMA BareHeadersFacts ==
  ASSUME NEW h \in Headers
  PROVE  /\ Response!BareHeaders(h) \in Headers
         /\ Response!BareHeaders(h).length = None
         /\ Response!BareHeaders(h).label = "none"
BY DEF Headers, Response!HeaderType, Response!Codings, Response!BareHeaders

LEMMA MarkedHeadersFacts ==
  ASSUME NEW h \in Headers
  PROVE  /\ Response!MarkedHeaders(h) \in Headers
         /\ Response!MarkedHeaders(h).length = None
         /\ Response!MarkedHeaders(h).label = h.label
         /\ Response!MarkedHeaders(h).tag # "strong"
BY DEF Headers, Response!HeaderType, Response!Codings, Response!MarkedHeaders

LEMMA ErrorHeadersFacts ==
  ASSUME NEW h \in Headers
  PROVE  Response!ErrorHeaders(h) \in Headers /\ Response!ErrorHeaders(h).length = None
BY DEF Headers, Response!HeaderType, Response!Codings, Response!ErrorHeaders

LEMMA NoHeadersFacts ==
  Response!NoHeaders \in Headers /\ Response!NoHeaders.length = None /\ Response!NoHeaders.label = "none"
BY DEF Headers, Response!HeaderType, Response!Codings, Response!NoHeaders

\* What a request may be answered with.
LEMMA RequestFacts ==
  ASSUME NEW q \in Response!Requests
  PROVE  /\ q.status \in Nat \cup {None}
         /\ q.body \in Seq({"plain", "leak"})
         /\ q.method = "HEAD" => q.body = <<>>
         /\ q.status = None /\ q.body = <<>> => q.label = "none" /\ ~q.length
         /\ q.coding \in Response!Codings /\ q.label \in {"none", q.coding}
<1>1. /\ q \in [method : {"GET", "HEAD"}, status : ResponseStatuses \cup {None}, body : ResponseBodies,
                length : BOOLEAN, coding : Response!Codings, label : Response!Codings,
                tag : {"none", "strong"}, html : BOOLEAN]
      /\ q.method = "HEAD" \/ q.status \in {204, 304} => q.body = <<>> /\ q.status # None
      /\ q.length => q.status # None
      /\ q.label \in {"none", q.coding}
      /\ q.status = None /\ q.body = <<>> => q.label = "none" /\ q.tag = "none"
  BY DEF Response!Requests
<1>2. q.status \in ResponseStatuses \cup {None} /\ q.body \in ResponseBodies
  BY <1>1
<1>3. \A s \in ResponseStatuses : s \in Nat
  BY PathConstants
<1>. QED  BY <1>1, <1>2, <1>3, PathConstants

LEMMA HeadersOfFacts ==
  ASSUME NEW q \in Response!Requests
  PROVE  /\ Response!HeadersOf(q) \in Headers
         /\ Response!HeadersOf(q).label = q.label
         /\ ~q.length => Response!HeadersOf(q).length = None
         /\ Response!HeadersOf(q).length # None /\ q.method # "HEAD" => Response!HeadersOf(q).length = Len(q.body)
         /\ Response!HeadersOf(q).length = None \/ Len(q.body) <= Response!HeadersOf(q).length
<1>. DEFINE l == IF ~q.length THEN None ELSE IF q.method = "HEAD" THEN Limit ELSE Len(q.body)
<1>0. /\ q.label \in Response!Codings /\ q.html \in BOOLEAN /\ q.tag \in {"none", "strong"}
  BY DEF Response!Requests
<1>1. Len(q.body) \in Nat /\ Limit \in Nat /\ (q.method = "HEAD" => Len(q.body) = 0)
  BY RequestFacts, PathConstants, LenProperties, EmptyFits
<1>2. l \in Nat \cup {None}
  BY <1>1
<1>3. /\ ~q.length => l = None
      /\ l # None /\ q.method # "HEAD" => l = Len(q.body)
      /\ l = None \/ Len(q.body) <= l
  BY <1>1
<1>. HIDE DEF l
<1>4. Response!HeadersOf(q) = [length |-> l, label |-> q.label, tag |-> q.tag, html |-> q.html]
  BY DEF Response!HeadersOf, l
<1>5. /\ Response!HeadersOf(q) \in Headers
      /\ Response!HeadersOf(q).label = q.label /\ Response!HeadersOf(q).length = l
  BY <1>0, <1>2, <1>4 DEF Headers, Response!HeaderType
<1>. QED  BY <1>3, <1>5

\* The headers change, and what the layers have does not.
LEMMA UntoldHeaders ==
  ASSUME NEW r, NEW h, NEW e, NEW n, NEW x, Untold(r, h, e, n)
  PROVE  Untold([r EXCEPT !.headers = x], x, e, n) /\ r.headers = h
<1>1. \A f, c : [Wrap(h, e, n, f, c) EXCEPT !.headers = x] = Wrap(x, e, n, f, c)
  BY DEF Wrap
<1>2. \A f, c : Wrap(h, e, n, f, c).headers = h
  BY DEF Wrap
<1>. QED  BY <1>1, <1>2 DEF Untold

-----------------------------------------------------------------------------
(* The invariant, phase by phase.                                          *)

Written == SubSeq(request.body, 1, produced)
HandlersHeaders == Response!HeadersOf(request)

\* What the scan reads of the body, and of as much as a capture holds, has a leak.
BodyLeaks == Response!Leaks(Response!ForScan(request.body, request.coding, request.label))
HeadLeaks == Response!Leaks(Response!ForScan(Scanned(request.body), request.coding, request.label))

LEMMA LeaksStay ==
  ASSUME request' = request
  PROVE  (BodyLeaks' <=> BodyLeaks) /\ (HeadLeaks' <=> HeadLeaks)
BY DEF BodyLeaks, HeadLeaks, Scanned, Response!ForScan, Response!Decoded, Response!FirstUnits, Response!Leaks

\* What a capture could hold has been scanned.
LeakFree == cfg.egress /\ Len(request.body) <= Limit => ~BodyLeaks

\* A response is the handler's, that with a mark, or one of the server's own.
Own(st, b, h) ==
  st = request.status /\ b = request.body /\ h = HandlersHeaders /\ ~outcome.marked /\ LeakFree
Marked(st, b, h) ==
  /\ st = request.status /\ b = Append(request.body, "mark")
  /\ h \in Headers /\ h.length = None /\ h.label = "none" /\ h.tag # "strong"
  /\ LeakFree
Servers(st, b, h) ==
  /\ st \in {403, 429} /\ b \in {<<"json">>, <<"alert">>}
  /\ h \in Headers /\ h.length = None /\ h.label = "none" /\ ~outcome.marked
Html(h) == h.html

OutcomeType ==
  [refused : BOOLEAN, denied : BOOLEAN, alerted : BOOLEAN, panicked : BOOLEAN,
   marked : BOOLEAN, logged : Nat \cup {None}]

AtGates ==
  /\ Untold(Response!Rsp, Response!NoHeaders, Capture(None, <<>>, No), Capture(None, <<>>, No))
  /\ produced = 0 /\ ~outcome.panicked /\ ~outcome.refused /\ ~outcome.marked
AtHandler ==
  /\ \E st, b, h : /\ EgressHas(Response!Rsp, h, st, b)
                   /\ st = request.status /\ b = Written /\ h = HandlersHeaders
  /\ ~outcome.panicked /\ ~outcome.refused /\ ~outcome.marked
AtEgress ==
  /\ \E st, b, h : /\ EgressHas(Response!Rsp, h, st, b)
                   /\ st = request.status /\ b = request.body /\ h = HandlersHeaders
  /\ ~outcome.panicked /\ ~outcome.refused /\ ~outcome.marked
AtRecovery ==
  /\ \E st, b, h : EgressHas(Response!Rsp, h, st, b) /\ b = Written /\ h = HandlersHeaders
  /\ outcome.panicked
AtEncrypt ==
  /\ \E st, b, h, e : /\ EncryptHas(Response!Rsp, h, e, st, b)
                      /\ Own(st, b, h) \/ (Servers(st, b, h) /\ ~Html(h))
  /\ ~outcome.panicked /\ ~outcome.marked
AtDetector ==
  /\ \E st, b, h, e, n : /\ FrontHas(Response!Rsp, h, e, n, st, b)
                         /\ Own(st, b, h) \/ Marked(st, b, h) \/ Servers(st, b, h)
  /\ ~outcome.panicked
AtEnd ==
  \E st, b, h : /\ conn = Conn(Said(st), h, Shown(st, b)) /\ outcome.logged = Said(st)
                /\ Own(st, b, h) \/ Marked(st, b, h) \/ Servers(st, b, h)
Recovered ==
  (cfg.egress \/ cfg.encrypt) /\ Len(request.body) <= Limit =>
     /\ conn.status = 500
     /\ Response!BodyAllowed(500) => conn.sent = <<"error">>
     /\ conn.sent \in {<<>>, <<"error">>}

\* What a scan found is recorded.
Recorded ==
  phase \in {"encrypt", "detector", "logging", "done"} /\ ~outcome.panicked /\ cfg.egress /\ ~outcome.refused =>
     (outcome.denied <=> HeadLeaks)

ResponseInv ==
  /\ request \in Response!Requests
  /\ produced \in Nat /\ produced <= Len(request.body)
  /\ outcome \in OutcomeType
  /\ phase \in {"gates", "handler", "egress", "encrypt", "detector", "logging", "recovery", "done"}
  /\ phase = "gates" => AtGates
  /\ phase = "handler" => AtHandler
  /\ phase = "egress" => AtEgress
  /\ phase = "recovery" => AtRecovery
  /\ phase = "encrypt" => AtEncrypt
  /\ phase \in {"detector", "logging"} => AtDetector
  /\ phase = "done" /\ ~outcome.panicked => AtEnd
  /\ phase = "done" /\ outcome.panicked => Recovered
  /\ Recorded

\* The response under way, after a step.
LEMMA BecomesWrapped ==
  ASSUME NEW r, NEW h, NEW e, NEW n, NEW f, NEW c, r = Wrap(h, e, n, f, c), Response!Becomes(r)
  PROVE  Response!Rsp' = r /\ conn' = c
BY DEF Wrap, Response!Rsp, Response!Becomes

\* A step leaves the switches and the request alone, so what a layer has it has in both states.
LEMMA HasAfter ==
  ASSUME cfg' = cfg, request' = request
  PROVE  /\ \A h, e, n, st, b : FrontHas(Response!Rsp', h, e, n, st, b) => FrontHas(Response!Rsp, h, e, n, st, b)'
         /\ \A h, e, st, b : EncryptHas(Response!Rsp', h, e, st, b) => EncryptHas(Response!Rsp, h, e, st, b)'
         /\ \A h, st, b : EgressHas(Response!Rsp', h, st, b) => EgressHas(Response!Rsp, h, st, b)'
BY DEF FrontHas, EncryptHas, EgressHas, Told, Untold, Shown, Response!BodyAllowed

\* How much of its body the handler has written.
LEMMA PrefixGrows ==
  ASSUME NEW S, NEW s \in Seq(S), NEW m \in Nat, NEW k \in Nat, m + k <= Len(s)
  PROVE  /\ SubSeq(s, 1, m) \in Seq(S) /\ SubSeq(s, m + 1, m + k) \in Seq(S)
         /\ Len(SubSeq(s, 1, m)) = m /\ Len(SubSeq(s, m + 1, m + k)) = k
         /\ SubSeq(s, 1, m) \o SubSeq(s, m + 1, m + k) = SubSeq(s, 1, m + k)
<1>. DEFINE a == SubSeq(s, 1, m)
            z == SubSeq(s, m + 1, m + k)
            w == SubSeq(s, 1, m + k)
<1>0. Len(s) \in Nat /\ \A i \in 1..Len(s) : s[i] \in S
  BY LenProperties
<1>1. a \in Seq(S) /\ Len(a) = m /\ \A i \in 1..m : a[i] = s[i]
  <2>1. \A i \in 1..m : s[i] \in S
    BY <1>0
  <2>. QED  BY <2>1, SubSeqProperties
<1>2. z \in Seq(S) /\ Len(z) = k /\ \A i \in 1..k : z[i] = s[m + i]
  <2>1. \A i \in m + 1..m + k : s[i] \in S
    BY <1>0
  <2>. QED  BY <2>1, SubSeqProperties
<1>3. w \in Seq(S) /\ Len(w) = m + k /\ \A i \in 1..m + k : w[i] = s[i]
  <2>1. \A i \in 1..m + k : s[i] \in S
    BY <1>0
  <2>. QED  BY <2>1, SubSeqProperties
<1>4. /\ a \o z \in Seq(S) /\ Len(a \o z) = m + k
      /\ \A i \in 1..m + k : (a \o z)[i] = IF i <= m THEN a[i] ELSE z[i - m]
  BY <1>1, <1>2, ConcatProperties
<1>5. \A i \in 1..m + k : (a \o z)[i] = w[i]
  <2>. HIDE DEF a, z, w
  <2>. TAKE i \in 1..m + k
  <2>0. i \in Int /\ m \in Int /\ 1 <= i /\ i <= m + k
    OBVIOUS
  <2>1. CASE i <= m
    BY <2>1, <1>1, <1>3, <1>4
  <2>2. CASE i > m
    <3>1. PICK j \in 1..k : i = m + j
      <4>1. i - m \in 1..k /\ i = m + (i - m)
        BY <2>0, <2>2
      <4>. QED  BY <4>1
    <3>2. z[j] = s[i] /\ i - m = j
      BY <1>2, <3>1
    <3>3. (a \o z)[i] = z[j]
      BY <1>4, <2>0, <2>2, <3>2
    <3>4. w[i] = s[i]
      BY <1>3, <2>0
    <3>. QED  BY <3>2, <3>3, <3>4
  <2>3. i <= m \/ i > m
    BY <2>0
  <2>. QED  BY <2>1, <2>2, <2>3
<1>6. a \o z = w
  <2>. HIDE DEF a, z, w
  <2>. QED  BY <1>3, <1>4, <1>5, SeqEqual
<1>. QED  BY <1>1, <1>2, <1>6

\* The server's own JSON, where encryption has nothing yet.
LEMMA EncryptJsonHas ==
  ASSUME NEW r, NEW h \in Headers, NEW e, NEW code, code # None, NEW unit,
         h.length = None, Untold(r, h, e, Capture(None, <<>>, No))
  PROVE  EncryptHas(Response!EncryptJson(r, code, unit), Response!JsonHeaders(h), e, code, <<unit>>)
<1>. DEFINE j == Response!JsonHeaders(h)
            s == [r EXCEPT !.headers = Response!JsonHeaders(@)]
            t == Response!EncryptHeader(s, code)
<1>1. Untold(s, j, e, Capture(None, <<>>, No))
  <2>1. r.headers = h
    BY UntoldHeaders
  <2>2. Untold([r EXCEPT !.headers = j], j, e, Capture(None, <<>>, No))
    BY UntoldHeaders
  <2>. QED  BY <2>1, <2>2
<1>2. j.length = None
  BY JsonHeadersFacts
<1>. HIDE DEF s, j
<1>3. EncryptHas(t, j, e, code, <<>>)
  BY <1>1, EncryptHeaderHas
<1>. HIDE DEF t
<1>4. <<>> \in Seq({unit}) /\ <<unit>> \in Seq({unit}) /\ <<>> \o <<unit>> = <<unit>>
  OBVIOUS
<1>5. Fits(j, <<>>, <<unit>>)
  BY <1>2 DEF Fits
<1>6. EncryptHas(Response!EncryptWrite(t, <<unit>>), j, e, code, <<>> \o <<unit>>)
  BY <1>3, <1>4, <1>5, EncryptWriteHas
<1>. QED  BY <1>4, <1>6 DEF Response!EncryptJson, t, s, j

\* The same of the writer in front.
LEMMA FrontJsonTells ==
  ASSUME NEW r, NEW h \in Headers, NEW e, NEW n, NEW code, code # None, NEW unit,
         h.length = None, Untold(r, h, e, n)
  PROVE  Told(Response!FrontJson(r, code, unit), Response!JsonHeaders(h), e, n, code, <<unit>>)
<1>. DEFINE j == Response!JsonHeaders(h)
            s == [r EXCEPT !.headers = Response!JsonHeaders(@)]
            t == Response!FrontHeader(s, code)
<1>1. Untold(s, j, e, n)
  <2>1. r.headers = h
    BY UntoldHeaders
  <2>2. Untold([r EXCEPT !.headers = j], j, e, n)
    BY UntoldHeaders
  <2>. QED  BY <2>1, <2>2
<1>2. j.length = None
  BY JsonHeadersFacts
<1>. HIDE DEF s, j
<1>3. FrontHas(t, j, e, n, code, <<>>)
  BY <1>1, FrontHeaderTells DEF FrontHas
<1>. HIDE DEF t
<1>4. <<>> \o <<unit>> = <<unit>>
  OBVIOUS
<1>5. Fits(j, <<>>, <<unit>>)
  BY <1>2 DEF Fits
<1>6. Told(Response!FrontWrite(t, <<unit>>), j, e, n, code, <<>> \o <<unit>>)
  BY <1>3, <1>5, FrontWriteTells
<1>. QED  BY <1>4, <1>6 DEF Response!FrontJson, t, s, j

LEMMA UntoldWrapped ==
  ASSUME NEW r, NEW h, NEW e, NEW n, Untold(r, h, e, n)
  PROVE  \E f, c : r = Wrap(h, e, n, f, c)
BY DEF Untold

LEMMA ToldWrapped ==
  ASSUME NEW r, NEW h, NEW e, NEW n, NEW st, NEW b, Told(r, h, e, n, st, b)
  PROVE  \E f, c : r = Wrap(h, e, n, f, c)
BY DEF Told

LEMMA EgressWrapped ==
  ASSUME NEW r, NEW h, NEW st, NEW b, EgressHas(r, h, st, b)
  PROVE  \E e, n, f, c : r = Wrap(h, e, n, f, c)
<1>1. CASE \E e : EncryptHas(r, h, e, st, b)
  BY <1>1, EncryptWrapped
<1>2. CASE \E e, n : Untold(r, h, e, n)
  BY <1>2, UntoldWrapped
<1>. QED  BY <1>1, <1>2 DEF EgressHas

\* What Becomes makes of a response that the layers have.
LEMMA EgressBecomes ==
  ASSUME cfg' = cfg, request' = request, NEW r, NEW h, NEW st, NEW b,
         EgressHas(r, h, st, b), Response!Becomes(r)
  PROVE  EgressHas(Response!Rsp, h, st, b)'
<1>1. PICK e, n, f, c : r = Wrap(h, e, n, f, c)
  BY EgressWrapped
<1>2. Response!Rsp' = r
  BY <1>1, BecomesWrapped
<1>. QED  BY <1>2, HasAfter

LEMMA EncryptBecomes ==
  ASSUME cfg' = cfg, request' = request, NEW r, NEW h, NEW e, NEW st, NEW b,
         EncryptHas(r, h, e, st, b), Response!Becomes(r)
  PROVE  EncryptHas(Response!Rsp, h, e, st, b)'
<1>1. PICK n, f, c : r = Wrap(h, e, n, f, c)
  BY EncryptWrapped
<1>2. Response!Rsp' = r
  BY <1>1, BecomesWrapped
<1>. QED  BY <1>2, HasAfter

LEMMA FrontBecomes ==
  ASSUME cfg' = cfg, request' = request, NEW r, NEW h, NEW e, NEW n, NEW st, NEW b,
         FrontHas(r, h, e, n, st, b), Response!Becomes(r)
  PROVE  FrontHas(Response!Rsp, h, e, n, st, b)'
<1>1. PICK f, c : r = Wrap(h, e, n, f, c)
  BY UntoldWrapped, ToldWrapped DEF FrontHas
<1>2. Response!Rsp' = r
  BY <1>1, BecomesWrapped
<1>. QED  BY <1>2, HasAfter

LEMMA OutcomeSteps ==
  ASSUME outcome \in OutcomeType
  PROVE  /\ [outcome EXCEPT !.refused = TRUE] \in OutcomeType
         /\ [outcome EXCEPT !.refused = TRUE].refused
         /\ [outcome EXCEPT !.refused = TRUE].panicked = outcome.panicked
         /\ [outcome EXCEPT !.refused = TRUE].marked = outcome.marked
         /\ [outcome EXCEPT !.panicked = TRUE] \in OutcomeType
         /\ [outcome EXCEPT !.panicked = TRUE].panicked
BY DEF OutcomeType

LEMMA Lines == 403 # None /\ 429 # None /\ 500 # None /\ 200 # None /\ Ok # None /\ Ok = 200
BY PathConstants DEF Ok

LEMMA RefuseInv ==
  ASSUME ResponseInv, Response!Refuse
  PROVE  ResponseInv'
<1>0. /\ phase = "gates" /\ phase' = "encrypt" /\ cfg' = cfg /\ request' = request /\ produced' = produced
      /\ outcome' = [outcome EXCEPT !.refused = TRUE]
      /\ Response!Becomes(Response!EncryptJson(Response!Rsp, 403, "json"))
  BY DEF Response!Refuse, Response!Goto, Response!Same
<1>1. /\ Untold(Response!Rsp, Response!NoHeaders, Capture(None, <<>>, No), Capture(None, <<>>, No))
      /\ ~outcome.panicked /\ ~outcome.marked /\ outcome \in OutcomeType
  BY <1>0 DEF ResponseInv, AtGates
<1>2. PICK h, e, r : /\ h = Response!JsonHeaders(Response!NoHeaders)
                     /\ r = Response!EncryptJson(Response!Rsp, 403, "json")
                     /\ EncryptHas(r, h, e, 403, <<"json">>)
  <2>1. Response!NoHeaders.length = None /\ 403 # None
    BY NoHeadersFacts, Lines
  <2>2. EncryptHas(Response!EncryptJson(Response!Rsp, 403, "json"), Response!JsonHeaders(Response!NoHeaders),
                   Capture(None, <<>>, No), 403, <<"json">>)
    BY <1>1, <2>1, NoHeadersFacts, EncryptJsonHas
  <2>. QED  BY <2>2
<1>3. EncryptHas(Response!Rsp, h, e, 403, <<"json">>)'
  BY <1>0, <1>2, EncryptBecomes
<1>4. /\ outcome' \in OutcomeType /\ outcome'.refused
      /\ ~outcome'.panicked /\ ~outcome'.marked
  BY <1>0, <1>1, OutcomeSteps
<1>5. Servers(403, <<"json">>, h)' /\ ~Html(h)'
  BY <1>2, <1>4, NoHeadersFacts, JsonHeadersFacts DEF Servers, Html
<1>6. AtEncrypt'
  BY <1>3, <1>4, <1>5 DEF AtEncrypt
<1>. QED  BY <1>0, <1>4, <1>6 DEF ResponseInv, Recorded

LEMMA HandlerReturnInv ==
  ASSUME ResponseInv, Response!HandlerReturn
  PROVE  ResponseInv'
<1>0. /\ phase = "handler" /\ phase' = "egress" /\ produced = Len(request.body)
      /\ cfg' = cfg /\ request' = request /\ produced' = produced /\ outcome' = outcome
      /\ headers' = headers /\ egress' = egress /\ encrypt' = encrypt /\ front' = front /\ conn' = conn
  BY DEF Response!HandlerReturn, Response!Goto, Response!Same
<1>1. PICK st, b, h : /\ EgressHas(Response!Rsp, h, st, b)
                      /\ st = request.status /\ b = Written /\ h = HandlersHeaders
  BY <1>0 DEF ResponseInv, AtHandler
<1>2. b = request.body
  <2>1. request.body \in Seq({"plain", "leak"})
    BY RequestFacts DEF ResponseInv
  <2>. QED  BY <1>0, <1>1, <2>1, SubSeqFull DEF Written
<1>3. Response!Rsp' = Response!Rsp
  BY <1>0 DEF Response!Rsp
<1>4. EgressHas(Response!Rsp, h, st, b)'
  BY <1>0, <1>1, <1>3, HasAfter
<1>5. AtEgress'
  BY <1>0, <1>1, <1>2, <1>4 DEF AtEgress, HandlersHeaders, Response!HeadersOf, ResponseInv, AtHandler
<1>. QED  BY <1>0, <1>5 DEF ResponseInv, Recorded

LEMMA HandlerPanicInv ==
  ASSUME ResponseInv, Response!HandlerPanic
  PROVE  ResponseInv'
<1>0. /\ phase = "handler" /\ phase' = "recovery"
      /\ cfg' = cfg /\ request' = request /\ produced' = produced
      /\ outcome' = [outcome EXCEPT !.panicked = TRUE]
      /\ headers' = headers /\ egress' = egress /\ encrypt' = encrypt /\ front' = front /\ conn' = conn
  BY DEF Response!HandlerPanic, Response!Goto, Response!Same
<1>1. PICK st, b, h : EgressHas(Response!Rsp, h, st, b) /\ b = Written /\ h = HandlersHeaders
  BY <1>0 DEF ResponseInv, AtHandler
<1>2. Response!Rsp' = Response!Rsp
  BY <1>0 DEF Response!Rsp
<1>3. EgressHas(Response!Rsp, h, st, b)'
  BY <1>0, <1>1, <1>2, HasAfter
<1>4. outcome' \in OutcomeType /\ outcome'.panicked
  BY <1>0, OutcomeSteps DEF ResponseInv
<1>5. AtRecovery'
  BY <1>0, <1>1, <1>3, <1>4 DEF AtRecovery, HandlersHeaders, Response!HeadersOf, Written
<1>. QED  BY <1>0, <1>4, <1>5 DEF ResponseInv, Recorded

LEMMA EgressFresh ==
  ASSUME NEW r, NEW h, Untold(r, h, Capture(None, <<>>, No), Capture(None, <<>>, No))
  PROVE  EgressHas(r, h, None, <<>>)
BY EmptyFits, EncryptFresh DEF EgressHas

LEMMA BeginInv ==
  ASSUME ResponseInv, Response!Begin
  PROVE  ResponseInv'
<1>. DEFINE h == Response!HeadersOf(request)
            r == [Response!Rsp EXCEPT !.headers = h]
            s == IF request.status = None THEN r ELSE Response!EgressHeader(r, request.status)
<1>0. /\ phase = "gates" /\ phase' = "handler" /\ cfg' = cfg /\ request' = request /\ produced' = produced
      /\ outcome' = outcome /\ Response!Becomes(s)
  BY DEF Response!Begin, Response!Goto, Response!Same
<1>1. /\ Untold(Response!Rsp, Response!NoHeaders, Capture(None, <<>>, No), Capture(None, <<>>, No))
      /\ ~outcome.panicked /\ ~outcome.marked /\ ~outcome.refused /\ produced = 0
  BY <1>0 DEF ResponseInv, AtGates
<1>2. Untold(r, h, Capture(None, <<>>, No), Capture(None, <<>>, No))
  <2>. HIDE DEF h
  <2>. QED  BY <1>1, UntoldHeaders
<1>. HIDE DEF r
<1>3. EgressHas(s, h, request.status, <<>>)
  <2>. HIDE DEF h
  <2>. QED  BY <1>2, EgressFresh, EgressHeaderHas
<1>4. PICK st, b, g : st = request.status /\ b = <<>> /\ g = h /\ EgressHas(s, g, st, b)
  BY <1>3
<1>. HIDE DEF s
<1>5. EgressHas(Response!Rsp, g, st, b)'
  BY <1>0, <1>4, EgressBecomes
<1>6. Written' = <<>>
  <2>1. \A q : SubSeq(q, 1, 0) = <<>>
    BY SubSeqEmpty
  <2>. QED  BY <1>0, <1>1, <2>1 DEF Written
<1>7. AtHandler'
  BY <1>0, <1>1, <1>4, <1>5, <1>6 DEF AtHandler, HandlersHeaders, Response!HeadersOf
<1>. QED  BY <1>0, <1>1, <1>7 DEF ResponseInv, Recorded

LEMMA HandlerWriteInv ==
  ASSUME ResponseInv, NEW n \in 1..Limit + 1, Response!HandlerWrite(n)
  PROVE  ResponseInv'
<1>. DEFINE x == SubSeq(request.body, produced + 1, produced + n)
            s == Response!EgressWrite(Response!Rsp, x)
<1>0. /\ phase = "handler" /\ phase' = "handler" /\ cfg' = cfg /\ request' = request /\ produced' = produced + n
      /\ outcome' = outcome /\ Response!Becomes(s) /\ produced + n <= Len(request.body)
  BY DEF Response!HandlerWrite, Response!Same
<1>1. PICK st, b, h : /\ EgressHas(Response!Rsp, h, st, b)
                      /\ st = request.status /\ b = Written /\ h = HandlersHeaders
  BY <1>0 DEF ResponseInv, AtHandler
<1>2. /\ request \in Response!Requests /\ produced \in Nat /\ n \in Nat /\ 0 < n
      /\ request.body \in Seq({"plain", "leak"})
  BY RequestFacts, PathConstants DEF ResponseInv
<1>3. /\ b \in Seq({"plain", "leak"}) /\ x \in Seq({"plain", "leak"})
      /\ Len(b) = produced /\ Len(x) = n
      /\ b \o x = SubSeq(request.body, 1, produced + n)
  BY <1>0, <1>1, <1>2, PrefixGrows DEF Written
<1>. HIDE DEF x
<1>4. Fits(h, b, x)
  <2>1. /\ h \in Headers
        /\ h.length = None \/ Len(request.body) <= h.length
    BY <1>1, <1>2, HeadersOfFacts DEF HandlersHeaders
  <2>2. h.length \in Nat \cup {None} /\ Len(request.body) \in Nat
    BY <1>2, <2>1, LenProperties DEF Headers, Response!HeaderType
  <2>. QED  BY <1>0, <1>2, <1>3, <2>1, <2>2 DEF Fits
<1>5. PICK w : w = b \o x /\ EgressHas(s, h, st, w)
  BY <1>1, <1>3, <1>4, EgressWriteHas
<1>. HIDE DEF s
<1>6. EgressHas(Response!Rsp, h, st, w)'
  BY <1>0, <1>5, EgressBecomes
<1>7. w = Written' /\ h = HandlersHeaders'
  BY <1>0, <1>1, <1>3, <1>5 DEF Written, HandlersHeaders, Response!HeadersOf
<1>8. AtHandler'
  BY <1>0, <1>1, <1>6, <1>7 DEF AtHandler, ResponseInv
<1>9. produced' \in Nat /\ produced' <= Len(request'.body)
  BY <1>0, <1>2
<1>. QED  BY <1>0, <1>8, <1>9 DEF ResponseInv, Recorded

\* What egress sends on once the handler is done.
LEMMA ReleasedHas ==
  ASSUME NEW S, NEW r, NEW h, NEW e, NEW st, NEW b \in Seq(S), Fits(h, <<>>, b),
         Untold(r, h, e, Capture(None, <<>>, No)), r["egress"].status = st, r["egress"].buffer = b
  PROVE  EncryptHas(Response!Released(r), h, e, st, b)
<1>. DEFINE begun == IF st # None THEN Response!EncryptHeader(r, st) ELSE r
<1>1. EncryptHas(begun, h, e, st, <<>>)
  BY EncryptHeaderHas, EncryptFresh
<1>2. Response!Released(r) = Response!EncryptWrite(begun, b)
  BY DEF Response!Released
<1>. HIDE DEF begun
<1>3. <<>> \in Seq(S) /\ <<>> \o b = b
  BY GrowsAlways
<1>4. EncryptHas(Response!EncryptWrite(begun, b), h, e, st, <<>> \o b)
  BY <1>1, <1>3, EncryptWriteHas
<1>. QED  BY <1>2, <1>3, <1>4

LEMMA DenialHas ==
  ASSUME NEW r, NEW h \in Headers, NEW e, Untold(r, h, e, Capture(None, <<>>, No))
  PROVE  \E j \in Headers : /\ EncryptHas(Response!Denial(r), j, e, 403, <<"json">>)
                            /\ j.length = None /\ j.label = "none" /\ ~j.html
<1>. DEFINE g == Response!BareHeaders(h)
            s == [r EXCEPT !.headers = Response!BareHeaders(@)]
<1>1. Untold(s, g, e, Capture(None, <<>>, No))
  <2>1. r.headers = h
    BY UntoldHeaders
  <2>2. Untold([r EXCEPT !.headers = g], g, e, Capture(None, <<>>, No))
    BY UntoldHeaders
  <2>. QED  BY <2>1, <2>2
<1>2. g \in Headers /\ g.length = None /\ g.label = "none"
  BY BareHeadersFacts
<1>3. Response!Denial(r) = Response!EncryptJson(s, 403, "json")
  BY DEF Response!Denial
<1>. HIDE DEF g, s
<1>4. EncryptHas(Response!EncryptJson(s, 403, "json"), Response!JsonHeaders(g), e, 403, <<"json">>)
  BY <1>1, <1>2, EncryptJsonHas, Lines
<1>. QED  BY <1>2, <1>3, <1>4, JsonHeadersFacts

LEMMA BodyFits ==
  ASSUME NEW q \in Response!Requests
  PROVE  Fits(Response!HeadersOf(q), <<>>, q.body)
<1>1. Response!HeadersOf(q).length \in Nat \cup {None}
  BY HeadersOfFacts DEF Headers, Response!HeaderType
<1>2. Len(q.body) \in Nat
  BY RequestFacts, LenProperties
<1>3. Response!HeadersOf(q).length = None \/ Len(q.body) <= Response!HeadersOf(q).length
  BY HeadersOfFacts
<1>. QED  BY <1>1, <1>2, <1>3, EmptyFits DEF Fits

LEMMA HeadIsSeq ==
  ASSUME NEW S, NEW b \in Seq(S)
  PROVE  Response!FirstUnits(b, Limit) \in Seq(S)
<1>. DEFINE k == IF Limit < Len(b) THEN Limit ELSE Len(b)
<1>1. k \in Nat /\ k <= Len(b)
  BY PathConstants, LenProperties
<1>. HIDE DEF k
<1>2. \A j \in 1..k : b[j] \in S
  BY <1>1, LenProperties
<1>3. SubSeq(b, 1, k) \in Seq(S)
  BY <1>1, <1>2, SubSeqProperties
<1>. QED  BY <1>3 DEF k, Response!FirstUnits

LEMMA LimitOrLess ==
  ASSUME NEW S, NEW b \in Seq(S), Len(b) <= Limit
  PROVE  Scanned(b) = b
<1>1. Len(b) \in Nat /\ Limit \in Nat
  BY PathConstants, LenProperties
<1>2. Scanned(b) = SubSeq(b, 1, Len(b))
  BY <1>1 DEF Scanned, Response!FirstUnits
<1>. QED  BY <1>2, SubSeqFull

LEMMA OutcomeFlags ==
  ASSUME outcome \in OutcomeType, NEW x \in BOOLEAN
  PROVE  /\ [outcome EXCEPT !.denied = x] \in OutcomeType
         /\ [outcome EXCEPT !.denied = x].denied = x
         /\ [outcome EXCEPT !.denied = x].panicked = outcome.panicked
         /\ [outcome EXCEPT !.denied = x].marked = outcome.marked
         /\ [outcome EXCEPT !.denied = x].refused = outcome.refused
         /\ [outcome EXCEPT !.marked = x] \in OutcomeType
         /\ [outcome EXCEPT !.marked = x].marked = x
         /\ [outcome EXCEPT !.marked = x].panicked = outcome.panicked
         /\ [outcome EXCEPT !.marked = x].denied = outcome.denied
         /\ [outcome EXCEPT !.marked = x].refused = outcome.refused
BY DEF OutcomeType

LEMMA RspParts ==
  ASSUME NEW h, NEW e, NEW n, NEW f, NEW c, Response!Rsp = Wrap(h, e, n, f, c)
  PROVE  headers = h /\ egress = e /\ encrypt = n /\ front = f /\ conn = c
BY DEF Response!Rsp, Wrap

LEMMA EgressFinishInv ==
  ASSUME ResponseInv, Response!EgressFinish
  PROVE  ResponseInv'
<1>. DEFINE leak == Response!Leaks(Response!ForScan(egress.buffer, request.coding, headers.label))
<1>0. /\ phase = "egress" /\ phase' = "encrypt" /\ cfg' = cfg /\ request' = request /\ produced' = produced
      /\ IF ~cfg.egress THEN Response!Becomes(Response!Rsp) /\ outcome' = outcome
         ELSE /\ outcome' = [outcome EXCEPT !.denied = leak]
              /\ Response!Becomes(IF egress.passthrough THEN Response!Rsp
                     ELSE IF leak THEN Response!Denial(Response!Rsp) ELSE Response!Released(Response!Rsp))
  BY DEF Response!EgressFinish, Response!Goto, Response!Same
<1>1. PICK st, b, h : /\ EgressHas(Response!Rsp, h, st, b)
                      /\ st = request.status /\ b = request.body /\ h = HandlersHeaders
  BY <1>0 DEF ResponseInv, AtEgress
<1>2. ~outcome.panicked /\ ~outcome.refused /\ ~outcome.marked /\ outcome \in OutcomeType
  BY <1>0 DEF ResponseInv, AtEgress
<1>3. /\ request \in Response!Requests
      /\ b \in Seq({"plain", "leak"}) /\ Len(b) \in Nat /\ Limit \in Nat
      /\ h \in Headers /\ Fits(h, <<>>, b)
  BY <1>1, RequestFacts, HeadersOfFacts, BodyFits, PathConstants, LenProperties DEF ResponseInv, HandlersHeaders
<1>4. leak \in BOOLEAN
  BY DEF Response!Leaks
<1>5. /\ outcome' \in OutcomeType
      /\ ~outcome'.panicked /\ ~outcome'.refused /\ ~outcome'.marked
      /\ cfg.egress => outcome'.denied = leak
  <2>. HIDE DEF leak
  <2>. QED  BY <1>0, <1>2, <1>4, OutcomeFlags
<1>6. Response!Rsp["egress"] = egress
  BY DEF Response!Rsp
<1>7. cfg.egress => egress.buffer = Scanned(b) /\ headers = h
  <2>1. CASE cfg.egress /\ Len(b) <= Limit
    <3>1. Untold(Response!Rsp, h, Capture(st, b, No), Capture(None, <<>>, No))
      BY <1>1, <1>3, <2>1 DEF EgressHas
    <3>2. Response!Rsp["egress"].buffer = b /\ headers = h
      BY <3>1, UntoldWrapped, EgressParts, RspParts
    <3>. QED  BY <1>3, <1>6, <2>1, <3>2, LimitOrLess
  <2>2. CASE cfg.egress /\ Len(b) > Limit
    <3>1. EncryptHas(Response!Rsp, h, Capture(st, Scanned(b), Yes), st, b)
      BY <1>1, <1>3, <2>2 DEF EgressHas
    <3>2. Response!Rsp["egress"].buffer = Scanned(b) /\ headers = h
      BY <3>1, EncryptWrapped, EgressParts, RspParts
    <3>. QED  BY <1>6, <3>2
  <2>. QED  BY <1>3, <2>1, <2>2
<1>11. cfg.egress => (leak <=> HeadLeaks) /\ (Len(b) <= Limit => (HeadLeaks <=> BodyLeaks))
  <2>1. h.label = request.label
    BY <1>1, <1>3, HeadersOfFacts DEF HandlersHeaders
  <2>2. Len(b) <= Limit => Scanned(request.body) = request.body
    BY <1>1, <1>3, LimitOrLess
  <2>. QED  BY <1>1, <1>7, <2>1, <2>2 DEF HeadLeaks, BodyLeaks
<1>. HIDE DEF leak
<1>8. Recorded'
  BY <1>0, <1>5, <1>11, LeaksStay DEF Recorded
<1>9. Own(st, b, h)' <=> LeakFree
  BY <1>0, <1>1, <1>5, LeaksStay DEF Own, LeakFree, HandlersHeaders, Response!HeadersOf
<1>10. AtEncrypt'
  <2>1. CASE ~cfg.egress
    <3>1. EncryptHas(Response!Rsp, h, Capture(None, <<>>, No), st, b)
      BY <1>1, <2>1 DEF EgressHas
    <3>2. EncryptHas(Response!Rsp, h, Capture(None, <<>>, No), st, b)'
      BY <1>0, <2>1, <3>1, EncryptBecomes
    <3>3. LeakFree
      BY <2>1 DEF LeakFree
    <3>. QED  BY <1>5, <1>9, <3>2, <3>3 DEF AtEncrypt
  <2>2. CASE cfg.egress /\ Len(b) > Limit
    <3>1. EncryptHas(Response!Rsp, h, Capture(st, Scanned(b), Yes), st, b)
      BY <1>1, <1>3, <2>2 DEF EgressHas
    <3>2. egress.passthrough = TRUE
      <4>1. Response!Rsp["egress"].passthrough = Yes
        BY <3>1, EncryptWrapped, EgressParts
      <4>. QED  BY <1>6, <4>1, YesNo
    <3>3. EncryptHas(Response!Rsp, h, Capture(st, Scanned(b), Yes), st, b)'
      <4>1. Response!Becomes(Response!Rsp)
        BY <1>0, <2>2, <3>2
      <4>. QED  BY <1>0, <3>1, <4>1, EncryptBecomes
    <3>4. LeakFree
      BY <1>1, <1>3, <2>2 DEF LeakFree
    <3>. QED  BY <1>5, <1>9, <3>3, <3>4 DEF AtEncrypt
  <2>3. CASE cfg.egress /\ Len(b) <= Limit
    <3>. DEFINE e == Capture(st, b, No)
    <3>1. Untold(Response!Rsp, h, e, Capture(None, <<>>, No))
      BY <1>1, <1>3, <2>3 DEF EgressHas
    <3>2. /\ Response!Rsp["egress"].status = st /\ Response!Rsp["egress"].buffer = b
          /\ egress.passthrough = FALSE /\ egress.buffer = b
      <4>1. /\ Response!Rsp["egress"].status = st /\ Response!Rsp["egress"].buffer = b
            /\ Response!Rsp["egress"].passthrough = No
        BY <3>1, UntoldWrapped, EgressParts
      <4>. QED  BY <1>6, <4>1, YesNo
    <3>. HIDE DEF e
    <3>3. CASE leak
      <4>1. Response!Becomes(Response!Denial(Response!Rsp))
        BY <1>0, <2>3, <3>2, <3>3
      <4>2. PICK j \in Headers : /\ EncryptHas(Response!Denial(Response!Rsp), j, e, 403, <<"json">>)
                                 /\ j.length = None /\ j.label = "none" /\ ~j.html
        BY <1>3, <3>1, DenialHas
      <4>3. PICK d : d = e
        OBVIOUS
      <4>4. EncryptHas(Response!Rsp, j, d, 403, <<"json">>)'
        BY <1>0, <4>1, <4>2, <4>3, EncryptBecomes
      <4>5. Servers(403, <<"json">>, j)' /\ ~Html(j)'
        BY <1>5, <4>2 DEF Servers, Html
      <4>. QED  BY <1>5, <4>4, <4>5 DEF AtEncrypt
    <3>4. CASE ~leak
      <4>1. Response!Becomes(Response!Released(Response!Rsp))
        BY <1>0, <2>3, <3>2, <3>4
      <4>2. EncryptHas(Response!Released(Response!Rsp), h, e, st, b)
        BY <1>3, <3>1, <3>2, ReleasedHas
      <4>3. PICK d : d = e
        OBVIOUS
      <4>4. EncryptHas(Response!Rsp, h, d, st, b)'
        BY <1>0, <4>1, <4>2, <4>3, EncryptBecomes
      <4>5. LeakFree
        BY <1>11, <2>3, <3>4 DEF LeakFree
      <4>. QED  BY <1>5, <1>9, <4>4, <4>5 DEF AtEncrypt
    <3>. QED  BY <3>3, <3>4
  <2>. QED  BY <1>3, <2>1, <2>2, <2>3
<1>. QED  BY <1>0, <1>5, <1>8, <1>10 DEF ResponseInv

LEMMA WiderSeq ==
  ASSUME NEW S, NEW T, S \subseteq T, NEW s \in Seq(S)
  PROVE  s \in Seq(T)
<1>1. Len(s) \in Nat /\ s \in [1..Len(s) -> T]
  BY LenProperties
<1>. QED  BY <1>1

LEMMA FrontFresh ==
  ASSUME NEW r, NEW h, NEW e, NEW n, NEW st, Untold(r, h, e, n)
  PROVE  FrontHas(IF st # None THEN Response!FrontHeader(r, st) ELSE r, h, e, n, st, <<>>)
BY FrontHeaderTells DEF FrontHas

LEMMA EncryptFinishInv ==
  ASSUME ResponseInv, Response!EncryptFinish
  PROVE  ResponseInv'
<1>. DEFINE marks == Response!CanObfuscate(Response!Rsp) /\ headers.html
            r == IF marks THEN [Response!Rsp EXCEPT !.headers = Response!MarkedHeaders(@)] ELSE Response!Rsp
            s == IF encrypt.status # None THEN Response!FrontHeader(r, encrypt.status) ELSE r
            body == IF marks THEN Append(encrypt.buffer, "mark") ELSE encrypt.buffer
<1>0. /\ phase = "encrypt" /\ phase' = "detector" /\ cfg' = cfg /\ request' = request /\ produced' = produced
      /\ IF ~cfg.encrypt \/ encrypt.passthrough THEN Response!Becomes(Response!Rsp) /\ outcome' = outcome
         ELSE Response!Becomes(Response!FrontWrite(s, body)) /\ outcome' = [outcome EXCEPT !.marked = marks]
  BY DEF Response!EncryptFinish, Response!Goto, Response!Same
<1>1. PICK st, b, h, e : /\ EncryptHas(Response!Rsp, h, e, st, b)
                         /\ Own(st, b, h) \/ (Servers(st, b, h) /\ ~Html(h))
  BY <1>0 DEF ResponseInv, AtEncrypt
<1>2. ~outcome.panicked /\ ~outcome.marked /\ outcome \in OutcomeType
  BY <1>0 DEF ResponseInv, AtEncrypt
<1>3. PICK S : b \in Seq(S) /\ Len(b) \in Nat
  <2>1. CASE Own(st, b, h)
    BY <2>1, RequestFacts, LenProperties DEF Own, ResponseInv
  <2>2. CASE Servers(st, b, h)
    <3>1. \A u \in {"json", "alert"} : <<u>> \in Seq({"json", "alert"}) /\ Len(<<u>>) = 1
      OBVIOUS
    <3>2. b = <<"json">> \/ b = <<"alert">>
      BY <2>2 DEF Servers
    <3>3. b \in Seq({"json", "alert"}) /\ Len(b) \in Nat
      BY <3>1, <3>2
    <3>. QED  BY <3>3
  <2>. QED  BY <1>1, <2>1, <2>2
<1>4. h \in Headers /\ Fits(h, <<>>, b)
  <2>1. CASE Own(st, b, h)
    BY <2>1, HeadersOfFacts, BodyFits DEF Own, ResponseInv, HandlersHeaders
  <2>2. CASE Servers(st, b, h)
    BY <2>2 DEF Servers, Fits
  <2>. QED  BY <1>1, <2>1, <2>2
<1>5. Limit \in Nat
  BY PathConstants
<1>6. CASE ~cfg.encrypt \/ (cfg.encrypt /\ Len(b) > Limit)
  <2>1. PICK n : FrontHas(Response!Rsp, h, e, n, st, b) /\ (cfg.encrypt => encrypt.passthrough)
    <3>1. CASE ~cfg.encrypt
      BY <1>1, <3>1 DEF EncryptHas
    <3>2. CASE cfg.encrypt /\ Len(b) > Limit
      <4>. DEFINE n == Capture(st, Scanned(b), Yes)
      <4>1. Told(Response!Rsp, h, e, n, st, b)
        BY <1>1, <1>3, <1>5, <3>2 DEF EncryptHas
      <4>2. Response!Rsp["encrypt"].passthrough = Yes
        BY <4>1, ToldWrapped, EncryptParts
      <4>3. Response!Rsp["encrypt"] = encrypt
        BY DEF Response!Rsp
      <4>4. encrypt.passthrough = TRUE
        BY <4>2, <4>3, YesNo
      <4>. HIDE DEF n
      <4>. QED  BY <4>1, <4>4 DEF FrontHas
    <3>. QED  BY <1>6, <3>1, <3>2
  <2>2. Response!Becomes(Response!Rsp) /\ outcome' = outcome
    BY <1>0, <1>6, <2>1
  <2>3. FrontHas(Response!Rsp, h, e, n, st, b)'
    BY <1>0, <2>1, <2>2, FrontBecomes
  <2>4. (Own(st, b, h) \/ Servers(st, b, h))'
    BY <1>0, <1>1, <2>2, LeaksStay DEF Own, Servers, LeakFree, HandlersHeaders, Response!HeadersOf
  <2>5. AtDetector'
    BY <1>2, <2>2, <2>3, <2>4 DEF AtDetector
  <2>. QED  BY <1>0, <2>2, <2>5, LeaksStay DEF ResponseInv, Recorded
<1>7. CASE cfg.encrypt /\ Len(b) <= Limit
  <2>. DEFINE n == Capture(st, b, No)
              g == IF marks THEN Response!MarkedHeaders(h) ELSE h
              w == IF marks THEN Append(b, "mark") ELSE b
  <2>1. Untold(Response!Rsp, h, e, n)
    BY <1>1, <1>3, <1>5, <1>7 DEF EncryptHas
  <2>2. /\ encrypt.status = st /\ encrypt.buffer = b /\ encrypt.passthrough = FALSE
        /\ headers = h
    <3>1. /\ Response!Rsp["encrypt"].status = st /\ Response!Rsp["encrypt"].buffer = b
          /\ Response!Rsp["encrypt"].passthrough = No
      BY <2>1, UntoldWrapped, EncryptParts
    <3>2. Response!Rsp["encrypt"] = encrypt
      BY DEF Response!Rsp
    <3>3. headers = h
      <4>. HIDE DEF n
      <4>. QED  BY <2>1, UntoldWrapped, RspParts
    <3>. QED  BY <3>1, <3>2, <3>3, YesNo
  <2>. HIDE DEF n
  <2>3. body = w
    BY <2>2
  <2>4. marks \in BOOLEAN
    BY DEF Response!CanObfuscate, Headers, Response!HeaderType
  <2>5. marks => h.html /\ h.label = "none" /\ b # <<>>
    BY <2>2 DEF Response!CanObfuscate, Response!Rsp
  <2>. HIDE DEF marks, body
  <2>6. Untold(r, g, e, n)
    <3>1. Response!Rsp.headers = h
      BY <2>1, UntoldHeaders
    <3>2. Untold([Response!Rsp EXCEPT !.headers = Response!MarkedHeaders(h)], Response!MarkedHeaders(h), e, n)
      BY <2>1, UntoldHeaders
    <3>. QED  BY <2>1, <3>1, <3>2
  <2>. HIDE DEF r
  <2>7. FrontHas(s, g, e, n, st, <<>>)
    <3>. HIDE DEF g
    <3>. QED  BY <2>2, <2>6, FrontFresh
  <2>8. Fits(g, <<>>, w)
    <3>1. CASE marks
      BY <1>4, <3>1, MarkedHeadersFacts DEF Fits
    <3>2. CASE ~marks
      BY <1>4, <3>2
    <3>. QED  BY <3>1, <3>2
  <2>9. <<>> \o w = w
    <3>1. b \in Seq(S \cup {"mark"})
      BY <1>3, WiderSeq
    <3>2. w \in Seq(S \cup {"mark"})
      BY <3>1
    <3>. HIDE DEF w
    <3>. QED  BY <3>2, GrowsAlways
  <2>. HIDE DEF s, g, w
  <2>10. Told(Response!FrontWrite(s, w), g, e, n, st, w)
    <3>1. Told(Response!FrontWrite(s, w), g, e, n, st, <<>> \o w)
      BY <2>7, <2>8, FrontWriteTells
    <3>. QED  BY <2>9, <3>1
  <2>11. Response!Becomes(Response!FrontWrite(s, w)) /\ outcome' = [outcome EXCEPT !.marked = marks]
    BY <1>0, <1>7, <2>2, <2>3
  <2>12. PICK g1, n1, w1 : /\ g1 = g /\ n1 = n /\ w1 = w
                           /\ FrontHas(Response!FrontWrite(s, w), g1, e, n1, st, w1)
    BY <2>10 DEF FrontHas
  <2>13. FrontHas(Response!Rsp, g1, e, n1, st, w1)'
    BY <1>0, <2>11, <2>12, FrontBecomes
  <2>14. /\ outcome' \in OutcomeType /\ outcome'.marked = marks /\ ~outcome'.panicked
         /\ outcome'.denied = outcome.denied /\ outcome'.refused = outcome.refused
    BY <1>2, <2>4, <2>11, OutcomeFlags
  <2>15. (Own(st, w1, g1) \/ Marked(st, w1, g1) \/ Servers(st, w1, g1))'
    <3>1. CASE marks
      <4>1. Own(st, b, h)
        BY <1>1, <2>5, <3>1 DEF Html
      <4>2. /\ g1 \in Headers /\ g1.length = None /\ g1.label = "none" /\ g1.tag # "strong"
        BY <1>4, <2>5, <2>12, <3>1, MarkedHeadersFacts DEF g
      <4>3. w1 = Append(request.body, "mark")
        BY <2>12, <3>1, <4>1 DEF Own, w
      <4>. QED  BY <1>0, <4>1, <4>2, <4>3, LeaksStay DEF Own, Marked, LeakFree
    <3>2. CASE ~marks
      <4>1. w1 = b /\ g1 = h
        BY <2>12, <3>2 DEF g, w
      <4>. QED  BY <1>0, <1>1, <2>14, <3>2, <4>1, LeaksStay
                DEF Own, Servers, LeakFree, HandlersHeaders, Response!HeadersOf
    <3>. QED  BY <3>1, <3>2
  <2>16. AtDetector'
    BY <2>13, <2>14, <2>15 DEF AtDetector
  <2>17. Recorded'
    <3>1. (outcome'.denied <=> outcome.denied) /\ (outcome'.refused <=> outcome.refused)
      BY <2>14
    <3>2. ~outcome.panicked /\ cfg.egress /\ ~outcome.refused =>
            (outcome.denied <=> HeadLeaks)
      BY <1>0 DEF ResponseInv, Recorded
    <3>3. HeadLeaks' <=> HeadLeaks
      BY <1>0, LeaksStay
    <3>. QED  BY <1>0, <1>2, <3>1, <3>2, <3>3 DEF Recorded
  <2>. QED  BY <1>0, <2>14, <2>16, <2>17 DEF ResponseInv
<1>. QED  BY <1>3, <1>5, <1>6, <1>7

LEMMA OutcomeEnds ==
  ASSUME outcome \in OutcomeType, NEW x \in Nat
  PROVE  /\ [outcome EXCEPT !.alerted = TRUE] \in OutcomeType
         /\ [outcome EXCEPT !.alerted = TRUE].panicked = outcome.panicked
         /\ [outcome EXCEPT !.alerted = TRUE].marked = outcome.marked
         /\ [outcome EXCEPT !.alerted = TRUE].denied = outcome.denied
         /\ [outcome EXCEPT !.alerted = TRUE].refused = outcome.refused
         /\ [outcome EXCEPT !.logged = x] \in OutcomeType
         /\ [outcome EXCEPT !.logged = x].logged = x
         /\ [outcome EXCEPT !.logged = x].panicked = outcome.panicked
         /\ [outcome EXCEPT !.logged = x].marked = outcome.marked
         /\ [outcome EXCEPT !.logged = x].denied = outcome.denied
         /\ [outcome EXCEPT !.logged = x].refused = outcome.refused
BY DEF OutcomeType

\* What has been recorded stays so where the flags do.
LEMMA RecordedStays ==
  ASSUME Recorded, cfg' = cfg, request' = request, ~outcome.panicked,
         phase \in {"encrypt", "detector", "logging"},
         outcome'.denied = outcome.denied, outcome'.refused = outcome.refused
  PROVE  Recorded'
<1>1. (outcome'.denied <=> outcome.denied) /\ (outcome'.refused <=> outcome.refused)
  OBVIOUS
<1>2. cfg.egress /\ ~outcome.refused => (outcome.denied <=> HeadLeaks)
  BY DEF Recorded
<1>3. HeadLeaks' <=> HeadLeaks
  BY LeaksStay
<1>. QED  BY <1>1, <1>2, <1>3 DEF Recorded

\* Where nothing at all has come to the front, the handler has said nothing of a body.
LEMMA NothingYet ==
  ASSUME ResponseInv, NEW st, NEW b, NEW h, st = None, b = <<>>,
         Own(st, b, h) \/ Marked(st, b, h) \/ Servers(st, b, h)
  PROVE  h \in Headers /\ h.length = None /\ h.label = "none" /\ ~outcome.marked
<1>1. ~Servers(st, b, h)
  BY Lines DEF Servers
<1>2. ~Marked(st, b, h)
  <2>1. request.body \in Seq({"plain", "leak", "mark"})
    BY RequestFacts, WiderSeq DEF ResponseInv
  <2>2. Append(request.body, "mark") # <<>>
    BY <2>1
  <2>. QED  BY <2>2 DEF Marked
<1>. QED  BY <1>1, <1>2, RequestFacts, HeadersOfFacts DEF Own, HandlersHeaders, ResponseInv

LEMMA DetectorFinishInv ==
  ASSUME ResponseInv, Response!DetectorFinish
  PROVE  ResponseInv'
<1>0. /\ phase = "detector" /\ phase' = "logging" /\ cfg' = cfg /\ request' = request /\ produced' = produced
      /\ \/ Response!Becomes(Response!Rsp) /\ outcome' = outcome
         \/ Response!Becomes(Response!Alert(Response!Rsp)) /\ outcome' = [outcome EXCEPT !.alerted = TRUE]
  BY DEF Response!DetectorFinish, Response!Goto, Response!Same
<1>1. PICK st, b, h, e, n : /\ FrontHas(Response!Rsp, h, e, n, st, b)
                            /\ Own(st, b, h) \/ Marked(st, b, h) \/ Servers(st, b, h)
  BY <1>0 DEF ResponseInv, AtDetector
<1>2. ~outcome.panicked /\ outcome \in OutcomeType
  BY <1>0 DEF ResponseInv, AtDetector
<1>3. /\ outcome' \in OutcomeType /\ ~outcome'.panicked /\ outcome'.marked = outcome.marked
      /\ outcome'.denied = outcome.denied /\ outcome'.refused = outcome.refused
  BY <1>0, <1>2, OutcomeEnds
<1>4. Recorded'
  BY <1>0, <1>2, <1>3, RecordedStays DEF ResponseInv
<1>5. CASE Response!Becomes(Response!Rsp)
  <2>1. FrontHas(Response!Rsp, h, e, n, st, b)'
    BY <1>0, <1>1, <1>5, FrontBecomes
  <2>2. (Own(st, b, h) \/ Marked(st, b, h) \/ Servers(st, b, h))'
    BY <1>0, <1>1, <1>3, LeaksStay DEF Own, Marked, Servers, LeakFree, HandlersHeaders, Response!HeadersOf
  <2>3. AtDetector'
    BY <1>3, <2>1, <2>2 DEF AtDetector
  <2>. QED  BY <1>0, <1>3, <1>4, <2>3 DEF ResponseInv
<1>6. CASE Response!Becomes(Response!Alert(Response!Rsp))
  <2>0. Response!Rsp.front = front
    BY DEF Response!Rsp
  <2>1. CASE front.wroteHeader
    <3>1. Response!Alert(Response!Rsp) = Response!Rsp
      BY <2>0, <2>1 DEF Response!Alert
    <3>. QED  BY <1>5, <1>6, <3>1
  <2>2. CASE ~front.wroteHeader
    <3>1. Response!Alert(Response!Rsp) = Response!FrontJson(Response!Rsp, 429, "alert")
      BY <2>0, <2>2 DEF Response!Alert
    <3>2. ~Told(Response!Rsp, h, e, n, st, b)
      <4>1. SUFFICES ASSUME Told(Response!Rsp, h, e, n, st, b)
                     PROVE  FALSE
        OBVIOUS
      <4>2. front = Response!Noted(Said(st))
        BY <4>1, RspParts DEF Told
      <4>. QED  BY <2>2, <4>2, WriterParts
    <3>3. st = None /\ b = <<>> /\ Untold(Response!Rsp, h, e, n)
      BY <1>1, <3>2 DEF FrontHas
    <3>4. h \in Headers /\ h.length = None /\ h.label = "none" /\ ~outcome.marked
      BY <1>1, <3>3, NothingYet
    <3>5. Told(Response!FrontJson(Response!Rsp, 429, "alert"), Response!JsonHeaders(h), e, n, 429, <<"alert">>)
      BY <3>3, <3>4, FrontJsonTells, Lines
    <3>6. PICK j : j = Response!JsonHeaders(h)
      OBVIOUS
    <3>7. FrontHas(Response!Rsp, j, e, n, 429, <<"alert">>)'
      BY <1>0, <1>6, <3>1, <3>5, <3>6, FrontBecomes DEF FrontHas
    <3>8. Servers(429, <<"alert">>, j)'
      BY <1>3, <3>4, <3>6, JsonHeadersFacts DEF Servers
    <3>9. AtDetector'
      BY <1>3, <3>7, <3>8 DEF AtDetector
    <3>. QED  BY <1>0, <1>3, <1>4, <3>9 DEF ResponseInv
  <2>. QED  BY <2>1, <2>2
<1>. QED  BY <1>0, <1>5, <1>6

LEMMA LoggingFinishInv ==
  ASSUME ResponseInv, Response!LoggingFinish
  PROVE  ResponseInv'
<1>0. /\ phase = "logging" /\ phase' = "done" /\ cfg' = cfg /\ request' = request /\ produced' = produced
      /\ outcome' = [outcome EXCEPT !.logged = front.status]
      /\ conn' = Response!ConnHeader(Response!Rsp, Ok).conn
  BY DEF Response!LoggingFinish, Response!Goto, Response!Same, Ok
<1>1. PICK st, b, h, e, n : /\ FrontHas(Response!Rsp, h, e, n, st, b)
                            /\ Own(st, b, h) \/ Marked(st, b, h) \/ Servers(st, b, h)
  BY <1>0 DEF ResponseInv, AtDetector
<1>2. ~outcome.panicked /\ outcome \in OutcomeType
  BY <1>0 DEF ResponseInv, AtDetector
<1>3. conn' = Conn(Said(st), h, Shown(st, b)) /\ front.status = Said(st)
  <2>1. CASE Told(Response!Rsp, h, e, n, st, b)
    <3>1. Said(st) # None
      BY Lines DEF Said
    <3>2. Response!ConnHeader(Response!Rsp, Ok) = Response!Rsp
      BY <2>1, <3>1, ConnHeaderAgain DEF Told
    <3>3. front = Response!Noted(Said(st)) /\ conn = Conn(Said(st), h, Shown(st, b))
      BY <2>1, RspParts DEF Told
    <3>4. Response!Rsp.conn = conn
      BY DEF Response!Rsp
    <3>. QED  BY <1>0, <3>2, <3>3, <3>4, WriterParts
  <2>2. CASE st = None /\ b = <<>> /\ Untold(Response!Rsp, h, e, n)
    <3>1. Response!ConnHeader(Response!Rsp, Ok) = Wrap(h, e, n, Response!NewWriter, Conn(Ok, h, <<>>))
      BY <2>2, ConnHeaderFirst DEF Untold
    <3>2. Wrap(h, e, n, Response!NewWriter, Conn(Ok, h, <<>>)).conn = Conn(Ok, h, <<>>)
      BY DEF Wrap
    <3>3. front = Response!NewWriter
      BY <2>2, RspParts DEF Untold
    <3>4. Said(st) = Ok /\ Shown(st, b) = <<>>
      BY <2>2 DEF Said, Shown
    <3>. QED  BY <1>0, <3>1, <3>2, <3>3, <3>4, WriterParts
  <2>. QED  BY <1>1, <2>1, <2>2 DEF FrontHas
<1>4. Said(st) \in Nat
  <2>1. CASE st = request.status
    BY <2>1, RequestFacts DEF Said, Ok, ResponseInv
  <2>2. CASE st \in {403, 429}
    BY <2>2, Lines DEF Said
  <2>. QED  BY <1>1, <2>1, <2>2 DEF Own, Marked, Servers
<1>5. /\ outcome' \in OutcomeType /\ ~outcome'.panicked /\ outcome'.marked = outcome.marked
      /\ outcome'.denied = outcome.denied /\ outcome'.refused = outcome.refused
      /\ outcome'.logged = Said(st)
  BY <1>0, <1>2, <1>3, <1>4, OutcomeEnds
<1>6. Recorded'
  BY <1>0, <1>2, <1>5, RecordedStays DEF ResponseInv
<1>7. AtEnd'
  <2>1. conn' = Conn(Said(st), h, Shown(st, b)')
    BY <1>0, <1>3 DEF Shown, Response!BodyAllowed
  <2>2. (Own(st, b, h) \/ Marked(st, b, h) \/ Servers(st, b, h))'
    BY <1>0, <1>1, <1>5, LeaksStay DEF Own, Marked, Servers, LeakFree, HandlersHeaders, Response!HeadersOf
  <2>. QED  BY <1>5, <2>1, <2>2 DEF AtEnd
<1>. QED  BY <1>0, <1>5, <1>6, <1>7 DEF ResponseInv

LEMMA RecoverInv ==
  ASSUME ResponseInv, Response!Recover
  PROVE  ResponseInv'
<1>. DEFINE r == [Response!Rsp EXCEPT !.headers = Response!ErrorHeaders(@)]
            s == Response!ConnHeader(r, 500)
            t == Response!ConnWrite(s, <<"error">>)
<1>0. /\ phase = "recovery" /\ phase' = "done" /\ cfg' = cfg /\ request' = request /\ produced' = produced
      /\ outcome' = outcome /\ Response!Becomes(t)
  BY DEF Response!Recover, Response!Goto, Response!Same
<1>1. PICK st, b, h : EgressHas(Response!Rsp, h, st, b) /\ b = Written /\ h = HandlersHeaders
  BY <1>0 DEF ResponseInv, AtRecovery
<1>2. outcome.panicked
  BY <1>0 DEF ResponseInv, AtRecovery
<1>3. Recovered'
  <2>0. SUFFICES ASSUME cfg.egress \/ cfg.encrypt, Len(request.body) <= Limit
                 PROVE  /\ conn'.status = 500
                        /\ Response!BodyAllowed(500)' => conn'.sent = <<"error">>
                        /\ conn'.sent \in {<<>>, <<"error">>}
    BY <1>0 DEF Recovered
  <2>1. /\ b \in Seq({"plain", "leak"}) /\ Len(b) <= Limit /\ Len(b) \in Nat /\ Limit \in Nat
        /\ h \in Headers
    <3>1. request.body \in Seq({"plain", "leak"}) /\ produced \in Nat /\ produced <= Len(request.body)
      BY RequestFacts DEF ResponseInv
    <3>2. Len(request.body) \in Nat /\ Limit \in Nat
      BY <3>1, LenProperties, PathConstants
    <3>3. b \in Seq({"plain", "leak"}) /\ Len(b) = produced
      <4>1. \A i \in 1..produced : request.body[i] \in {"plain", "leak"}
        BY <3>1, <3>2, LenProperties
      <4>. QED  BY <1>1, <3>1, <4>1, SubSeqProperties DEF Written
    <3>. QED  BY <1>1, <2>0, <3>1, <3>2, <3>3, HeadersOfFacts DEF HandlersHeaders, ResponseInv
  <2>2. PICK e, n : Untold(Response!Rsp, h, e, n)
    BY <1>1, <2>0, <2>1 DEF EgressHas, EncryptHas
  <2>. DEFINE g == Response!ErrorHeaders(h)
  <2>3. Untold(r, g, e, n)
    <3>1. Response!Rsp.headers = h
      BY <2>2, UntoldHeaders
    <3>2. Untold([Response!Rsp EXCEPT !.headers = g], g, e, n)
      BY <2>2, UntoldHeaders
    <3>. QED  BY <3>1, <3>2
  <2>4. g.length = None
    BY <2>1, ErrorHeadersFacts
  <2>. HIDE DEF g, r
  <2>5. s = Wrap(g, e, n, Response!NewWriter, Conn(500, g, <<>>))
    BY <2>3, ConnHeaderFirst DEF Untold
  <2>. HIDE DEF s
  <2>6. Response!ConnHeader(s, Ok) = Wrap(g, e, n, Response!NewWriter, Conn(500, g, <<>>))
    BY <2>5, ConnHeaderAgain, Lines
  <2>7. <<>> \o <<"error">> = <<"error">> /\ Fits(g, <<>>, <<"error">>)
    BY <2>4 DEF Fits
  <2>8. CASE Response!BodyAllowed(500)
    <3>1. t = Wrap(g, e, n, Response!NewWriter, Conn(500, g, <<>> \o <<"error">>))
      <4>1. PICK c, x, y, z : c = 500 /\ x = <<"error">> /\ y = <<>> /\ z = s
        OBVIOUS
      <4>2. /\ Response!ConnHeader(z, Ok) = Wrap(g, e, n, Response!NewWriter, Conn(c, g, y))
            /\ Fits(g, y, x) /\ Response!BodyAllowed(c)
        BY <2>6, <2>7, <2>8, <4>1
      <4>3. Response!ConnWrite(z, x) = Wrap(g, e, n, Response!NewWriter, Conn(c, g, y \o x))
        BY <4>2, ConnWriteMore
      <4>. QED  BY <4>1, <4>3
    <3>2. conn' = Conn(500, g, <<"error">>)
      BY <1>0, <2>7, <3>1, BecomesWrapped
    <3>. QED  BY <3>2, WriterParts
  <2>9. CASE ~Response!BodyAllowed(500)
    <3>1. t = Wrap(g, e, n, Response!NewWriter, Conn(500, g, <<>>))
      BY <2>6, <2>9, ConnWriteNone
    <3>2. conn' = Conn(500, g, <<>>)
      BY <1>0, <3>1, BecomesWrapped
    <3>3. ~Response!BodyAllowed(500)'
      BY <1>0, <2>9 DEF Response!BodyAllowed
    <3>. QED  BY <3>2, <3>3, WriterParts
  <2>. QED  BY <2>8, <2>9
<1>. QED  BY <1>0, <1>2, <1>3 DEF ResponseInv, Recorded

LEMMA ResponseInitInv ==
  Response!Init => ResponseInv
<1>. SUFFICES ASSUME Response!Init PROVE ResponseInv
  OBVIOUS
<1>0. /\ request \in Response!Requests /\ phase = "gates" /\ produced = 0
      /\ headers = Response!NoHeaders /\ egress = Response!NewCapture /\ encrypt = Response!NewCapture
      /\ front = Response!NewWriter
      /\ conn = [status |-> None, headers |-> Response!NoHeaders, sent |-> <<>>]
      /\ outcome = [refused |-> FALSE, denied |-> FALSE, alerted |-> FALSE, panicked |-> FALSE,
                    marked |-> FALSE, logged |-> None]
  BY DEF Response!Init
<1>1. Response!NewCapture = Capture(None, <<>>, No)
  BY DEF Response!NewCapture, Capture, No
<1>2. conn = Conn(None, Response!NoHeaders, <<>>)
  BY <1>0 DEF Conn
<1>3. Untold(Response!Rsp, Response!NoHeaders, Capture(None, <<>>, No), Capture(None, <<>>, No))
  BY <1>0, <1>1, <1>2 DEF Untold, Wrap, Response!Rsp
<1>4. outcome \in OutcomeType /\ ~outcome.panicked /\ ~outcome.refused /\ ~outcome.marked
  BY <1>0 DEF OutcomeType
<1>5. AtGates
  BY <1>0, <1>3, <1>4 DEF AtGates
<1>6. Len(request.body) \in Nat
  BY <1>0, RequestFacts, LenProperties
<1>. QED  BY <1>0, <1>4, <1>5, <1>6 DEF ResponseInv, Recorded

LEMMA ResponseNextInv ==
  ResponseInv /\ [Response!Next]_(Response!vars) => ResponseInv'
<1>. SUFFICES ASSUME ResponseInv, [Response!Next]_(Response!vars) PROVE ResponseInv'
  OBVIOUS
<1>1. CASE Response!Refuse
  BY <1>1, RefuseInv
<1>2. CASE Response!Begin
  BY <1>2, BeginInv
<1>3. CASE \E n \in 1..Limit + 1 : Response!HandlerWrite(n)
  BY <1>3, HandlerWriteInv
<1>4. CASE Response!HandlerReturn
  BY <1>4, HandlerReturnInv
<1>5. CASE Response!HandlerPanic
  BY <1>5, HandlerPanicInv
<1>6. CASE Response!EgressFinish
  BY <1>6, EgressFinishInv
<1>7. CASE Response!EncryptFinish
  BY <1>7, EncryptFinishInv
<1>8. CASE Response!DetectorFinish
  BY <1>8, DetectorFinishInv
<1>9. CASE Response!LoggingFinish
  BY <1>9, LoggingFinishInv
<1>10. CASE Response!Recover
  BY <1>10, RecoverInv
<1>11. CASE UNCHANGED Response!vars
  <2>1. /\ cfg' = cfg /\ request' = request /\ phase' = phase /\ produced' = produced /\ outcome' = outcome
        /\ headers' = headers /\ egress' = egress /\ encrypt' = encrypt /\ front' = front /\ conn' = conn
    BY <1>11 DEF Response!vars
  <2>2. Response!Rsp' = Response!Rsp
    BY <2>1 DEF Response!Rsp
  <2>3. (AtGates => AtGates') /\ (AtEnd => AtEnd') /\ (Recovered => Recovered') /\ (Recorded => Recorded')
    BY <2>1, <2>2, LeaksStay DEF AtGates, AtEnd, Recovered, Recorded, Untold, Shown, Own, Marked, Servers,
         LeakFree, HandlersHeaders, Response!HeadersOf, Response!BodyAllowed
  <2>4. (AtHandler => AtHandler') /\ (AtEgress => AtEgress') /\ (AtRecovery => AtRecovery')
    BY <2>1, <2>2, HasAfter DEF AtHandler, AtEgress, AtRecovery, Written, HandlersHeaders, Response!HeadersOf
  <2>5. AtEncrypt => AtEncrypt'
    BY <2>1, <2>2, HasAfter, LeaksStay DEF AtEncrypt, Own, Servers, Html, LeakFree, HandlersHeaders, Response!HeadersOf
  <2>6. AtDetector => AtDetector'
    BY <2>1, <2>2, HasAfter, LeaksStay DEF AtDetector, Own, Marked, Servers, LeakFree, HandlersHeaders, Response!HeadersOf
  <2>. QED  BY <2>1, <2>3, <2>4, <2>5, <2>6 DEF ResponseInv
<1>. QED  BY <1>1, <1>2, <1>3, <1>4, <1>5, <1>6, <1>7, <1>8, <1>9, <1>10, <1>11 DEF Response!Next

LEMMA ResponseInvIsWhole ==
  ResponseInv => ResponseIsWhole
<1>. SUFFICES ASSUME ResponseInv PROVE ResponseIsWhole
  OBVIOUS
<1>1. CASE Response!Answered
  <2>1. PICK st, b, h : /\ conn = Conn(Said(st), h, Shown(st, b)) /\ outcome.logged = Said(st)
                        /\ Own(st, b, h) \/ Marked(st, b, h) \/ Servers(st, b, h)
    BY <1>1 DEF ResponseInv, AtEnd, Response!Answered, Response!Done
  <2>2. conn.status = Said(st) /\ conn.headers = h /\ conn.sent = Shown(st, b)
    BY <2>1, WriterParts
  <2>3. Response!BodyAllowed(conn.status) => conn.sent = b /\ request.method # "HEAD"
    BY <2>2 DEF Shown, Response!BodyAllowed
  <2>4. Response!BodyIsWhole
    BY <2>1, <2>3 DEF Response!BodyIsWhole, Own, Marked, Servers
  <2>5. Response!HeadersFit
    <3>1. SUFFICES ASSUME Response!BodyAllowed(conn.status)
                   PROVE  /\ h.length \in {None, Len(b)}
                          /\ h.label # "none" => b = request.body
                          /\ h.tag = "strong" => ~outcome.marked
      BY <2>2, <2>3 DEF Response!HeadersFit
    <3>2. CASE Own(st, b, h)
      BY <2>3, <3>1, <3>2, HeadersOfFacts DEF Own, HandlersHeaders, ResponseInv
    <3>3. CASE Marked(st, b, h)
      BY <3>3 DEF Marked
    <3>4. CASE Servers(st, b, h)
      BY <3>4 DEF Servers
    <3>. QED  BY <2>1, <3>2, <3>3, <3>4
  <2>6. Response!LogIsTrue
    BY <2>1, <2>2 DEF Response!LogIsTrue
  <2>7. Response!PanicsAreErrors
    BY <1>1 DEF Response!PanicsAreErrors, Response!Answered
  <2>. QED  BY <2>4, <2>5, <2>6, <2>7 DEF ResponseIsWhole
<1>2. CASE ~Response!Answered
  <2>1. Response!PanicsAreErrors
    BY DEF ResponseInv, Recovered, Response!PanicsAreErrors, Response!Done
  <2>. QED  BY <1>2, <2>1 DEF ResponseIsWhole, Response!BodyIsWhole, Response!HeadersFit, Response!LogIsTrue
<1>. QED  BY <1>1, <1>2

LEMMA OwnUnitsDoNotLeak ==
  /\ ~Response!Leaks(<<>>) /\ ~Response!Leaks(<<"json">>) /\ ~Response!Leaks(<<"alert">>)
  /\ ~Response!Leaks(<<"error">>)
BY DEF Response!Leaks, Response!ToSet

LEMMA WithinQuotient ==
  ASSUME NEW m \in Nat, NEW d \in Nat \ {0}, NEW k \in Nat, k * d <= m
  PROVE  m \div d \in Nat /\ k <= m \div d
BY SMT

LEMMA LeakAt ==
  ASSUME NEW s, NEW i \in 1..Len(s), DOMAIN s = 1..Len(s), s[i] = "leak"
  PROVE  Response!Leaks(s)
BY DEF Response!Leaks, Response!ToSet

LEMMA LeakAmongFirst ==
  ASSUME NEW S, NEW s \in Seq(S), NEW i \in 1..Len(s), s[i] = "leak", NEW n \in Nat, i <= n
  PROVE  Response!Leaks(Response!FirstUnits(s, n))
<1>. DEFINE k == IF n < Len(s) THEN n ELSE Len(s)
            f == SubSeq(s, 1, k)
<1>1. k \in Nat /\ k <= Len(s) /\ i \in 1..k
  BY LenProperties
<1>. HIDE DEF k
<1>2. \A j \in 1..k : s[j] \in S
  BY <1>1, LenProperties
<1>3. f \in Seq(S) /\ Len(f) = k /\ \A j \in 1..k : f[j] = s[j]
  BY <1>1, <1>2, SubSeqProperties
<1>. HIDE DEF f
<1>4. DOMAIN f = 1..Len(f) /\ i \in 1..Len(f) /\ f[i] = "leak"
  BY <1>1, <1>3, LenProperties
<1>. QED  BY <1>4, LeakAt DEF f, k, Response!FirstUnits

\* Whatever has come to the connection of a response is that response.
LEMMA FrontSends ==
  ASSUME NEW h, NEW e, NEW n, NEW st, NEW b, FrontHas(Response!Rsp, h, e, n, st, b)
  PROVE  conn.sent \in {<<>>, b}
<1>1. Response!Rsp.conn = conn
  BY DEF Response!Rsp
<1>2. PICK f, c, g, k : Response!Rsp = Wrap(h, e, n, f, Conn(k, g, c)) /\ c \in {<<>>, b}
  BY DEF FrontHas, Told, Untold, Shown
<1>3. Wrap(h, e, n, f, Conn(k, g, c)).conn = Conn(k, g, c)
  BY DEF Wrap
<1>. QED  BY <1>1, <1>2, <1>3, WriterParts

LEMMA UntoldSends ==
  ASSUME NEW h, NEW e, NEW n, Untold(Response!Rsp, h, e, n)
  PROVE  conn.sent = <<>>
<1>1. Response!Rsp.conn = conn
  BY DEF Response!Rsp
<1>2. Response!Rsp.conn = Conn(None, Response!NoHeaders, <<>>)
  BY DEF Untold, Wrap
<1>. QED  BY <1>1, <1>2, WriterParts

LEMMA EncryptSends ==
  ASSUME NEW h, NEW e, NEW st, NEW b, EncryptHas(Response!Rsp, h, e, st, b)
  PROVE  conn.sent \in {<<>>, b}
BY FrontSends, UntoldSends DEF EncryptHas, FrontHas

\* A unit the scan can read is among what it reads.
LEMMA ReadableIsRead ==
  ASSUME NEW S, NEW held \in Seq(S), NEW i \in DOMAIN held, held[i] = "leak",
         Response!Readable(i, Len(held)), request.label \in {"none", request.coding}
  PROVE  Response!Leaks(Response!ForScan(held, request.coding, request.label))
<1>0. /\ Len(held) \in Nat /\ i \in 1..Len(held) /\ i \in Nat /\ Limit \in Nat
      /\ Expansion \in Nat \ {0} /\ \A k \in 1..Len(held) : held[k] \in S
  BY LenProperties, PathConstants
<1>1. CASE request.coding = "none"
  <2>1. Response!ForScan(held, request.coding, request.label) = held
    BY <1>1 DEF Response!ForScan
  <2>. QED  BY <1>0, <2>1, LeakAt
<1>2. CASE request.coding = "gzip"
  <2>. DEFINE room == IF request.label = "gzip" THEN Limit ELSE Limit - Len(held)
  <2>1. room \in Nat /\ i * Expansion <= room
    <3>1. i * Expansion \in Nat
      BY <1>0
    <3>2. i * Expansion + (IF request.label = "gzip" THEN 0 ELSE Len(held)) <= Limit
      BY <1>2 DEF Response!Readable
    <3>3. PICK k \in Nat : k = i * Expansion
      BY <3>1
    <3>. QED  BY <1>0, <3>2, <3>3
  <2>2. Response!ForScan(held, request.coding, request.label) = Response!FirstUnits(held, room \div Expansion)
    BY <1>2 DEF Response!ForScan, Response!Decoded
  <2>. HIDE DEF room
  <2>3. PICK n \in Nat : n = room \div Expansion /\ i <= n
    BY <1>0, <2>1, WithinQuotient
  <2>4. Response!Leaks(Response!FirstUnits(held, n))
    BY <1>0, <2>3, LeakAmongFirst
  <2>. QED  BY <2>2, <2>3, <2>4
<1>. QED  BY <1>1, <1>2 DEF Response!Readable

\* A leak the scan can read of a response a capture can hold stays where it is: the
\* connection has nothing until the response has been scanned, and then something else.
LEMMA ResponseInvCatchesLeaks ==
  ResponseInv => Response!LeaksAreCaught
<1>. SUFFICES ASSUME ResponseInv PROVE Response!LeaksAreCaught
  OBVIOUS
<1>0. /\ request.body \in Seq({"plain", "leak"}) /\ request.body \in Seq({"plain", "leak", "mark"})
      /\ produced \in Nat /\ produced <= Len(request.body) /\ Len(request.body) \in Nat /\ Limit \in Nat
  BY RequestFacts, WiderSeq, LenProperties, PathConstants DEF ResponseInv
<1>. DEFINE held == Response!FirstUnits(request.body, Limit)
            caught == \E i \in DOMAIN held : held[i] = "leak" /\ Response!Readable(i, Len(held))
<1>3. caught => HeadLeaks
  <2>1. held \in Seq({"plain", "leak"})
    BY <1>0, HeadIsSeq
  <2>2. request.label \in {"none", request.coding}
    BY RequestFacts DEF ResponseInv
  <2>. QED  BY <2>1, <2>2, ReadableIsRead DEF HeadLeaks, Scanned
<1>4. Len(request.body) <= Limit => (HeadLeaks <=> BodyLeaks)
  <2>1. Len(request.body) <= Limit => Scanned(request.body) = request.body
    BY <1>0, LimitOrLess
  <2>. QED  BY <2>1 DEF HeadLeaks, BodyLeaks
<1>. HIDE DEF caught
<1>1. ASSUME cfg.egress, Len(request.body) <= Limit, caught
      PROVE  ~Response!Leaks(conn.sent)
  <2>1. \A st, b, h : Own(st, b, h) \/ Marked(st, b, h) \/ Servers(st, b, h) => ~Response!Leaks(b)
    <3>1. ~LeakFree
      BY <1>1, <1>3, <1>4 DEF LeakFree
    <3>2. \A b : b \in {<<"json">>, <<"alert">>} => ~Response!Leaks(b)
      BY OwnUnitsDoNotLeak
    <3>. QED  BY <3>1, <3>2 DEF Own, Marked, Servers
  <2>2. \A h, st, b : EgressHas(Response!Rsp, h, st, b) /\ Len(b) \in Nat /\ Len(b) <= Limit => conn.sent = <<>>
    BY <1>0, <1>1, UntoldSends DEF EgressHas
  <2>3. CASE phase = "gates"
    BY <2>3, UntoldSends, OwnUnitsDoNotLeak DEF ResponseInv, AtGates
  <2>4. Len(Written) \in Nat /\ Len(Written) <= Limit
    <3>1. \A i \in 1..produced : request.body[i] \in {"plain", "leak"}
      BY <1>0, LenProperties
    <3>2. Len(Written) = produced
      BY <1>0, <3>1, SubSeqProperties DEF Written
    <3>. QED  BY <1>0, <1>1, <3>2
  <2>5. CASE phase \in {"handler", "egress", "recovery"}
    <3>1. \E st, b, h : EgressHas(Response!Rsp, h, st, b) /\ b \in {Written, request.body}
      BY <2>5 DEF ResponseInv, AtHandler, AtEgress, AtRecovery
    <3>. QED  BY <1>0, <1>1, <2>2, <2>4, <3>1, OwnUnitsDoNotLeak
  <2>6. CASE phase = "encrypt"
    <3>1. PICK st, b, h, e : EncryptHas(Response!Rsp, h, e, st, b) /\ (Own(st, b, h) \/ Servers(st, b, h))
      BY <2>6 DEF ResponseInv, AtEncrypt
    <3>2. conn.sent \in {<<>>, b}
      BY <3>1, EncryptSends
    <3>. QED  BY <2>1, <3>1, <3>2, OwnUnitsDoNotLeak
  <2>7. CASE phase \in {"detector", "logging"}
    <3>1. PICK st, b, h, e, n : /\ FrontHas(Response!Rsp, h, e, n, st, b)
                                /\ Own(st, b, h) \/ Marked(st, b, h) \/ Servers(st, b, h)
      BY <2>7 DEF ResponseInv, AtDetector
    <3>2. conn.sent \in {<<>>, b}
      BY <3>1, FrontSends
    <3>. QED  BY <2>1, <3>1, <3>2, OwnUnitsDoNotLeak
  <2>8. CASE phase = "done" /\ ~outcome.panicked
    <3>1. PICK st, b, h : /\ conn = Conn(Said(st), h, Shown(st, b))
                          /\ Own(st, b, h) \/ Marked(st, b, h) \/ Servers(st, b, h)
      BY <2>8 DEF ResponseInv, AtEnd
    <3>2. conn.sent \in {<<>>, b}
      BY <3>1, WriterParts DEF Shown
    <3>. QED  BY <2>1, <3>1, <3>2, OwnUnitsDoNotLeak
  <2>9. CASE phase = "done" /\ outcome.panicked
    <3>1. conn.sent \in {<<>>, <<"error">>}
      BY <1>1, <2>9 DEF ResponseInv, Recovered
    <3>. QED  BY <3>1, OwnUnitsDoNotLeak
  <2>. QED  BY <2>3, <2>5, <2>6, <2>7, <2>8, <2>9 DEF ResponseInv
<1>2. Response!Answered /\ cfg.egress /\ ~outcome.refused /\ caught => outcome.denied
  BY <1>3 DEF ResponseInv, Recorded, Response!Answered, Response!Done
<1>. QED  BY <1>1, <1>2 DEF Response!LeaksAreCaught, caught

\* Every response reaches the client whole: what a handler wrote or one body of the server's,
\* with headers that fit it, in full if the connection may have a body, an error after a
\* panic that a capture held, and the log line that says so.
THEOREM ResponseIsAlwaysWhole == Response!Spec => []ResponseIsWhole
<1>1. Response!Init => ResponseInv
  BY ResponseInitInv
<1>2. ResponseInv /\ [Response!Next]_(Response!vars) => ResponseInv'
  BY ResponseNextInv
<1>3. ResponseInv => ResponseIsWhole
  BY ResponseInvIsWhole
<1>. QED  BY <1>1, <1>2, <1>3, PTL DEF Response!Spec

-----------------------------------------------------------------------------
(* The egress scanner.  Its history says of each response in which flow it *)
(* was counted; a flow is the responses since the one its window began     *)
(* with.                                                                   *)

Threats == {"geofence", "volume", "spike", "encoded", "entropy", "leak", "suspect"}
AlertRecords == [type : Threats, scan : Scans]
Entries == [at : Nat, size : Nat, before : Nat, flow : Scanner!Flow, said : {"volume", "spike", None}]
Looking == [pc : {"velocity", "body"}, id : Identities, body : ScannedBodies, threats : SUBSET Threats]
Looked == [pc : {"result"}, body : ScannedBodies, threats : SUBSET Threats, allowed : BOOLEAN, upTo : Nat]

ScannerType ==
  /\ userFlows \in [Identities -> Scanner!Flow \cup {None}]
  /\ scan \in [Scans -> {Scanner!Idle} \cup Looking \cup Looked]
  /\ scanTime \in Nat
  /\ served \in [Identities -> Seq(Entries)]
  /\ alerts \in Seq(AlertRecords) /\ recorded \in Seq(AlertRecords)

\* The window of the j-th response began with the w-th, long after any window before it.
BeganWith(sent, w, j) ==
  /\ w \in 1..j
  /\ sent[w].at = sent[j].flow.start
  /\ sent[j].flow.bytes = Scanner!Bytes(sent, w, j)
  /\ \A k \in w..j : sent[k].flow.start = sent[j].flow.start
  /\ \A k \in 1..w - 1 : sent[j].flow.start > sent[k].flow.start + VelocityWindow

\* A window has at least one response, so its average is not below the smallest.
AverageFits(sent, j) ==
  \/ sent[j].flow.samples = 0 /\ sent[j].flow.total = 0
  \/ /\ sent[j].flow.samples > 0
     /\ \E k \in 1..j : sent[j].flow.total >= sent[j].flow.samples * sent[k].size

Counted(sent, j) ==
  /\ \E w \in Nat : BeganWith(sent, w, j)
  /\ sent[j].flow.start <= sent[j].at /\ sent[j].at <= sent[j].flow.start + VelocityWindow
  /\ sent[j].said = Scanner!Velocity(sent[j].flow)
  /\ AverageFits(sent, j)
  /\ \A i \in 1..j : sent[i].at <= sent[j].at /\ sent[i].before <= sent[j].before
  /\ j > 1 => sent[j].before = sent[j - 1].before + sent[j - 1].size

FlowIs(sent, flow) == flow = IF sent = <<>> THEN None ELSE sent[Len(sent)].flow
AllCounted(sent, t) ==
  /\ \A j \in 1..Len(sent) : Counted(sent, j)
  /\ \A j \in 1..Len(sent) : sent[j].at <= t

\* What VolumesAreTold says of the j-th response.
VolumeTold(sent, j) ==
  LET recent == {i \in 1..j : sent[j].at - sent[i].at <= VelocityWindow}
  IN /\ sent[j].said = "volume" => \E i \in recent : Scanner!Bytes(sent, i, j) > MaxBytesPerWindow
     /\ \A i \in recent :
          Scanner!Bytes(sent, i, j) > 2 * MaxBytesPerWindow =>
            \E k \in i..j : sent[k].said = "volume"
     /\ sent[j].said = "spike" =>
          \E i \in recent, k \in 1..j : Scanner!Bytes(sent, i, j) >= VelocitySpikeMultiplier * sent[k].size

LEMMA ScannerConstants ==
  /\ VelocityWindow \in Nat /\ MaxBytesPerWindow \in Nat /\ VelocitySpikeMultiplier \in Nat
  /\ MaxAlerts \in Nat /\ KeptAlerts \in Nat /\ KeptAlerts <= MaxAlerts
  /\ None \notin Scanner!Flow /\ None # "volume" /\ None # "spike"
BY ScannerAssumed DEF Scanner!ScannerAssumption

LEMMA EntryFacts ==
  ASSUME NEW sent \in Seq(Entries), NEW j \in 1..Len(sent)
  PROVE  /\ sent[j].at \in Nat /\ sent[j].size \in Nat /\ sent[j].before \in Nat
         /\ sent[j].flow.bytes \in Nat /\ sent[j].flow.start \in Nat
         /\ sent[j].flow.total \in Nat /\ sent[j].flow.samples \in Nat
         /\ sent[j] \in Entries /\ sent[j].flow \in Scanner!Flow /\ j \in Nat
<1>1. sent[j] \in Entries
  BY LenProperties
<1>2. j \in Nat
  BY LenProperties
<1>. QED  BY <1>1, <1>2 DEF Entries, Scanner!Flow

LEMMA TimesMonotone ==
  ASSUME NEW a \in Nat, NEW b \in Nat, NEW c \in Nat, a <= b
  PROVE  c * a <= c * b /\ c * a \in Nat /\ c * b \in Nat
<1>1. PICK d \in Nat : b = a + d
  <2>1. b - a \in Nat /\ b = a + (b - a)
    OBVIOUS
  <2>. QED  BY <2>1
<1>2. c * b = c * a + c * d /\ c * d \in Nat /\ c * a \in Nat /\ c * b \in Nat
  BY <1>1
<1>. QED  BY <1>2

\* More than the multiple of an average is more than that of any number below it.
LEMMA SpikeExceeds ==
  ASSUME NEW bytes \in Nat, NEW samples \in Nat, samples > 0, NEW total \in Nat, NEW m \in Nat, NEW x \in Nat,
         bytes * samples >= x * total, total >= samples * m
  PROVE  bytes >= x * m
<1>0. x * m \in Nat /\ samples * m \in Nat /\ x * (samples * m) = samples * (x * m)
  OBVIOUS
<1>1. x * (samples * m) <= x * total /\ x * total \in Nat
  BY <1>0, TimesMonotone
<1>2. bytes * samples = samples * bytes /\ samples * bytes \in Nat /\ samples * (x * m) \in Nat
  BY <1>0
<1>3. samples * (x * m) <= samples * bytes
  BY <1>0, <1>1, <1>2
<1>. SUFFICES ASSUME bytes < x * m PROVE FALSE
  BY <1>0
<1>. DEFINE y == x * m
<1>4. y \in Nat /\ bytes + 1 <= y /\ samples * y <= samples * bytes
  BY <1>0, <1>3
<1>. HIDE DEF y
<1>5. samples * (bytes + 1) <= samples * y
  BY <1>4, TimesMonotone
<1>6. samples * (bytes + 1) = samples * bytes + samples
  OBVIOUS
<1>7. samples * y \in Nat
  BY <1>4
<1>. QED  BY <1>2, <1>4, <1>5, <1>6, <1>7

\* The numbers of two windows.
LEMMA TwoWindows ==
  ASSUME NEW a \in Nat, NEW b \in Nat, NEW c \in Nat, NEW d \in Nat, NEW e \in Nat, NEW V \in Nat,
         a - b <= V, b <= d + V, c <= a, e > d + V, c > e + V
  PROVE  FALSE
OBVIOUS

Within(before, size, bw, bi, y, M) ==
  /\ {before, size, bw, bi, y, M} \subseteq Nat
  /\ y = before + size - bw /\ before + size - bi > 2 * M
LEMMA WithinOne ==
  ASSUME NEW before, NEW size, NEW bw, NEW bi, NEW y, NEW M, Within(before, size, bw, bi, y, M), bw <= bi
  PROVE  y > M
BY DEF Within

PartBefore(bw, bp, sp, bv, z) == {bp, sp, bv, z} \subseteq Nat /\ bw = bp + sp /\ z = bp + sp - bv
LEMMA OverTwo ==
  ASSUME NEW before, NEW size, NEW bw, NEW bi, NEW y, NEW M, Within(before, size, bw, bi, y, M),
         NEW bp, NEW sp, NEW bv, NEW z, PartBefore(bw, bp, sp, bv, z), bv <= bi
  PROVE  z > M \/ y > M
BY DEF Within, PartBefore

\* What is said of the j-th response is so.
LEMMA CountedTells ==
  ASSUME NEW sent \in Seq(Entries), \A j \in 1..Len(sent) : Counted(sent, j), NEW j \in 1..Len(sent)
  PROVE  VolumeTold(sent, j)
<1>. DEFINE recent == {i \in 1..j : sent[j].at - sent[i].at <= VelocityWindow}
            Sum(i, k) == sent[k].before + sent[k].size - sent[i].before
<1>0. /\ \A i \in 1..Len(sent) : /\ sent[i].at \in Nat /\ sent[i].size \in Nat /\ sent[i].before \in Nat
                                 /\ sent[i].flow.bytes \in Nat /\ sent[i].flow.start \in Nat
                                 /\ sent[i].flow.total \in Nat /\ sent[i].flow.samples \in Nat
                                 /\ i \in Nat
      /\ j \in Nat /\ Len(sent) \in Nat /\ j <= Len(sent) /\ 1 <= j
      /\ VelocityWindow \in Nat /\ MaxBytesPerWindow \in Nat /\ VelocitySpikeMultiplier \in Nat
      /\ None # "volume" /\ None # "spike"
  BY EntryFacts, LenProperties, ScannerConstants
<1>1. \A i, k : Scanner!Bytes(sent, i, k) = Sum(i, k)
  BY DEF Scanner!Bytes
<1>2. PICK w \in Nat : BeganWith(sent, w, j)
  BY DEF Counted
<1>3. /\ w \in 1..j /\ sent[w].at = sent[j].flow.start /\ sent[j].flow.bytes = Sum(w, j)
      /\ \A k \in 1..w - 1 : sent[j].flow.start > sent[k].flow.start + VelocityWindow
  BY <1>1, <1>2 DEF BeganWith
<1>4. \A k \in 1..Len(sent) : /\ sent[k].flow.start <= sent[k].at
                              /\ sent[k].at <= sent[k].flow.start + VelocityWindow
                              /\ \A i \in 1..k : sent[i].at <= sent[k].at /\ sent[i].before <= sent[k].before
                              /\ k > 1 => sent[k].before = sent[k - 1].before + sent[k - 1].size
  BY DEF Counted
<1>5. w \in recent
  BY <1>0, <1>3, <1>4
<1>11. \A i \in recent : i \in 1..j /\ sent[j].at - sent[i].at <= VelocityWindow
  OBVIOUS
<1>. HIDE DEF Sum, recent
<1>6. \A k \in 1..Len(sent) : sent[k].flow.bytes > MaxBytesPerWindow <=> sent[k].said = "volume"
  BY <1>0 DEF Counted, Scanner!Velocity
<1>7. sent[j].said = "volume" => \E i \in recent : Sum(i, j) > MaxBytesPerWindow
  BY <1>0, <1>3, <1>5, <1>6
<1>10. PICK aj \in Nat, gj \in Nat, yj \in Nat, before \in Nat, size \in Nat, bw \in Nat, V \in Nat, M \in Nat :
         /\ aj = sent[j].at /\ gj = sent[j].flow.start /\ yj = sent[j].flow.bytes
         /\ before = sent[j].before /\ size = sent[j].size /\ bw = sent[w].before
         /\ V = VelocityWindow /\ M = MaxBytesPerWindow
         /\ w \in 1..Len(sent) /\ gj <= aj /\ yj = before + size - bw /\ Sum(w, j) = yj
  <2>1. w \in 1..Len(sent)
    BY <1>0, <1>3
  <2>2. PICK aj \in Nat, gj \in Nat, yj \in Nat, before \in Nat, size \in Nat, bw \in Nat, V \in Nat, M \in Nat :
          /\ aj = sent[j].at /\ gj = sent[j].flow.start /\ yj = sent[j].flow.bytes
          /\ before = sent[j].before /\ size = sent[j].size /\ bw = sent[w].before
          /\ V = VelocityWindow /\ M = MaxBytesPerWindow
    BY <1>0, <2>1
  <2>3. gj <= aj
    BY <1>4, <2>2
  <2>4. Sum(w, j) = before + size - bw
    BY <2>2 DEF Sum
  <2>5. Sum(w, j) = yj
    BY <1>3, <2>2
  <2>. QED  BY <2>1, <2>2, <2>3, <2>4, <2>5
<1>8. ASSUME NEW i \in recent, Sum(i, j) > 2 * MaxBytesPerWindow
      PROVE  \E k \in i..j : sent[k].said = "volume"
  <2>0. i \in 1..j /\ i \in 1..Len(sent) /\ sent[j].at - sent[i].at <= VelocityWindow
    BY <1>0, <1>11
  <2>9. PICK ai \in Nat, bi \in Nat, gi \in Nat, S \in Int :
          /\ ai = sent[i].at /\ bi = sent[i].before /\ gi = sent[i].flow.start
          /\ S = before + size - bi /\ Sum(i, j) = S /\ aj - ai <= V /\ S > 2 * M /\ ai <= gi + V
    <3>1. PICK ai \in Nat, bi \in Nat, gi \in Nat :
            ai = sent[i].at /\ bi = sent[i].before /\ gi = sent[i].flow.start
      BY <1>0, <2>0
    <3>2. Sum(i, j) = before + size - bi
      BY <1>10, <3>1 DEF Sum
    <3>3. before + size - bi \in Int
      OBVIOUS
    <3>4. aj - ai <= V /\ ai <= gi + V
      BY <1>4, <1>10, <2>0, <3>1
    <3>. QED  BY <1>8, <1>10, <3>1, <3>2, <3>3, <3>4
  <2>10. Within(before, size, bw, bi, yj, M)
    BY <1>10, <2>9 DEF Within
  <2>1. CASE w <= i
    <3>1. bw <= bi
      BY <1>4, <1>3, <1>10, <2>0, <2>1, <2>9
    <3>2. yj > M
      BY <2>10, <3>1, WithinOne
    <3>3. sent[j].said = "volume"
      BY <1>0, <1>6, <1>10, <3>2
    <3>. QED  BY <1>0, <2>0, <3>3
  <2>2. CASE i < w
    <3>0. PICK p : p = w - 1 /\ p \in 1..Len(sent) /\ p \in 1..j /\ i <= p /\ w > 1 /\ p \in 1..w - 1
      BY <1>0, <1>3, <2>0, <2>2
    <3>1. PICK v \in Nat : BeganWith(sent, v, p)
      BY <3>0 DEF Counted
    <3>2. /\ v \in 1..p /\ v \in 1..Len(sent) /\ sent[p].flow.bytes = Sum(v, p)
          /\ \A k \in 1..v - 1 : sent[p].flow.start > sent[k].flow.start + VelocityWindow
      BY <1>0, <1>1, <3>0, <3>1 DEF BeganWith
    <3>3. PICK bp \in Nat, sp \in Nat, gp \in Nat, yp \in Nat, bv \in Nat :
            /\ bp = sent[p].before /\ sp = sent[p].size /\ gp = sent[p].flow.start
            /\ yp = sent[p].flow.bytes /\ bv = sent[v].before /\ yp = bp + sp - bv
      <4>1. Sum(v, p) = sent[p].before + sent[p].size - sent[v].before
        BY DEF Sum
      <4>2. PICK bp \in Nat, sp \in Nat, gp \in Nat, yp \in Nat, bv \in Nat :
              /\ bp = sent[p].before /\ sp = sent[p].size /\ gp = sent[p].flow.start
              /\ yp = sent[p].flow.bytes /\ bv = sent[v].before
        BY <1>0, <3>0, <3>2
      <4>. QED  BY <3>2, <4>1, <4>2
    <3>4. bw = bp + sp
      BY <1>4, <1>10, <3>0, <3>3
    <3>5. v <= i
      <4>1. SUFFICES ASSUME i < v PROVE FALSE
        BY <1>0, <2>0, <3>2
      <4>2. gp > gi + V
        <5>1. i \in 1..v - 1
          BY <1>0, <2>0, <3>2, <4>1
        <5>. QED  BY <1>10, <2>9, <3>2, <3>3, <5>1
      <4>3. gj > gp + V
        BY <1>3, <1>10, <3>0, <3>3
      <4>. QED  BY <1>10, <2>9, <4>2, <4>3, TwoWindows
    <3>6. bv <= bi
      <4>1. v \in 1..i
        BY <1>0, <2>0, <3>2, <3>5
      <4>. QED  BY <1>4, <2>0, <2>9, <3>3, <4>1
    <3>7. yp > M \/ yj > M
      <4>1. PartBefore(bw, bp, sp, bv, yp)
        BY <3>3, <3>4 DEF PartBefore
      <4>. QED  BY <2>10, <3>6, <4>1, OverTwo
    <3>8. sent[p].said = "volume" \/ sent[j].said = "volume"
      BY <1>0, <1>6, <1>10, <3>0, <3>3, <3>7
    <3>. QED  BY <1>0, <2>0, <3>0, <3>8
  <2>. QED  BY <1>0, <1>3, <2>0, <2>1, <2>2
<1>9. ASSUME sent[j].said = "spike"
      PROVE  \E i \in recent, k \in 1..j : Sum(i, j) >= VelocitySpikeMultiplier * sent[k].size
  <2>1. Scanner!Spikes(sent[j].flow)
    BY <1>0, <1>9 DEF Counted, Scanner!Velocity
  <2>2. sent[j].flow.total > 0 /\ sent[j].flow.bytes * sent[j].flow.samples >= VelocitySpikeMultiplier * sent[j].flow.total
    BY <2>1 DEF Scanner!Spikes
  <2>3. PICK k \in 1..j : sent[j].flow.samples > 0 /\ sent[j].flow.total >= sent[j].flow.samples * sent[k].size
    <3>1. AverageFits(sent, j) /\ sent[j].flow.total \in Nat
      BY <1>0 DEF Counted
    <3>2. PICK total : total = sent[j].flow.total /\ total > 0 /\ total \in Nat
      BY <2>2, <3>1
    <3>3. total # 0
      BY <3>2
    <3>. QED  BY <3>1, <3>2, <3>3 DEF AverageFits
  <2>4. PICK m \in Nat, samples \in Nat, total \in Nat :
          m = sent[k].size /\ samples = sent[j].flow.samples /\ total = sent[j].flow.total
    <3>1. k \in 1..Len(sent)
      BY <1>0
    <3>. QED  BY <1>0, <3>1
  <2>5. PICK x \in Nat : x = VelocitySpikeMultiplier
    BY <1>0
  <2>6. yj * samples >= x * total /\ samples > 0 /\ total >= samples * m
    BY <1>10, <2>2, <2>3, <2>4, <2>5
  <2>7. yj >= x * m
    BY <2>6, SpikeExceeds
  <2>8. Sum(w, j) >= VelocitySpikeMultiplier * sent[k].size
    BY <1>10, <2>4, <2>5, <2>7
  <2>. QED  BY <1>5, <2>8
<1>. QED  BY <1>1, <1>7, <1>8, <1>9 DEF VolumeTold, recent

\* What was said of a response stays right when there are more.
LEMMA CountedStays ==
  ASSUME NEW sent \in Seq(Entries), NEW e \in Entries, NEW j \in 1..Len(sent), Counted(sent, j)
  PROVE  Counted(Append(sent, e), j)
<1>. DEFINE u == Append(sent, e)
<1>0. Len(sent) \in Nat /\ j \in Nat
  BY LenProperties
<1>1. \A i \in 1..j : u[i] = sent[i]
  BY <1>0, AppendProperties
<1>. HIDE DEF u
<1>2. j \in 1..j /\ (j > 1 => j - 1 \in 1..j)
  BY <1>0
<1>3. PICK w \in Nat : BeganWith(sent, w, j)
  BY DEF Counted
<1>4. BeganWith(u, w, j)
  <2>1. w \in 1..j /\ \A k \in w..j : k \in 1..j
    BY <1>0, <1>3 DEF BeganWith
  <2>2. \A k \in 1..w - 1 : k \in 1..j
    BY <1>0, <2>1
  <2>. QED  BY <1>1, <1>2, <1>3, <2>1, <2>2 DEF BeganWith, Scanner!Bytes
<1>5. AverageFits(u, j)
  BY <1>1, <1>2 DEF Counted, AverageFits
<1>6. u[j] = sent[j] /\ (j > 1 => u[j - 1] = sent[j - 1])
  BY <1>1, <1>2
<1>. QED  BY <1>1, <1>4, <1>5, <1>6 DEF Counted, u

\* The smaller of two numbers is not above their average.
AtLeast(total, samples, m) == total >= samples * m
LEMMA AverageGrows ==
  ASSUME NEW a \in Nat, NEW b \in Nat, NEW samples \in Nat, NEW total \in Nat, NEW bytes \in Nat,
         AtLeast(total, samples, a), bytes >= b
  PROVE  AtLeast(total + bytes, samples + 1, a) \/ AtLeast(total + bytes, samples + 1, b)
<1>1. \A m \in Nat : (samples + 1) * m = samples * m + m /\ samples * m \in Nat
  OBVIOUS
<1>2. CASE a <= b
  BY <1>1, <1>2 DEF AtLeast
<1>3. CASE b <= a
  <2>1. samples * b <= samples * a
    BY <1>3, TimesMonotone
  <2>. QED  BY <1>1, <2>1 DEF AtLeast
<1>. QED  BY <1>2, <1>3

\* The last of the responses, and what is known of it.
LastFits(sent, w, L) ==
  /\ L = Len(sent) /\ L \in Nat /\ 1 <= L /\ w \in 1..L
  /\ BeganWith(sent, w, L)
  /\ \A i \in 1..L : sent[i].at <= sent[L].at /\ sent[i].before <= sent[L].before
  /\ AverageFits(sent, L)

LEMMA LastIsCounted ==
  ASSUME NEW sent \in Seq(Entries), \A j \in 1..Len(sent) : Counted(sent, j), sent # <<>>
  PROVE  \E w \in Nat : LastFits(sent, w, Len(sent))
<1>1. Len(sent) \in Nat /\ Len(sent) # 0
  BY LenProperties, EmptySeq
<1>2. Len(sent) \in 1..Len(sent)
  BY <1>1
<1>3. PICK w \in Nat : BeganWith(sent, w, Len(sent))
  BY <1>2 DEF Counted
<1>. QED  BY <1>1, <1>2, <1>3 DEF LastFits, Counted, BeganWith

\* The response that is appended: its time, its size, and what went before it.
ComesNext(sent, e, t, n) ==
  /\ e \in Entries /\ e.at = t /\ e.size = n /\ t \in Nat /\ n \in Nat
  /\ e.before = IF sent = <<>> THEN 0 ELSE sent[Len(sent)].before + sent[Len(sent)].size
  /\ e.said = Scanner!Velocity(e.flow)
  /\ \A i \in 1..Len(sent) : sent[i].at <= t

LEMMA Appended ==
  ASSUME NEW sent \in Seq(Entries), NEW e \in Entries
  PROVE  /\ Append(sent, e)[Len(sent) + 1] = e /\ Len(Append(sent, e)) = Len(sent) + 1
         /\ \A i \in 1..Len(sent) : Append(sent, e)[i] = sent[i]
         /\ Append(sent, e) \in Seq(Entries) /\ Len(sent) \in Nat /\ Append(sent, e) # <<>>
BY AppendProperties, LenProperties

LEMMA NewIsLater ==
  ASSUME NEW sent \in Seq(Entries), \A j \in 1..Len(sent) : Counted(sent, j),
         NEW e, NEW t, NEW n, ComesNext(sent, e, t, n),
         NEW u, u = Append(sent, e), NEW K, K = Len(sent) + 1
  PROVE  /\ \A i \in 1..K : u[i].at <= u[K].at /\ u[i].before <= u[K].before
         /\ K > 1 => u[K].before = u[K - 1].before + u[K - 1].size
<1>0. /\ u[K] = e /\ \A i \in 1..Len(sent) : u[i] = sent[i]
      /\ Len(sent) \in Nat /\ K \in Nat /\ K >= 1
      /\ e \in Entries /\ e.at \in Nat /\ e.before \in Nat
  BY Appended DEF ComesNext, Entries
<1>1. CASE sent = <<>>
  BY <1>0, <1>1, EmptySeq
<1>2. CASE sent # <<>>
  <2>1. PICK w \in Nat, L \in Nat : L = Len(sent) /\ LastFits(sent, w, L)
    BY <1>0, <1>2, LastIsCounted
  <2>2. L \in 1..Len(sent) /\ K - 1 = L /\ L \in Nat
    BY <1>0, <2>1 DEF LastFits
  <2>3. PICK b \in Nat, s \in Nat : b = sent[L].before /\ s = sent[L].size
    BY <2>2, EntryFacts
  <2>4. e.before = b + s
    BY <1>2, <2>1, <2>3 DEF ComesNext
  <2>5. ASSUME NEW i \in 1..L PROVE u[i].at <= e.at /\ u[i].before <= e.before
    <3>1. i \in 1..Len(sent) /\ u[i] = sent[i]
      BY <1>0, <2>1, <2>5
    <3>2. sent[i].at <= e.at
      BY <3>1 DEF ComesNext
    <3>3. PICK c \in Nat : c = sent[i].before
      BY <3>1, EntryFacts
    <3>4. c <= b
      BY <2>1, <2>3, <3>3 DEF LastFits
    <3>5. c <= b + s
      BY <3>4
    <3>. QED  BY <2>4, <3>1, <3>2, <3>3, <3>5
  <2>6. \A i \in 1..K : i = K \/ i \in 1..L
    BY <1>0, <2>2
  <2>7. e.at <= e.at /\ e.before <= e.before
    BY <1>0
  <2>8. \A i \in 1..K : u[i].at <= u[K].at /\ u[i].before <= u[K].before
    BY <1>0, <2>5, <2>6, <2>7
  <2>9. u[K].before = u[K - 1].before + u[K - 1].size
    BY <1>0, <2>2, <2>3, <2>4
  <2>. QED  BY <2>8, <2>9
<1>. QED  BY <1>1, <1>2

\* A client's first response begins its first window.
LEMMA FirstIsCounted ==
  ASSUME NEW e, NEW t, NEW n, ComesNext(<<>>, e, t, n),
         e.flow.bytes = n, e.flow.start = t, e.flow.total = 0, e.flow.samples = 0
  PROVE  Counted(Append(<<>>, e), 1)
<1>. DEFINE u == Append(<<>>, e)
<1>0. /\ u[1] = e /\ <<>> \in Seq(Entries) /\ Len(<<>>) = 0 /\ e \in Entries
      /\ e.at = t /\ e.size = n /\ e.before = 0 /\ e.said = Scanner!Velocity(e.flow)
      /\ t \in Nat /\ n \in Nat /\ VelocityWindow \in Nat
  BY Appended, EmptySeq, ScannerConstants DEF ComesNext
<1>. HIDE DEF u
<1>1. BeganWith(u, 1, 1)
  BY <1>0 DEF BeganWith, Scanner!Bytes
<1>2. AverageFits(u, 1)
  BY <1>0 DEF AverageFits
<1>3. u[1].flow.start <= u[1].at /\ u[1].at <= u[1].flow.start + VelocityWindow
  BY <1>0
<1>4. \A i \in 1..1 : u[i].at <= u[1].at /\ u[i].before <= u[1].before
  BY <1>0
<1>5. ~(1 > 1)
  OBVIOUS
<1>. QED  BY <1>0, <1>1, <1>2, <1>3, <1>4, <1>5 DEF Counted, u

\* What a flow becomes with a response of n at time t.
Goes(f, g, t, n) ==
  /\ t <= g.start + VelocityWindow
  /\ f.bytes = g.bytes + n /\ f.start = g.start /\ f.total = g.total /\ f.samples = g.samples
Rolls(f, g, t, n) ==
  /\ t > g.start + VelocityWindow
  /\ f.bytes = n /\ f.start = t /\ f.total = g.total + g.bytes /\ f.samples = g.samples + 1

\* One that comes in time is counted in the window that runs.
LEMMA NextIsCounted ==
  ASSUME NEW sent \in Seq(Entries), \A j \in 1..Len(sent) : Counted(sent, j), sent # <<>>,
         NEW e, NEW t, NEW n, ComesNext(sent, e, t, n),
         NEW g, g = sent[Len(sent)].flow, Goes(e.flow, g, t, n)
  PROVE  Counted(Append(sent, e), Len(sent) + 1)
<1>1. PICK u, K : u = Append(sent, e) /\ K = Len(sent) + 1
  OBVIOUS
<1>2. PICK w \in Nat, L \in Nat : L = Len(sent) /\ LastFits(sent, w, L)
  BY LastIsCounted, LenProperties
<1>3. /\ u[K] = e /\ (\A i \in 1..L : u[i] = sent[i])
      /\ e \in Entries /\ e.at = t /\ e.size = n /\ e.said = Scanner!Velocity(e.flow)
      /\ t \in Nat /\ n \in Nat /\ VelocityWindow \in Nat /\ g = sent[L].flow
      /\ K = L + 1 /\ L \in Nat /\ 1 <= L /\ L \in 1..L /\ K \in 1..K
  BY <1>1, <1>2, Appended, ScannerConstants DEF ComesNext, LastFits
<1>4. PICK b \in Nat, s \in Nat, y \in Nat, z \in Nat, bw \in Nat, at \in Nat :
        /\ b = sent[L].before /\ s = sent[L].size /\ y = g.bytes /\ z = g.start
        /\ bw = sent[w].before /\ at = sent[L].at
  <2>1. L \in 1..Len(sent) /\ w \in 1..Len(sent)
    BY <1>2 DEF LastFits
  <2>. QED  BY <1>3, <2>1, EntryFacts
<1>5. y = b + s - bw /\ w \in 1..L /\ sent[w].at = z /\ (\A k \in w..L : sent[k].flow.start = z)
      /\ \A k \in 1..w - 1 : z > sent[k].flow.start + VelocityWindow
  BY <1>2, <1>3, <1>4 DEF LastFits, BeganWith, Scanner!Bytes
<1>6. e.before = b + s
  BY <1>2, <1>4 DEF ComesNext
<1>7. z <= t /\ t <= z + VelocityWindow
  <2>1. z <= at /\ at <= t
    <3>1. L \in 1..Len(sent)
      BY <1>2, <1>3
    <3>. QED  BY <1>3, <1>4, <3>1 DEF Counted, ComesNext
  <2>2. t <= z + VelocityWindow
    BY <1>4 DEF Goes
  <2>3. z <= t
    BY <2>1, <1>3
  <2>. QED  BY <2>2, <2>3
<1>12. e.flow.bytes = y + n /\ e.flow.start = z /\ e.flow.total = g.total /\ e.flow.samples = g.samples
  BY <1>4 DEF Goes
<1>8. BeganWith(u, w, K)
  <2>1. w \in 1..K /\ u[w] = sent[w]
    BY <1>3, <1>5
  <2>2. e.flow.bytes = Scanner!Bytes(u, w, K)
    <3>1. y + n = b + s + n - bw
      <4>1. y = b + s - bw /\ n \in Nat
        BY <1>3, <1>5
      <4>. QED  BY <4>1
    <3>. QED  BY <1>3, <1>4, <1>6, <1>12, <2>1, <3>1 DEF Scanner!Bytes
  <2>3. \A k \in w..K : k = K \/ (k \in w..L /\ k \in 1..L)
    BY <1>3, <1>5
  <2>4. \A k \in 1..w - 1 : k \in 1..L
    BY <1>3, <1>5
  <2>. QED  BY <1>3, <1>4, <1>5, <1>12, <2>1, <2>2, <2>3, <2>4 DEF BeganWith
<1>9. AverageFits(u, K)
  <2>1. AverageFits(sent, L) /\ \A k \in 1..L : k \in 1..K
    BY <1>2, <1>3 DEF LastFits
  <2>. QED  BY <1>3, <1>12, <2>1 DEF AverageFits
<1>10. /\ \A i \in 1..K : u[i].at <= u[K].at /\ u[i].before <= u[K].before
       /\ K > 1 => u[K].before = u[K - 1].before + u[K - 1].size
  BY <1>1, NewIsLater
<1>11. u[K].flow.start <= u[K].at /\ u[K].at <= u[K].flow.start + VelocityWindow /\ u[K].said = Scanner!Velocity(u[K].flow)
  BY <1>3, <1>4, <1>7, <1>12
<1>. QED  BY <1>1, <1>8, <1>9, <1>10, <1>11 DEF Counted

\* One that comes later begins a window, and the old one goes into the average.
LEMMA RolledIsCounted ==
  ASSUME NEW sent \in Seq(Entries), \A j \in 1..Len(sent) : Counted(sent, j), sent # <<>>,
         NEW e, NEW t, NEW n, ComesNext(sent, e, t, n),
         NEW g, g = sent[Len(sent)].flow, Rolls(e.flow, g, t, n)
  PROVE  Counted(Append(sent, e), Len(sent) + 1)
<1>1. PICK u, K : u = Append(sent, e) /\ K = Len(sent) + 1
  OBVIOUS
<1>2. PICK w \in Nat, L \in Nat : L = Len(sent) /\ LastFits(sent, w, L)
  BY LastIsCounted, LenProperties
<1>3. /\ u[K] = e /\ (\A i \in 1..L : u[i] = sent[i])
      /\ e \in Entries /\ e.at = t /\ e.size = n /\ e.said = Scanner!Velocity(e.flow)
      /\ t \in Nat /\ n \in Nat /\ VelocityWindow \in Nat /\ g = sent[L].flow
      /\ K = L + 1 /\ L \in Nat /\ 1 <= L /\ L \in 1..L /\ K \in 1..K
  BY <1>1, <1>2, Appended, ScannerConstants DEF ComesNext, LastFits
<1>4. PICK b \in Nat, s \in Nat, y \in Nat, z \in Nat, bw \in Nat, total \in Nat, samples \in Nat :
        /\ b = sent[L].before /\ s = sent[L].size /\ y = g.bytes /\ z = g.start
        /\ bw = sent[w].before /\ total = g.total /\ samples = g.samples
  <2>1. L \in 1..Len(sent) /\ w \in 1..Len(sent)
    BY <1>2 DEF LastFits
  <2>. QED  BY <1>3, <2>1, EntryFacts
<1>5. y = b + s - bw /\ w \in 1..L /\ bw <= b /\ (\A k \in w..L : sent[k].flow.start = z)
      /\ \A k \in 1..w - 1 : z > sent[k].flow.start + VelocityWindow
  BY <1>2, <1>3, <1>4 DEF LastFits, BeganWith, Scanner!Bytes
<1>12. /\ e.flow.bytes = n /\ e.flow.start = t /\ e.flow.total = total + y /\ e.flow.samples = samples + 1
       /\ t > z + VelocityWindow
  BY <1>4 DEF Rolls
<1>8. BeganWith(u, K, K)
  <2>1. \A k \in 1..L : t > u[k].flow.start + VelocityWindow
    <3>. TAKE k \in 1..L
    <3>1. PICK x \in Nat : x = sent[k].flow.start
      BY <1>2, EntryFacts
    <3>2. x <= z
      <4>1. k \in w..L \/ k \in 1..w - 1
        BY <1>3, <1>5
      <4>2. x = z \/ z > x + VelocityWindow
        BY <1>5, <3>1, <4>1
      <4>. QED  BY <1>3, <4>2
    <3>3. t > x + VelocityWindow
      BY <1>3, <1>12, <3>2
    <3>. QED  BY <1>3, <3>1, <3>3
  <2>2. e.before \in Nat /\ \A k \in K..K : k = K
    BY <1>3 DEF Entries
  <2>3. n = e.before + n - e.before
    BY <1>3, <2>2
  <2>4. K - 1 = L
    BY <1>3
  <2>. QED  BY <1>3, <1>12, <2>1, <2>2, <2>3, <2>4 DEF BeganWith, Scanner!Bytes
<1>9. AverageFits(u, K)
  <2>0. y >= s /\ samples + 1 > 0
    <3>1. y = b + s - bw /\ bw <= b
      BY <1>5
    <3>. QED  BY <3>1
  <2>1. PICK k \in 1..L, m \in Nat : m = sent[k].size /\ AtLeast(total, samples, m)
    <3>1. CASE samples = 0 /\ total = 0
      BY <1>3, <1>4, <3>1 DEF AtLeast
    <3>2. CASE ~(samples = 0 /\ total = 0)
      <4>1. AverageFits(sent, L)
        BY <1>2 DEF LastFits
      <4>2. PICK k \in 1..L : total >= samples * sent[k].size
        BY <1>3, <1>4, <3>2, <4>1 DEF AverageFits
      <4>3. k \in 1..Len(sent)
        BY <1>2
      <4>. QED  BY <4>2, <4>3, EntryFacts DEF AtLeast
    <3>. QED  BY <3>1, <3>2
  <2>2. AtLeast(total + y, samples + 1, m) \/ AtLeast(total + y, samples + 1, s)
    BY <2>0, <2>1, AverageGrows
  <2>3. k \in 1..K /\ L \in 1..K /\ u[k] = sent[k] /\ u[L] = sent[L]
    BY <1>3
  <2>4. \E i \in 1..K : total + y >= (samples + 1) * u[i].size
    BY <1>4, <2>1, <2>2, <2>3 DEF AtLeast
  <2>. QED  BY <1>3, <1>12, <2>0, <2>4 DEF AverageFits
<1>10. /\ \A i \in 1..K : u[i].at <= u[K].at /\ u[i].before <= u[K].before
       /\ K > 1 => u[K].before = u[K - 1].before + u[K - 1].size
  BY <1>1, NewIsLater
<1>11. u[K].flow.start <= u[K].at /\ u[K].at <= u[K].flow.start + VelocityWindow /\ u[K].said = Scanner!Velocity(u[K].flow)
  <2>1. t <= t + VelocityWindow /\ t <= t
    BY <1>3
  <2>. QED  BY <1>3, <1>12, <2>1
<1>. QED  BY <1>1, <1>8, <1>9, <1>10, <1>11 DEF Counted

-----------------------------------------------------------------------------
(* The alerts of the egress scanner.                                       *)

\* A list has an alert of goroutine s for each of a set of threats, and no more alerts than these.
Lists(s, T, u) ==
  /\ IsFiniteSet(T) /\ u \in Seq(AlertRecords) /\ Len(u) = Cardinality(T)
  /\ \A x \in T : \E i \in 1..Len(u) : u[i] = [type |-> x, scan |-> s]

LEMMA NothingListed ==
  ASSUME NEW s
  PROVE  Lists(s, {}, <<>>)
<1>1. IsFiniteSet({}) /\ Cardinality({}) = 0
  BY FS_EmptySet
<1>2. <<>> \in Seq(AlertRecords) /\ Len(<<>>) = 0
  BY EmptySeq
<1>. QED  BY <1>1, <1>2 DEF Lists

LEMMA FoundListed ==
  ASSUME NEW s \in Scans, NEW told, NEW x \in Threats, NEW T, NEW u, Lists(s, T, u), x \notin T
  PROVE  Lists(s, T \cup ({x} \cap told), u \o Scanner!Found(s, told, x))
<1>0. IsFiniteSet(T) /\ u \in Seq(AlertRecords) /\ Len(u) = Cardinality(T) /\ Len(u) \in Nat
  BY LenProperties DEF Lists
<1>1. CASE x \in told
  <2>. DEFINE a == [type |-> x, scan |-> s]
              v == u \o <<a>>
  <2>0. a \in AlertRecords
    BY DEF AlertRecords
  <2>1. Scanner!Found(s, told, x) = <<a>> /\ T \cup ({x} \cap told) = T \cup {x}
    BY <1>1 DEF Scanner!Found
  <2>. HIDE DEF a
  <2>2. <<a>> \in Seq(AlertRecords) /\ Len(<<a>>) = 1 /\ <<a>>[1] = a
    BY <2>0
  <2>3. /\ v \in Seq(AlertRecords) /\ Len(v) = Len(u) + 1
        /\ \A i \in 1..Len(u) + 1 : v[i] = IF i <= Len(u) THEN u[i] ELSE <<a>>[i - Len(u)]
    BY <1>0, <2>2, ConcatProperties
  <2>. HIDE DEF v
  <2>4. v[Len(u) + 1] = a
    <3>1. Len(u) + 1 \in 1..Len(u) + 1 /\ ~(Len(u) + 1 <= Len(u)) /\ Len(u) + 1 - Len(u) = 1
      BY <1>0
    <3>. QED  BY <2>2, <2>3, <3>1
  <2>5. \A i \in 1..Len(u) : i \in 1..Len(u) + 1 /\ v[i] = u[i]
    BY <1>0, <2>3
  <2>6. IsFiniteSet(T \cup {x}) /\ Cardinality(T \cup {x}) = Cardinality(T) + 1
    BY <1>0, FS_AddElement
  <2>7. ASSUME NEW y \in T \cup {x} PROVE \E i \in 1..Len(v) : v[i] = [type |-> y, scan |-> s]
    <3>1. CASE y = x
      <4>1. Len(u) + 1 \in 1..Len(v)
        BY <1>0, <2>3
      <4>. QED  BY <2>4, <3>1, <4>1 DEF a
    <3>2. CASE y \in T
      <4>1. PICK i \in 1..Len(u) : u[i] = [type |-> y, scan |-> s]
        BY <3>2 DEF Lists
      <4>. QED  BY <2>3, <2>5, <4>1
    <3>. QED  BY <3>1, <3>2
  <2>. QED  BY <1>0, <2>1, <2>3, <2>6, <2>7 DEF Lists, v
<1>2. CASE x \notin told
  <2>1. Scanner!Found(s, told, x) = <<>> /\ T \cup ({x} \cap told) = T
    BY <1>2 DEF Scanner!Found
  <2>2. u \o <<>> = u
    BY <1>0, ConcatEmptySeq
  <2>. QED  BY <2>1, <2>2
<1>. QED  BY <1>1, <1>2

LEMMA AlertsListed ==
  ASSUME NEW s \in Scans, NEW told \in SUBSET Threats
  PROVE  Lists(s, told, Scanner!AlertsOf(s, told))
<1>. DEFINE F(x) == Scanner!Found(s, told, x)
            u1 == F("geofence")
            u2 == u1 \o F("volume")
            u3 == u2 \o F("spike")
            u4 == u3 \o F("encoded")
            u5 == u4 \o F("entropy")
            u6 == u5 \o F("leak")
            u7 == u6 \o F("suspect")
            t1 == {"geofence"} \cap told
            t2 == t1 \cup ({"volume"} \cap told)
            t3 == t2 \cup ({"spike"} \cap told)
            t4 == t3 \cup ({"encoded"} \cap told)
            t5 == t4 \cup ({"entropy"} \cap told)
            t6 == t5 \cup ({"leak"} \cap told)
            t7 == t6 \cup ({"suspect"} \cap told)
<1>0. Threats = {"geofence", "volume", "spike", "encoded", "entropy", "leak", "suspect"}
  BY DEF Threats
<1>1. Lists(s, t1, u1)
  <2>1. Lists(s, {} \cup t1, <<>> \o F("geofence"))
    BY <1>0, NothingListed, FoundListed
  <2>2. F("geofence") \in Seq(AlertRecords)
    <3>1. [type |-> "geofence", scan |-> s] \in AlertRecords
      BY <1>0 DEF AlertRecords
    <3>. QED  BY <3>1, EmptySeq DEF Scanner!Found
  <2>3. <<>> \o F("geofence") = F("geofence")
    BY <2>2, ConcatEmptySeq
  <2>4. {} \cup t1 = t1
    OBVIOUS
  <2>. QED  BY <2>1, <2>3, <2>4
<1>. HIDE DEF F, u1
<1>2. Lists(s, t2, u2)
  BY <1>0, <1>1, FoundListed DEF F
<1>. HIDE DEF u2
<1>3. Lists(s, t3, u3)
  BY <1>0, <1>2, FoundListed DEF F
<1>. HIDE DEF u3
<1>4. Lists(s, t4, u4)
  BY <1>0, <1>3, FoundListed DEF F
<1>. HIDE DEF u4
<1>5. Lists(s, t5, u5)
  BY <1>0, <1>4, FoundListed DEF F
<1>. HIDE DEF u5
<1>6. Lists(s, t6, u6)
  BY <1>0, <1>5, FoundListed DEF F
<1>. HIDE DEF u6
<1>7. Lists(s, t7, u7)
  BY <1>0, <1>6, FoundListed DEF F
<1>8. t7 = told
  BY <1>0
<1>9. u7 = Scanner!AlertsOf(s, told)
  BY DEF Scanner!AlertsOf, u1, u2, u3, u4, u5, u6, F
<1>. QED  BY <1>7, <1>8, <1>9

\* The one list is the end of the other, and all of it unless it is long.
Latest(list, all) ==
  /\ list \in Seq(AlertRecords) /\ all \in Seq(AlertRecords)
  /\ Len(list) <= MaxAlerts /\ Len(list) <= Len(all)
  /\ Len(list) = Len(all) \/ Len(list) >= KeptAlerts
  /\ \A i \in 1..Len(list) : list[i] = all[Len(all) - Len(list) + i]

LEMMA LatestGrows ==
  ASSUME NEW list, NEW all, Latest(list, all), NEW new \in Seq(AlertRecords)
  PROVE  Latest(Scanner!Kept(list \o new), all \o new)
<1>. DEFINE more == list \o new
            whole == all \o new
<1>0. /\ list \in Seq(AlertRecords) /\ all \in Seq(AlertRecords)
      /\ Len(list) \in Nat /\ Len(all) \in Nat /\ Len(new) \in Nat
      /\ MaxAlerts \in Nat /\ KeptAlerts \in Nat /\ KeptAlerts <= MaxAlerts
  BY LenProperties, ScannerConstants DEF Latest
<1>1. /\ more \in Seq(AlertRecords) /\ Len(more) = Len(list) + Len(new)
      /\ \A i \in 1..Len(list) + Len(new) : more[i] = IF i <= Len(list) THEN list[i] ELSE new[i - Len(list)]
  BY <1>0, ConcatProperties
<1>2. /\ whole \in Seq(AlertRecords) /\ Len(whole) = Len(all) + Len(new)
      /\ \A i \in 1..Len(all) + Len(new) : whole[i] = IF i <= Len(all) THEN all[i] ELSE new[i - Len(all)]
  BY <1>0, ConcatProperties
<1>. HIDE DEF more, whole
<1>3. PICK l \in Nat, a \in Nat, n \in Nat, m \in Nat, w \in Nat :
        /\ l = Len(list) /\ a = Len(all) /\ n = Len(new) /\ m = Len(more) /\ w = Len(whole)
        /\ m = l + n /\ w = a + n /\ l <= a /\ (l = a \/ l >= KeptAlerts)
  BY <1>0, <1>1, <1>2 DEF Latest
<1>4. \A i \in 1..m : more[i] = whole[w - m + i]
  <2>. TAKE i \in 1..m
  <2>1. w - m = a - l /\ i \in Nat /\ 1 <= i /\ i <= l + n
    BY <1>3
  <2>2. PICK k \in Nat : k = w - m + i /\ k = a - l + i /\ k \in 1..a + n
    <3>1. a - l + i \in Nat /\ a - l + i \in 1..a + n
      BY <1>3, <2>1
    <3>. QED  BY <2>1, <3>1
  <2>3. CASE i <= l
    <3>1. k <= a /\ i \in 1..Len(list)
      BY <1>3, <2>1, <2>2, <2>3
    <3>2. more[i] = list[i] /\ whole[k] = all[k]
      BY <1>1, <1>2, <1>3, <2>1, <2>2, <2>3, <3>1
    <3>3. list[i] = all[k]
      BY <1>3, <2>2, <3>1 DEF Latest
    <3>. QED  BY <2>2, <3>2, <3>3
  <2>4. CASE i > l
    <3>0. k = a - l + i /\ k \in Nat
      BY <2>2
    <3>1. ~(k <= a) /\ ~(i <= l) /\ k - a = i - l
      BY <2>1, <2>4, <3>0
    <3>2. more[i] = new[i - l] /\ whole[k] = new[k - a]
      BY <1>1, <1>2, <1>3, <2>1, <2>2, <3>1
    <3>. QED  BY <2>2, <3>1, <3>2
  <2>. QED  BY <2>1, <2>3, <2>4
<1>5. CASE m <= MaxAlerts
  <2>1. Scanner!Kept(more) = more
    BY <1>0, <1>3, <1>5 DEF Scanner!Kept
  <2>2. m <= w /\ (m = w \/ m >= KeptAlerts)
    BY <1>0, <1>3
  <2>3. Latest(more, whole)
    BY <1>1, <1>2, <1>3, <1>4, <1>5, <2>2 DEF Latest
  <2>. QED  BY <2>1, <2>3 DEF more, whole
<1>6. CASE m > MaxAlerts
  <2>. DEFINE b == m - KeptAlerts + 1
              v == SubSeq(more, b, m)
  <2>1. Scanner!Kept(more) = v
    BY <1>3, <1>6 DEF Scanner!Kept
  <2>2. b \in Nat /\ 1 <= b /\ b <= m + 1
    BY <1>0, <1>3, <1>6
  <2>3. \A i \in b..m : more[i] \in AlertRecords
    <3>1. \A i \in b..m : i \in 1..Len(more)
      BY <1>3, <2>2
    <3>. QED  BY <1>1, <3>1, LenProperties
  <2>. HIDE DEF b
  <2>4. /\ v \in Seq(AlertRecords) /\ Len(v) = (IF b <= m THEN m - b + 1 ELSE 0)
        /\ \A i \in 1..m - b + 1 : v[i] = more[b + i - 1]
    BY <2>2, <2>3, SubSeqProperties
  <2>. HIDE DEF v
  <2>5. Len(v) = KeptAlerts /\ m - b + 1 = KeptAlerts
    BY <1>0, <1>3, <2>2, <2>4 DEF b
  <2>6. KeptAlerts <= m /\ KeptAlerts <= w /\ KeptAlerts <= MaxAlerts
    BY <1>0, <1>3, <1>6
  <2>7. \A i \in 1..Len(v) : v[i] = whole[w - Len(v) + i]
    <3>. TAKE i \in 1..Len(v)
    <3>1. i \in 1..m - b + 1 /\ b + i - 1 \in 1..m
      BY <1>0, <1>3, <2>2, <2>5, <2>6 DEF b
    <3>2. v[i] = more[b + i - 1] /\ more[b + i - 1] = whole[w - m + (b + i - 1)]
      BY <1>4, <2>4, <3>1
    <3>3. w - m + (b + i - 1) = w - Len(v) + i
      BY <1>0, <1>3, <2>5 DEF b
    <3>. QED  BY <3>2, <3>3
  <2>8. Latest(v, whole)
    BY <1>0, <1>2, <1>3, <2>4, <2>5, <2>6, <2>7 DEF Latest
  <2>. QED  BY <2>1, <2>8 DEF more, whole
<1>. QED  BY <1>0, <1>3, <1>5, <1>6

-----------------------------------------------------------------------------
(* The inductive invariant of the egress scanner.                          *)

\* Each threat of a scan has its alert, among those recorded with it.
Alerted(c, s, all) ==
  /\ c.upTo <= Len(all)
  /\ \A x \in c.threats : \E i \in 1..Len(all) :
       c.upTo - Cardinality(c.threats) < i /\ i <= c.upTo /\ all[i] = [type |-> x, scan |-> s]

Judged(c) ==
  c.allowed <=>
    /\ c.body.encoding # "large"
    /\ \A x \in c.body.secrets : ~Scanner!Blocking(x)
    /\ "geofence" \in c.threats => GeofenceMode # "block"

ScanIs(c, s, all) ==
  /\ c.pc \in {"velocity", "body"} => c.threats \subseteq {"geofence", "volume", "spike"}
  /\ c.pc = "result" => Alerted(c, s, all) /\ Judged(c)

ScannerInv ==
  /\ ScannerType
  /\ \A id \in Identities : FlowIs(served[id], userFlows[id]) /\ AllCounted(served[id], scanTime)
  /\ Latest(alerts, recorded)
  /\ \A s \in Scans : ScanIs(scan[s], s, recorded)

LEMMA ScanFacts ==
  ASSUME ScannerType, NEW s \in Scans
  PROVE  /\ scan[s].pc = "idle" => scan[s] = Scanner!Idle
         /\ scan[s].pc \in {"velocity", "body"} => scan[s] \in Looking
         /\ scan[s].pc = "result" => scan[s] \in Looked
BY DEF ScannerType, Looking, Looked, Scanner!Idle

LEMMA BodyFacts ==
  ASSUME NEW b \in ScannedBodies
  PROVE  b.size \in Nat /\ b.encoding \in {"plain", "entropy", "large"} /\ b.secrets \subseteq {"pii", "generic", "key"}
BY ScannerAssumed DEF Scanner!ScannerAssumption

LEMMA ScannerInitInv ==
  Scanner!Init => ScannerInv
<1>. SUFFICES ASSUME Scanner!Init PROVE ScannerInv
  OBVIOUS
<1>0. \A A : <<>> \in Seq(A) /\ Len(<<>>) = 0
  BY EmptySeq
<1>1. ScannerType
  BY <1>0 DEF Scanner!Init, ScannerType, Scanner!Idle
<1>2. \A id \in Identities : FlowIs(served[id], userFlows[id]) /\ AllCounted(served[id], scanTime)
  BY <1>0 DEF Scanner!Init, FlowIs, AllCounted
<1>3. Latest(alerts, recorded)
  <2>1. alerts = <<>> /\ recorded = <<>> /\ MaxAlerts \in Nat
    BY ScannerConstants DEF Scanner!Init
  <2>. QED  BY <1>0, <2>1 DEF Latest
<1>4. \A s \in Scans : ScanIs(scan[s], s, recorded)
  BY DEF Scanner!Init, Scanner!Idle, ScanIs
<1>. QED  BY <1>1, <1>2, <1>3, <1>4 DEF ScannerInv

\* A scan that ends or begins.
LEMMA ScanChanges ==
  ASSUME ScannerInv, NEW s \in Scans, NEW c \in {Scanner!Idle} \cup Looking \cup Looked, ScanIs(c, s, recorded),
         scan' = [scan EXCEPT ![s] = c],
         UNCHANGED <<userFlows, alerts, scanTime, served, recorded>>
  PROVE  ScannerInv'
<1>1. scan \in [Scans -> {Scanner!Idle} \cup Looking \cup Looked]
  BY DEF ScannerInv, ScannerType
<1>2. scan' \in [Scans -> {Scanner!Idle} \cup Looking \cup Looked] /\ \A v \in Scans : scan'[v] = IF v = s THEN c ELSE scan[v]
  BY <1>1
<1>3. ScannerType'
  BY <1>2 DEF ScannerInv, ScannerType
<1>4. \A v \in Scans : ScanIs(scan'[v], v, recorded')
  BY <1>2 DEF ScannerInv
<1>5. \A id \in Identities : FlowIs(served'[id], userFlows'[id]) /\ AllCounted(served'[id], scanTime')
  BY DEF ScannerInv
<1>6. Latest(alerts', recorded')
  BY DEF ScannerInv
<1>. QED  BY <1>3, <1>4, <1>5, <1>6 DEF ScannerInv

LEMMA AnalyzeInv ==
  ASSUME ScannerInv, NEW s \in Scans, NEW id \in Identities, NEW body \in ScannedBodies, NEW abroad \in BOOLEAN,
         Scanner!Analyze(s, id, body, abroad)
  PROVE  ScannerInv'
<1>. DEFINE c == [pc |-> "velocity", id |-> id, body |-> body, threats |-> IF abroad THEN {"geofence"} ELSE {}]
<1>1. scan' = [scan EXCEPT ![s] = c] /\ UNCHANGED <<userFlows, alerts, scanTime, served, recorded>>
  BY DEF Scanner!Analyze
<1>2. c.threats \subseteq {"geofence", "volume", "spike"} /\ c.threats \in SUBSET Threats
  BY DEF Threats
<1>3. c \in Looking
  BY <1>2 DEF Looking
<1>4. ScanIs(c, s, recorded)
  BY <1>2 DEF ScanIs
<1>. HIDE DEF c
<1>. QED  BY <1>1, <1>3, <1>4, ScanChanges

LEMMA FinishInv ==
  ASSUME ScannerInv, NEW s \in Scans, Scanner!Finish(s)
  PROVE  ScannerInv'
<1>1. ScanIs(Scanner!Idle, s, recorded)
  BY DEF ScanIs, Scanner!Idle
<1>. QED  BY <1>1, ScanChanges DEF Scanner!Finish

LEMMA TickInv ==
  ASSUME ScannerInv, Scanner!Tick
  PROVE  ScannerInv'
<1>1. scanTime \in Nat /\ scanTime' = scanTime + 1 /\ UNCHANGED <<userFlows, alerts, scan, served, recorded>>
  BY DEF Scanner!Tick, ScannerInv, ScannerType
<1>2. ScannerType'
  BY <1>1 DEF ScannerInv, ScannerType
<1>3. ASSUME NEW id \in Identities PROVE AllCounted(served[id], scanTime + 1)
  <2>1. served[id] \in Seq(Entries) /\ AllCounted(served[id], scanTime)
    BY DEF ScannerInv, ScannerType
  <2>2. \A j \in 1..Len(served[id]) : served[id][j].at \in Nat /\ served[id][j].at <= scanTime
    BY <2>1, EntryFacts DEF AllCounted
  <2>3. \A j \in 1..Len(served[id]) : served[id][j].at <= scanTime + 1
    BY <1>1, <2>2
  <2>. QED  BY <2>1, <2>3 DEF AllCounted
<1>4. \A id \in Identities : FlowIs(served'[id], userFlows'[id]) /\ AllCounted(served'[id], scanTime')
  BY <1>1, <1>3 DEF ScannerInv
<1>5. Latest(alerts', recorded')
  BY <1>1 DEF ScannerInv
<1>6. \A s \in Scans : ScanIs(scan'[s], s, recorded')
  BY <1>1 DEF ScannerInv
<1>. QED  BY <1>2, <1>4, <1>5, <1>6 DEF ScannerInv

-----------------------------------------------------------------------------
(* What the two looks of a scan do.                                        *)

\* What a client was sent stays counted with one response more.
LEMMA AppendCounts ==
  ASSUME NEW sent \in Seq(Entries), NEW t \in Nat, AllCounted(sent, t), NEW flow,
         FlowIs(sent, flow), NEW e, NEW n, ComesNext(sent, e, t, n),
         e.flow = [Scanner!Rolled(IF flow = None THEN Scanner!NewFlow ELSE flow) EXCEPT !.bytes = @ + n],
         scanTime = t
  PROVE  AllCounted(Append(sent, e), t) /\ FlowIs(Append(sent, e), e.flow) /\ Append(sent, e) \in Seq(Entries)
<1>. DEFINE K == Len(sent) + 1
            u == Append(sent, e)
<1>0. /\ e \in Entries /\ e.at = t /\ n \in Nat /\ VelocityWindow \in Nat /\ None \notin Scanner!Flow
      /\ \A j \in 1..Len(sent) : Counted(sent, j)
      /\ \A j \in 1..Len(sent) : sent[j].at <= t
  BY ScannerConstants DEF ComesNext, AllCounted
<1>1. /\ u[K] = e /\ Len(u) = K /\ (\A i \in 1..Len(sent) : u[i] = sent[i])
      /\ u \in Seq(Entries) /\ Len(sent) \in Nat /\ u # <<>>
  BY <1>0, Appended
<1>2. Counted(u, K)
  <2>1. CASE sent = <<>>
    <3>1. flow = None /\ Scanner!NewFlow = [bytes |-> 0, start |-> t, total |-> 0, samples |-> 0]
      BY <2>1 DEF FlowIs, Scanner!NewFlow
    <3>2. Scanner!Rolled(Scanner!NewFlow) = Scanner!NewFlow
      BY <1>0, <3>1 DEF Scanner!Rolled
    <3>3. e.flow.bytes = n /\ e.flow.start = t /\ e.flow.total = 0 /\ e.flow.samples = 0
      BY <1>0, <3>1, <3>2
    <3>4. Counted(Append(<<>>, e), 1)
      BY <2>1, <3>3, FirstIsCounted
    <3>5. K = 1
      BY <2>1, EmptySeq
    <3>. QED  BY <2>1, <3>4, <3>5
  <2>2. CASE sent # <<>>
    <3>1. PICK g : g = sent[Len(sent)].flow /\ flow = g /\ g \in Scanner!Flow /\ g.start \in Nat /\ g.bytes \in Nat
                   /\ g.total \in Nat /\ g.samples \in Nat
      <4>1. Len(sent) # 0
        BY <2>2, EmptySeq
      <4>2. Len(sent) \in 1..Len(sent)
        BY <1>1, <4>1
      <4>. QED  BY <2>2, <4>2, EntryFacts DEF FlowIs
    <3>2. e.flow = [Scanner!Rolled(g) EXCEPT !.bytes = @ + n]
      BY <1>0, <3>1
    <3>3. CASE t - g.start > VelocityWindow
      <4>1. Scanner!Rolled(g) = [bytes |-> 0, start |-> t, total |-> g.total + g.bytes, samples |-> g.samples + 1]
        BY <3>3 DEF Scanner!Rolled
      <4>2. Rolls(e.flow, g, t, n)
        BY <1>0, <3>1, <3>2, <3>3, <4>1 DEF Rolls
      <4>. QED  BY <1>0, <2>2, <3>1, <4>2, RolledIsCounted
    <3>4. CASE ~(t - g.start > VelocityWindow)
      <4>1. Scanner!Rolled(g) = g
        BY <3>4 DEF Scanner!Rolled
      <4>2. Goes(e.flow, g, t, n)
        <5>1. e.flow = [g EXCEPT !.bytes = @ + n]
          BY <3>2, <4>1
        <5>2. t <= g.start + VelocityWindow
          BY <1>0, <3>1, <3>4
        <5>. QED  BY <3>1, <5>1, <5>2 DEF Goes, Scanner!Flow
      <4>. QED  BY <1>0, <2>2, <3>1, <4>2, NextIsCounted
    <3>. QED  BY <3>3, <3>4
  <2>. QED  BY <2>1, <2>2
<1>3. \A j \in 1..Len(sent) : Counted(u, j)
  BY <1>0, CountedStays
<1>. HIDE DEF u
<1>4. \A j \in 1..Len(u) : j = K \/ j \in 1..Len(sent)
  BY <1>1
<1>5. AllCounted(u, t)
  <2>1. t <= t
    OBVIOUS
  <2>. QED  BY <1>0, <1>1, <1>2, <1>3, <1>4, <2>1 DEF AllCounted
<1>6. FlowIs(u, e.flow)
  BY <1>1 DEF FlowIs
<1>. QED  BY <1>1, <1>5, <1>6 DEF u

LEMMA VelocityInv ==
  ASSUME ScannerInv, NEW s \in Scans, Scanner!checkVelocity(s)
  PROVE  ScannerInv'
<1>. DEFINE id == scan[s].id
            old == Scanner!Rolled(IF userFlows[id] = None THEN Scanner!NewFlow ELSE userFlows[id])
            flow == [old EXCEPT !.bytes = @ + scan[s].body.size]
            found == Scanner!Velocity(flow)
            n == scan[s].body.size
            sent == served[id]
            e == [at |-> scanTime, size |-> n, before |-> Scanner!SentTo(id), flow |-> flow, said |-> found]
            c == [scan[s] EXCEPT !.pc = "body", !.threats = @ \cup ({found} \ {None})]
<1>1. /\ scan[s].pc = "velocity"
      /\ userFlows' = [userFlows EXCEPT ![id] = flow]
      /\ served' = [served EXCEPT ![id] = Append(@, e)]
      /\ scan' = [scan EXCEPT ![s] = c]
      /\ UNCHANGED <<alerts, scanTime, recorded>>
  <2>1. scan[s].pc = "velocity" /\ UNCHANGED <<alerts, scanTime, recorded>>
    BY DEF Scanner!checkVelocity
  <2>2. userFlows' = [userFlows EXCEPT ![id] = flow]
    BY DEF Scanner!checkVelocity
  <2>3. served' = [served EXCEPT ![id] = Append(@, e)]
    BY DEF Scanner!checkVelocity
  <2>4. scan' = [scan EXCEPT ![s] = c]
    BY DEF Scanner!checkVelocity
  <2>. QED  BY <2>1, <2>2, <2>3, <2>4
<1>2. /\ userFlows \in [Identities -> Scanner!Flow \cup {None}]
      /\ scan \in [Scans -> {Scanner!Idle} \cup Looking \cup Looked]
      /\ scanTime \in Nat /\ served \in [Identities -> Seq(Entries)]
      /\ alerts \in Seq(AlertRecords) /\ recorded \in Seq(AlertRecords)
  BY DEF ScannerInv, ScannerType
<1>3. scan[s] \in Looking
  BY <1>1, ScanFacts DEF ScannerInv
<1>4. id \in Identities /\ n \in Nat /\ scan[s].threats \in SUBSET {"geofence", "volume", "spike"}
  BY <1>1, <1>3, BodyFacts DEF Looking, ScannerInv, ScanIs
<1>5. sent \in Seq(Entries) /\ AllCounted(sent, scanTime) /\ FlowIs(sent, userFlows[id])
      /\ userFlows[id] \in Scanner!Flow \cup {None}
  BY <1>2, <1>4 DEF ScannerInv
<1>6. flow \in Scanner!Flow
  <2>1. Scanner!NewFlow \in Scanner!Flow
    BY <1>2 DEF Scanner!NewFlow, Scanner!Flow
  <2>2. \A f \in Scanner!Flow : Scanner!Rolled(f) \in Scanner!Flow
    BY <1>2 DEF Scanner!Rolled, Scanner!Flow
  <2>3. old \in Scanner!Flow
    BY <1>5, <2>1, <2>2
  <2>. HIDE DEF old
  <2>. QED  BY <1>4, <2>3 DEF Scanner!Flow
<1>7. found \in {"volume", "spike", None}
  <2>. HIDE DEF flow
  <2>1. flow.bytes \in Nat /\ MaxBytesPerWindow \in Nat
    BY <1>6, ScannerConstants DEF Scanner!Flow
  <2>. QED  BY <2>1 DEF Scanner!Velocity
<1>. HIDE DEF flow, found
<1>8. Scanner!SentTo(id) = (IF sent = <<>> THEN 0 ELSE sent[Len(sent)].before + sent[Len(sent)].size)
  BY DEF Scanner!SentTo
<1>9. Scanner!SentTo(id) \in Nat
  <2>1. CASE sent = <<>>
    BY <1>8, <2>1
  <2>2. CASE sent # <<>>
    <3>1. Len(sent) \in Nat /\ Len(sent) # 0
      BY <1>5, <2>2, EmptySeq, LenProperties
    <3>2. Len(sent) \in 1..Len(sent)
      BY <3>1
    <3>3. sent[Len(sent)].before \in Nat /\ sent[Len(sent)].size \in Nat
      BY <1>5, <3>2, EntryFacts
    <3>. QED  BY <1>8, <2>2, <3>3
  <2>. QED  BY <2>1, <2>2
<1>. HIDE DEF n
<1>10. e \in Entries /\ e.at = scanTime /\ e.size = n /\ e.before = Scanner!SentTo(id) /\ e.flow = flow /\ e.said = found
  BY <1>2, <1>4, <1>6, <1>7, <1>9 DEF Entries
<1>. HIDE DEF e
<1>11. ComesNext(sent, e, scanTime, n)
  <2>1. \A i \in 1..Len(sent) : sent[i].at <= scanTime
    BY <1>5 DEF AllCounted
  <2>2. e.said = Scanner!Velocity(e.flow)
    BY <1>10 DEF found
  <2>. QED  BY <1>2, <1>4, <1>8, <1>10, <2>1, <2>2 DEF ComesNext
<1>12. AllCounted(Append(sent, e), scanTime) /\ FlowIs(Append(sent, e), flow) /\ Append(sent, e) \in Seq(Entries)
  <2>1. e.flow = [Scanner!Rolled(IF userFlows[id] = None THEN Scanner!NewFlow ELSE userFlows[id]) EXCEPT !.bytes = @ + n]
    BY <1>10 DEF flow, n
  <2>. HIDE DEF sent, old, id
  <2>2. AllCounted(Append(sent, e), scanTime) /\ FlowIs(Append(sent, e), e.flow) /\ Append(sent, e) \in Seq(Entries)
    BY <1>2, <1>5, <1>11, <2>1, AppendCounts
  <2>. QED  BY <1>10, <2>2
<1>13. /\ userFlows' \in [Identities -> Scanner!Flow \cup {None}]
       /\ \A i \in Identities : userFlows'[i] = IF i = id THEN flow ELSE userFlows[i]
  BY <1>1, <1>2, <1>4, <1>6
<1>14. /\ served' \in [Identities -> Seq(Entries)]
       /\ \A i \in Identities : served'[i] = IF i = id THEN Append(sent, e) ELSE served[i]
  BY <1>1, <1>2, <1>4, <1>12
<1>15. \A i \in Identities : FlowIs(served'[i], userFlows'[i]) /\ AllCounted(served'[i], scanTime')
  BY <1>1, <1>12, <1>13, <1>14 DEF ScannerInv
<1>16. c \in Looking /\ c.pc = "body" /\ c.threats \subseteq {"geofence", "volume", "spike"}
  <2>1. c.pc = "body" /\ c.threats = scan[s].threats \cup ({found} \ {None})
    BY <1>3 DEF Looking
  <2>2. c.threats \subseteq {"geofence", "volume", "spike"}
    BY <1>4, <1>7, <2>1
  <2>3. scan[s].threats \cup ({found} \ {None}) \in SUBSET Threats
    BY <2>1, <2>2 DEF Threats
  <2>4. c \in Looking
    BY <1>3, <2>3 DEF Looking
  <2>. QED  BY <2>1, <2>2, <2>4
<1>. HIDE DEF c
<1>17. /\ scan' \in [Scans -> {Scanner!Idle} \cup Looking \cup Looked]
       /\ \A v \in Scans : scan'[v] = IF v = s THEN c ELSE scan[v]
  BY <1>1, <1>2, <1>16
<1>18. \A v \in Scans : ScanIs(scan'[v], v, recorded')
  BY <1>1, <1>16, <1>17 DEF ScannerInv, ScanIs
<1>19. ScannerType'
  BY <1>1, <1>2, <1>13, <1>14, <1>17 DEF ScannerType
<1>20. Latest(alerts', recorded')
  BY <1>1 DEF ScannerInv
<1>. QED  BY <1>15, <1>18, <1>19, <1>20 DEF ScannerInv

\* The alerts that a scan adds are there for each of its threats.
LEMMA AddedAlerts ==
  ASSUME NEW s \in Scans, NEW c, c.threats \in SUBSET Threats, NEW all \in Seq(AlertRecords),
         NEW new, new = Scanner!AlertsOf(s, c.threats), c.upTo = Len(all \o new)
  PROVE  Alerted(c, s, all \o new) /\ new \in Seq(AlertRecords) /\ all \o new \in Seq(AlertRecords)
<1>. DEFINE T == c.threats
            whole == all \o new
<1>1. /\ IsFiniteSet(T) /\ new \in Seq(AlertRecords) /\ Len(new) = Cardinality(T)
      /\ \A x \in T : \E i \in 1..Len(new) : new[i] = [type |-> x, scan |-> s]
  BY AlertsListed DEF Lists
<1>2. /\ whole \in Seq(AlertRecords) /\ Len(whole) = Len(all) + Len(new)
      /\ \A i \in 1..Len(all) + Len(new) : whole[i] = IF i <= Len(all) THEN all[i] ELSE new[i - Len(all)]
  <2>1. new \in Seq(AlertRecords)
    BY <1>1
  <2>. QED  BY <2>1, ConcatProperties
<1>3. PICK a \in Nat, m \in Nat : a = Len(all) /\ m = Len(new)
  BY <1>1, LenProperties
<1>4. c.upTo = a + m /\ Len(whole) = a + m /\ Cardinality(T) = m
  BY <1>1, <1>2, <1>3
<1>. HIDE DEF whole, T
<1>5. ASSUME NEW x \in T
      PROVE  \E i \in 1..Len(whole) : c.upTo - Cardinality(T) < i /\ i <= c.upTo /\ whole[i] = [type |-> x, scan |-> s]
  <2>1. PICK i \in 1..m : new[i] = [type |-> x, scan |-> s]
    BY <1>1, <1>3
  <2>2. PICK k \in Nat : k = a + i /\ k \in 1..a + m /\ ~(k <= a) /\ k - a = i /\ k <= a + m /\ a + m - m < k
    OBVIOUS
  <2>3. whole[k] = new[i]
    BY <1>2, <1>3, <2>2
  <2>. QED  BY <1>4, <2>1, <2>2, <2>3
<1>6. c.upTo <= Len(whole)
  BY <1>4
<1>. QED  BY <1>1, <1>2, <1>5, <1>6 DEF Alerted, whole, T

\* An alert stays where it is when more come.
LEMMA AlertsStay ==
  ASSUME NEW c, NEW s, c.upTo \in Nat, NEW all \in Seq(AlertRecords), NEW new \in Seq(AlertRecords), Alerted(c, s, all)
  PROVE  Alerted(c, s, all \o new)
<1>1. /\ Len(all \o new) = Len(all) + Len(new)
      /\ \A i \in 1..Len(all) + Len(new) : (all \o new)[i] = IF i <= Len(all) THEN all[i] ELSE new[i - Len(all)]
  BY ConcatProperties
<1>2. Len(all) \in Nat /\ Len(new) \in Nat
  BY LenProperties
<1>3. \A i \in 1..Len(all) : i \in 1..Len(all \o new) /\ (all \o new)[i] = all[i]
  BY <1>1, <1>2
<1>4. c.upTo <= Len(all \o new)
  BY <1>1, <1>2 DEF Alerted
<1>. QED  BY <1>3, <1>4 DEF Alerted

LEMMA BodyInv ==
  ASSUME ScannerInv, NEW s \in Scans, Scanner!checkBody(s)
  PROVE  ScannerInv'
<1>. DEFINE T == scan[s].threats \cup Scanner!checkEncoded(scan[s].body) \cup Scanner!checkSecretLeak(scan[s].body)
            new == Scanner!AlertsOf(s, T)
            denying == {"encoded", "leak"} \cup (IF GeofenceMode = "block" THEN {"geofence"} ELSE {})
            whole == recorded \o new
            allowed == T \cap denying = {}
            body == scan[s].body
            c == [pc |-> "result", body |-> body, threats |-> T, allowed |-> allowed, upTo |-> Len(whole)]
<1>1. scan[s].pc = "body" /\ UNCHANGED <<userFlows, scanTime, served>>
  BY DEF Scanner!checkBody
<1>2. alerts' = Scanner!Kept(alerts \o new) /\ recorded' = whole
  BY DEF Scanner!checkBody
<1>3. scan' = [scan EXCEPT ![s] = c]
  BY DEF Scanner!checkBody
<1>4. /\ scan \in [Scans -> {Scanner!Idle} \cup Looking \cup Looked]
      /\ alerts \in Seq(AlertRecords) /\ recorded \in Seq(AlertRecords)
  BY DEF ScannerInv, ScannerType
<1>5. /\ body \in ScannedBodies /\ scan[s].threats \in SUBSET {"geofence", "volume", "spike"}
      /\ body.encoding \in {"plain", "entropy", "large"} /\ body.secrets \subseteq {"pii", "generic", "key"}
  BY <1>1, ScanFacts, BodyFacts DEF Looking, ScannerInv, ScanIs
<1>. HIDE DEF body
<1>6. /\ Scanner!checkEncoded(body) \subseteq {"encoded", "entropy"}
      /\ "encoded" \in Scanner!checkEncoded(body) <=> body.encoding = "large"
  BY <1>5 DEF Scanner!checkEncoded
<1>7. /\ Scanner!checkSecretLeak(body) \subseteq {"leak", "suspect"}
      /\ "leak" \in Scanner!checkSecretLeak(body) <=> \E x \in body.secrets : Scanner!Blocking(x)
  BY DEF Scanner!checkSecretLeak
<1>8. T = scan[s].threats \cup Scanner!checkEncoded(body) \cup Scanner!checkSecretLeak(body)
  BY DEF body
<1>. HIDE DEF T
<1>9. T \in SUBSET Threats
  BY <1>5, <1>6, <1>7, <1>8 DEF Threats
<1>10. ("encoded" \in T <=> body.encoding = "large") /\ ("leak" \in T <=> \E x \in body.secrets : Scanner!Blocking(x))
  BY <1>5, <1>6, <1>7, <1>8
<1>11. allowed <=> /\ body.encoding # "large"
                   /\ \A x \in body.secrets : ~Scanner!Blocking(x)
                   /\ "geofence" \in T => GeofenceMode # "block"
  BY <1>10
<1>12. allowed \in BOOLEAN
  OBVIOUS
<1>. HIDE DEF allowed
<1>13. c.pc = "result" /\ c.threats = T /\ c.body = body /\ c.allowed = allowed /\ c.upTo = Len(whole)
  OBVIOUS
<1>14. Alerted(c, s, whole) /\ new \in Seq(AlertRecords) /\ whole \in Seq(AlertRecords)
  <2>. HIDE DEF c
  <2>. QED  BY <1>4, <1>9, <1>13, AddedAlerts
<1>. HIDE DEF new, whole
<1>15. Len(whole) \in Nat
  BY <1>14, LenProperties
<1>16. c \in Looked
  BY <1>5, <1>9, <1>12, <1>15 DEF Looked
<1>. HIDE DEF c
<1>17. ScanIs(c, s, whole)
  BY <1>11, <1>13, <1>14 DEF ScanIs, Judged
<1>18. /\ scan' \in [Scans -> {Scanner!Idle} \cup Looking \cup Looked]
       /\ \A v \in Scans : scan'[v] = IF v = s THEN c ELSE scan[v]
  BY <1>3, <1>4, <1>16
<1>19. Latest(alerts', recorded')
  BY <1>2, <1>14, LatestGrows DEF ScannerInv, whole
<1>20. ASSUME NEW v \in Scans PROVE ScanIs(scan'[v], v, recorded')
  <2>1. CASE v = s
    BY <1>2, <1>17, <1>18, <2>1
  <2>2. CASE v # s
    <3>1. scan'[v] = scan[v] /\ ScanIs(scan[v], v, recorded)
      BY <1>18, <2>2 DEF ScannerInv
    <3>2. ASSUME scan[v].pc = "result" PROVE Alerted(scan[v], v, whole) /\ Judged(scan[v])
      <4>1. scan[v].upTo \in Nat /\ Alerted(scan[v], v, recorded) /\ Judged(scan[v])
        BY <3>1, <3>2, ScanFacts DEF ScannerInv, ScanIs, Looked
      <4>. QED  BY <1>4, <1>14, <4>1, AlertsStay DEF whole
    <3>. QED  BY <1>2, <3>1, <3>2 DEF ScanIs
  <2>. QED  BY <2>1, <2>2
<1>21. ScannerType'
  <2>1. alerts' \in Seq(AlertRecords) /\ recorded' \in Seq(AlertRecords)
    BY <1>19 DEF Latest
  <2>. QED  BY <1>1, <1>18, <2>1 DEF ScannerInv, ScannerType
<1>22. \A id \in Identities : FlowIs(served'[id], userFlows'[id]) /\ AllCounted(served'[id], scanTime')
  BY <1>1 DEF ScannerInv
<1>. QED  BY <1>19, <1>20, <1>21, <1>22 DEF ScannerInv

LEMMA ScannerNextInv ==
  ScannerInv /\ [Scanner!Next]_(Scanner!vars) => ScannerInv'
<1>. SUFFICES ASSUME ScannerInv, [Scanner!Next]_(Scanner!vars) PROVE ScannerInv'
  OBVIOUS
<1>1. CASE \E s \in Scans, id \in Identities, body \in ScannedBodies, abroad \in BOOLEAN : Scanner!Analyze(s, id, body, abroad)
  BY <1>1, AnalyzeInv
<1>2. CASE \E s \in Scans : Scanner!checkVelocity(s)
  BY <1>2, VelocityInv
<1>3. CASE \E s \in Scans : Scanner!checkBody(s)
  BY <1>3, BodyInv
<1>4. CASE \E s \in Scans : Scanner!Finish(s)
  BY <1>4, FinishInv
<1>5. CASE Scanner!Tick
  BY <1>5, TickInv
<1>6. CASE UNCHANGED Scanner!vars
  <2>1. UNCHANGED <<userFlows, alerts, scan, scanTime, served, recorded>>
    BY <1>6 DEF Scanner!vars
  <2>2. ScannerType'
    BY <2>1 DEF ScannerInv, ScannerType
  <2>3. \A id \in Identities : FlowIs(served'[id], userFlows'[id]) /\ AllCounted(served'[id], scanTime')
    BY <2>1 DEF ScannerInv
  <2>4. Latest(alerts', recorded')
    BY <2>1 DEF ScannerInv
  <2>5. \A s \in Scans : ScanIs(scan'[s], s, recorded')
    BY <2>1 DEF ScannerInv
  <2>. QED  BY <2>2, <2>3, <2>4, <2>5 DEF ScannerInv
<1>. QED  BY <1>1, <1>2, <1>3, <1>4, <1>5, <1>6 DEF Scanner!Next

-----------------------------------------------------------------------------
(* What the invariant says of the scanner, and of leaks.                   *)

LEMMA ScannerInvTellsVolumes ==
  ScannerInv => Scanner!VolumesAreTold
<1>. SUFFICES ASSUME ScannerInv, NEW id \in Identities, NEW j \in DOMAIN served[id]
              PROVE  VolumeTold(served[id], j)
  BY DEF Scanner!VolumesAreTold, VolumeTold
<1>1. served[id] \in Seq(Entries) /\ \A k \in 1..Len(served[id]) : Counted(served[id], k)
  BY DEF ScannerInv, ScannerType, AllCounted
<1>2. j \in 1..Len(served[id])
  BY <1>1, LenProperties
<1>. QED  BY <1>1, <1>2, CountedTells

\* The last so many of the alerts are among the latest.
LEMMA AmongLatest ==
  ASSUME NEW N \in Nat, NEW n \in Nat, NEW k \in Nat, NEW u \in Nat, NEW C \in Nat, NEW K \in Nat,
         n <= N, 1 <= k, u - C < k, N - u + C <= K, n = N \/ n >= K
  PROVE  N - n < k
OBVIOUS

LEMMA SameCardinality ==
  ASSUME NEW S
  PROVE  Scanner!Cardinality(S) = Cardinality(S)
BY DEF Scanner!Cardinality, Cardinality

\* The list is the end of what was recorded, element by element, so it is that end.
LEMMA ScannerInvKeepsLatest ==
  ScannerInv => Scanner!AlertsAreLatest
<1>. SUFFICES ASSUME ScannerInv PROVE Scanner!AlertsAreLatest
  OBVIOUS
<1>1. /\ alerts \in Seq(AlertRecords) /\ recorded \in Seq(AlertRecords)
      /\ Len(alerts) \in Nat /\ Len(recorded) \in Nat /\ DOMAIN alerts = 1..Len(alerts) /\ KeptAlerts \in Nat
  BY LenProperties, ScannerConstants DEF ScannerInv, ScannerType
<1>2. /\ Len(alerts) <= MaxAlerts /\ Len(alerts) <= Len(recorded)
      /\ Len(alerts) = Len(recorded) \/ Len(alerts) >= KeptAlerts
      /\ \A i \in 1..Len(alerts) : alerts[i] = recorded[Len(recorded) - Len(alerts) + i]
  BY DEF ScannerInv, Latest
<1>3. PICK n \in Nat, N \in Nat : n = Len(alerts) /\ N = Len(recorded) /\ n <= N
  BY <1>1, <1>2
<1>4. alerts = SubSeq(recorded, N - n + 1, N)
  <2>. DEFINE v == SubSeq(recorded, N - n + 1, N)
  <2>1. \A i \in (N - n + 1)..N : recorded[i] \in AlertRecords
    <3>1. \A i \in (N - n + 1)..N : i \in 1..Len(recorded)
      BY <1>3
    <3>. QED  BY <1>1, <3>1, ElementOfSeq
  <2>2. /\ v \in Seq(AlertRecords) /\ Len(v) = (IF N - n + 1 <= N THEN N - (N - n + 1) + 1 ELSE 0)
        /\ \A i \in 1..N - (N - n + 1) + 1 : v[i] = recorded[N - n + 1 + i - 1]
    <3>1. N - n + 1 \in Int /\ N \in Int
      OBVIOUS
    <3>. QED  BY <2>1, <3>1, SubSeqProperties
  <2>. HIDE DEF v
  <2>3. Len(v) = n /\ N - (N - n + 1) + 1 = n
    BY <2>2
  <2>4. \A i \in 1..n : v[i] = recorded[N - n + i]
    <3>. TAKE i \in 1..n
    <3>1. v[i] = recorded[N - n + 1 + i - 1]
      BY <2>2, <2>3
    <3>2. N - n + 1 + i - 1 = N - n + i
      OBVIOUS
    <3>. QED  BY <3>1, <3>2
  <2>5. v \in Seq(AlertRecords) /\ Len(alerts) = Len(v) /\ \A i \in 1..Len(alerts) : alerts[i] = v[i]
    BY <1>2, <1>3, <2>2, <2>3, <2>4
  <2>6. alerts = v
    <3>1. alerts \in Seq(AlertRecords)
      BY <1>1
    <3>. QED  BY <2>5, <3>1, SeqEqual
  <2>. QED  BY <2>6 DEF v
<1>5. ASSUME NEW s \in Scans, scan[s].pc = "result",
             Len(recorded) - scan[s].upTo + Cardinality(scan[s].threats) <= KeptAlerts,
             NEW x \in scan[s].threats
      PROVE  \E i \in DOMAIN alerts : alerts[i] = [type |-> x, scan |-> s]
  <2>1. Alerted(scan[s], s, recorded) /\ scan[s].upTo \in Nat /\ scan[s].threats \in SUBSET Threats
    BY <1>5, ScanFacts DEF ScannerInv, ScanIs, Looked
  <2>2. PICK C \in Nat, u \in Nat : C = Cardinality(scan[s].threats) /\ u = scan[s].upTo
    <3>1. IsFiniteSet(scan[s].threats)
      BY <2>1, AlertsListed DEF Lists
    <3>. QED  BY <2>1, <3>1, FS_CardinalityType
  <2>3. PICK k \in 1..Len(recorded) : u - C < k /\ k <= u /\ recorded[k] = [type |-> x, scan |-> s]
    BY <1>5, <2>1, <2>2 DEF Alerted
  <2>4. k \in Nat /\ 1 <= k /\ k <= N /\ N - u + C <= KeptAlerts /\ (n = N \/ n >= KeptAlerts)
    BY <1>2, <1>3, <1>5, <2>2, <2>3
  <2>5. PICK i \in 1..n : N - n + i = k
    <3>1. k - (N - n) \in 1..n
      <4>1. PICK K \in Nat : K = KeptAlerts
        BY <1>1
      <4>2. u - C < k
        BY <2>3
      <4>3. N - n < k
        BY <1>3, <2>4, <4>1, <4>2, AmongLatest
      <4>. QED  BY <1>3, <2>4, <4>3
    <3>2. N - n + (k - (N - n)) = k
      BY <2>4
    <3>. QED  BY <3>1, <3>2
  <2>6. alerts[i] = recorded[k]
    BY <1>2, <1>3, <2>5
  <2>. QED  BY <1>1, <1>3, <2>3, <2>5, <2>6
<1>. QED  BY <1>2, <1>3, <1>4, <1>5, SameCardinality DEF Scanner!AlertsAreLatest

LEMMA ScannerInvTells ==
  ScannerInv => Scanner!ScansAreTold
<1>. SUFFICES ASSUME ScannerInv PROVE Scanner!ScansAreTold
  OBVIOUS
<1>1. Scanner!RefusalsAreForTheBody
  BY DEF ScannerInv, ScanIs, Judged, Scanner!RefusalsAreForTheBody
<1>. QED  BY <1>1, ScannerInvTellsVolumes, ScannerInvKeepsLatest DEF Scanner!ScansAreTold

\* A leak that the scan can read, in a response that a capture can hold, is not sent,
\* whatever its coding and label, and one in the first Limit units is recorded; and the
\* scanner that finds it tells what went out: whatever was sent before, to however many, the volume it reports
\* was sent within a window, no more than twice the limit passes without a report, the list
\* has the latest alerts, and a response is withheld for its own content or destination
\* (internal/server/middleware.go, internal/egress/advanced.go).
THEOREM LeaksAreAlwaysCaught == RequestsSpec => []LeaksAreCaught
<1>1. RequestsInit => ResponseInv /\ ScannerInv
  BY ResponseInitInv, ScannerInitInv DEF RequestsInit
<1>2. ResponseInv /\ ScannerInv /\ [RequestsNext]_<<part, vars, responseVars, scannerVars>> => ResponseInv' /\ ScannerInv'
  <2>. SUFFICES ASSUME ResponseInv, ScannerInv, [RequestsNext]_<<part, vars, responseVars, scannerVars>>
                PROVE  ResponseInv' /\ ScannerInv'
    OBVIOUS
  <2>1. [Response!Next]_(Response!vars)
    BY DEF RequestsNext, responseVars, Response!vars
  <2>2. [Scanner!Next]_(Scanner!vars)
    BY DEF RequestsNext, scannerVars, Scanner!vars
  <2>. QED  BY <2>1, <2>2, ResponseNextInv, ScannerNextInv
<1>3. ResponseInv /\ ScannerInv => LeaksAreCaught
  BY ResponseInvCatchesLeaks, ScannerInvTells DEF LeaksAreCaught
<1>. QED  BY <1>1, <1>2, <1>3, PTL DEF RequestsSpec
=============================================================================
