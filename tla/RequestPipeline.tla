----------------------------- MODULE RequestPipeline -----------------------------
(***************************************************************************)
(* A request's way through the middlewares of internal/server, in the      *)
(* order setupMiddleware installs them, to a handler; and the tables of    *)
(* blocked addresses that they, the handlers and time change meanwhile.    *)
(*                                                                         *)
(* The components behind the middlewares have modules of their own; here   *)
(* each is what the middleware sees of it: a table of blocked addresses,   *)
(* or a verdict, of which any may come.  Middlewares that let every        *)
(* request through are left out of Chain, except the behavioural detector, *)
(* which looks at the request once more when its answer is done.  What     *)
(* they do to the answer is in ResponsePath.  Statistics are left out.     *)
(***************************************************************************)
EXTENDS Naturals, Sequences, FiniteSets

CONSTANTS
  Threads,      \* goroutines serving requests
  IPs,
  Clients,      \* the addresses that send requests; the others are only named
  Kinds,        \* of paths: "page", "trap", "bait", "health", "intel" or "ecosystem"; the
                \* honeypot knows a trap by its path, a bait by its route alone
  Loopback,     \* the address of the reverse proxy
  Claims,       \* what a client may write into the headers that name an address
  Enabled,      \* the middlewares that are on
  MaxRequests,  \* bound: requests in a behaviour
  MaxOrders,    \* bound: what an operator does in a behaviour
  None          \* a header that is missing

\* Mutant: the size of a body is checked after the first scan.
ChainLateLimit ==
  <<"rateLimit", "intelHub", "honeypot", "behavioralBaseline", "behavioralDetector",
    "businessLogic", "semanticPayload", "bodySizeLimit", "malwareBehavior", "exploitation",
    "evasion", "networkAttack", "adAttack", "protocolGuard", "stix", "preAttack",
    "activeDefense", "countermeasures", "actorTracking", "waf", "ddos", "proofOfWork">>

\* setupMiddleware
Chain ==
  <<"rateLimit", "intelHub", "honeypot", "behavioralBaseline", "behavioralDetector",
    "businessLogic", "bodySizeLimit", "semanticPayload", "malwareBehavior", "exploitation",
    "evasion", "networkAttack", "adAttack", "protocolGuard", "stix", "preAttack",
    "activeDefense", "countermeasures", "actorTracking", "waf", "ddos", "proofOfWork">>

Handler == Len(Chain) + 1

ASSUME EnabledAssumption == Enabled \subseteq {Chain[i] : i \in 1..Len(Chain)}
ASSUME ClientsAssumption == Clients \subseteq IPs
ASSUME ClaimsAssumption ==
  /\ None \notin IPs /\ Loopback \notin IPs
  /\ Claims \subseteq [realIP : IPs \cup {None}, forwardedFor : IPs \cup {None}, userID : IPs \cup {None}]
ASSUME BoundAssumption == MaxRequests \in Nat /\ MaxOrders \in Nat

VARIABLES
  ioc, cm, actor,  \* blocked addresses of the intel hub, countermeasures, the actor tracker
  threats,         \* what the actor tracker holds against whom, by kind
  req,             \* what each thread serves
  requests, orders,
  cause            \* history: the addresses that showed something or that an operator named

tables == <<ioc, cm, actor, threats>>
vars == <<ioc, cm, actor, threats, req, requests, orders, cause>>

Idle == [phase |-> "idle"]

Init ==
  /\ ioc = {} /\ cm = {} /\ actor = {} /\ threats = {}
  /\ req = [t \in Threads |-> Idle]
  /\ requests = 0 /\ orders = 0
  /\ cause = {}

-----------------------------------------------------------------------------
(* The chain.                                                              *)

\* The next middleware that is on, or the handler.
Follows(i, j) ==
  /\ i < j
  /\ j # Handler => Chain[j] \in Enabled
  /\ \A k \in 1..Len(Chain) : i < k /\ k < j => Chain[k] \notin Enabled

\* The blocks in force against an address.
BlocksOf(ip) == {b \in {"ioc", "cm", "actor"} :
  ip \in CASE b = "ioc" -> ioc [] b = "cm" -> cm [] b = "actor" -> actor}

\* Server.ServeHTTP, the handler of the plain listener alone, serves GET and POST of the
\* ecosystem's paths itself; other methods go to the router, and so does every request to
\* the encrypted listener.  direct: a GET or POST to the plain one.
Routed(kind, direct) == kind = "ecosystem" => ~direct

Named(name) == IF name = None THEN <<>> ELSE <<name>>

\* What the server sees of who sends a request: the peer, X-Real-IP, X-Forwarded-For and
\* X-User-Id.  A client that connects itself writes all the headers.  The reverse proxy,
\* which is external, speaks from the loopback address, sets X-Real-IP to the address it
\* sees or removes it, and appends that address to X-Forwarded-For.
Direct(ip, claim) ==
  [peer |-> ip, realIP |-> claim.realIP, forwardedFor |-> Named(claim.forwardedFor),
   userID |-> claim.userID]
Proxied(ip, realIP, claim) ==
  [peer |-> Loopback, realIP |-> realIP, forwardedFor |-> Append(Named(claim.forwardedFor), ip),
   userID |-> claim.userID]
Senders(ip) ==
  {Direct(ip, c) : c \in Claims} \cup {Proxied(ip, ip, c) : c \in Claims}
  \cup {Proxied(ip, None, c) : c \in Claims}

\* A request of ip enters the chain.  ip and barred are histories: who sent it, and the
\* blocks that have been in force against him ever since.
Arrive(t, ip, from, kind, direct, body) ==
  /\ req[t].phase = "idle" /\ requests < MaxRequests
  /\ Routed(kind, direct)
  /\ \E j \in 1..Handler :
       /\ Follows(0, j)
       /\ req' = [req EXCEPT ![t] =
            [phase |-> "in", at |-> j, ip |-> ip, from |-> from, kind |-> kind, body |-> body,
             barred |-> BlocksOf(ip), scanned |-> FALSE, diverted |-> FALSE]]
  /\ requests' = requests + 1
  /\ UNCHANGED <<tables, orders, cause>>

At(t, gate) == req[t].phase = "in" /\ req[t].at < Handler /\ Chain[req[t].at] = gate

\* Mutant: the first address of X-Forwarded-For counts, which is the client's own word.
AttributedFirst(r) ==
  IF r.from.peer # Loopback THEN r.from.peer
  ELSE IF r.from.realIP # None THEN r.from.realIP
  ELSE IF r.from.forwardedFor # <<>> THEN Head(r.from.forwardedFor)
  ELSE Loopback

\* trustedClientIP: the address a request counts for.  Headers count only from the proxy,
\* and of X-Forwarded-For the last address.
Attributed(r) ==
  LET forwarded == r.from.forwardedFor IN
  IF r.from.peer # Loopback THEN r.from.peer
  ELSE IF r.from.realIP # None THEN r.from.realIP
  ELSE IF forwarded # <<>> THEN forwarded[Len(forwarded)]
  ELSE Loopback

\* The middleware calls next with r, the request as it leaves it, or answers itself.
Passes(t, r) ==
  \E j \in 1..Handler : Follows(r.at, j) /\ req' = [req EXCEPT ![t] = [r EXCEPT !.at = j]]
Answers(t) == req' = [req EXCEPT ![t].phase = "out"]

PassesOnly(t) == Passes(t, req[t]) /\ UNCHANGED <<tables, cause>>
AnswersOnly(t) == Answers(t) /\ UNCHANGED <<tables, cause>>

\* The request showed something: a middleware holds it against its sender.
Shows(t) == cause' = cause \cup {req[t].ip}
Refuses(t) == Answers(t) /\ Shows(t)

\* AddThreat, Tracker.Block and TempBlock by a middleware.
Threatens(ip) == threats' = threats \cup {[ip |-> ip, kind |-> "attack"]}
Deviates(ip) == threats' = threats \cup {[ip |-> ip, kind |-> "behavioral_anomaly"]}
ActorBlocks(ip) == actor' = actor \cup {ip}
TempBlocks(ip) == cm' = cm \cup {ip}

-----------------------------------------------------------------------------
(* The middlewares.                                                        *)

RateLimit(t) ==
  /\ At(t, "rateLimit")
  /\ \/ PassesOnly(t)
     \/ req[t].kind # "ecosystem" /\ Refuses(t) /\ UNCHANGED tables

\* The table of domains, which is looked up in the same way, is left out.
IntelHub(t) ==
  LET listed == Attributed(req[t]) \in ioc /\ req[t].kind \notin {"health", "intel"} IN
  /\ At(t, "intelHub")
  /\ \/ ~listed /\ PassesOnly(t)
     \/ listed /\ Refuses(t) /\ UNCHANGED tables

\* Whoever steps into a trap is answered with a taunt; after several times, which the
\* actor profiles count, he is blocked too.
Trapped(t) ==
  /\ Answers(t) /\ Shows(t)
  /\ \/ UNCHANGED cm
     \/ TempBlocks(Attributed(req[t]))
  /\ UNCHANGED <<ioc, actor, threats>>
HoneypotTrap(t) == At(t, "honeypot") /\ req[t].kind = "trap" /\ Trapped(t)
HoneypotPass(t) == At(t, "honeypot") /\ req[t].kind # "trap" /\ PassesOnly(t)

\* The key of the behavioural baseline, under which it reports to the actor tracker.
UserID(r) == IF r.from.userID = None THEN Attributed(r) ELSE r.from.userID

BehavioralBaseline(t) ==
  /\ At(t, "behavioralBaseline")
  /\ \/ PassesOnly(t)
     \/ /\ Refuses(t)
        /\ Deviates(UserID(req[t]))
        /\ UNCHANGED <<ioc, cm, actor>>

\* On the way in it only wraps the writer; the rest is in Leave.
BehavioralDetector(t) == At(t, "behavioralDetector") /\ PassesOnly(t)

BusinessLogic(t) ==
  /\ At(t, "businessLogic")
  /\ \/ PassesOnly(t)
     \/ Refuses(t) /\ UNCHANGED tables

BodySizeLimit(t) ==
  /\ At(t, "bodySizeLimit")
  /\ \/ req[t].body = "small" /\ PassesOnly(t)
     \/ req[t].body = "large" /\ AnswersOnly(t)

\* A middleware that scans the request, body and all: it lets it pass, notes a threat or
\* refuses.  attributes: does it tell the actor tracker?  exempts: the ecosystem's paths?
Inspect(t, gate, attributes, exempts) ==
  LET r == [req[t] EXCEPT !.scanned = TRUE]
      ip == Attributed(req[t])
      noted == UNCHANGED threats \/ (attributes /\ Threatens(ip))
  IN /\ At(t, gate)
     /\ UNCHANGED <<ioc, cm, actor>>
     /\ IF exempts /\ req[t].kind = "ecosystem"
        THEN Passes(t, req[t]) /\ UNCHANGED <<threats, cause>>
        ELSE \/ Passes(t, r) /\ UNCHANGED <<threats, cause>>
             \/ Passes(t, r) /\ Shows(t) /\ noted
             \/ Refuses(t) /\ noted

SemanticPayload(t) == Inspect(t, "semanticPayload", FALSE, FALSE)
MalwareBehavior(t) == Inspect(t, "malwareBehavior", TRUE, TRUE)
ExploitationDetector(t) == Inspect(t, "exploitation", TRUE, TRUE)
EvasionDetector(t) == Inspect(t, "evasion", TRUE, TRUE)
NetworkAttackDetector(t) == Inspect(t, "networkAttack", TRUE, FALSE)
AdAttackDetector(t) == Inspect(t, "adAttack", TRUE, FALSE)
Stix(t) == Inspect(t, "stix", FALSE, FALSE)

ProtocolGuard(t) ==
  /\ At(t, "protocolGuard")
  /\ \/ PassesOnly(t)
     \/ Refuses(t) /\ UNCHANGED tables

PreAttack(t) ==
  /\ At(t, "preAttack")
  /\ \/ PassesOnly(t)
     \/ Refuses(t) /\ Threatens(Attributed(req[t])) /\ UNCHANGED <<ioc, cm, actor>>

\* The orchestrator blocks and challenges nobody, as OrchestratorProofs shows; it may
\* change the path of the request to the honeypot's.
ActiveDefense(t) ==
  /\ At(t, "activeDefense")
  /\ \E diverted \in BOOLEAN : Passes(t, [req[t] EXCEPT !.diverted = diverted])
  /\ UNCHANGED <<tables, cause>>

\* Mutant: the ecosystem's paths are exempt.
CountermeasuresExempting(t) ==
  LET listed == Attributed(req[t]) \in cm /\ req[t].kind # "ecosystem" IN
  /\ At(t, "countermeasures")
  /\ \/ ~listed /\ PassesOnly(t)
     \/ listed /\ Refuses(t) /\ UNCHANGED tables

Countermeasures(t) ==
  LET listed == Attributed(req[t]) \in cm IN
  /\ At(t, "countermeasures")
  /\ \/ ~listed /\ PassesOnly(t)
     \/ listed /\ Refuses(t) /\ UNCHANGED tables

\* AutoRespond can only slow the address down: the risk it would block at is out of
\* reach, as ActorRisk shows.
ActorTracking(t) ==
  LET listed == Attributed(req[t]) \in actor IN
  /\ At(t, "actorTracking")
  /\ \/ ~listed /\ PassesOnly(t)
     \/ listed /\ Refuses(t) /\ UNCHANGED tables

\* The machine-learning filter refuses and blocks without a threat; a signature leaves one.
Waf(t) ==
  LET ip == Attributed(req[t])
      r == [req[t] EXCEPT !.scanned = TRUE]
  IN /\ At(t, "waf")
     /\ UNCHANGED <<ioc, cm>>
     /\ \/ PassesOnly(t)
        \/ /\ req[t].kind # "ecosystem" \/ req[t].diverted
           /\ \/ Passes(t, r) /\ UNCHANGED <<actor, threats, cause>>
              \/ /\ Passes(t, r) /\ Shows(t) /\ Threatens(ip)
                 /\ UNCHANGED actor
              \/ Refuses(t) /\ ActorBlocks(ip) /\ (UNCHANGED threats \/ Threatens(ip))

\* Normal or throttle, challenge, block.
Ddos(t) ==
  /\ At(t, "ddos")
  /\ \/ PassesOnly(t)
     \/ AnswersOnly(t)
     \/ Refuses(t) /\ ActorBlocks(Attributed(req[t])) /\ UNCHANGED <<ioc, cm, threats>>

ProofOfWork(t) == At(t, "proofOfWork") /\ (PassesOnly(t) \/ AnswersOnly(t))

\* The handler, chosen by the router before the first middleware ran, answers; that of a
\* bait does as the honeypot's middleware does.
Serve(t) ==
  /\ req[t].phase = "in" /\ req[t].at = Handler
  /\ \/ req[t].kind # "bait" /\ AnswersOnly(t)
     \/ req[t].kind = "bait" /\ Trapped(t)

\* The answer is on its way out.  The behavioural detector, if the request came past it,
\* may find it to have been one too many.
Leave(t) ==
  LET judged == "behavioralDetector" \in Enabled /\ req[t].kind # "ecosystem"
                /\ \E i \in 1..Len(Chain) : Chain[i] = "behavioralDetector" /\ i < req[t].at
  IN /\ req[t].phase = "out"
     /\ req' = [req EXCEPT ![t] = Idle]
     /\ \/ UNCHANGED <<threats, cause>>
        \/ /\ judged
           /\ Threatens(Attributed(req[t]))
           /\ Shows(t)
     /\ UNCHANGED <<ioc, cm, actor>>

Middleware(t) ==
  \/ RateLimit(t) \/ IntelHub(t) \/ HoneypotTrap(t) \/ HoneypotPass(t)
  \/ BehavioralBaseline(t) \/ BehavioralDetector(t) \/ BusinessLogic(t) \/ BodySizeLimit(t)
  \/ SemanticPayload(t) \/ MalwareBehavior(t) \/ ExploitationDetector(t) \/ EvasionDetector(t)
  \/ NetworkAttackDetector(t) \/ AdAttackDetector(t) \/ ProtocolGuard(t) \/ Stix(t)
  \/ PreAttack(t) \/ ActiveDefense(t) \/ Countermeasures(t) \/ ActorTracking(t)
  \/ Waf(t) \/ Ddos(t) \/ ProofOfWork(t) \/ Serve(t) \/ Leave(t)

-----------------------------------------------------------------------------
(* What operators and time do to the tables.                               *)

\* A block that ends is no longer one that has been in force ever since.
Lifted(ip, block) ==
  req' = [u \in Threads |->
    IF req[u].phase # "idle" /\ req[u].ip = ip
    THEN [req[u] EXCEPT !.barred = @ \ {block}] ELSE req[u]]

Ordered(ip) ==
  /\ orders < MaxOrders /\ orders' = orders + 1
  /\ cause' = cause \cup {ip}

\* The report of an agent, which HeimdallReport has in detail, does the same.
BlockIP(ip) ==
  /\ Ordered(ip) /\ TempBlocks(ip)
  /\ UNCHANGED <<ioc, actor, threats, req, requests>>

\* An address that countermeasures does not hold is answered with 404.
UnblockIP(ip) ==
  /\ ip \in cm /\ Ordered(ip)
  /\ cm' = cm \ {ip} /\ Lifted(ip, "cm")
  /\ UNCHANGED <<ioc, actor, threats, requests>>

IntelBlockIOC(ip) ==
  /\ Ordered(ip)
  /\ ioc' = ioc \cup {ip}
  /\ UNCHANGED <<cm, actor, threats, req, requests>>

IntelUnblockIOC(ip) ==
  /\ ip \in ioc /\ Ordered(ip)
  /\ ioc' = ioc \ {ip} /\ Lifted(ip, "ioc")
  /\ UNCHANGED <<cm, actor, threats, requests>>

BlockExpires(ip) ==
  /\ \/ ip \in cm /\ cm' = cm \ {ip} /\ Lifted(ip, "cm") /\ UNCHANGED actor
     \/ ip \in actor /\ actor' = actor \ {ip} /\ Lifted(ip, "actor") /\ UNCHANGED cm
  /\ UNCHANGED <<ioc, threats, requests, orders, cause>>

Next ==
  \/ \E t \in Threads :
       \/ \E ip \in Clients, kind \in Kinds, direct \in BOOLEAN, body \in {"small", "large"} :
            \E from \in Senders(ip) : Arrive(t, ip, from, kind, direct, body)
       \/ Middleware(t) /\ UNCHANGED <<requests, orders>>
  \/ \E ip \in IPs : \/ BlockIP(ip) \/ UnblockIP(ip) \/ IntelBlockIOC(ip)
                     \/ IntelUnblockIOC(ip) \/ BlockExpires(ip)

Spec == Init /\ [][Next]_vars

-----------------------------------------------------------------------------
Requests ==
  {r \in [phase : {"in", "out"}, at : 1..Handler, ip : IPs, from : UNION {Senders(ip) : ip \in IPs},
          kind : Kinds, body : {"small", "large"}, barred : SUBSET {"ioc", "cm", "actor"},
          scanned : BOOLEAN, diverted : BOOLEAN] : r.from \in Senders(r.ip)}

TypeOK ==
  /\ ioc \subseteq IPs /\ cm \subseteq IPs /\ actor \subseteq IPs
  /\ threats \subseteq [ip : IPs, kind : {"attack", "behavioral_anomaly"}]
  /\ req \in [Threads -> Requests \cup {Idle}]
  /\ requests \in 0..MaxRequests /\ orders \in 0..MaxOrders
  /\ cause \subseteq IPs

\* A block that was in force when a request came in, and still is, keeps the request
\* from the handler: no exemption, order of the middlewares or change of the tables on
\* the way lets it through.  Only the hub leaves the health check and its own interface open.
BlocksHold ==
  \A t \in Threads : req[t].phase = "in" /\ req[t].at = Handler =>
    /\ "countermeasures" \in Enabled => "cm" \notin req[t].barred
    /\ "actorTracking" \in Enabled => "actor" \notin req[t].barred
    /\ "intelHub" \in Enabled /\ req[t].kind \notin {"health", "intel"} => "ioc" \notin req[t].barred

\* "must run before every body-scanning detector below": nothing scans an oversized body.
OnlySmallBodiesAreScanned ==
  "bodySizeLimit" \in Enabled =>
    \A t \in Threads : req[t].phase = "in" /\ req[t].scanned => req[t].body = "small"

\* Nobody is blocked, or has an attack held against him, for what a request of another
\* address said or did, whatever addresses that request names in its headers and whether it
\* came through the proxy: he sent something himself, or an operator named him.  What the
\* behavioural baseline holds against him is ThreatsGoByTheAddress, which fails.
NobodyPaysForAnother ==
  /\ ioc \cup cm \cup actor \subseteq cause
  /\ \A threat \in threats : threat.kind = "attack" => threat.ip \in cause

\* "every IP-keyed security decision in this package (rate limiting, actor threat
\* attribution, ...) ... derive from" trustedClientIP (server.go:564-567): every threat,
\* those of the behavioural baseline included, is held against who earned it.
ThreatsGoByTheAddress == \A threat \in threats : threat.ip \in cause
=============================================================================
