---------------------------- MODULE ActorsProofs ----------------------------
(***************************************************************************)
(* Theorems about the tracker of MCActors: the score (ActorRisk, here      *)
(* Score), for any bounds, as the counters are unbounded in all but name,  *)
(* and the tables (ActorTracker, here Table), for any number of goroutines *)
(* and addresses.                                                          *)
(***************************************************************************)
EXTENDS MCActors, FiniteSetTheorems, TLAPS

Actors == [requests : 0..MaxRequests, blocked : 0..MaxBlocks,
           threats : 0..KeptThreats, age : Score!Ages]

\* What AutoRespond makes of the scores there are.
LEMMA RespondMild ==
  \A risk \in Nat : /\ risk <= 7000 => Score!AutoRespond(risk) \in Score!Answers \ {"tempBlock"}
                    /\ risk <= 2000 => Score!AutoRespond(risk) = "none"
BY DEF Score!AutoRespond, Score!Answers

\* The parts of the score and their limits: blocks, threats, age and volume.
LEMMA Parts ==
  \A a \in Actors : \E w, x, y, z \in Nat :
    /\ w <= 3000 /\ x <= 2000 /\ y <= 1000 /\ z <= 1000
    /\ a.blocked = 0 => w = 0
    /\ a.threats = 0 => x = 0
    /\ Score!Risk(a) = w + x + y + z
<1>. SUFFICES ASSUME NEW a \in Actors
     PROVE  \E w, x, y, z \in Nat :
              /\ w <= 3000 /\ x <= 2000 /\ y <= 1000 /\ z <= 1000
              /\ a.blocked = 0 => w = 0
              /\ a.threats = 0 => x = 0
              /\ Score!Risk(a) = w + x + y + z
  OBVIOUS
<1>1. a.blocked \in Nat /\ a.threats \in Nat /\ a.requests \in Nat /\ a.age \in Score!Ages
  BY ScoreAssumption DEF Score!RiskAssumption, Actors
<1>2. PICK w \in Nat : w = Score!AtMost(3000, 500 * a.blocked) /\ w <= 3000 /\ (a.blocked = 0 => w = 0)
  BY <1>1 DEF Score!AtMost
<1>3. PICK x \in Nat : x = Score!AtMost(2000, 400 * a.threats) /\ x <= 2000 /\ (a.threats = 0 => x = 0)
  BY <1>1 DEF Score!AtMost
<1>4. PICK y \in Nat : y = Score!Persistence(a.age) /\ y <= 1000
  BY <1>1 DEF Score!Persistence, Score!Ages
<1>5. PICK z \in Nat : z = Score!Volume(a.requests) /\ z <= 1000
  BY <1>1 DEF Score!Volume, Score!AtMost
<1>6. Score!Risk(a) = w + x + y + z
  BY <1>2, <1>3, <1>4, <1>5 DEF Score!Risk
<1>. QED  BY <1>2, <1>3, <1>4, <1>5, <1>6

\* They add up to 7000 at most, and to 2000 without offences.
LEMMA RiskBound ==
  \A a \in Actors : \E risk \in Nat :
    risk = Score!Risk(a) /\ risk <= 7000 /\ (a.blocked = 0 /\ a.threats = 0 => risk <= 2000)
BY Parts

IInv == Score!TypeOK /\ NeverTempBlocks /\ NoCauseNoAnswer

LEMMA InitIInv == Score!Init => IInv
BY ScoreAssumption
   DEF Score!RiskAssumption, Score!Init, Score!NewActor, IInv, Score!TypeOK, Score!Ages,
       Score!Answers, NeverTempBlocks, Score!NeverTempBlocks, NoCauseNoAnswer,
       Score!NoCauseNoAnswer

LEMMA NextIInv == IInv /\ [Score!Next]_Score!vars => IInv'
<1>. SUFFICES ASSUME IInv, [Score!Next]_Score!vars PROVE IInv'
  OBVIOUS
<1>. USE ScoreAssumption
     DEF Score!RiskAssumption, IInv, Score!TypeOK, NeverTempBlocks, Score!NeverTempBlocks,
         NoCauseNoAnswer, Score!NoCauseNoAnswer
<1>1. CASE Score!Track
  BY <1>1 DEF Score!Track
<1>2. CASE Score!AddThreat
  <2>1. actor.threats \in 0..KeptThreats
    OBVIOUS
  <2>2. Score!Kept(actor.threats + 1) \in 0..KeptThreats /\ Score!Kept(actor.threats + 1) # 0
    BY <2>1 DEF Score!Kept, Score!AtMost
  <2>. QED  BY <1>2, <2>2 DEF Score!AddThreat
<1>3. CASE Score!Block
  BY <1>3 DEF Score!Block
<1>4. CASE Score!Age
  BY <1>4 DEF Score!Age, Score!Ages
<1>5. CASE Score!Respond
  <2>1. actor \in Actors
    BY DEF Actors
  <2>2. PICK risk \in Nat : risk = Score!Risk(actor) /\ risk <= 7000
                            /\ (actor.blocked = 0 /\ actor.threats = 0 => risk <= 2000)
    BY <2>1, RiskBound
  <2>3. Score!AutoRespond(risk) \in Score!Answers \ {"tempBlock"}
        /\ (actor.blocked = 0 /\ actor.threats = 0 => Score!AutoRespond(risk) = "none")
    BY <2>2, RespondMild
  <2>4. answer' = Score!AutoRespond(risk) /\ actor' = actor
    BY <1>5, <2>2 DEF Score!Respond
  <2>. QED  BY <2>3, <2>4
<1>6. CASE Score!Evict
  BY <1>6 DEF Score!Evict, Score!NewActor, Score!Ages, Score!Answers
<1>7. CASE UNCHANGED Score!vars
  BY <1>7 DEF Score!vars
<1>. QED  BY <1>1, <1>2, <1>3, <1>4, <1>5, <1>6, <1>7 DEF Score!Next

\* The invariant that the other two results are parts of.
THEOREM Safe == Score!Spec => []IInv
BY InitIInv, NextIInv, PTL DEF Score!Spec

\* CalculateRiskScore never passes 70 points, so AutoRespond never blocks anybody.
THEOREM RiskStaysBelowBlock == Score!Spec => []NeverTempBlocks
BY Safe, PTL DEF IInv

\* Age and volume alone never make AutoRespond slow an actor down.
THEOREM QuietActorsAreFree == Score!Spec => []NoCauseNoAnswer
BY Safe, PTL DEF IInv

\* More of anything never lowers the score.
LEMMA RiskMonotone ==
  ASSUME NEW a \in Actors, NEW b \in Actors,
         a.requests <= b.requests, a.blocked <= b.blocked, a.threats <= b.threats,
         Score!Persistence(a.age) <= Score!Persistence(b.age)
  PROVE  Score!Risk(b) >= Score!Risk(a)
<1>1. a.blocked \in Nat /\ a.threats \in Nat /\ a.requests \in Nat /\ a.age \in Score!Ages
  BY ScoreAssumption DEF Score!RiskAssumption, Actors
<1>2. b.blocked \in Nat /\ b.threats \in Nat /\ b.requests \in Nat /\ b.age \in Score!Ages
  BY ScoreAssumption DEF Score!RiskAssumption, Actors
<1>3. Score!AtMost(3000, 500 * a.blocked) <= Score!AtMost(3000, 500 * b.blocked)
  BY <1>1, <1>2 DEF Score!AtMost
<1>4. Score!AtMost(2000, 400 * a.threats) <= Score!AtMost(2000, 400 * b.threats)
  BY <1>1, <1>2 DEF Score!AtMost
<1>5. Score!Volume(a.requests) <= Score!Volume(b.requests)
  BY <1>1, <1>2 DEF Score!Volume, Score!AtMost
<1>6. Score!Persistence(a.age) \in Nat /\ Score!Persistence(b.age) \in Nat
  BY <1>1, <1>2 DEF Score!Persistence, Score!Ages
<1>7. Score!AtMost(3000, 500 * a.blocked) \in Nat /\ Score!AtMost(3000, 500 * b.blocked) \in Nat
      /\ Score!AtMost(2000, 400 * a.threats) \in Nat /\ Score!AtMost(2000, 400 * b.threats) \in Nat
      /\ Score!Volume(a.requests) \in Nat /\ Score!Volume(b.requests) \in Nat
  BY <1>1, <1>2 DEF Score!AtMost, Score!Volume
<1>. QED  BY <1>3, <1>4, <1>5, <1>6, <1>7 DEF Score!Risk

\* While the tracker keeps an actor its score only rises.
THEOREM RiskOnlyRises == Score!Spec => RiskNeverFalls
<1>1. IInv /\ IInv' /\ [Score!Next]_Score!vars => [Score!Evict \/ Score!Risk(actor') >= Score!Risk(actor)]_Score!vars
  <2>. SUFFICES ASSUME IInv, IInv', Score!Next PROVE Score!Evict \/ Score!Risk(actor') >= Score!Risk(actor)
    OBVIOUS
  <2>. USE ScoreAssumption DEF Score!RiskAssumption
  <2>0. actor \in Actors /\ actor' \in Actors
    BY DEF IInv, Score!TypeOK, Actors
  <2>a. actor.requests \in Nat /\ actor.blocked \in Nat /\ actor.threats \in 0..KeptThreats /\ actor.age \in Score!Ages
    BY <2>0 DEF Actors
  <2>b. Score!Persistence("new") = 0 /\ Score!Persistence("day") = 500 /\ Score!Persistence("week") = 1000
    BY DEF Score!Persistence
  <2>c. Score!Persistence(actor.age) <= Score!Persistence(actor.age)
    BY <2>a, <2>b DEF Score!Ages
  <2>1. CASE Score!Track
    <3>1. /\ actor'.requests = actor.requests + 1 /\ actor'.blocked = actor.blocked
          /\ actor'.threats = actor.threats /\ actor'.age = actor.age
      BY <2>1, <2>0 DEF Score!Track, Actors
    <3>. QED  BY <3>1, <2>0, <2>a, <2>c, RiskMonotone
  <2>2. CASE Score!AddThreat
    <3>1. /\ actor'.requests = actor.requests /\ actor'.blocked = actor.blocked
          /\ actor'.threats = Score!Kept(actor.threats + 1) /\ actor'.age = actor.age
      BY <2>2, <2>0 DEF Score!AddThreat, Actors
    <3>2. actor.threats <= Score!Kept(actor.threats + 1)
      BY <2>a DEF Score!Kept, Score!AtMost
    <3>. QED  BY <3>1, <3>2, <2>0, <2>a, <2>c, RiskMonotone
  <2>3. CASE Score!Block
    <3>1. /\ actor'.requests = actor.requests /\ actor'.blocked = actor.blocked + 1
          /\ actor'.threats = actor.threats /\ actor'.age = actor.age
      BY <2>3, <2>0 DEF Score!Block, Actors
    <3>. QED  BY <3>1, <2>0, <2>a, <2>c, RiskMonotone
  <2>4. CASE Score!Age
    <3>1. /\ actor'.requests = actor.requests /\ actor'.blocked = actor.blocked
          /\ actor'.threats = actor.threats
      BY <2>4, <2>0 DEF Score!Age, Actors
    <3>2. Score!Persistence(actor.age) <= Score!Persistence(actor'.age)
      BY <2>4, <2>0, <2>b DEF Score!Age, Actors
    <3>. QED  BY <3>1, <3>2, <2>0, <2>a, RiskMonotone
  <2>5. CASE Score!Respond
    <3>1. actor' = actor
      BY <2>5 DEF Score!Respond
    <3>. QED  BY <3>1, <2>0, <2>a, <2>c, RiskMonotone
  <2>. QED  BY <2>1, <2>2, <2>3, <2>4, <2>5 DEF Score!Next
<1>. QED  BY <1>1, Safe, PTL DEF Score!Spec, RiskNeverFalls, Score!RiskNeverFalls

-----------------------------------------------------------------------------
(* The tables of the tracker (ActorTracker, here Table): for any number of *)
(* goroutines and addresses and any interleaving of their steps.           *)

ActorFields == {"lastSeen", "requests", "blocked", "until", "blocks", "threats"}
ActorOK(a) == /\ DOMAIN a = ActorFields
              /\ a.requests \in Nat /\ a.blocks \in Nat /\ a.blocked \in BOOLEAN

\* The steps of a call that hold an actor, those that promote a counter, and all.
Pointing == {"touch", "drop", "apply"}
Promotes == {"limit", "evict", "store"}
Busy == {"get", "load", "count", "create"} \cup Pointing \cup Promotes

\* A call that is fine where the pointers of H exist.
CallOK(r, H) ==
  \/ r = Table!Idle
  \/ /\ r.pc \in Busy /\ r.op \in Table!Ops /\ r.ip \in IPs
     /\ "actor" \in DOMAIN r <=> r.pc \in Pointing
     /\ r.pc \in Pointing => r.actor \in H
     /\ r.pc \in {"get", "apply"} => r.op # "track"
     /\ r.pc = "create" => r.op = "block"
     /\ r.pc \in Promotes => r.count \in Nat /\ r.count >= promotionThreshold

Points(c) == "actor" \in DOMAIN call[c]

\* No pointer dangles, nothing is kept that nobody points to, and no two addresses share an
\* actor.
Sound ==
  /\ DOMAIN actors \subseteq IPs /\ DOMAIN heap \subseteq Table!Pointers
  /\ \A ip \in DOMAIN actors : actors[ip] \in DOMAIN heap
  /\ \A x, y \in DOMAIN actors : actors[x] = actors[y] => x = y
  /\ \A p \in DOMAIN heap : ActorOK(heap[p])
  /\ \A p \in DOMAIN heap : \/ \E ip \in DOMAIN actors : actors[ip] = p
                            \/ \E c \in Callers : Points(c) /\ call[c].actor = p
  /\ DOMAIN counters \subseteq IPs /\ \A ip \in DOMAIN counters : counters[ip].count \in Nat
  /\ DOMAIN call = Callers /\ \A c \in Callers : CallOK(call[c], DOMAIN heap)

LEMMA IdleOK == Table!Idle.pc = "idle" /\ "actor" \notin DOMAIN Table!Idle /\ \A H : CallOK(Table!Idle, H)
BY DEF Table!Idle, CallOK

LEMMA Collected ==
  ASSUME NEW h, heap' = Table!Collect(h)
  PROVE  /\ DOMAIN heap' \subseteq DOMAIN h /\ \A p \in DOMAIN heap' : heap'[p] = h[p]
         /\ \A ip \in DOMAIN actors' : actors'[ip] \in DOMAIN h => actors'[ip] \in DOMAIN heap'
         /\ \A c \in Callers : Points(c)' /\ call'[c].actor \in DOMAIN h => call'[c].actor \in DOMAIN heap'
         /\ \A p \in DOMAIN heap' : \/ \E ip \in DOMAIN actors' : actors'[ip] = p
                                    \/ \E c \in Callers : Points(c)' /\ call'[c].actor = p
BY DEF Table!Collect, Table!Restrict, Points

LEMMA Steps ==
  ASSUME Sound, NEW c \in Callers, NEW r, call' = [call EXCEPT ![c] = r]
  PROVE  DOMAIN call' = Callers /\ \A u \in Callers : call'[u] = IF u = c THEN r ELSE call[u]
BY DEF Sound

\* What Table takes from the module of finite sets is what this module takes from it.
LEMMA SameSizes ==
  ASSUME NEW S
  PROVE  Table!Cardinality(S) = Cardinality(S) /\ Table!IsFiniteSet(S) = IsFiniteSet(S)
<1>1. Table!Cardinality(S) = Cardinality(S)
  BY DEF Table!Cardinality, Cardinality
<1>2. Table!IsFiniteSet(S) = IsFiniteSet(S)
  BY DEF Table!IsFiniteSet, IsFiniteSet
<1>. QED  BY <1>1, <1>2

\* Of the pointers there is one that nobody uses, for a call that has none yet.
LEMMA NewIsFresh ==
  ASSUME Sound, NEW c \in Callers, ~Points(c)
  PROVE  Table!New \in Table!Pointers /\ Table!New \notin DOMAIN heap
<1>. DEFINE others == {u \in Callers : Points(u)}
            named == {actors[ip] : ip \in DOMAIN actors}
            held == {call[u].actor : u \in others}
<1>1. IsFiniteSet(IPs) /\ IsFiniteSet(Callers) /\ Cardinality(IPs) \in Nat /\ Cardinality(Callers) \in Nat
  BY TableAssumption, SameSizes, FS_CardinalityType DEF Table!TrackerAssumption
<1>2. IsFiniteSet(DOMAIN actors) /\ Cardinality(DOMAIN actors) <= Cardinality(IPs)
  BY <1>1, FS_Subset DEF Sound
<1>3. IsFiniteSet(others) /\ Cardinality(others) <= Cardinality(Callers) - 1
  <2>1. IsFiniteSet(Callers \ {c}) /\ Cardinality(Callers \ {c}) = Cardinality(Callers) - 1
    BY <1>1, FS_RemoveElement
  <2>2. others \in SUBSET (Callers \ {c})
    OBVIOUS
  <2>. HIDE DEF others
  <2>. QED  BY <2>1, <2>2, FS_Subset
<1>4. IsFiniteSet(named) /\ Cardinality(named) <= Cardinality(DOMAIN actors)
  <2>. DEFINE f == [ip \in DOMAIN actors |-> actors[ip]]
  <2>1. f \in Surjection(DOMAIN actors, named)
    BY DEF Surjection
  <2>. HIDE DEF f, named
  <2>. QED  BY <1>2, <2>1, FS_Surjection
<1>5. IsFiniteSet(held) /\ Cardinality(held) <= Cardinality(others)
  <2>. DEFINE f == [u \in others |-> call[u].actor]
  <2>1. f \in Surjection(others, held)
    BY DEF Surjection
  <2>. HIDE DEF f, held, others
  <2>. QED  BY <1>3, <2>1, FS_Surjection
<1>6. DOMAIN heap \subseteq named \cup held
  BY DEF Sound
<1>. HIDE DEF others, named, held
<1>7. /\ Cardinality(named) \in Nat /\ Cardinality(held) \in Nat /\ Cardinality(others) \in Nat
      /\ Cardinality(DOMAIN actors) \in Nat
  BY <1>2, <1>3, <1>4, <1>5, FS_CardinalityType
<1>8. /\ IsFiniteSet(named \cup held)
      /\ Cardinality(named \cup held) <= Cardinality(IPs) + Cardinality(Callers) - 1
  <2>1. /\ IsFiniteSet(named \cup held)
        /\ Cardinality(named \cup held) = Cardinality(named) + Cardinality(held) - Cardinality(named \cap held)
    BY <1>4, <1>5, FS_Union
  <2>2. Cardinality(named \cap held) \in Nat
    <3>1. named \cap held \in SUBSET named
      OBVIOUS
    <3>. QED  BY <1>4, <3>1, FS_Subset, FS_CardinalityType
  <2>. QED  BY <1>1, <1>2, <1>3, <1>4, <1>5, <1>7, <2>1, <2>2
<1>9. Table!Pointers = 1..(Cardinality(IPs) + Cardinality(Callers))
  BY SameSizes DEF Table!Pointers
<1>10. Cardinality(Table!Pointers) = Cardinality(IPs) + Cardinality(Callers)
  <2>. DEFINE n == Cardinality(IPs) + Cardinality(Callers)
  <2>1. n \in Nat
    BY <1>1
  <2>. HIDE DEF n
  <2>2. Cardinality(1..n) = n
    BY <2>1, FS_Interval
  <2>. QED  BY <1>9, <2>2 DEF n
<1>11. ~(Table!Pointers \subseteq named \cup held)
  <2>1. Table!Pointers \in SUBSET (named \cup held) => Cardinality(Table!Pointers) <= Cardinality(named \cup held)
    BY <1>8, FS_Subset
  <2>2. Cardinality(named \cup held) \in Nat
    BY <1>8, FS_CardinalityType
  <2>. QED  BY <1>1, <1>8, <1>10, <2>1, <2>2
<1>12. \E p \in Table!Pointers : p \notin DOMAIN heap
  BY <1>6, <1>11
<1>. QED  BY <1>12 DEF Table!New

-----------------------------------------------------------------------------
\* A step of a call that has no actor and leaves the table of them alone.
LEMMA SoundMoves ==
  ASSUME Sound, NEW c \in Callers, ~Points(c), NEW r, call' = [call EXCEPT ![c] = r],
         CallOK(r, DOMAIN heap), UNCHANGED <<actors, heap>>,
         DOMAIN counters' \subseteq IPs, \A ip \in DOMAIN counters' : counters'[ip].count \in Nat
  PROVE  Sound'
<1>1. DOMAIN call' = Callers /\ \A u \in Callers : call'[u] = IF u = c THEN r ELSE call[u]
  BY Steps
<1>2. \A u \in Callers : CallOK(call'[u], DOMAIN heap')
  BY <1>1 DEF Sound
<1>3. \A p \in DOMAIN heap' : \/ \E ip \in DOMAIN actors' : actors'[ip] = p
                              \/ \E u \in Callers : Points(u)' /\ call'[u].actor = p
  BY <1>1 DEF Sound, Points
<1>. QED  BY <1>1, <1>2, <1>3 DEF Sound

\* A step after which what nobody points to is collected.
LEMMA SoundCollects ==
  ASSUME NEW h, heap' = Table!Collect(h), DOMAIN h \subseteq Table!Pointers,
         \A p \in DOMAIN h : ActorOK(h[p]),
         DOMAIN actors' \subseteq IPs, \A ip \in DOMAIN actors' : actors'[ip] \in DOMAIN h,
         \A x, y \in DOMAIN actors' : actors'[x] = actors'[y] => x = y,
         DOMAIN counters' \subseteq IPs, \A ip \in DOMAIN counters' : counters'[ip].count \in Nat,
         DOMAIN call' = Callers, \A u \in Callers : CallOK(call'[u], DOMAIN h)
  PROVE  Sound'
<1>1. \A u \in Callers : CallOK(call'[u], DOMAIN heap')
  BY Collected DEF CallOK, Points
<1>2. \A p \in DOMAIN heap' : ActorOK(heap'[p])
  BY Collected
<1>. QED  BY <1>1, <1>2, Collected DEF Sound

\* A call that has nothing to do with the new pointers may go on.
LEMMA StillOK ==
  ASSUME Sound, NEW H, DOMAIN heap \subseteq H, NEW u \in Callers
  PROVE  CallOK(call[u], H)
BY DEF Sound, CallOK

-----------------------------------------------------------------------------
\* An actor that was earned by requests or made by a block.
Deserved(a) == a.requests >= promotionThreshold \/ a.blocks > 0
Blocks(r, p) == r.pc = "apply" /\ r.op = "block" /\ r.actor = p

LEMMA EarnedIs ==
  Table!ActorsAreEarned <=>
    \A ip \in DOMAIN actors : Deserved(heap[actors[ip]]) \/ \E c \in Callers : Blocks(call[c], actors[ip])
BY DEF Table!ActorsAreEarned, Deserved, Blocks

TableInv == Sound /\ Table!ActorsAreEarned

\* The step of a call that has no actor and leaves the table of them alone.
LEMMA Moves ==
  ASSUME TableInv, NEW c \in Callers, ~Points(c), NEW r, call' = [call EXCEPT ![c] = r],
         CallOK(r, DOMAIN heap), UNCHANGED <<actors, heap>>,
         DOMAIN counters' \subseteq IPs, \A ip \in DOMAIN counters' : counters'[ip].count \in Nat
  PROVE  TableInv'
<1>1. Sound'
  BY SoundMoves DEF TableInv
<1>2. \A u \in Callers : call'[u] = IF u = c THEN r ELSE call[u]
  BY Steps DEF TableInv
<1>3. call[c].pc # "apply"
  BY IdleOK DEF TableInv, Sound, CallOK, Points, Pointing
<1>4. ASSUME NEW ip \in DOMAIN actors
      PROVE  Deserved(heap[actors[ip]]) \/ \E u \in Callers : Blocks(call'[u], actors[ip])
  <2>1. CASE Deserved(heap[actors[ip]])
    BY <2>1
  <2>2. ASSUME NEW u \in Callers, Blocks(call[u], actors[ip]) PROVE Blocks(call'[u], actors[ip])
    BY <1>2, <1>3, <2>2 DEF Blocks
  <2>. QED  BY <2>1, <2>2, EarnedIs DEF TableInv
<1>5. Table!ActorsAreEarned'
  BY <1>4 DEF Table!ActorsAreEarned, Deserved, Blocks
<1>. QED  BY <1>1, <1>5 DEF TableInv

\* A step that collects: each actor is the one its address had, with as many requests and
\* blocks or more, or a new one that was earned or is about to be blocked.
LEMMA Collects ==
  ASSUME TableInv, NEW h, heap' = Table!Collect(h), Sound',
         \A ip \in DOMAIN actors' : actors'[ip] \in DOMAIN h,
         \A ip \in DOMAIN actors' :
           \/ Deserved(h[actors'[ip]])
           \/ \E u \in Callers : Blocks(call'[u], actors'[ip])
  PROVE  TableInv'
<1>1. \A ip \in DOMAIN actors' : heap'[actors'[ip]] = h[actors'[ip]]
  BY Collected
<1>2. Table!ActorsAreEarned'
  BY <1>1 DEF Table!ActorsAreEarned, Deserved, Blocks
<1>. QED  BY <1>2 DEF TableInv

LEMMA CallStep ==
  ASSUME TableInv, NEW c \in Callers, NEW op \in Table!Ops, NEW ip \in IPs, Table!Call(c, op, ip)
  PROVE  TableInv'
<1>. DEFINE r == [op |-> op, ip |-> ip, pc |-> IF op = "track" THEN "load" ELSE "get"]
<1>1. /\ call[c] = Table!Idle /\ call' = [call EXCEPT ![c] = r]
      /\ UNCHANGED <<counters, actors, heap>>
  BY DEF Table!Call, Table!Goto
<1>2. CallOK(r, DOMAIN heap)
  BY DEF CallOK, Busy, Pointing, Promotes
<1>. HIDE DEF r
<1>3. ~Points(c)
  BY <1>1, IdleOK DEF Points
<1>. QED  BY <1>1, <1>2, <1>3, Moves DEF TableInv, Sound

\* Where a call is, there is an address it is about.
LEMMA About ==
  ASSUME Sound, NEW c \in Callers, call[c].pc \in Busy
  PROVE  /\ call[c].op \in Table!Ops /\ call[c].ip \in IPs
         /\ Points(c) <=> call[c].pc \in Pointing
         /\ call[c].pc \in Pointing => call[c].actor \in DOMAIN heap
         /\ call[c].pc \in {"get", "apply"} => call[c].op # "track"
         /\ call[c].pc = "create" => call[c].op = "block"
         /\ call[c].pc \in Promotes => call[c].count \in Nat /\ call[c].count >= promotionThreshold
<1>1. CallOK(call[c], DOMAIN heap) /\ call[c] # Table!Idle
  BY IdleOK DEF Sound, Busy, Pointing, Promotes
<1>. QED  BY <1>1 DEF CallOK, Points

LEMMA GetStep ==
  ASSUME TableInv, NEW c \in Callers, Table!Get(c)
  PROVE  TableInv'
<1>. DEFINE ip == call[c].ip
            r == IF ip \in DOMAIN actors THEN Table!Holding(c, "apply", actors[ip])
                 ELSE IF call[c].op \in {"unblock", "isBlocked"} THEN Table!Idle ELSE Table!To(c, "load")
<1>1. call[c].pc = "get" /\ call' = [call EXCEPT ![c] = r] /\ UNCHANGED <<counters, actors, heap>>
  BY DEF Table!Get, Table!Goto
<1>2. call[c].op \in Table!Ops /\ call[c].op # "track" /\ ip \in IPs /\ ~Points(c)
  BY <1>1, About DEF TableInv, Busy, Pointing
<1>3. CallOK(r, DOMAIN heap)
  <2>1. CallOK(Table!Holding(c, "apply", actors[ip]), DOMAIN heap) \/ ip \notin DOMAIN actors
    BY <1>2 DEF CallOK, Table!Holding, Busy, Pointing, Promotes, TableInv, Sound
  <2>2. CallOK(Table!To(c, "load"), DOMAIN heap)
    BY <1>2 DEF CallOK, Table!To, Busy, Pointing, Promotes
  <2>. QED  BY <2>1, <2>2, IdleOK
<1>. HIDE DEF r
<1>. QED  BY <1>1, <1>2, <1>3, Moves DEF TableInv, Sound

LEMMA LoadStep ==
  ASSUME TableInv, NEW c \in Callers, Table!Load(c)
  PROVE  TableInv'
<1>. DEFINE ip == call[c].ip
            touch == [op |-> call[c].op, ip |-> ip, pc |-> "touch", at |-> now, actor |-> actors[ip]]
            counting == [op |-> call[c].op, ip |-> ip, pc |-> "count", at |-> now]
            r == IF ip \in DOMAIN actors THEN touch ELSE counting
<1>1. call[c].pc = "load" /\ call' = [call EXCEPT ![c] = r] /\ UNCHANGED <<counters, actors, heap>>
  BY DEF Table!Load, Table!Goto
<1>2. call[c].op \in Table!Ops /\ ip \in IPs /\ ~Points(c)
  BY <1>1, About DEF TableInv, Busy, Pointing
<1>3. CallOK(r, DOMAIN heap)
  <2>1. ip \in DOMAIN actors => CallOK(touch, DOMAIN heap)
    BY <1>2 DEF CallOK, Busy, Pointing, Promotes, TableInv, Sound
  <2>2. CallOK(counting, DOMAIN heap)
    BY <1>2 DEF CallOK, Busy, Pointing, Promotes
  <2>. HIDE DEF touch, counting
  <2>. QED  BY <2>1, <2>2
<1>. HIDE DEF r
<1>. QED  BY <1>1, <1>2, <1>3, Moves DEF TableInv, Sound

LEMMA NilOK ==
  ASSUME TableInv, NEW c \in Callers, call[c].op \in Table!Ops, call[c].ip \in IPs, NEW H
  PROVE  CallOK(Table!GotNil(c), H) /\ "actor" \notin DOMAIN Table!GotNil(c)
<1>1. Table!To(c, "create").pc = "create" /\ DOMAIN Table!To(c, "create") = {"op", "ip", "pc"}
  BY DEF Table!To
<1>2. call[c].op = "block" => CallOK(Table!To(c, "create"), H)
  BY <1>1 DEF CallOK, Table!To, Busy, Pointing, Promotes
<1>. QED  BY <1>1, <1>2, IdleOK DEF Table!GotNil

LEMMA CountFirstStep ==
  ASSUME TableInv, NEW c \in Callers, Table!CountFirst(c)
  PROVE  TableInv'
<1>. DEFINE ip == call[c].ip  new == [count |-> 1, lastSeen |-> call[c].at]
<1>1. /\ call[c].pc = "count" /\ call' = [call EXCEPT ![c] = Table!GotNil(c)]
      /\ counters' = Table!With(counters, ip, new) /\ UNCHANGED <<actors, heap>>
  BY DEF Table!CountFirst, Table!Goto
<1>2. call[c].op \in Table!Ops /\ ip \in IPs /\ ~Points(c)
  BY <1>1, About DEF TableInv, Busy, Pointing
<1>3. new.count = 1
  OBVIOUS
<1>. HIDE DEF new
<1>4. DOMAIN counters' \subseteq IPs /\ \A x \in DOMAIN counters' : counters'[x].count \in Nat
  <2>1. /\ DOMAIN counters' = DOMAIN counters \cup {ip} /\ counters'[ip] = new
        /\ \A x \in DOMAIN counters \ {ip} : counters'[x] = counters[x]
    <3>. HIDE DEF ip
    <3>. QED  BY <1>1 DEF Table!With
  <2>. QED  BY <1>2, <1>3, <2>1 DEF TableInv, Sound
<1>. QED  BY <1>1, <1>2, <1>4, NilOK, Moves

LEMMA CountAgainStep ==
  ASSUME TableInv, NEW c \in Callers, Table!CountAgain(c)
  PROVE  TableInv'
<1>. DEFINE ip == call[c].ip  seen == counters[ip].count + 1
            new == [count |-> seen, lastSeen |-> call[c].at]
            r == IF Table!Earned(seen) THEN Table!Promoting(c, "limit", seen) ELSE Table!GotNil(c)
<1>1. /\ call[c].pc = "count" /\ ip \in DOMAIN counters /\ call' = [call EXCEPT ![c] = r]
      /\ counters' = [counters EXCEPT ![ip] = new] /\ UNCHANGED <<actors, heap>>
  BY DEF Table!CountAgain, Table!Goto
<1>2. call[c].op \in Table!Ops /\ ip \in IPs /\ ~Points(c)
  BY <1>1, About DEF TableInv, Busy, Pointing
<1>3. new.count = seen /\ seen \in Nat
  BY <1>1 DEF TableInv, Sound
<1>. HIDE DEF seen
<1>4. Table!Earned(seen) => CallOK(Table!Promoting(c, "limit", seen), DOMAIN heap)
  BY <1>2, <1>3 DEF Table!Earned, Table!Promoting, CallOK, Busy, Pointing, Promotes
<1>5. CallOK(r, DOMAIN heap)
  BY <1>2, <1>4, NilOK
<1>. HIDE DEF new, r
<1>6. DOMAIN counters' \subseteq IPs /\ \A x \in DOMAIN counters' : counters'[x].count \in Nat
  BY <1>1, <1>2, <1>3 DEF TableInv, Sound
<1>. QED  BY <1>1, <1>2, <1>5, <1>6, Moves

LEMMA LimitStep ==
  ASSUME TableInv, NEW c \in Callers, Table!Limit(c)
  PROVE  TableInv'
<1>. DEFINE evict(v) == [op |-> call[c].op, ip |-> call[c].ip, pc |-> "evict", at |-> call[c].at,
                         count |-> call[c].count, victim |-> v]
            store == Table!Promoting(c, "store", call[c].count)
<1>1. /\ call[c].pc = "limit" /\ UNCHANGED <<counters, actors, heap>>
      /\ \/ \E v \in Table!Oldest : call' = [call EXCEPT ![c] = evict(v)]
         \/ call' = [call EXCEPT ![c] = store]
  BY DEF Table!Limit, Table!Goto
<1>2. /\ call[c].op \in Table!Ops /\ call[c].ip \in IPs /\ ~Points(c)
      /\ call[c].count \in Nat /\ call[c].count >= promotionThreshold
  BY <1>1, About DEF TableInv, Busy, Pointing, Promotes
<1>3. CallOK(store, DOMAIN heap) /\ \A v : CallOK(evict(v), DOMAIN heap)
  BY <1>2 DEF Table!Promoting, CallOK, Busy, Pointing, Promotes
<1>. HIDE DEF evict, store
<1>4. PICK r : call' = [call EXCEPT ![c] = r] /\ CallOK(r, DOMAIN heap)
  BY <1>1, <1>3
<1>. QED  BY <1>1, <1>2, <1>4, Moves DEF TableInv, Sound

-----------------------------------------------------------------------------
\* What a step that collects leaves of the reasons the actors are there for: the call that
\* takes it may have been about to block the actor p it holds.
LEMMA StillBlocks ==
  ASSUME TableInv, NEW c \in Callers, NEW r, call' = [call EXCEPT ![c] = r],
         NEW ip \in DOMAIN actors, ~Deserved(heap[actors[ip]]), ~Blocks(call[c], actors[ip])
  PROVE  \E u \in Callers : Blocks(call'[u], actors[ip])
<1>1. PICK u \in Callers : Blocks(call[u], actors[ip])
  BY EarnedIs DEF TableInv
<1>2. call'[u] = call[u]
  BY <1>1, Steps DEF TableInv
<1>. QED  BY <1>1, <1>2

\* The actor a call holds is written to; it has no fewer requests and blocks than before.
LEMMA WriteStep ==
  ASSUME TableInv, NEW c \in Callers, call[c].pc \in Pointing, NEW a, NEW r,
         UNCHANGED <<counters, actors>>, call' = [call EXCEPT ![c] = r],
         heap' = Table!Collect([heap EXCEPT ![call[c].actor] = a]),
         ActorOK(a), CallOK(r, DOMAIN heap),
         a.requests >= heap[call[c].actor].requests, a.blocks >= heap[call[c].actor].blocks,
         Blocks(call[c], call[c].actor) => a.blocks > 0
  PROVE  TableInv'
<1>. DEFINE p == call[c].actor  h == [heap EXCEPT ![p] = a]
<1>1. p \in DOMAIN heap
  BY About DEF TableInv, Busy
<1>2. /\ DOMAIN h = DOMAIN heap /\ h[p] = a /\ \A q \in DOMAIN heap \ {p} : h[q] = heap[q]
  BY <1>1
<1>. HIDE DEF h
<1>3. DOMAIN call' = Callers /\ \A u \in Callers : CallOK(call'[u], DOMAIN h)
  BY <1>2, Steps DEF TableInv, Sound
<1>4. Sound'
  <2>1. heap' = Table!Collect(h)
    BY DEF h
  <2>2. \A q \in DOMAIN h : ActorOK(h[q])
    BY <1>2 DEF TableInv, Sound
  <2>. QED  BY <1>2, <1>3, <2>1, <2>2, SoundCollects DEF TableInv, Sound
<1>5. ASSUME NEW ip \in DOMAIN actors, ~Deserved(h[actors[ip]])
      PROVE  \E u \in Callers : Blocks(call'[u], actors[ip])
  <2>1. actors[ip] \in DOMAIN heap /\ ActorOK(heap[p]) /\ promotionThreshold \in Nat
    BY <1>1, TableAssumption DEF TableInv, Sound, Table!TrackerAssumption
  <2>2. ~Deserved(heap[actors[ip]])
    BY <1>2, <1>5, <2>1 DEF Deserved, ActorOK
  <2>3. ~Blocks(call[c], actors[ip])
    BY <1>2, <1>5 DEF Blocks, Deserved
  <2>. QED  BY <2>2, <2>3, StillBlocks
<1>6. heap' = Table!Collect(h)
  BY DEF h
<1>. QED  BY <1>2, <1>4, <1>5, <1>6, Collects DEF TableInv, Sound

LEMMA GotOK ==
  ASSUME TableInv, NEW c \in Callers, call[c].pc \in Pointing, NEW H, call[c].actor \in H
  PROVE  CallOK(Table!Got(c, call[c].actor), H)
<1>1. call[c].op \in Table!Ops /\ call[c].ip \in IPs
  BY About DEF TableInv, Busy
<1>2. CallOK(Table!Holding(c, "apply", call[c].actor), H) \/ call[c].op = "track"
  BY <1>1 DEF Table!Holding, CallOK, Busy, Pointing, Promotes
<1>. QED  BY <1>2, IdleOK DEF Table!Got

LEMMA TouchStep ==
  ASSUME TableInv, NEW c \in Callers, Table!Touch(c)
  PROVE  TableInv'
<1>. DEFINE p == call[c].actor  a == [heap[p] EXCEPT !.lastSeen = call[c].at, !.requests = @ + 1]
<1>1. /\ call[c].pc = "touch" /\ call' = [call EXCEPT ![c] = Table!Got(c, p)]
      /\ heap' = Table!Collect([heap EXCEPT ![p] = a]) /\ UNCHANGED <<counters, actors>>
  BY DEF Table!Touch, Table!Goto
<1>2. p \in DOMAIN heap /\ ActorOK(heap[p]) /\ call[c].pc \in Pointing
  BY <1>1, About DEF TableInv, Sound, Busy, Pointing
<1>3. ActorOK(a) /\ a.requests >= heap[p].requests /\ a.blocks = heap[p].blocks
  BY <1>2 DEF ActorOK, ActorFields
<1>4. CallOK(Table!Got(c, p), DOMAIN heap) /\ ~Blocks(call[c], p)
  BY <1>1, <1>2, GotOK DEF Blocks
<1>. HIDE DEF a
<1>5. a.blocks >= heap[p].blocks
  BY <1>2, <1>3 DEF ActorOK
<1>. QED  BY <1>1, <1>2, <1>3, <1>4, <1>5, WriteStep

LEMMA WrittenIs ==
  ASSUME NEW op \in Table!Ops \ {"track"}, NEW a, ActorOK(a)
  PROVE  LET b == Table!Written(op, a) IN
         /\ ActorOK(b) /\ b.requests = a.requests
         /\ b.blocks = IF op = "block" THEN a.blocks + 1 ELSE a.blocks
         /\ op = "block" => b.blocked
         /\ op = "isBlocked" => b.blocked = (a.blocked /\ now < a.until)
         /\ op = "addThreat" => b.blocked = a.blocked
<1>1. op \in {"block", "unblock", "isBlocked", "addThreat"}
  BY DEF Table!Ops
<1>. DEFINE b == Table!Written(op, a)
<1>2. CASE op = "block"
  <2>1. b = [a EXCEPT !.blocked = TRUE, !.until = now + Duration, !.blocks = @ + 1]
    BY <1>2 DEF Table!Written
  <2>. HIDE DEF b
  <2>2. ActorOK(b) /\ b.requests = a.requests /\ b.blocks = a.blocks + 1 /\ b.blocked
    BY <2>1 DEF ActorOK, ActorFields
  <2>. QED  BY <1>2, <2>2 DEF b
<1>3. CASE op = "unblock"
  BY <1>3 DEF Table!Written, ActorOK, ActorFields
<1>4. CASE op = "isBlocked"
  <2>. DEFINE flag == a.blocked /\ now < a.until
  <2>1. flag \in BOOLEAN
    OBVIOUS
  <2>2. b = [a EXCEPT !.blocked = flag]
    BY <1>4 DEF Table!Written
  <2>. HIDE DEF flag, b
  <2>3. ActorOK(b) /\ b.requests = a.requests /\ b.blocks = a.blocks /\ b.blocked = flag
    BY <2>1, <2>2 DEF ActorOK, ActorFields
  <2>. QED  BY <1>4, <2>3 DEF b, flag
<1>5. CASE op = "addThreat"
  <2>. DEFINE n == Table!Min({a.threats + 1, TableThreats})
  <2>1. b = [a EXCEPT !.threats = n]
    BY <1>5 DEF Table!Written
  <2>. HIDE DEF n, b
  <2>2. ActorOK(b) /\ b.requests = a.requests /\ b.blocks = a.blocks /\ b.blocked = a.blocked
    BY <2>1 DEF ActorOK, ActorFields
  <2>. QED  BY <1>5, <2>2 DEF b
<1>. QED  BY <1>1, <1>2, <1>3, <1>4, <1>5

LEMMA ApplyStep ==
  ASSUME TableInv, NEW c \in Callers, Table!Apply(c)
  PROVE  TableInv'
<1>. DEFINE p == call[c].actor  a == Table!Written(call[c].op, heap[p])
<1>1. /\ call[c].pc = "apply" /\ call' = [call EXCEPT ![c] = Table!Idle]
      /\ heap' = Table!Collect([heap EXCEPT ![p] = a]) /\ UNCHANGED <<counters, actors>>
  BY DEF Table!Apply, Table!Goto
<1>2. /\ p \in DOMAIN heap /\ ActorOK(heap[p]) /\ call[c].pc \in Pointing
      /\ call[c].op \in Table!Ops \ {"track"}
  BY <1>1, About DEF TableInv, Sound, Busy, Pointing
<1>3. /\ ActorOK(a) /\ a.requests = heap[p].requests
      /\ a.blocks = IF call[c].op = "block" THEN heap[p].blocks + 1 ELSE heap[p].blocks
  BY <1>2, WrittenIs
<1>. HIDE DEF a
<1>4. /\ a.requests >= heap[p].requests /\ a.blocks >= heap[p].blocks
      /\ Blocks(call[c], p) => a.blocks > 0
  BY <1>2, <1>3 DEF ActorOK, Blocks
<1>. QED  BY <1>1, <1>2, <1>3, <1>4, IdleOK, WriteStep

\* A new actor takes the place of whatever the table has for its address.
LEMMA NewStep ==
  ASSUME TableInv, NEW c \in Callers, ~Points(c), NEW ip \in IPs, NEW a, NEW r,
         UNCHANGED counters, call' = [call EXCEPT ![c] = r],
         actors' = Table!With(actors, ip, Table!New),
         heap' = Table!Collect(Table!With(heap, Table!New, a)),
         ActorOK(a), CallOK(r, DOMAIN heap \cup {Table!New}), ~Blocks(call[c], Table!New),
         Deserved(a) \/ Blocks(r, Table!New)
  PROVE  TableInv'
<1>. DEFINE n == Table!New  h == Table!With(heap, n, a)
<1>1. n \in Table!Pointers /\ n \notin DOMAIN heap
  BY NewIsFresh DEF TableInv
<1>2. /\ DOMAIN h = DOMAIN heap \cup {n} /\ h[n] = a /\ \A p \in DOMAIN heap \ {n} : h[p] = heap[p]
      /\ heap' = Table!Collect(h)
  <2>1. heap' = Table!Collect(h)
    OBVIOUS
  <2>. HIDE DEF n
  <2>2. DOMAIN h = DOMAIN heap \cup {n} /\ h[n] = a /\ \A p \in DOMAIN heap \ {n} : h[p] = heap[p]
    BY DEF Table!With
  <2>. QED  BY <2>1, <2>2
<1>3. /\ DOMAIN actors' = DOMAIN actors \cup {ip} /\ actors'[ip] = n
      /\ \A x \in DOMAIN actors \ {ip} : actors'[x] = actors[x]
  <2>. HIDE DEF n, h
  <2>1. actors' = Table!With(actors, ip, n)
    BY DEF n
  <2>. QED  BY <2>1 DEF Table!With
<1>4. CallOK(r, DOMAIN h)
  BY <1>2
<1>. HIDE DEF n, h
<1>5. DOMAIN call' = Callers /\ \A u \in Callers : call'[u] = IF u = c THEN r ELSE call[u]
  BY Steps DEF TableInv
<1>6. \A u \in Callers : CallOK(call'[u], DOMAIN h)
  BY <1>2, <1>4, <1>5, StillOK DEF TableInv
<1>7. Sound'
  <2>1. \A x \in DOMAIN actors' : actors'[x] \in DOMAIN h
    BY <1>2, <1>3 DEF TableInv, Sound
  <2>2. \A x, y \in DOMAIN actors' : actors'[x] = actors'[y] => x = y
    BY <1>1, <1>3 DEF TableInv, Sound
  <2>3. \A p \in DOMAIN h : ActorOK(h[p])
    BY <1>1, <1>2 DEF TableInv, Sound
  <2>4. DOMAIN actors' \subseteq IPs /\ DOMAIN h \subseteq Table!Pointers
    BY <1>1, <1>2, <1>3 DEF TableInv, Sound
  <2>. QED  BY <1>2, <1>5, <1>6, <2>1, <2>2, <2>3, <2>4, SoundCollects DEF TableInv, Sound
<1>8. ASSUME NEW x \in DOMAIN actors'
      PROVE  Deserved(h[actors'[x]]) \/ \E u \in Callers : Blocks(call'[u], actors'[x])
  <2>1. CASE x = ip
    <3>1. actors'[x] = n /\ h[n] = a
      BY <1>2, <1>3, <2>1
    <3>2. Blocks(r, n) => Blocks(call'[c], n)
      BY <1>5
    <3>. QED  BY <3>1, <3>2 DEF n
  <2>2. CASE x # ip
    <3>1. x \in DOMAIN actors /\ actors'[x] = actors[x] /\ actors[x] \in DOMAIN heap /\ h[actors[x]] = heap[actors[x]]
      BY <1>1, <1>2, <1>3, <2>2 DEF TableInv, Sound
    <3>2. ~Blocks(call[c], actors[x])
      <4>1. call[c].pc # "apply"
        BY IdleOK DEF TableInv, Sound, CallOK, Points, Pointing
      <4>. QED  BY <4>1 DEF Blocks
    <3>. QED  BY <3>1, <3>2, StillBlocks
  <2>. QED  BY <2>1, <2>2
<1>9. \A x \in DOMAIN actors' : actors'[x] \in DOMAIN h
  BY <1>2, <1>3 DEF TableInv, Sound
<1>. QED  BY <1>2, <1>7, <1>8, <1>9, Collects

LEMMA StoreStep ==
  ASSUME TableInv, NEW c \in Callers, Table!Store(c)
  PROVE  TableInv'
<1>. DEFINE ip == call[c].ip  a == Table!Actor(call[c].at, call[c].count)
            r == Table!Holding(c, "drop", Table!New)
<1>1. /\ call[c].pc = "store" /\ call' = [call EXCEPT ![c] = r]
      /\ actors' = Table!With(actors, ip, Table!New) /\ UNCHANGED counters
      /\ heap' = Table!Collect(Table!With(heap, Table!New, a))
  BY DEF Table!Store, Table!Goto
<1>2. /\ call[c].op \in Table!Ops /\ ip \in IPs /\ ~Points(c)
      /\ call[c].count \in Nat /\ call[c].count >= promotionThreshold
  BY <1>1, About DEF TableInv, Busy, Pointing, Promotes
<1>3. CallOK(r, DOMAIN heap \cup {Table!New})
  BY <1>2 DEF Table!Holding, CallOK, Busy, Pointing, Promotes
<1>4. ActorOK(a) /\ Deserved(a)
  BY <1>2 DEF Table!Actor, ActorOK, ActorFields, Deserved
<1>5. ~Blocks(call[c], Table!New)
  BY <1>1 DEF Blocks
<1>. HIDE DEF a, r
<1>. QED  BY <1>1, <1>2, <1>3, <1>4, <1>5, NewStep

LEMMA CreateStep ==
  ASSUME TableInv, NEW c \in Callers, Table!Create(c)
  PROVE  TableInv'
<1>. DEFINE ip == call[c].ip  a == Table!Actor(now, 0)
            r == Table!Holding(c, "apply", Table!New)
<1>1. /\ call[c].pc = "create" /\ call' = [call EXCEPT ![c] = r]
      /\ actors' = Table!With(actors, ip, Table!New) /\ UNCHANGED counters
      /\ heap' = Table!Collect(Table!With(heap, Table!New, a))
  BY DEF Table!Create, Table!Goto
<1>2. /\ call[c].op = "block" /\ call[c].op \in Table!Ops /\ ip \in IPs /\ ~Points(c)
  BY <1>1, About DEF TableInv, Busy, Pointing
<1>3. CallOK(r, DOMAIN heap \cup {Table!New}) /\ Blocks(r, Table!New)
  BY <1>2 DEF Table!Holding, CallOK, Busy, Pointing, Promotes, Blocks
<1>4. ActorOK(a)
  BY DEF Table!Actor, ActorOK, ActorFields
<1>5. ~Blocks(call[c], Table!New)
  BY <1>1 DEF Blocks
<1>. HIDE DEF a, r
<1>. QED  BY <1>1, <1>2, <1>3, <1>4, <1>5, NewStep

\* Actors leave the table, and what nobody points to any more is collected.
LEMMA LeaveStep ==
  ASSUME TableInv, heap' = Table!Collect(heap),
         DOMAIN actors' \subseteq DOMAIN actors, \A ip \in DOMAIN actors' : actors'[ip] = actors[ip],
         DOMAIN counters' \subseteq DOMAIN counters,
         \A ip \in DOMAIN counters' : counters'[ip] = counters[ip],
         DOMAIN call' = Callers, \A u \in Callers : CallOK(call'[u], DOMAIN heap),
         \A u \in Callers : call'[u] = call[u] \/ call[u].pc # "apply"
  PROVE  TableInv'
<1>1. Sound'
  <2>1. \A ip \in DOMAIN counters' : counters'[ip].count \in Nat
    BY DEF TableInv, Sound
  <2>2. \A x, y \in DOMAIN actors' : actors'[x] = actors'[y] => x = y
    BY DEF TableInv, Sound
  <2>. QED  BY <2>1, <2>2, SoundCollects DEF TableInv, Sound
<1>2. ASSUME NEW ip \in DOMAIN actors'
      PROVE  Deserved(heap[actors'[ip]]) \/ \E u \in Callers : Blocks(call'[u], actors'[ip])
  BY EarnedIs DEF TableInv, Blocks
<1>3. \A ip \in DOMAIN actors' : actors'[ip] \in DOMAIN heap
  BY DEF TableInv, Sound
<1>. QED  BY <1>1, <1>2, <1>3, Collects

LEMMA EvictStep ==
  ASSUME TableInv, NEW c \in Callers, Table!Evict(c)
  PROVE  TableInv'
<1>. DEFINE r == Table!Promoting(c, "store", call[c].count)
<1>1. /\ call[c].pc = "evict" /\ call' = [call EXCEPT ![c] = r]
      /\ actors' = Table!Without(actors, call[c].victim) /\ UNCHANGED counters
      /\ heap' = Table!Collect(heap)
  BY DEF Table!Evict, Table!Goto
<1>2. /\ call[c].op \in Table!Ops /\ call[c].ip \in IPs
      /\ call[c].count \in Nat /\ call[c].count >= promotionThreshold
  BY <1>1, About DEF TableInv, Busy, Promotes
<1>3. CallOK(r, DOMAIN heap)
  BY <1>2 DEF Table!Promoting, CallOK, Busy, Pointing, Promotes
<1>. HIDE DEF r
<1>4. DOMAIN call' = Callers /\ \A u \in Callers : call'[u] = IF u = c THEN r ELSE call[u]
  BY <1>1, Steps DEF TableInv
<1>5. DOMAIN actors' \subseteq DOMAIN actors /\ \A ip \in DOMAIN actors' : actors'[ip] = actors[ip]
  BY <1>1 DEF Table!Without, Table!Restrict
<1>6. \A u \in Callers : CallOK(call'[u], DOMAIN heap)
  BY <1>3, <1>4 DEF TableInv, Sound
<1>7. \A u \in Callers : call'[u] = call[u] \/ call[u].pc # "apply"
  BY <1>1, <1>4
<1>. QED  BY <1>1, <1>4, <1>5, <1>6, <1>7, LeaveStep

LEMMA DropStep ==
  ASSUME TableInv, NEW c \in Callers, Table!Drop(c)
  PROVE  TableInv'
<1>. DEFINE r == Table!Got(c, call[c].actor)
<1>1. /\ call[c].pc = "drop" /\ call' = [call EXCEPT ![c] = r] /\ UNCHANGED actors
      /\ counters' = Table!Without(counters, call[c].ip) /\ heap' = Table!Collect(heap)
  BY DEF Table!Drop, Table!Goto
<1>2. CallOK(r, DOMAIN heap)
  BY <1>1, About, GotOK DEF TableInv, Busy, Pointing
<1>. HIDE DEF r
<1>3. DOMAIN call' = Callers /\ \A u \in Callers : call'[u] = IF u = c THEN r ELSE call[u]
  BY <1>1, Steps DEF TableInv
<1>4. DOMAIN counters' \subseteq DOMAIN counters /\ \A ip \in DOMAIN counters' : counters'[ip] = counters[ip]
  BY <1>1 DEF Table!Without, Table!Restrict
<1>5. \A u \in Callers : CallOK(call'[u], DOMAIN heap)
  BY <1>2, <1>3 DEF TableInv, Sound
<1>6. \A u \in Callers : call'[u] = call[u] \/ call[u].pc # "apply"
  BY <1>1, <1>3
<1>. QED  BY <1>1, <1>3, <1>4, <1>5, <1>6, LeaveStep

LEMMA DeleteActorStep ==
  ASSUME TableInv, Table!DeleteActor
  PROVE  TableInv'
<1>1. /\ actors' = Table!Without(actors, cleaner.key) /\ UNCHANGED <<counters, call>>
      /\ heap' = Table!Collect(heap)
  BY DEF Table!DeleteActor
<1>2. DOMAIN actors' \subseteq DOMAIN actors /\ \A ip \in DOMAIN actors' : actors'[ip] = actors[ip]
  BY <1>1 DEF Table!Without, Table!Restrict
<1>. QED  BY <1>1, <1>2, LeaveStep DEF TableInv, Sound

\* A step that concerns neither the actors nor the calls.
LEMMA AsideStep ==
  ASSUME TableInv, UNCHANGED <<actors, heap, call>>,
         DOMAIN counters' \subseteq DOMAIN counters,
         \A ip \in DOMAIN counters' : counters'[ip] = counters[ip]
  PROVE  TableInv'
<1>1. Sound'
  <2>1. \A ip \in DOMAIN counters' : counters'[ip].count \in Nat
    BY DEF TableInv, Sound
  <2>2. \A c \in Callers : Points(c)' = Points(c)
    BY DEF Points
  <2>. QED  BY <2>1, <2>2 DEF TableInv, Sound
<1>. QED  BY <1>1 DEF TableInv, Table!ActorsAreEarned

LEMMA AsideSteps ==
  ASSUME TableInv,
         \/ Table!Cleanup \/ Table!DeleteCounter \/ Table!Tick \/ UNCHANGED Table!vars
         \/ \E ip \in IPs : Table!LookAtCounter(ip) \/ Table!LookAtActor(ip)
  PROVE  TableInv'
<1>1. UNCHANGED <<actors, heap, call>>
  BY Zenon DEF Table!Cleanup, Table!DeleteCounter, Table!Tick, Table!LookAtCounter, Table!LookAtActor,
            Table!vars
<1>2. counters' = counters \/ counters' = Table!Without(counters, cleaner.key)
  BY Zenon DEF Table!Cleanup, Table!DeleteCounter, Table!Tick, Table!LookAtCounter, Table!LookAtActor,
            Table!vars
<1>3. DOMAIN counters' \subseteq DOMAIN counters /\ \A ip \in DOMAIN counters' : counters'[ip] = counters[ip]
  BY <1>2 DEF Table!Without, Table!Restrict
<1>. QED  BY <1>1, <1>3, AsideStep

LEMMA TableInit == Table!Init => TableInv
<1>. SUFFICES ASSUME Table!Init PROVE TableInv
  OBVIOUS
<1>1. /\ DOMAIN counters = {} /\ DOMAIN actors = {} /\ DOMAIN heap = {}
      /\ call = [c \in Callers |-> Table!Idle]
  BY DEF Table!Init, Table!Empty
<1>2. \A c \in Callers : CallOK(call[c], DOMAIN heap)
  BY <1>1, IdleOK
<1>. QED  BY <1>1, <1>2 DEF TableInv, Sound, Table!ActorsAreEarned

LEMMA TableSteps == TableInv /\ [Table!Next]_Table!vars => TableInv'
<1>. SUFFICES ASSUME TableInv, [Table!Next]_Table!vars PROVE TableInv'
  OBVIOUS
<1>1. ASSUME NEW c \in Callers,
             \/ \E op \in Table!Ops, ip \in IPs : Table!Call(c, op, ip)
             \/ Table!Get(c) \/ Table!Load(c) \/ Table!Touch(c) \/ Table!CountFirst(c)
             \/ Table!CountAgain(c) \/ Table!Limit(c) \/ Table!Evict(c) \/ Table!Store(c)
             \/ Table!Drop(c) \/ Table!Create(c) \/ Table!Apply(c)
      PROVE  TableInv'
  BY <1>1, CallStep, GetStep, LoadStep, TouchStep, CountFirstStep, CountAgainStep, LimitStep,
     EvictStep, StoreStep, DropStep, CreateStep, ApplyStep
<1>2. CASE Table!DeleteActor
  BY <1>2, DeleteActorStep
<1>3. CASE \/ Table!Cleanup \/ Table!DeleteCounter \/ Table!Tick \/ UNCHANGED Table!vars
           \/ \E ip \in IPs : Table!LookAtCounter(ip) \/ Table!LookAtActor(ip)
  BY <1>3, AsideSteps
<1>. QED  BY <1>1, <1>2, <1>3 DEF Table!Next

\* An address has an actor only when it earned one (ActorsAreEarned): every pointer leads to an
\* actor that exists, and the count of a promotion that has been decided on is enough, whatever
\* has happened to the counter and to the table by the time the actor is stored.
THEOREM ActorsAreAlwaysEarned == Table!Spec => []ActorsAreEarned
<1>1. TableInv => ActorsAreEarned
  BY DEF TableInv, ActorsAreEarned
<1>. QED  BY <1>1, TableInit, TableSteps, PTL DEF Table!Spec

-----------------------------------------------------------------------------
(* Calls and cleanups that come one at a time.  As long as they do, what a *)
(* call has found out about its address is still so at its next step.      *)

CallFits(r, cs, as, h) ==
  /\ r.pc \in Promotes \cup {"drop"} => r.ip \in DOMAIN cs
  /\ r.pc \in Promotes \cup {"count", "create"} => r.ip \notin DOMAIN as
  /\ r.pc = "evict" => r.victim \in DOMAIN as /\ ~h[as[r.victim]].blocked
  /\ r.pc \in Pointing => r.ip \in DOMAIN as /\ r.actor = as[r.ip]

CleanerFits(r, cs, as, h) ==
  /\ r.pc = "deleteCounter" => r.key \in DOMAIN cs
  /\ r.pc = "deleteActor" => r.key \in DOMAIN as /\ ~h[as[r.key]].blocked

Sized == activeCounters = Cardinality(DOMAIN counters) /\ activeActors = Cardinality(DOMAIN actors)

Orderly ==
  /\ \A c, d \in Callers : call[c] # Table!Idle /\ call[d] # Table!Idle => c = d
  /\ cleaner # Table!Asleep => \A c \in Callers : call[c] = Table!Idle
  /\ \A c \in Callers : CallFits(call[c], counters, actors, heap)
  /\ CleanerFits(cleaner, counters, actors, heap)
  /\ Sized

Alone == alone \in BOOLEAN /\ (alone => Orderly)

\* What BlocksHold says of a step.
Upheld ==
  \A ip \in IPs :
    Table!InForce(ip) /\ alone' =>
      \/ ip \in DOMAIN actors' /\ heap'[actors'[ip]].blocked
      \/ \E c \in Callers : call[c].pc = "apply" /\ call[c].op = "unblock" /\ call[c].ip = ip

LEMMA IdleFits == \A cs, as, h : CallFits(Table!Idle, cs, as, h)
BY DEF CallFits, Table!Idle, Pointing, Promotes

LEMMA AsleepFits == \A cs, as, h : CleanerFits(Table!Asleep, cs, as, h)
BY DEF CleanerFits, Table!Asleep

LEMMA SizesFinite ==
  ASSUME TableInv
  PROVE  /\ IsFiniteSet(DOMAIN counters) /\ Cardinality(DOMAIN counters) \in Nat
         /\ IsFiniteSet(DOMAIN actors) /\ Cardinality(DOMAIN actors) \in Nat
<1>1. IsFiniteSet(IPs)
  BY TableAssumption, SameSizes DEF Table!TrackerAssumption
<1>. QED  BY <1>1, FS_Subset, FS_CardinalityType DEF TableInv, Sound

\* The step of a call that is under way: alone, it is the only one.
LEMMA AloneStep ==
  ASSUME TableInv, Alone, NEW c \in Callers, call[c].pc \in Busy, NEW r, call' = [call EXCEPT ![c] = r],
         UNCHANGED <<cleaner, alone>>,
         alone => Sized' /\ CallFits(r, counters', actors', heap')
  PROVE  Alone'
<1>. SUFFICES ASSUME alone PROVE Orderly'
  BY DEF Alone
<1>1. call[c] # Table!Idle
  BY IdleOK DEF Busy, Pointing, Promotes
<1>2. \A u \in Callers : call'[u] = IF u = c THEN r ELSE Table!Idle
  BY <1>1, Steps DEF TableInv, Alone, Orderly
<1>3. cleaner' = Table!Asleep
  BY <1>1 DEF Alone, Orderly
<1>. QED  BY <1>2, <1>3, IdleFits, AsleepFits DEF Orderly

LEMMA KeptSame == ASSUME TableInv, UNCHANGED <<actors, heap>> PROVE Upheld
BY DEF Upheld, Table!InForce

\* An actor that is in force stays as it is.
LEMMA KeptCollected ==
  ASSUME NEW h, heap' = Table!Collect(h),
         \A ip \in DOMAIN actors : heap[actors[ip]].blocked /\ alone' =>
           ip \in DOMAIN actors' /\ actors'[ip] \in DOMAIN h /\ h[actors'[ip]].blocked
  PROVE  Upheld
<1>1. \A ip \in DOMAIN actors' : actors'[ip] \in DOMAIN h => heap'[actors'[ip]] = h[actors'[ip]]
  BY Collected
<1>. QED  BY <1>1 DEF Upheld, Table!InForce

LEMMA CallAlone ==
  ASSUME TableInv, Alone, NEW c \in Callers, NEW op \in Table!Ops, NEW ip \in IPs, Table!Call(c, op, ip)
  PROVE  Alone' /\ Upheld
<1>. DEFINE r == [op |-> op, ip |-> ip, pc |-> IF op = "track" THEN "load" ELSE "get"]
<1>1. /\ call[c] = Table!Idle /\ call' = [call EXCEPT ![c] = r]
      /\ UNCHANGED <<counters, actors, heap, activeCounters, activeActors, cleaner>>
      /\ alone' = (alone /\ Table!Quiet)
  BY DEF Table!Call, Table!Goto
<1>2. CallFits(r, counters, actors, heap)
  BY DEF CallFits, Promotes, Pointing
<1>. HIDE DEF r
<1>3. ASSUME alone' PROVE Orderly'
  <2>1. Orderly /\ Table!Quiet
    BY <1>1, <1>3 DEF Alone
  <2>2. \A u \in Callers : call'[u] = IF u = c THEN r ELSE Table!Idle
    BY <1>1, <2>1, Steps DEF TableInv, Table!Quiet
  <2>3. cleaner' = Table!Asleep /\ Sized'
    BY <1>1, <2>1 DEF Table!Quiet, Orderly, Sized
  <2>. QED  BY <1>1, <1>2, <2>2, <2>3, IdleFits, AsleepFits DEF Orderly
<1>4. alone' \in BOOLEAN
  BY <1>1
<1>. QED  BY <1>1, <1>3, <1>4, KeptSame DEF Alone

LEMMA GetAlone ==
  ASSUME TableInv, Alone, NEW c \in Callers, Table!Get(c)
  PROVE  Alone' /\ Upheld
<1>. DEFINE ip == call[c].ip
            r == IF ip \in DOMAIN actors THEN Table!Holding(c, "apply", actors[ip])
                 ELSE IF call[c].op \in {"unblock", "isBlocked"} THEN Table!Idle ELSE Table!To(c, "load")
<1>1. /\ call[c].pc = "get" /\ call' = [call EXCEPT ![c] = r]
      /\ UNCHANGED <<counters, actors, heap, activeCounters, activeActors, cleaner, alone>>
  BY DEF Table!Get, Table!Goto
<1>2. ip \in DOMAIN actors => CallFits(Table!Holding(c, "apply", actors[ip]), counters, actors, heap)
  BY DEF CallFits, Table!Holding, Promotes, Pointing
<1>3. CallFits(Table!To(c, "load"), counters, actors, heap)
  BY DEF CallFits, Table!To, Promotes, Pointing
<1>4. CallFits(r, counters, actors, heap)
  BY <1>2, <1>3, IdleFits
<1>5. alone => Sized'
  BY <1>1 DEF Alone, Orderly, Sized
<1>6. call[c].pc \in Busy
  BY <1>1 DEF Busy
<1>. HIDE DEF r
<1>. QED  BY <1>1, <1>4, <1>5, <1>6, AloneStep, KeptSame

LEMMA LoadAlone ==
  ASSUME TableInv, Alone, NEW c \in Callers, Table!Load(c)
  PROVE  Alone' /\ Upheld
<1>. DEFINE ip == call[c].ip
            touch == [op |-> call[c].op, ip |-> ip, pc |-> "touch", at |-> now, actor |-> actors[ip]]
            counting == [op |-> call[c].op, ip |-> ip, pc |-> "count", at |-> now]
            r == IF ip \in DOMAIN actors THEN touch ELSE counting
<1>1. /\ call[c].pc = "load" /\ call' = [call EXCEPT ![c] = r]
      /\ UNCHANGED <<counters, actors, heap, activeCounters, activeActors, cleaner, alone>>
  BY DEF Table!Load, Table!Goto
<1>2. /\ ip \in DOMAIN actors => CallFits(touch, counters, actors, heap)
      /\ ip \notin DOMAIN actors => CallFits(counting, counters, actors, heap)
  BY DEF CallFits, Promotes, Pointing
<1>. HIDE DEF touch, counting
<1>3. CallFits(r, counters, actors, heap)
  BY <1>2
<1>4. alone => Sized'
  BY <1>1 DEF Alone, Orderly, Sized
<1>5. call[c].pc \in Busy
  BY <1>1 DEF Busy
<1>. HIDE DEF r
<1>. QED  BY <1>1, <1>3, <1>4, <1>5, AloneStep, KeptSame

\* The counter is there, or it is made, and the address has no actor.
LEMMA NilFits ==
  ASSUME NEW c \in Callers, call[c].ip \notin DOMAIN actors, NEW cs
  PROVE  CallFits(Table!GotNil(c), cs, actors, heap)
<1>1. CallFits(Table!To(c, "create"), cs, actors, heap)
  BY DEF CallFits, Table!To, Promotes, Pointing
<1>. QED  BY <1>1, IdleFits DEF Table!GotNil

LEMMA CountFirstAlone ==
  ASSUME TableInv, Alone, NEW c \in Callers, Table!CountFirst(c)
  PROVE  Alone' /\ Upheld
<1>. DEFINE ip == call[c].ip
<1>1. /\ call[c].pc = "count" /\ ip \notin DOMAIN counters
      /\ call' = [call EXCEPT ![c] = Table!GotNil(c)]
      /\ activeCounters' = activeCounters + 1
      /\ UNCHANGED <<actors, heap, activeActors, cleaner, alone>>
  BY DEF Table!CountFirst, Table!Goto
<1>2. DOMAIN counters' = DOMAIN counters \cup {ip}
  BY DEF Table!CountFirst, Table!With
<1>3. call[c].pc \in Busy
  BY <1>1 DEF Busy
<1>4. ASSUME alone PROVE Sized' /\ CallFits(Table!GotNil(c), counters', actors', heap')
  <2>1. ip \notin DOMAIN actors /\ Sized
    BY <1>1, <1>4 DEF Alone, Orderly, CallFits
  <2>2. Cardinality(DOMAIN counters \cup {ip}) = Cardinality(DOMAIN counters) + 1
    BY <1>1, SizesFinite, FS_AddElement
  <2>3. Sized'
    BY <1>1, <1>2, <2>1, <2>2 DEF Sized
  <2>4. CallFits(Table!GotNil(c), counters', actors, heap)
    BY <2>1, NilFits
  <2>. QED  BY <1>1, <2>3, <2>4
<1>. QED  BY <1>1, <1>3, <1>4, AloneStep, KeptSame

LEMMA CountAgainAlone ==
  ASSUME TableInv, Alone, NEW c \in Callers, Table!CountAgain(c)
  PROVE  Alone' /\ Upheld
<1>. DEFINE ip == call[c].ip  seen == counters[ip].count + 1
            r == IF Table!Earned(seen) THEN Table!Promoting(c, "limit", seen) ELSE Table!GotNil(c)
<1>1. /\ call[c].pc = "count" /\ ip \in DOMAIN counters /\ call' = [call EXCEPT ![c] = r]
      /\ DOMAIN counters' = DOMAIN counters
      /\ UNCHANGED <<actors, heap, activeCounters, activeActors, cleaner, alone>>
  BY DEF Table!CountAgain, Table!Goto
<1>2. call[c].pc \in Busy
  BY <1>1 DEF Busy
<1>3. ASSUME alone PROVE Sized' /\ CallFits(r, counters', actors', heap')
  <2>1. ip \notin DOMAIN actors /\ Sized
    BY <1>1, <1>3 DEF Alone, Orderly, CallFits
  <2>2. Sized'
    BY <1>1, <2>1 DEF Sized
  <2>3. CallFits(Table!Promoting(c, "limit", seen), counters', actors, heap)
    BY <1>1, <2>1 DEF CallFits, Table!Promoting, Promotes, Pointing
  <2>4. CallFits(r, counters', actors, heap)
    BY <2>1, <2>3, NilFits
  <2>. QED  BY <1>1, <2>2, <2>4
<1>. HIDE DEF r
<1>. QED  BY <1>1, <1>2, <1>3, AloneStep, KeptSame

LEMMA LimitAlone ==
  ASSUME TableInv, Alone, NEW c \in Callers, Table!Limit(c)
  PROVE  Alone' /\ Upheld
<1>. DEFINE evict(v) == [op |-> call[c].op, ip |-> call[c].ip, pc |-> "evict", at |-> call[c].at,
                         count |-> call[c].count, victim |-> v]
            store == Table!Promoting(c, "store", call[c].count)
<1>1. /\ call[c].pc = "limit"
      /\ UNCHANGED <<counters, actors, heap, activeCounters, activeActors, cleaner, alone>>
      /\ \/ \E v \in Table!Oldest : call' = [call EXCEPT ![c] = evict(v)]
         \/ call' = [call EXCEPT ![c] = store]
  BY DEF Table!Limit, Table!Goto
<1>2. call[c].pc \in Busy
  BY <1>1 DEF Busy, Promotes
<1>3. \A v \in Table!Oldest : v \in DOMAIN actors /\ ~heap[actors[v]].blocked
  BY DEF Table!Oldest
<1>4. alone => /\ Sized'
               /\ CallFits(store, counters, actors, heap)
               /\ \A v \in Table!Oldest : CallFits(evict(v), counters, actors, heap)
  <2>. SUFFICES ASSUME alone
                PROVE  /\ Sized' /\ CallFits(store, counters, actors, heap)
                       /\ \A v \in Table!Oldest : CallFits(evict(v), counters, actors, heap)
    OBVIOUS
  <2>1. Sized /\ call[c].ip \in DOMAIN counters /\ call[c].ip \notin DOMAIN actors
    BY <1>1 DEF Alone, Orderly, CallFits, Promotes
  <2>2. Sized'
    BY <1>1, <2>1 DEF Sized
  <2>3. CallFits(store, counters, actors, heap)
    BY <2>1 DEF CallFits, Table!Promoting, Promotes, Pointing
  <2>4. \A v \in Table!Oldest : CallFits(evict(v), counters, actors, heap)
    BY <1>3, <2>1 DEF CallFits, Promotes, Pointing
  <2>. QED  BY <2>2, <2>3, <2>4
<1>. HIDE DEF evict, store
<1>5. PICK r : call' = [call EXCEPT ![c] = r] /\ (alone => CallFits(r, counters, actors, heap))
  BY <1>1, <1>4
<1>. QED  BY <1>1, <1>2, <1>4, <1>5, AloneStep, KeptSame

\* A call that lets its actor go or keeps it, once more.
LEMMA GotFits ==
  ASSUME NEW c \in Callers, NEW cs, NEW h, call[c].ip \in DOMAIN actors, call[c].actor = actors[call[c].ip]
  PROVE  CallFits(Table!Got(c, call[c].actor), cs, actors, h)
<1>1. CallFits(Table!Holding(c, "apply", call[c].actor), cs, actors, h)
  BY DEF CallFits, Table!Holding, Promotes, Pointing
<1>. QED  BY <1>1, IdleFits DEF Table!Got

LEMMA TouchAlone ==
  ASSUME TableInv, Alone, NEW c \in Callers, Table!Touch(c)
  PROVE  Alone' /\ Upheld
<1>. DEFINE p == call[c].actor  a == [heap[p] EXCEPT !.lastSeen = call[c].at, !.requests = @ + 1]
            h == [heap EXCEPT ![p] = a]
<1>1. /\ call[c].pc = "touch" /\ call' = [call EXCEPT ![c] = Table!Got(c, p)]
      /\ heap' = Table!Collect(h)
      /\ UNCHANGED <<counters, actors, activeCounters, activeActors, cleaner, alone>>
  BY DEF Table!Touch, Table!Goto
<1>2. call[c].pc \in Busy
  BY <1>1 DEF Busy, Pointing
<1>3. p \in DOMAIN heap /\ ActorOK(heap[p])
  BY <1>1, <1>2, About DEF TableInv, Sound, Pointing
<1>4. a.blocked = heap[p].blocked
  BY <1>3 DEF ActorOK, ActorFields
<1>. HIDE DEF a
<1>5. DOMAIN h = DOMAIN heap /\ \A q \in DOMAIN heap : h[q].blocked = heap[q].blocked
  BY <1>3, <1>4
<1>. HIDE DEF h
<1>6. alone => Sized' /\ CallFits(Table!Got(c, p), counters', actors', heap')
  <2>. SUFFICES ASSUME alone PROVE Sized' /\ CallFits(Table!Got(c, p), counters', actors', heap')
    OBVIOUS
  <2>1. Sized /\ call[c].ip \in DOMAIN actors /\ p = actors[call[c].ip]
    BY <1>1 DEF Alone, Orderly, CallFits, Pointing
  <2>2. CallFits(Table!Got(c, p), counters', actors, heap')
    BY <2>1, GotFits
  <2>3. Sized'
    BY <1>1, <2>1 DEF Sized
  <2>. QED  BY <1>1, <2>2, <2>3
<1>7. Upheld
  BY <1>1, <1>5, KeptCollected DEF TableInv, Sound
<1>. QED  BY <1>1, <1>2, <1>6, <1>7, AloneStep

\* Of a call that writes to its actor, only Unblock takes down the flag of a block in force.
LEMMA ApplyAlone ==
  ASSUME TableInv, Alone, NEW c \in Callers, Table!Apply(c)
  PROVE  Alone' /\ Upheld
<1>. DEFINE p == call[c].actor  op == call[c].op  a == Table!Written(op, heap[p])
            h == [heap EXCEPT ![p] = a]
<1>1. /\ call[c].pc = "apply" /\ call' = [call EXCEPT ![c] = Table!Idle]
      /\ heap' = Table!Collect(h)
      /\ UNCHANGED <<counters, actors, activeCounters, activeActors, cleaner, alone>>
  BY DEF Table!Apply, Table!Goto
<1>2. call[c].pc \in Busy
  BY <1>1 DEF Busy, Pointing
<1>3. p \in DOMAIN heap /\ ActorOK(heap[p]) /\ op \in Table!Ops \ {"track"}
  BY <1>1, <1>2, About DEF TableInv, Sound, Pointing
<1>4. /\ op = "block" => a.blocked
      /\ op = "isBlocked" => a.blocked = (heap[p].blocked /\ now < heap[p].until)
      /\ op = "addThreat" => a.blocked = heap[p].blocked
  <2>. DEFINE was == heap[p]
  <2>. HIDE DEF op, was
  <2>1. /\ op = "block" => Table!Written(op, was).blocked
        /\ op = "isBlocked" => Table!Written(op, was).blocked = (was.blocked /\ now < was.until)
        /\ op = "addThreat" => Table!Written(op, was).blocked = was.blocked
    BY <1>3, WrittenIs DEF was
  <2>. QED  BY <2>1 DEF was
<1>5. op \in {"block", "unblock", "isBlocked", "addThreat"}
  BY <1>3 DEF Table!Ops
<1>. HIDE DEF a
<1>6. DOMAIN h = DOMAIN heap /\ h[p] = a /\ \A q \in DOMAIN heap \ {p} : h[q] = heap[q]
  BY <1>3
<1>. HIDE DEF h
<1>7. alone => Sized' /\ CallFits(Table!Idle, counters', actors', heap')
  BY <1>1, IdleFits DEF Alone, Orderly, Sized
<1>8. ASSUME NEW ip \in IPs, Table!InForce(ip), alone'
      PROVE  \/ ip \in DOMAIN actors' /\ heap'[actors'[ip]].blocked
             \/ \E u \in Callers : call[u].pc = "apply" /\ call[u].op = "unblock" /\ call[u].ip = ip
  <2>1. ip \in DOMAIN actors /\ heap[actors[ip]].blocked /\ now < heap[actors[ip]].until
    BY <1>8 DEF Table!InForce
  <2>2. call[c].ip \in DOMAIN actors /\ p = actors[call[c].ip]
    BY <1>1, <1>8 DEF Alone, Orderly, CallFits, Pointing
  <2>3. actors[ip] \in DOMAIN heap /\ heap'[actors[ip]] = h[actors[ip]]
    BY <1>1, <1>6, <2>1, Collected DEF TableInv, Sound
  <2>4. CASE ip # call[c].ip
    <3>1. actors[ip] # p
      BY <2>1, <2>2, <2>4 DEF TableInv, Sound
    <3>. QED  BY <1>1, <1>6, <2>1, <2>3, <3>1
  <2>5. CASE ip = call[c].ip
    <3>1. op = "unblock" \/ h[p].blocked
      BY <1>4, <1>5, <1>6, <2>1, <2>2, <2>5
    <3>. QED  BY <1>1, <2>1, <2>2, <2>3, <2>5, <3>1
  <2>. QED  BY <2>4, <2>5
<1>9. Upheld
  BY <1>8 DEF Upheld
<1>. QED  BY <1>1, <1>2, <1>7, <1>9, AloneStep

\* The victim of a promotion is still there, and it is not blocked.
LEMMA EvictAlone ==
  ASSUME TableInv, Alone, NEW c \in Callers, Table!Evict(c)
  PROVE  Alone' /\ Upheld
<1>. DEFINE v == call[c].victim  r == Table!Promoting(c, "store", call[c].count)
<1>1. /\ call[c].pc = "evict" /\ call' = [call EXCEPT ![c] = r]
      /\ activeActors' = activeActors - 1 /\ heap' = Table!Collect(heap)
      /\ UNCHANGED <<counters, activeCounters, cleaner, alone>>
  BY DEF Table!Evict, Table!Goto
<1>2. DOMAIN actors' = DOMAIN actors \ {v} /\ \A ip \in DOMAIN actors' : actors'[ip] = actors[ip]
  BY DEF Table!Evict, Table!Without, Table!Restrict
<1>3. call[c].pc \in Busy
  BY <1>1 DEF Busy, Promotes
<1>4. ASSUME alone
      PROVE  /\ Sized /\ v \in DOMAIN actors /\ ~heap[actors[v]].blocked
             /\ call[c].ip \in DOMAIN counters /\ call[c].ip \notin DOMAIN actors
  BY <1>1, <1>4 DEF Alone, Orderly, CallFits, Promotes
<1>5. alone => Sized' /\ CallFits(r, counters', actors', heap')
  <2>. SUFFICES ASSUME alone PROVE Sized' /\ CallFits(r, counters', actors', heap')
    OBVIOUS
  <2>1. Cardinality(DOMAIN actors \ {v}) = Cardinality(DOMAIN actors) - 1
    BY <1>4, SizesFinite, FS_RemoveElement
  <2>2. Sized'
    BY <1>1, <1>2, <1>4, <2>1 DEF Sized
  <2>3. CallFits(r, counters', actors', heap')
    BY <1>1, <1>2, <1>4 DEF CallFits, Table!Promoting, Promotes, Pointing
  <2>. QED  BY <2>2, <2>3
<1>. HIDE DEF r
<1>6. Upheld
  BY <1>1, <1>2, <1>4, KeptCollected DEF TableInv, Sound
<1>. QED  BY <1>1, <1>3, <1>5, <1>6, AloneStep

LEMMA DropAlone ==
  ASSUME TableInv, Alone, NEW c \in Callers, Table!Drop(c)
  PROVE  Alone' /\ Upheld
<1>. DEFINE p == call[c].actor  ip == call[c].ip
<1>1. /\ call[c].pc = "drop" /\ call' = [call EXCEPT ![c] = Table!Got(c, p)]
      /\ activeCounters' = activeCounters - 1 /\ heap' = Table!Collect(heap)
      /\ UNCHANGED <<actors, activeActors, cleaner, alone>>
  BY DEF Table!Drop, Table!Goto
<1>2. DOMAIN counters' = DOMAIN counters \ {ip}
  BY DEF Table!Drop, Table!Without, Table!Restrict
<1>3. call[c].pc \in Busy
  BY <1>1 DEF Busy, Pointing
<1>4. ASSUME alone
      PROVE  Sized /\ ip \in DOMAIN counters /\ ip \in DOMAIN actors /\ p = actors[ip]
  BY <1>1, <1>4 DEF Alone, Orderly, CallFits, Pointing
<1>5. alone => Sized' /\ CallFits(Table!Got(c, p), counters', actors', heap')
  <2>. SUFFICES ASSUME alone PROVE Sized' /\ CallFits(Table!Got(c, p), counters', actors', heap')
    OBVIOUS
  <2>1. Cardinality(DOMAIN counters \ {ip}) = Cardinality(DOMAIN counters) - 1
    BY <1>4, SizesFinite, FS_RemoveElement
  <2>2. Sized'
    BY <1>1, <1>2, <1>4, <2>1 DEF Sized
  <2>3. CallFits(Table!Got(c, p), counters', actors, heap')
    BY <1>4, GotFits
  <2>. QED  BY <1>1, <2>2, <2>3
<1>6. Upheld
  BY <1>1, KeptCollected DEF TableInv, Sound
<1>. QED  BY <1>1, <1>3, <1>5, <1>6, AloneStep

\* Alone, a call makes an actor only for an address that has none.
LEMMA NewAlone ==
  ASSUME TableInv, Alone, NEW c \in Callers, ~Points(c), call[c].pc \in Busy, NEW a, NEW r,
         call' = [call EXCEPT ![c] = r],
         actors' = Table!With(actors, call[c].ip, Table!New),
         heap' = Table!Collect(Table!With(heap, Table!New, a)),
         activeActors' = activeActors + 1, UNCHANGED <<counters, activeCounters, cleaner, alone>>,
         alone => call[c].ip \notin DOMAIN actors, alone => CallFits(r, counters', actors', heap')
  PROVE  Alone' /\ Upheld
<1>. DEFINE n == Table!New  h == Table!With(heap, n, a)  ip == call[c].ip
<1>1. n \notin DOMAIN heap
  BY NewIsFresh DEF TableInv
<1>2. heap' = Table!Collect(h)
  OBVIOUS
<1>. HIDE DEF n
<1>3. DOMAIN h = DOMAIN heap \cup {n} /\ \A p \in DOMAIN heap \ {n} : h[p] = heap[p]
  BY DEF Table!With
<1>4. /\ DOMAIN actors' = DOMAIN actors \cup {ip}
      /\ \A x \in DOMAIN actors \ {ip} : actors'[x] = actors[x]
  <2>1. actors' = Table!With(actors, ip, n)
    BY DEF n
  <2>. QED  BY <2>1 DEF Table!With
<1>. HIDE DEF h
<1>5. alone => Sized'
  <2>. SUFFICES ASSUME alone PROVE Sized'
    OBVIOUS
  <2>1. Sized /\ ip \notin DOMAIN actors
    BY DEF Alone, Orderly
  <2>2. Cardinality(DOMAIN actors \cup {ip}) = Cardinality(DOMAIN actors) + 1
    BY <2>1, SizesFinite, FS_AddElement
  <2>. QED  BY <1>4, <2>1, <2>2 DEF Sized
<1>6. ASSUME NEW x \in DOMAIN actors, heap[actors[x]].blocked, alone'
      PROVE  x \in DOMAIN actors' /\ actors'[x] \in DOMAIN h /\ h[actors'[x]].blocked
  <2>1. x # ip
    BY <1>6
  <2>2. actors'[x] = actors[x] /\ actors[x] \in DOMAIN heap /\ actors[x] # n
    BY <1>1, <1>4, <2>1 DEF TableInv, Sound
  <2>. QED  BY <1>3, <1>4, <1>6, <2>2
<1>7. Upheld
  BY <1>2, <1>6, KeptCollected
<1>8. Alone'
  BY <1>5, AloneStep
<1>. QED  BY <1>7, <1>8

LEMMA StoreAlone ==
  ASSUME TableInv, Alone, NEW c \in Callers, Table!Store(c)
  PROVE  Alone' /\ Upheld
<1>. DEFINE ip == call[c].ip  n == Table!New  a == Table!Actor(call[c].at, call[c].count)
            r == Table!Holding(c, "drop", n)
<1>1. /\ call[c].pc = "store" /\ call' = [call EXCEPT ![c] = r]
      /\ actors' = Table!With(actors, ip, n) /\ heap' = Table!Collect(Table!With(heap, n, a))
      /\ activeActors' = activeActors + 1 /\ UNCHANGED <<counters, activeCounters, cleaner, alone>>
  BY DEF Table!Store, Table!Goto
<1>2. call[c].pc \in Busy /\ ~Points(c)
  BY <1>1, About DEF TableInv, Busy, Pointing, Promotes
<1>3. alone => ip \in DOMAIN counters /\ ip \notin DOMAIN actors
  BY <1>1 DEF Alone, Orderly, CallFits, Promotes
<1>. HIDE DEF n
<1>4. ip \in DOMAIN actors' /\ actors'[ip] = n
  BY <1>1 DEF Table!With
<1>5. alone => CallFits(r, counters', actors', heap')
  BY <1>1, <1>3, <1>4 DEF CallFits, Table!Holding, Promotes, Pointing
<1>. HIDE DEF a, r
<1>. QED  BY <1>1, <1>2, <1>3, <1>5, NewAlone DEF n

LEMMA CreateAlone ==
  ASSUME TableInv, Alone, NEW c \in Callers, Table!Create(c)
  PROVE  Alone' /\ Upheld
<1>. DEFINE ip == call[c].ip  n == Table!New  a == Table!Actor(now, 0)
            r == Table!Holding(c, "apply", n)
<1>1. /\ call[c].pc = "create" /\ call' = [call EXCEPT ![c] = r]
      /\ actors' = Table!With(actors, ip, n) /\ heap' = Table!Collect(Table!With(heap, n, a))
      /\ activeActors' = activeActors + 1 /\ UNCHANGED <<counters, activeCounters, cleaner, alone>>
  BY DEF Table!Create, Table!Goto
<1>2. call[c].pc \in Busy /\ ~Points(c)
  BY <1>1, About DEF TableInv, Busy, Pointing
<1>3. alone => ip \notin DOMAIN actors
  BY <1>1 DEF Alone, Orderly, CallFits
<1>. HIDE DEF n
<1>4. ip \in DOMAIN actors' /\ actors'[ip] = n
  BY <1>1 DEF Table!With
<1>5. CallFits(r, counters', actors', heap')
  BY <1>4 DEF CallFits, Table!Holding, Promotes, Pointing
<1>. HIDE DEF a, r
<1>. QED  BY <1>1, <1>2, <1>3, <1>5, NewAlone DEF n

\* The cleaner at work, the calls resting.
LEMMA CleanerAlone ==
  ASSUME TableInv, Alone, cleaner # Table!Asleep, UNCHANGED <<call, alone>>,
         alone => Sized' /\ CleanerFits(cleaner', counters', actors', heap')
  PROVE  Alone'
<1>. SUFFICES ASSUME alone PROVE Orderly'
  BY DEF Alone
<1>1. \A c \in Callers : call'[c] = Table!Idle
  BY DEF Alone, Orderly
<1>. QED  BY <1>1, IdleFits DEF Orderly

LEMMA AsleepIs == Table!Asleep.pc = "asleep"
BY DEF Table!Asleep

LEMMA CleanupAlone ==
  ASSUME TableInv, Alone, Table!Cleanup
  PROVE  Alone' /\ Upheld
<1>. DEFINE r == [pc |-> "counters", left |-> IPs, at |-> now]
<1>1. /\ cleaner' = r /\ alone' = (alone /\ Table!Quiet)
      /\ UNCHANGED <<counters, actors, heap, activeCounters, activeActors, call>>
  BY DEF Table!Cleanup
<1>2. CleanerFits(r, counters, actors, heap)
  BY DEF CleanerFits
<1>. HIDE DEF r
<1>3. ASSUME alone' PROVE Orderly'
  <2>1. Orderly /\ Table!Quiet
    BY <1>1, <1>3 DEF Alone
  <2>2. \A c \in Callers : call'[c] = Table!Idle
    BY <1>1, <2>1 DEF Table!Quiet
  <2>3. Sized'
    BY <1>1, <2>1 DEF Orderly, Sized
  <2>. QED  BY <1>1, <1>2, <2>2, <2>3, IdleFits DEF Orderly
<1>4. alone' \in BOOLEAN
  BY <1>1
<1>. QED  BY <1>1, <1>3, <1>4, KeptSame DEF Alone

LEMMA LookAlone ==
  ASSUME TableInv, Alone, NEW ip \in IPs, Table!LookAtCounter(ip) \/ Table!LookAtActor(ip)
  PROVE  Alone' /\ Upheld
<1>1. UNCHANGED <<counters, actors, heap, activeCounters, activeActors, call, alone>>
  BY Zenon DEF Table!LookAtCounter, Table!LookAtActor
<1>2. cleaner # Table!Asleep
  <2>1. cleaner.pc \in {"counters", "actors"}
    BY DEF Table!LookAtCounter, Table!LookAtActor
  <2>. QED  BY <2>1, AsleepIs
<1>3. CleanerFits(cleaner', counters, actors, heap)
  <2>1. CASE Table!LookAtCounter(ip)
    <3>. DEFINE found == [pc |-> "deleteCounter", left |-> cleaner.left \ {ip}, at |-> cleaner.at, key |-> ip]
                next == [cleaner EXCEPT !.left = @ \ {ip}]
    <3>1. cleaner.pc = "counters" /\ cleaner' = IF Table!StaleCounter(ip) THEN found ELSE next
      BY <2>1 DEF Table!LookAtCounter
    <3>2. Table!StaleCounter(ip) => CleanerFits(found, counters, actors, heap)
      BY DEF CleanerFits, Table!StaleCounter
    <3>3. next.pc = cleaner.pc
      BY <3>1
    <3>. HIDE DEF found, next
    <3>4. CleanerFits(next, counters, actors, heap)
      BY <3>1, <3>3 DEF CleanerFits
    <3>. QED  BY <3>1, <3>2, <3>4
  <2>2. CASE Table!LookAtActor(ip)
    <3>. DEFINE left == (IF cleaner.pc = "counters" THEN IPs ELSE cleaner.left) \ {ip}
                found == [pc |-> "deleteActor", left |-> left, at |-> cleaner.at, key |-> ip]
                next == [pc |-> "actors", left |-> left, at |-> cleaner.at]
    <3>1. cleaner' = IF Table!StaleActor(ip) THEN found ELSE IF left = {} THEN Table!Asleep ELSE next
      BY <2>2 DEF Table!LookAtActor
    <3>2. Table!StaleActor(ip) => CleanerFits(found, counters, actors, heap)
      BY DEF CleanerFits, Table!StaleActor
    <3>3. CleanerFits(next, counters, actors, heap)
      BY DEF CleanerFits
    <3>. HIDE DEF found, next, left
    <3>. QED  BY <3>1, <3>2, <3>3, AsleepFits
  <2>. QED  BY <2>1, <2>2
<1>4. alone => Sized'
  BY <1>1 DEF Alone, Orderly, Sized
<1>. QED  BY <1>1, <1>2, <1>3, <1>4, CleanerAlone, KeptSame

LEMMA DeleteCounterAlone ==
  ASSUME TableInv, Alone, Table!DeleteCounter
  PROVE  Alone' /\ Upheld
<1>. DEFINE key == cleaner.key  r == [pc |-> "counters", left |-> cleaner.left, at |-> cleaner.at]
<1>1. /\ cleaner.pc = "deleteCounter" /\ cleaner' = r /\ activeCounters' = activeCounters - 1
      /\ UNCHANGED <<actors, heap, activeActors, call, alone>>
  BY DEF Table!DeleteCounter
<1>2. DOMAIN counters' = DOMAIN counters \ {key}
  BY DEF Table!DeleteCounter, Table!Without, Table!Restrict
<1>3. cleaner # Table!Asleep
  BY <1>1, AsleepIs
<1>4. CleanerFits(r, counters', actors, heap)
  BY DEF CleanerFits
<1>. HIDE DEF r
<1>5. ASSUME alone PROVE Sized'
  <2>1. Sized /\ key \in DOMAIN counters
    BY <1>1, <1>5 DEF Alone, Orderly, CleanerFits
  <2>2. Cardinality(DOMAIN counters \ {key}) = Cardinality(DOMAIN counters) - 1
    BY <2>1, SizesFinite, FS_RemoveElement
  <2>. QED  BY <1>1, <1>2, <2>1, <2>2 DEF Sized
<1>. QED  BY <1>1, <1>3, <1>4, <1>5, CleanerAlone, KeptSame

\* What cleanup found idle and not blocked is so when it deletes it.
LEMMA DeleteActorAlone ==
  ASSUME TableInv, Alone, Table!DeleteActor
  PROVE  Alone' /\ Upheld
<1>. DEFINE key == cleaner.key  next == [pc |-> "actors", left |-> cleaner.left, at |-> cleaner.at]
<1>1. /\ cleaner.pc = "deleteActor" /\ activeActors' = activeActors - 1
      /\ cleaner' = IF cleaner.left = {} THEN Table!Asleep ELSE next
      /\ heap' = Table!Collect(heap)
      /\ UNCHANGED <<counters, activeCounters, call, alone>>
  BY DEF Table!DeleteActor
<1>2. DOMAIN actors' = DOMAIN actors \ {key} /\ \A ip \in DOMAIN actors' : actors'[ip] = actors[ip]
  BY DEF Table!DeleteActor, Table!Without, Table!Restrict
<1>3. cleaner # Table!Asleep
  BY <1>1, AsleepIs
<1>4. CleanerFits(next, counters', actors', heap')
  BY DEF CleanerFits
<1>. HIDE DEF next
<1>5. ASSUME alone PROVE Sized /\ key \in DOMAIN actors /\ ~heap[actors[key]].blocked
  BY <1>1, <1>5 DEF Alone, Orderly, CleanerFits
<1>6. ASSUME alone PROVE Sized'
  <2>1. Cardinality(DOMAIN actors \ {key}) = Cardinality(DOMAIN actors) - 1
    BY <1>5, <1>6, SizesFinite, FS_RemoveElement
  <2>. QED  BY <1>1, <1>2, <1>5, <1>6, <2>1 DEF Sized
<1>7. Upheld
  BY <1>1, <1>2, <1>5, KeptCollected DEF TableInv, Sound
<1>. QED  BY <1>1, <1>3, <1>4, <1>6, <1>7, CleanerAlone, AsleepFits

LEMMA StillAlone ==
  ASSUME TableInv, Alone, Table!Tick \/ UNCHANGED Table!vars
  PROVE  Alone' /\ Upheld
<1>1. UNCHANGED <<counters, actors, heap, activeCounters, activeActors, call, cleaner, alone>>
  BY Zenon DEF Table!Tick, Table!vars
<1>2. Orderly => Orderly'
  BY <1>1 DEF Orderly, Sized
<1>. QED  BY <1>1, <1>2, KeptSame DEF Alone

LEMMA AloneInit == Table!Init => Alone
<1>. SUFFICES ASSUME Table!Init PROVE Alone
  OBVIOUS
<1>1. /\ DOMAIN counters = {} /\ DOMAIN actors = {} /\ cleaner = Table!Asleep /\ alone = TRUE
      /\ activeCounters = 0 /\ activeActors = 0 /\ \A c \in Callers : call[c] = Table!Idle
  BY DEF Table!Init, Table!Empty
<1>2. Sized
  BY <1>1, FS_EmptySet DEF Sized
<1>. QED  BY <1>1, <1>2, IdleFits, AsleepFits DEF Alone, Orderly

LEMMA AloneSteps == TableInv /\ Alone /\ [Table!Next]_Table!vars => Alone' /\ Upheld
<1>. SUFFICES ASSUME TableInv, Alone, [Table!Next]_Table!vars PROVE Alone' /\ Upheld
  OBVIOUS
<1>1. ASSUME NEW c \in Callers,
             \/ \E op \in Table!Ops, ip \in IPs : Table!Call(c, op, ip)
             \/ Table!Get(c) \/ Table!Load(c) \/ Table!Touch(c) \/ Table!CountFirst(c)
             \/ Table!CountAgain(c) \/ Table!Limit(c) \/ Table!Evict(c) \/ Table!Store(c)
             \/ Table!Drop(c) \/ Table!Create(c) \/ Table!Apply(c)
      PROVE  Alone' /\ Upheld
  BY <1>1, CallAlone, GetAlone, LoadAlone, TouchAlone, CountFirstAlone, CountAgainAlone,
     LimitAlone, EvictAlone, StoreAlone, DropAlone, CreateAlone, ApplyAlone
<1>2. CASE Table!Cleanup \/ \E ip \in IPs : Table!LookAtCounter(ip) \/ Table!LookAtActor(ip)
  BY <1>2, CleanupAlone, LookAlone
<1>3. CASE Table!DeleteCounter \/ Table!DeleteActor
  BY <1>3, DeleteCounterAlone, DeleteActorAlone
<1>4. CASE Table!Tick \/ UNCHANGED Table!vars
  BY <1>4, StillAlone
<1>. QED  BY <1>1, <1>2, <1>3, <1>4 DEF Table!Next

\* As long as calls and cleanups come one at a time, the numbers that Stats reports are the
\* sizes of the tables (StatsAgree): a counter is there when it is dropped or deleted, an actor
\* when it is evicted or deleted, and a promotion or a block stores one where there was none.
THEOREM StatsAlwaysAgree == Table!Spec => []StatsAgree
<1>1. Alone => StatsAgree
  BY SameSizes DEF Alone, Orderly, Sized, StatsAgree, Table!StatsAgree
<1>. QED  BY <1>1, TableInit, TableSteps, AloneInit, AloneSteps, PTL DEF Table!Spec

\* As long as calls and cleanups come one at a time, nothing but its end or an Unblock takes a
\* block down (BlocksHold), whatever promotions, evictions and cleanups come in between.
THEOREM BlocksOutlastTheTable == Table!Spec => BlocksHold
<1>1. TableInv /\ Alone /\ [Table!Next]_Table!vars => [Upheld]_Table!vars
  BY AloneSteps
<1>. QED  BY <1>1, TableInit, TableSteps, AloneInit, AloneSteps, PTL
          DEF Table!Spec, BlocksHold, Table!BlocksHold, Upheld

=============================================================================
