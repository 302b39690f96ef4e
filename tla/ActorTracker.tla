----------------------------- MODULE ActorTracker -----------------------------
(***************************************************************************)
(* The actor tracker of internal/actor: an IP is counted first and gets an *)
(* Actor when it has made enough requests or is blocked.  Both tables are  *)
(* sync.Maps of pointers, an Actor has a lock of its own, and no lock      *)
(* spans a lookup and what follows from it; the table may hold another     *)
(* Actor, or none, by the time a call writes to the one it found.          *)
(***************************************************************************)
EXTENDS Integers, FiniteSets, FiniteSetsExt, Functions

CONSTANTS
  Callers,        \* goroutines that serve requests
  IPs,
  maxActors,
  promotionThreshold,
  Duration,       \* of a block, in ticks
  Hour,           \* idle for longer is stale, in ticks
  KeptThreats,    \* threat types an actor remembers, 100 in the code
  MaxTime,        \* bound: the clock stops here
  MaxCalls        \* bound: calls made

TrackerAssumption ==
  /\ maxActors \in Nat /\ promotionThreshold \in Nat /\ Duration \in Nat /\ Hour \in Nat
  /\ KeptThreats \in Nat /\ MaxTime \in Nat /\ MaxCalls \in Nat
  /\ IsFiniteSet(IPs) /\ IsFiniteSet(Callers)

VARIABLES
  now,
  counters,        \* ip -> lightweight counter
  actors,          \* ip -> pointer to its actor
  heap,            \* pointer -> Actor, for those the table or a call still holds
  activeCounters,
  activeActors,
  call,            \* call[c]: what goroutine c is doing
  cleaner,         \* what the eviction loop is doing
  calls,           \* calls made so far
  alone            \* history: no call or cleanup began while another one ran

vars == <<now, counters, actors, heap, activeCounters, activeActors, call, cleaner, calls, alone>>

-----------------------------------------------------------------------------
Pointers == 1..(Cardinality(IPs) + Cardinality(Callers))

Ops == {"track", "block", "unblock", "isBlocked", "addThreat"}

Empty == [x \in {} |-> 0]
With(f, key, value) == [k \in DOMAIN f \cup {key} |-> IF k = key THEN value ELSE f[k]]
Idle == [pc |-> "idle"]
Asleep == [pc |-> "asleep"]
Quiet == cleaner = Asleep /\ \A c \in Callers : call[c] = Idle

Actor(seen, requests) ==
  [lastSeen |-> seen, requests |-> requests, blocked |-> FALSE, until |-> 0,
   blocks |-> 0, threats |-> 0]

New == CHOOSE p \in Pointers : p \notin DOMAIN heap

\* What nothing points to is gone; actors' and call' are known before it.
Collect(h) ==
  Restrict(h, {p \in DOMAIN h : \/ \E ip \in DOMAIN actors' : actors'[ip] = p
                                \/ \E c \in Callers : "actor" \in DOMAIN call'[c] /\ call'[c].actor = p})

Goto(c, r) == call' = [call EXCEPT ![c] = r]
To(c, pc) == [op |-> call[c].op, ip |-> call[c].ip, pc |-> pc]
Holding(c, pc, p) == [op |-> call[c].op, ip |-> call[c].ip, pc |-> pc, actor |-> p]
Promoting(c, pc, count) ==
  [op |-> call[c].op, ip |-> call[c].ip, pc |-> pc, at |-> call[c].at, count |-> count]

\* The call goes on with the actor it got: Track returns it, the others write to it.
Got(c, p) == IF call[c].op = "track" THEN Idle ELSE Holding(c, "apply", p)

\* GetOrCreate came back with nil.
GotNil(c) == IF call[c].op = "block" THEN To(c, "create") ELSE Idle

-----------------------------------------------------------------------------
(* Track, and the operations that begin with a lookup                      *)

Call(c, op, ip) ==
  /\ call[c] = Idle
  /\ calls < MaxCalls
  /\ alone' = (alone /\ Quiet)
  /\ calls' = calls + 1
  /\ Goto(c, [op |-> op, ip |-> ip, pc |-> IF op = "track" THEN "load" ELSE "get"])
  /\ UNCHANGED <<now, counters, actors, heap, activeCounters, activeActors, cleaner>>

\* Get: without an actor Unblock and IsBlocked are done, Block and AddThreat
\* track the IP.
Get(c) ==
  /\ call[c].pc = "get"
  /\ Goto(c, IF call[c].ip \in DOMAIN actors
             THEN Holding(c, "apply", actors[call[c].ip])
             ELSE IF call[c].op \in {"unblock", "isBlocked"} THEN Idle ELSE To(c, "load"))
  /\ UNCHANGED <<now, counters, actors, heap, activeCounters, activeActors, cleaner, calls, alone>>

Load(c) ==
  /\ call[c].pc = "load"
  /\ Goto(c, IF call[c].ip \in DOMAIN actors
             THEN [op |-> call[c].op, ip |-> call[c].ip, pc |-> "touch", at |-> now,
                   actor |-> actors[call[c].ip]]
             ELSE [op |-> call[c].op, ip |-> call[c].ip, pc |-> "count", at |-> now])
  /\ UNCHANGED <<now, counters, actors, heap, activeCounters, activeActors, cleaner, calls, alone>>

Touch(c) ==
  /\ call[c].pc = "touch"
  /\ Goto(c, Got(c, call[c].actor))
  /\ UNCHANGED <<now, counters, actors, activeCounters, activeActors, cleaner, calls, alone>>
  /\ heap' = Collect([heap EXCEPT ![call[c].actor].lastSeen = call[c].at,
                                  ![call[c].actor].requests = @ + 1])

Earned(count) == count >= promotionThreshold

\* LoadOrStore and the addition to the counter it returned.
CountFirst(c) ==
  /\ call[c].pc = "count" /\ call[c].ip \notin DOMAIN counters
  /\ counters' = With(counters, call[c].ip, [count |-> 1, lastSeen |-> call[c].at])
  /\ activeCounters' = activeCounters + 1
  /\ Goto(c, GotNil(c))
  /\ UNCHANGED <<now, actors, heap, activeActors, cleaner, calls, alone>>

CountAgain(c) ==
  /\ call[c].pc = "count" /\ call[c].ip \in DOMAIN counters
  /\ LET count == counters[call[c].ip].count + 1
     IN  /\ counters' = [counters EXCEPT ![call[c].ip] =
                           [count |-> count, lastSeen |-> call[c].at]]
         /\ Goto(c, IF Earned(count) THEN Promoting(c, "limit", count) ELSE GotNil(c))
  /\ UNCHANGED <<now, actors, heap, activeCounters, activeActors, cleaner, calls, alone>>

-----------------------------------------------------------------------------
(* promote                                                                 *)

\* Variant: blocked actors are not spared.
OldestOfAll ==
  {ip \in DOMAIN actors :
     \A other \in DOMAIN actors : heap[actors[ip]].lastSeen <= heap[actors[other]].lastSeen}

\* evictOldest: the actor seen longest ago among those whose block flag is down.
Oldest ==
  LET free == {ip \in DOMAIN actors : ~heap[actors[ip]].blocked}
  IN  {ip \in free : \A other \in free : heap[actors[ip]].lastSeen <= heap[actors[other]].lastSeen}

Limit(c) ==
  /\ call[c].pc = "limit"
  /\ IF activeActors >= maxActors /\ Oldest # {}
     THEN \E victim \in Oldest :
            Goto(c, [op |-> call[c].op, ip |-> call[c].ip, pc |-> "evict", at |-> call[c].at,
                     count |-> call[c].count, victim |-> victim])
     ELSE Goto(c, Promoting(c, "store", call[c].count))
  /\ UNCHANGED <<now, counters, actors, heap, activeCounters, activeActors, cleaner, calls, alone>>

Without(f, key) == Restrict(f, DOMAIN f \ {key})

Evict(c) ==
  /\ call[c].pc = "evict"
  /\ actors' = Without(actors, call[c].victim)
  /\ activeActors' = activeActors - 1
  /\ Goto(c, Promoting(c, "store", call[c].count))
  /\ UNCHANGED <<now, counters, activeCounters, cleaner, calls, alone>>
  /\ heap' = Collect(heap)

\* Variant: the new actor does not take the count over.
StoreUncounted(c) ==
  /\ call[c].pc = "store"
  /\ actors' = With(actors, call[c].ip, New)
  /\ activeActors' = activeActors + 1
  /\ Goto(c, Holding(c, "drop", New))
  /\ UNCHANGED <<now, counters, activeCounters, cleaner, calls, alone>>
  /\ heap' = Collect(With(heap, New, Actor(call[c].at, 1)))

\* The new actor takes the place of whatever the table holds by now.
Store(c) ==
  /\ call[c].pc = "store"
  /\ actors' = With(actors, call[c].ip, New)
  /\ activeActors' = activeActors + 1
  /\ Goto(c, Holding(c, "drop", New))
  /\ UNCHANGED <<now, counters, activeCounters, cleaner, calls, alone>>
  /\ heap' = Collect(With(heap, New, Actor(call[c].at, call[c].count)))

\* Variant: the swap forgets the number of counters.
DropUncounted(c) ==
  /\ call[c].pc = "drop"
  /\ counters' = Without(counters, call[c].ip)
  /\ Goto(c, Got(c, call[c].actor))
  /\ UNCHANGED <<now, actors, activeCounters, activeActors, cleaner, calls, alone>>
  /\ heap' = Collect(heap)

Drop(c) ==
  /\ call[c].pc = "drop"
  /\ counters' = Without(counters, call[c].ip)
  /\ activeCounters' = activeCounters - 1
  /\ Goto(c, Got(c, call[c].actor))
  /\ UNCHANGED <<now, actors, activeActors, cleaner, calls, alone>>
  /\ heap' = Collect(heap)

\* Block makes an actor for an IP that has not earned one, whatever the limit.
Create(c) ==
  /\ call[c].pc = "create"
  /\ actors' = With(actors, call[c].ip, New)
  /\ activeActors' = activeActors + 1
  /\ Goto(c, Holding(c, "apply", New))
  /\ UNCHANGED <<now, counters, activeCounters, cleaner, calls, alone>>
  /\ heap' = Collect(With(heap, New, Actor(now, 0)))

-----------------------------------------------------------------------------
(* Block, Unblock, IsBlocked and AddThreat under the actor's lock          *)

\* IsBlocked takes a flag down whose time is over, and leaves BlockedUntil.
Written(op, a) ==
  CASE op = "block"     -> [a EXCEPT !.blocked = TRUE, !.until = now + Duration, !.blocks = @ + 1]
    [] op = "unblock"   -> [a EXCEPT !.blocked = FALSE, !.until = 0]
    [] op = "isBlocked" -> [a EXCEPT !.blocked = @ /\ now < a.until]
    [] op = "addThreat" -> [a EXCEPT !.threats = Min({@ + 1, KeptThreats})]

Apply(c) ==
  /\ call[c].pc = "apply"
  /\ Goto(c, Idle)
  /\ UNCHANGED <<now, counters, actors, activeCounters, activeActors, cleaner, calls, alone>>
  /\ heap' = Collect([heap EXCEPT ![call[c].actor] = Written(call[c].op, @)])

-----------------------------------------------------------------------------
(* cleanup                                                                 *)

Cleanup ==
  /\ cleaner = Asleep
  /\ alone' = (alone /\ Quiet)
  /\ cleaner' = [pc |-> "counters", left |-> IPs, at |-> now]
  /\ UNCHANGED <<now, counters, actors, heap, activeCounters, activeActors, call, calls>>

StaleCounter(ip) == ip \in DOMAIN counters /\ counters[ip].lastSeen + Hour < cleaner.at
StaleActor(ip) ==
  /\ ip \in DOMAIN actors
  /\ ~heap[actors[ip]].blocked
  /\ heap[actors[ip]].lastSeen + Hour < cleaner.at

\* Range comes to a key; a stale entry is deleted in a later step.
LookAtCounter(ip) ==
  /\ cleaner.pc = "counters" /\ ip \in cleaner.left
  /\ cleaner' = IF StaleCounter(ip)
                THEN [pc |-> "deleteCounter", left |-> cleaner.left \ {ip}, at |-> cleaner.at, key |-> ip]
                ELSE [cleaner EXCEPT !.left = @ \ {ip}]
  /\ UNCHANGED <<now, counters, actors, heap, activeCounters, activeActors, call, calls, alone>>

DeleteCounter ==
  /\ cleaner.pc = "deleteCounter"
  /\ counters' = Without(counters, cleaner.key)
  /\ activeCounters' = activeCounters - 1
  /\ cleaner' = [pc |-> "counters", left |-> cleaner.left, at |-> cleaner.at]
  /\ UNCHANGED <<now, actors, heap, activeActors, call, calls, alone>>

LookAtActor(ip) ==
  /\ \/ cleaner.pc = "counters" /\ cleaner.left = {}
     \/ cleaner.pc = "actors" /\ ip \in cleaner.left
  /\ LET left == (IF cleaner.pc = "counters" THEN IPs ELSE cleaner.left) \ {ip}
     IN  cleaner' = IF StaleActor(ip)
                    THEN [pc |-> "deleteActor", left |-> left, at |-> cleaner.at, key |-> ip]
                    ELSE IF left = {} THEN Asleep
                    ELSE [pc |-> "actors", left |-> left, at |-> cleaner.at]
  /\ UNCHANGED <<now, counters, actors, heap, activeCounters, activeActors, call, calls, alone>>

DeleteActor ==
  /\ cleaner.pc = "deleteActor"
  /\ actors' = Without(actors, cleaner.key)
  /\ activeActors' = activeActors - 1
  /\ cleaner' = IF cleaner.left = {} THEN Asleep
                ELSE [pc |-> "actors", left |-> cleaner.left, at |-> cleaner.at]
  /\ UNCHANGED call
  /\ UNCHANGED <<now, counters, activeCounters, calls, alone>>
  /\ heap' = Collect(heap)

Tick ==
  /\ now < MaxTime
  /\ now' = now + 1
  /\ UNCHANGED <<counters, actors, heap, activeCounters, activeActors, call, cleaner, calls, alone>>

-----------------------------------------------------------------------------
Init ==
  /\ now = 0
  /\ counters = Empty /\ actors = Empty /\ heap = Empty
  /\ activeCounters = 0 /\ activeActors = 0
  /\ call = [c \in Callers |-> Idle]
  /\ cleaner = Asleep
  /\ calls = 0
  /\ alone = TRUE

Next ==
  \/ \E c \in Callers :
       \/ \E op \in Ops, ip \in IPs : Call(c, op, ip)
       \/ Get(c) \/ Load(c) \/ Touch(c) \/ CountFirst(c) \/ CountAgain(c)
       \/ Limit(c) \/ Evict(c) \/ Store(c) \/ Drop(c) \/ Create(c) \/ Apply(c)
  \/ Cleanup \/ DeleteCounter \/ DeleteActor
  \/ \E ip \in IPs : LookAtCounter(ip) \/ LookAtActor(ip)
  \/ Tick

Spec == Init /\ [][Next]_vars
-----------------------------------------------------------------------------
Calls ==
  {Idle}
    \cup [op : Ops, ip : IPs, pc : {"get", "load", "create"}]
    \cup [op : Ops, ip : IPs, pc : {"apply", "drop"}, actor : DOMAIN heap]
    \cup [op : Ops, ip : IPs, pc : {"count"}, at : 0..now]
    \cup [op : Ops, ip : IPs, pc : {"touch"}, at : 0..now, actor : DOMAIN heap]
    \cup [op : Ops, ip : IPs, pc : {"limit", "store"}, at : 0..now, count : 1..calls]
    \cup [op : Ops, ip : IPs, pc : {"evict"}, at : 0..now, count : 1..calls, victim : IPs]

\* Type invariant; no pointer dangles and a call never counts for nobody.
TypeOK ==
  /\ now \in 0..MaxTime /\ calls \in 0..MaxCalls
  /\ DOMAIN counters \subseteq IPs
  /\ \A ip \in DOMAIN counters : counters[ip] \in [count : 1..calls, lastSeen : 0..now]
  /\ DOMAIN actors \subseteq IPs
  /\ DOMAIN heap \subseteq Pointers
  /\ \A ip \in DOMAIN actors : actors[ip] \in DOMAIN heap
  /\ \A p \in DOMAIN heap :
       heap[p] \in [lastSeen : 0..now, requests : 0..calls, blocked : BOOLEAN,
                    until : 0..(MaxTime + Duration), blocks : 0..calls, threats : 0..KeptThreats]
  /\ activeCounters \in Int /\ activeActors \in Int /\ alone \in BOOLEAN
  /\ \A c \in Callers : call[c] \in Calls
  /\ cleaner \in {Asleep}
       \cup [pc : {"counters", "actors"}, left : SUBSET IPs, at : 0..now]
       \cup [pc : {"deleteCounter", "deleteActor"}, left : SUBSET IPs, at : 0..now, key : IPs]

\* An IP has an actor only when it earned one: an actor has seen
\* promotionThreshold requests or was made by a Block, whatever calls, evictions
\* and cleanups interleave (Track, promote and Block).
ActorsAreEarned ==
  \A ip \in DOMAIN actors :
    LET a == heap[actors[ip]]
    IN  \/ a.requests >= promotionThreshold
        \/ a.blocks > 0
        \/ \E c \in Callers :
             call[c].pc = "apply" /\ call[c].op = "block" /\ call[c].actor = actors[ip]

InForce(ip) ==
  /\ ip \in DOMAIN actors
  /\ heap[actors[ip]].blocked
  /\ now < heap[actors[ip]].until

\* As long as calls and cleanups come one at a time, the numbers Stats reports
\* are the sizes of the two tables (activeCounters and activeActors, kept apart
\* from the tables in six places).
StatsAgree ==
  Quiet /\ alone => /\ activeCounters = Cardinality(DOMAIN counters)
                    /\ activeActors = Cardinality(DOMAIN actors)

\* A block holds until it expires or Unblock is called: neither evictOldest nor
\* cleanup nor a promotion loses it, as long as calls and cleanups come one at a
\* time.
BlocksHold ==
  [][\A ip \in IPs :
       InForce(ip) /\ alone' =>
         \/ ip \in DOMAIN actors' /\ heap'[actors'[ip]].blocked
         \/ \E c \in Callers : call[c].pc = "apply" /\ call[c].op = "unblock" /\ call[c].ip = ip]_vars

=============================================================================
