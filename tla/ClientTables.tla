----------------------------- MODULE ClientTables -----------------------------
(***************************************************************************)
(* Three detectors that remember what a client did before, each with the   *)
(* middleware that refuses a request on its word: the connections of the   *)
(* network attack detector (internal/detect/network_attack.go), the scan   *)
(* patterns of the pre-attack detector (internal/preattack/detector.go)    *)
(* and the flows of the business logic guard (internal/logic/abuse.go).    *)
(* The first two have a sync.Map of records that every request of the      *)
(* client changes without a lock, and store a new record without asking    *)
(* whether another has; the third does all it does under one mutex.        *)
(*                                                                         *)
(* A behaviour is one of one detector.  A client is the address, for the   *)
(* guard the session a header names.  What a payload or a path gives away  *)
(* is a constant of it.                                                    *)
(***************************************************************************)
EXTENDS TimeWindow, FiniteSetsExt, SequencesExt

CONSTANTS
  Tables,       \* the detectors examined
  Threads,      \* goroutines serving requests
  Clients,
  PayloadLists, \* what a request can carry: sequences of BOOLEAN, TRUE for an attack
  Paths,
  Marks,        \* [Paths -> Nat], the suspicious names in a path
  Near,         \* pairs of paths that differ in a single character
  SensitivePaths,
  BlockAnomalies, ConnectionTTL,                          \* network
  SuspiciousPathsCount, RapidRequests, PortScanWindow,
  RunLength, RunPairs,                                    \* pre-attack
  FlowWindow, MaxActions, MaxSensitiveHits,               \* business logic
  MaxRequests, MaxTime, \* bounds: requests and ticks of a behaviour
  None

\* Every request carries something to look at, and None is neither a record nor a client.
TablesAssumption ==
  /\ Tables \subseteq {"network", "preattack", "logic"}
  /\ IsFiniteSet(Threads)
  /\ PayloadLists \subseteq Seq(BOOLEAN) \ {<<>>} /\ Marks \in [Paths -> Nat]
  /\ {ConnectionTTL, SuspiciousPathsCount, RapidRequests, PortScanWindow, RunLength, RunPairs,
      FlowWindow, MaxActions, MaxSensitiveHits} \subseteq Nat
  /\ BlockAnomalies \in Nat \ {0}
  /\ None \notin Nat \cup Clients

VARIABLES
  table,    \* which detector
  states,   \* [Clients -> the number of a record, or None]
  heap,     \* the records made so far
  req,      \* what each thread is doing
  stale,    \* the client whose record the cleanup is about to delete, or None
  now,
  log,      \* history: [Clients -> what it was seen doing]
  alone,    \* history: [Clients -> BOOLEAN], its requests met no other and no cleanup
  requests  \* how many have arrived

vars == <<table, states, heap, req, stale, now, log, alone, requests>>

Idle == [pc |-> "idle"]

Init ==
  /\ table \in Tables
  /\ states = [c \in Clients |-> None]
  /\ heap = <<>>
  /\ req = [t \in Threads |-> Idle]
  /\ stale = None
  /\ now = 0
  /\ log = [c \in Clients |-> <<>>]
  /\ alone = [c \in Clients |-> TRUE]
  /\ requests = 0

At(t, pc) == req[t].pc = pc
Serving(t, c) == req[t].pc # "idle" /\ req[t].client = c
Meets(c) == \E t \in Threads : Serving(t, c)

\* A request arrives with work for the detector: payloads, or a path.
Arrive(t, c, work) ==
  /\ At(t, "idle") /\ requests < MaxRequests
  /\ requests' = requests + 1
  /\ alone' = [alone EXCEPT ![c] = @ /\ ~Meets(c) /\ stale # c]
  /\ req' = [req EXCEPT ![t] = [pc |-> "load", client |-> c, work |-> work]]
  /\ UNCHANGED <<table, states, heap, stale, now, log>>

NewRecord ==
  IF table = "network"
    THEN [anomalies |-> 0, last |-> now]
    ELSE [first |-> now, last |-> now, count |-> 0, paths |-> <<>>, suspicious |-> 0,
          rapid |-> FALSE, sequential |-> FALSE]

Seen(t, what) == log' = [log EXCEPT ![req[t].client] = Append(@, what)]

\* TrackConnection and Analyze look the client up.  One that is found is touched.
Load(t, what) ==
  LET id == states[req[t].client]
  IN /\ At(t, "load")
     /\ Seen(t, what)
     /\ req' = [req EXCEPT ![t] = [pc |-> IF id = None THEN "store" ELSE "count",
                                   client |-> @.client, work |-> @.work, id |-> id]]
     /\ heap' = IF id = None THEN heap ELSE [heap EXCEPT ![id].last = now]
     /\ UNCHANGED <<table, states, stale, now, alone, requests>>

\* One that is not is given a new record, whatever has been stored since.
StoreNew(t) ==
  /\ At(t, "store")
  /\ heap' = Append(heap, NewRecord)
  /\ states' = [states EXCEPT ![req[t].client] = Len(heap) + 1]
  /\ req' = [req EXCEPT ![t].id = Len(heap) + 1, ![t].pc = "count"]
  /\ UNCHANGED <<table, stale, now, log, alone, requests>>

\* What a goroutine has read of the record it has found.
Read(t, pc, seen) ==
  [req EXCEPT ![t] = [pc |-> pc, client |-> @.client, work |-> @.work, id |-> @.id, seen |-> seen]]

Answer(t, refused) == [req EXCEPT ![t] = [pc |-> "answer", client |-> req[t].client, refused |-> refused]]

\* The client has its answer.
Finish(t) ==
  /\ At(t, "answer")
  /\ req' = [req EXCEPT ![t] = Idle]
  /\ UNCHANGED <<table, states, heap, stale, now, log, alone, requests>>

-----------------------------------------------------------------------------
(* The network attack detector: networkAttackDetectorMiddleware tracks one *)
(* payload of the request after the other.                                 *)

TrackConnection(t) ==
  /\ table = "network"
  /\ Load(t, [at |-> now, attack |-> Head(req[t].work)])

\* Anomalies++ is a read ...
ReadAnomalies(t) ==
  /\ table = "network" /\ At(t, "count")
  /\ req' = Read(t, IF Head(req[t].work) THEN "add" ELSE "look", heap[req[t].id].anomalies)
  /\ UNCHANGED <<table, states, heap, stale, now, log, alone, requests>>

\* ... and a write.
AddAnomaly(t) ==
  /\ At(t, "add")
  /\ heap' = [heap EXCEPT ![req[t].id].anomalies = req[t].seen + 1]
  /\ req' = [req EXCEPT ![t].pc = "look"]
  /\ UNCHANGED <<table, states, stale, now, log, alone, requests>>

\* The middleware's look at the record, and on to the next payload.
Look(t) ==
  LET rest == Tail(req[t].work)
      n == heap[req[t].id].anomalies
  IN /\ At(t, "look")
     /\ req' = IF n >= BlockAnomalies \/ rest = <<>>
                 THEN Answer(t, n >= BlockAnomalies)
                 ELSE [req EXCEPT ![t] = [pc |-> "load", client |-> req[t].client, work |-> rest]]
     /\ UNCHANGED <<table, states, heap, stale, now, log, alone, requests>>

\* A mutated form: a record goes as soon as it is not of this moment.
ExpiredEarly(r, ttl) == r.last < now

Expired(r, ttl) == r.last < now - ttl

\* Cleanup finds a record untouched for too long ...
FindStale(c) ==
  /\ table = "network" /\ stale = None
  /\ states[c] # None
  /\ Expired(heap[states[c]], ConnectionTTL)
  /\ stale' = c
  /\ alone' = [alone EXCEPT ![c] = @ /\ ~Meets(c)]
  /\ UNCHANGED <<table, states, heap, req, now, log, requests>>

\* ... and deletes what the client has by then.
DeleteStale ==
  /\ stale # None
  /\ states' = [states EXCEPT ![stale] = None]
  /\ stale' = None
  /\ UNCHANGED <<table, heap, req, now, log, alone, requests>>

-----------------------------------------------------------------------------
(* The pre-attack detector.                                                *)

Analyze(t) ==
  /\ table = "preattack"
  /\ Load(t, [at |-> now, path |-> req[t].work])

\* The counters and lists are read ...
ReadPattern(t) ==
  /\ table = "preattack" /\ At(t, "count")
  /\ req' = Read(t, "update", heap[req[t].id])
  /\ UNCHANGED <<table, states, heap, stale, now, log, alone, requests>>

\* ... and written one longer.
UpdatePattern(t) ==
  LET r == req[t]
  IN /\ At(t, "update")
     /\ heap' = [heap EXCEPT ![r.id] =
          [@ EXCEPT !.count = r.seen.count + 1,
                    !.paths = Append(r.seen.paths, r.work),
                    !.suspicious = r.seen.suspicious + Marks[r.work]]]
     /\ req' = [req EXCEPT ![t].pc = "judge"]
     /\ UNCHANGED <<table, states, stale, now, log, alone, requests>>

detectSequentialPaths(paths) ==
  LET recent == SubSeq(paths, Len(paths) - RunLength + 1, Len(paths))
  IN /\ Len(paths) >= RunLength
     /\ Cardinality({i \in 1..(RunLength - 1) : <<recent[i], recent[i + 1]>> \in Near}) >= RunPairs

\* The score, in tenths, with which the client is told to go away.
Tenths(b, n) == IF b THEN n ELSE 0
Blocks(p) ==
  Tenths(p.suspicious >= 3, 4) + Tenths(Len(p.paths) > SuspiciousPathsCount, 3)
    + Tenths(p.rapid, 2) + Tenths(p.sequential, 1) >= 7

\* Once raised, the marks for haste and for counting upwards stay.
Judge(t) ==
  LET p == heap[req[t].id]
      judged == [p EXCEPT
        !.rapid = @ \/ (p.last - p.first < PortScanWindow /\ p.count > RapidRequests),
        !.sequential = @ \/ detectSequentialPaths(p.paths)]
  IN /\ At(t, "judge")
     /\ heap' = [heap EXCEPT ![req[t].id] = judged]
     /\ req' = Answer(t, Blocks(judged))
     /\ UNCHANGED <<table, states, stale, now, log, alone, requests>>

-----------------------------------------------------------------------------
(* The business logic guard, in mode "block".  Its flows are the records.  *)

Sensitive(actions) == Cardinality({i \in DOMAIN actions : actions[i].path \in SensitivePaths})

detect(actions) == Len(actions) >= MaxActions \/ Sensitive(actions) >= MaxSensitiveHits

InWindow(actions) == Newer(actions, now - FlowWindow)

\* Track, under the lock.
Track(t) ==
  LET id == states[req[t].client]
      action == [at |-> now, path |-> req[t].work]
      actions == InWindow(Append(IF id = None THEN <<>> ELSE heap[id].actions, action))
      flow == [last |-> now, actions |-> actions]
  IN /\ table = "logic" /\ At(t, "load")
     /\ Seen(t, action)
     /\ heap' = IF id = None THEN Append(heap, flow) ELSE [heap EXCEPT ![id] = flow]
     /\ states' = [states EXCEPT ![req[t].client] = IF id = None THEN Len(heap) + 1 ELSE id]
     /\ req' = Answer(t, detect(actions))
     /\ UNCHANGED <<table, stale, now, alone, requests>>

OldFlow(c) == states[c] # None /\ Expired(heap[states[c]], 2 * FlowWindow)

\* cleanupLoop, under the lock.
CleanFlows ==
  /\ table = "logic"
  /\ \E c \in Clients : OldFlow(c)
  /\ states' = [c \in Clients |-> IF OldFlow(c) THEN None ELSE states[c]]
  /\ UNCHANGED <<table, heap, req, stale, now, log, alone, requests>>

-----------------------------------------------------------------------------
\* A request is served, and a sweep over, in less than a tick.
Tick ==
  /\ now < MaxTime
  /\ stale = None /\ \A t \in Threads : req[t] = Idle
  /\ now' = now + 1
  /\ UNCHANGED <<table, states, heap, req, stale, log, alone, requests>>

Next ==
  \/ \E t \in Threads, c \in Clients :
       \/ table = "network" /\ \E p \in PayloadLists : Arrive(t, c, p)
       \/ table # "network" /\ \E p \in Paths : Arrive(t, c, p)
  \/ \E t \in Threads :
       \/ StoreNew(t) \/ Finish(t)
       \/ TrackConnection(t) \/ ReadAnomalies(t) \/ AddAnomaly(t) \/ Look(t)
       \/ Analyze(t) \/ ReadPattern(t) \/ UpdatePattern(t) \/ Judge(t)
       \/ Track(t)
  \/ \E c \in Clients : FindStale(c)
  \/ DeleteStale \/ CleanFlows \/ Tick

Spec == Init /\ [][Next]_vars

-----------------------------------------------------------------------------
Attacks(seen, places) == Cardinality({i \in places : seen[i].attack})

\* What was seen since the client was last quiet for longer than a record is kept.
SinceQuiet(seen) ==
  {i \in DOMAIN seen :
     \A j \in DOMAIN seen : j > i => seen[j].at - seen[j - 1].at <= ConnectionTTL}

PathsOf(seen) == [i \in DOMAIN seen |-> seen[i].path]

\* The suspicious names in the paths, each with its place.
Suspicious(seen) == Cardinality(UNION {{i} \X (1..Marks[seen[i].path]) : i \in DOMAIN seen})

Hasty(seen) == \E i \in DOMAIN seen : i > RapidRequests /\ seen[i].at - seen[1].at < PortScanWindow

Upwards(seen) == \E i \in DOMAIN seen : detectSequentialPaths(SubSeq(PathsOf(seen), 1, i))

\* What a client has at least done if it is refused.
Earned(seen) ==
  CASE table = "network" -> Attacks(seen, DOMAIN seen) >= BlockAnomalies
    [] table = "preattack" ->
         /\ Suspicious(seen) >= 3
         /\ \/ Len(seen) > SuspiciousPathsCount
            \/ Len(seen) > RapidRequests /\ Len(seen) >= RunLength
    [] table = "logic" -> detect(InWindow(seen))

\* What a client has done that must be refused, if its requests come one by one.
Due(seen) ==
  CASE table = "network" -> Attacks(seen, SinceQuiet(seen)) >= BlockAnomalies
    [] table = "preattack" ->
         /\ Suspicious(seen) >= 3
         /\ Len(seen) > SuspiciousPathsCount \/ (Hasty(seen) /\ Upwards(seen))
    [] table = "logic" -> detect(InWindow(seen))

\* A client is refused for what it did itself, and for enough of it: records that
\* are stored twice, updates that overwrite each other and a cleanup that
\* deletes a record in use can make a detector forget, and never make it see
\* more than there was.  A client whose requests came one by one is refused
\* exactly when its requests call for it, however the cleanup ran
\* (internal/detect/network_attack.go, internal/preattack/detector.go,
\* internal/logic/abuse.go).
RefusalsAreEarned ==
  \A t \in Threads :
    At(t, "answer") =>
      LET c == req[t].client
      IN /\ req[t].refused => Earned(log[c])
         /\ alone[c] /\ Due(log[c]) => req[t].refused
         /\ alone[c] /\ req[t].refused /\ table = "preattack" => Due(log[c])
=============================================================================
