------------------------------ MODULE StixEngine ------------------------------
(***************************************************************************)
(* The STIX engine of internal/intel: indicators imported in bundles and   *)
(* matched against every request under one sync.RWMutex.  An import takes  *)
(* the write lock once for its statistics and once per indicator, so       *)
(* matches see half a bundle.  A match reads under the read lock and, when *)
(* something matched, asks for the write lock without having released the  *)
(* read lock.                                                              *)
(***************************************************************************)
EXTENDS Naturals, Sequences, FiniteSets

CONSTANTS
  Callers,        \* goroutines that import or match
  Ids,            \* indicator identifiers
  Patterns,       \* patterns that compile
  NoPattern,      \* a pattern without a regex, or a confidence below the threshold
  MaxIndicators,  \* config.MaxIndicators, never 0 after NewSTIXEngine
  BundleCap,      \* bound: objects of a bundle
  IOCTTL,         \* config.IOCTTL, in ticks
  MaxTime,        \* bound: the clock stops here
  MaxImports      \* bound: bundles imported

StixAssumption ==
  /\ MaxIndicators \in Nat \ {0}
  /\ IOCTTL \in Nat /\ MaxTime \in Nat /\ MaxImports \in Nat /\ BundleCap \in Nat
  /\ NoPattern \notin Patterns

VARIABLES
  now,
  indicators,  \* id -> indicator, for the ids imported so far
  stats,       \* bundles parsed, indicators loaded, hits
  readers,     \* callers that hold the read lock
  call,        \* call[c]: what caller c is doing
  brought,     \* history: the dated objects imports came past, in that order
  alone        \* history: did imports come one at a time so far?

vars == <<now, indicators, stats, readers, call, brought, alone>>

-----------------------------------------------------------------------------
\* An object of type indicator with an id and a pattern; the others are skipped.
Object == [id : Ids, pattern : Patterns \cup {NoPattern}]
Indicator == [pattern : Patterns \cup {NoPattern}, until : Nat]
Dated == [id : Ids, pattern : Patterns \cup {NoPattern}, until : Nat]
Bundle == UNION {[1..n -> Object] : n \in 0..BundleCap}
Contents == SUBSET Patterns              \* the patterns a request contains

Idle == [pc |-> "idle"]

\* The write lock is granted when nobody reads, and the critical sections of an
\* import are single steps.  A caller that asks for it while it reads keeps
\* new readers out from then on.
WriteLockFree == readers = {}
Importing(c) == call[c].pc \in {"add", "store"}
Upgrading(c) == call[c].pc = "return" /\ call[c].matches # {}
ReadLockFree == \A c \in Callers : ~Upgrading(c)

\* Variant: at the limit an older indicator makes room.
WithEvicts(id, indicator) ==
  LET kept == IF Cardinality(DOMAIN indicators) < MaxIndicators THEN DOMAIN indicators
              ELSE DOMAIN indicators \ {CHOOSE d \in DOMAIN indicators : TRUE}
  IN  [d \in kept \cup {id} |-> IF d = id THEN indicator ELSE indicators[d]]

\* addIndicatorFromMap: at the limit nothing is stored, not even a newer
\* version of an indicator that is there.
With(id, indicator) ==
  IF Cardinality(DOMAIN indicators) >= MaxIndicators THEN indicators
  ELSE [d \in DOMAIN indicators \cup {id} |-> IF d = id THEN indicator ELSE indicators[d]]

-----------------------------------------------------------------------------
(* ParseBundle                                                             *)

ParseBundle(c, bundle) ==
  /\ call[c] = Idle
  /\ WriteLockFree
  /\ stats.bundles < MaxImports
  /\ stats' = [stats EXCEPT !.bundles = @ + 1]
  /\ call' = [call EXCEPT ![c] = [pc |-> "add", objects |-> bundle]]
  /\ alone' = (alone /\ \A d \in Callers : ~Importing(d))
  /\ UNCHANGED <<now, indicators, readers, brought>>

\* addIndicatorFromMap dates the indicator before it asks for the lock.
Date(c) ==
  /\ call[c].pc = "add" /\ call[c].objects # <<>>
  /\ call' = [call EXCEPT ![c] = [pc |-> "store", objects |-> @.objects, until |-> now + IOCTTL]]
  /\ UNCHANGED <<now, indicators, stats, readers, brought, alone>>

Store(c) ==
  /\ call[c].pc = "store"
  /\ WriteLockFree
  /\ LET object == Head(call[c].objects)
     IN  /\ indicators' = With(object.id, [pattern |-> object.pattern, until |-> call[c].until])
         /\ brought' = Append(brought, [id |-> object.id, pattern |-> object.pattern,
                                        until |-> call[c].until])
  /\ stats' = [stats EXCEPT !.loaded =
                 IF Cardinality(DOMAIN indicators) < MaxIndicators THEN @ + 1 ELSE @]
  /\ call' = [call EXCEPT ![c] = [pc |-> "add", objects |-> Tail(@.objects)]]
  /\ UNCHANGED <<now, readers, alone>>

EndImport(c) ==
  /\ call[c].pc = "add" /\ call[c].objects = <<>>
  /\ call' = [call EXCEPT ![c] = Idle]
  /\ UNCHANGED <<now, indicators, stats, readers, brought, alone>>

-----------------------------------------------------------------------------
(* MatchIndicators                                                         *)

Match(c, content) ==
  /\ call[c] = Idle
  /\ ReadLockFree
  /\ readers' = readers \cup {c}
  /\ call' = [call EXCEPT ![c] = [pc |-> "scan", content |-> content]]
  /\ UNCHANGED <<now, indicators, stats, brought, alone>>

Matching(content) ==
  {id \in DOMAIN indicators :
     /\ indicators[id].until >= now
     /\ indicators[id].pattern \in content}

Scan(c) ==
  /\ call[c].pc = "scan"
  /\ call' = [call EXCEPT ![c] = [pc |-> "return", matches |-> Matching(@.content)]]
  /\ UNCHANGED <<now, indicators, stats, readers, brought, alone>>

\* Variant: a request that matched nothing returns without RUnlock.
ReturnKeepsLock(c) ==
  /\ call[c].pc = "return"
  /\ call[c].matches # {} => WriteLockFree
  /\ stats' = [stats EXCEPT !.hits = @ + Cardinality(call[c].matches)]
  /\ call' = [call EXCEPT ![c] = Idle]
  /\ UNCHANGED <<now, indicators, readers, brought, alone>>

\* The hits are counted under the write lock, asked for with the read lock held.
Return(c) ==
  /\ call[c].pc = "return"
  /\ call[c].matches # {} => WriteLockFree
  /\ stats' = [stats EXCEPT !.hits = @ + Cardinality(call[c].matches)]
  /\ readers' = readers \ {c}
  /\ call' = [call EXCEPT ![c] = Idle]
  /\ UNCHANGED <<now, indicators, brought, alone>>

Tick ==
  /\ now < MaxTime
  /\ now' = now + 1
  /\ UNCHANGED <<indicators, stats, readers, call, brought, alone>>

-----------------------------------------------------------------------------
Init ==
  /\ now = 0
  /\ indicators = [id \in {} |-> Idle]
  /\ stats = [bundles |-> 0, loaded |-> 0, hits |-> 0]
  /\ readers = {}
  /\ call = [c \in Callers |-> Idle]
  /\ brought = <<>>
  /\ alone = TRUE

Next ==
  \/ \E c \in Callers :
       \/ \E bundle \in Bundle : ParseBundle(c, bundle)
       \/ Date(c) \/ Store(c) \/ EndImport(c)
       \/ \E content \in Contents : Match(c, content)
       \/ Scan(c) \/ Return(c)
  \/ Tick

Spec == Init /\ [][Next]_vars

-----------------------------------------------------------------------------
CallState ==
  [pc : {"idle"}] \cup [pc : {"add"}, objects : Seq(Object)]
    \cup [pc : {"store"}, objects : Seq(Object), until : Nat]
    \cup [pc : {"scan"}, content : Contents] \cup [pc : {"return"}, matches : SUBSET Ids]

\* Type invariant; imports that interleave never exceed MaxIndicators.
TypeOK ==
  /\ now \in 0..MaxTime
  /\ DOMAIN indicators \subseteq Ids
  /\ \A id \in DOMAIN indicators : indicators[id] \in Indicator
  /\ Cardinality(DOMAIN indicators) <= MaxIndicators
  /\ stats \in [bundles : Nat, loaded : Nat, hits : Nat]
  /\ readers \subseteq Callers
  /\ call \in [Callers -> CallState]
  /\ brought \in Seq(Dated)
  /\ alone \in BOOLEAN

\* An object that an import has come past is in the engine, under its id, unless as
\* many other ids as the engine holds were there before it; and what the engine
\* holds for an id was brought for it in one piece, pattern and expiry.  However
\* imports interleave they take no place away from each other.  The expiry is the
\* latest one as long as they come one at a time: addIndicatorFromMap dates an
\* indicator before it has the lock, so that an import which overlaps with another
\* may put an older expiry over a newer one.
IndicatorsArrive ==
  /\ \A i \in DOMAIN brought :
       \/ Cardinality({brought[j].id : j \in 1..(i - 1)}) >= MaxIndicators
       \/ /\ brought[i].id \in DOMAIN indicators
          /\ alone => indicators[brought[i].id].until >= brought[i].until
  /\ \A id \in DOMAIN indicators : \E i \in DOMAIN brought :
       /\ brought[i].id = id
       /\ indicators[id] = [pattern |-> brought[i].pattern, until |-> brought[i].until]

\* As long as no request has matched an indicator, every import and every
\* match returns, whatever the others do (the RWMutex of STIXEngine).
CallsReturn ==
  \A c \in Callers : call[c] # Idle ~> call[c] = Idle \/ \E d \in Callers : Upgrading(d)

-----------------------------------------------------------------------------
\* The comment of setupRoutes: stixMiddleware "matches against every other
\* request's real content and, when STIX.BlockOnMatch is configured on, uses
\* to block them": a request that matched gets its answer.
MatchesAreAnswered == \A c \in Callers : Upgrading(c) ~> call[c] = Idle
=============================================================================
