------------------------------- MODULE MCActors -------------------------------
(* The whole of internal/actor, for model checking: a behaviour is one of  *)
(* the life of one actor's score (ActorRisk, whole range of every          *)
(* counter), of the tables of the tracker under concurrent calls           *)
(* (ActorTracker), or of the gray zone (GrayZone).  The variables of the   *)
(* ones it is not about stay in an initial state.                          *)
EXTENDS GrayZone, FiniteSetsExt, TLC

CONSTANTS StartCounts, KeptThreats, MaxRequests, MaxBlocks,
          Callers, maxActors, promotionThreshold, Duration, Hour, TableThreats,
          MaxTime, MaxCalls

VARIABLES part, actor, answer, now, counters, actors, heap, activeCounters, activeActors,
          call, cleaner, calls, alone

Score == INSTANCE ActorRisk

Table == INSTANCE ActorTracker WITH KeptThreats <- TableThreats

\* The goroutines and the clients are interchangeable.
Symmetry == Permutations(Callers) \cup Permutations(IPs)

-----------------------------------------------------------------------------
scoreVars == <<actor, answer>>

tableVars == <<now, counters, actors, heap, activeCounters, activeActors, call, cleaner,
               calls, alone>>

MCInit ==
  /\ Score!Init /\ Table!Init /\ Init
  /\ part \in {"score", "table", "zone"}
  /\ part # "score" => actor.requests = Min(StartCounts)
  /\ part # "zone" => size = Min(Sizes)

MCNext ==
  \/ part = "score" /\ Score!Next /\ UNCHANGED <<part, tableVars, vars>>
  \/ part = "table" /\ Table!Next /\ UNCHANGED <<part, scoreVars, vars>>
  \/ part = "zone" /\ Next /\ UNCHANGED <<part, scoreVars, tableVars>>

MCSpec == MCInit /\ [][MCNext]_<<part, scoreVars, tableVars, vars>>

-----------------------------------------------------------------------------
ASSUME ScoreAssumption == Score!RiskAssumption

ASSUME TableAssumption == Table!TrackerAssumption

ASSUME ZoneAssumption == GrayZoneAssumption

\* The points a live actor can collect add up to 70 exactly, and AutoRespond blocks
\* above 70: it never does, whatever an actor did.
NeverTempBlocks == Score!NeverTempBlocks

\* An actor that was never blocked and never reported cannot be slowed down for being
\* old and busy, though those alone reach the bound of 20 (CalculateRiskScore).
NoCauseNoAnswer == Score!NoCauseNoAnswer

\* The score only rises while the tracker keeps the actor: more offences, the cut of
\* the list of threats included, never lead to a milder answer.
RiskNeverFalls == Score!RiskNeverFalls

\* An address has an actor only when it earned one, whatever calls, evictions and
\* cleanups of the tracker interleave (Track, promote and Block of actor.go).
ActorsAreEarned == Table!ActorsAreEarned

\* As long as calls and cleanups come one at a time, the numbers the tracker's
\* Stats reports are the sizes of its two tables.
StatsAgree == Table!StatsAgree

\* A block holds until it expires or Unblock is called: neither evictOldest nor
\* cleanup nor a promotion loses it, as long as calls and cleanups come one at a
\* time.
BlocksHold == Table!BlocksHold
=============================================================================
