----------------------------- MODULE MCStixEngine -----------------------------
(***************************************************************************)
(* Instances of the STIX engine (StixEngine) for TLC: two callers, a full  *)
(* engine, a bundle that is imported twice.                                *)
(***************************************************************************)

CONSTANTS Callers, Ids, StixPatterns, NoPattern, MaxIndicators, BundleCap, IOCTTL, MaxTime, MaxImports

VARIABLES now, indicators, stats, readers, call, brought, alone

Stix == INSTANCE StixEngine WITH Patterns <- StixPatterns

ASSUME ImportAssumption == Stix!StixAssumption

stixVars == <<now, indicators, stats, readers, call, brought, alone>>

\* A call that was made runs on, and a writer is served in the end, because the mutex
\* keeps new readers out while one waits.
Step(c) == Stix!Date(c) \/ Stix!Store(c) \/ Stix!EndImport(c) \/ Stix!Scan(c) \/ Stix!Return(c)
Fairness == \A c \in Callers : SF_stixVars(Step(c))

StixSpec == Stix!Spec /\ Fairness

-----------------------------------------------------------------------------
\* What imports bring is in the engine in one piece, in the order they come, up to
\* its limit, and the latest expiry unless imports overlap (ParseBundle and
\* addIndicatorFromMap, internal/intel/stix.go).
IndicatorsArrive == Stix!IndicatorsArrive

\* As long as no request has matched an indicator, every import and every match
\* returns (the RWMutex of STIXEngine, internal/intel/stix.go).
CallsReturn == Stix!CallsReturn

\* The comment of setupRoutes: stixMiddleware "matches against every other
\* request's real content and, when STIX.BlockOnMatch is configured on, uses
\* to block them": a request that matched gets its answer (MatchIndicators).
MatchesAreAnswered == Stix!MatchesAreAnswered
=============================================================================
