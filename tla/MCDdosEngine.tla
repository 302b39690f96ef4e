----------------------------- MODULE MCDdosEngine -----------------------------
(***************************************************************************)
(* An instance of the DDoS engine (DdosEngine): one client that is served, *)
(* forgotten and served again.                                             *)
(***************************************************************************)

CONSTANTS
  Callers, Sources,    \* goroutines, and the addresses requests come from
  Window, challengeThreshold, throttleThreshold, blockThreshold,
  challengeDuration, throttleDuration, blockDuration,
  PhasesOn, EngineOps, Stale

VARIABLES states, heap, call, cleaner, alone

Engine == INSTANCE DdosEngine WITH IPs <- Sources, Enabled <- PhasesOn, Ops <- EngineOps

ASSUME RatesAssumption == Engine!EngineAssumption

AllOps == {"check", "pass", "fail", "block", "unblock"}
OnlyChecks == {"check"}     \* all that ddosMiddleware calls
AllPhases == {"challenge", "throttle", "block"}

engineVars == <<states, heap, call, cleaner, alone>>

\* Calls run on, and each pass of cleanup comes to every key.
Fairness ==
  /\ \A c \in Callers : WF_engineVars(Engine!Locked(c))
  /\ WF_engineVars(Engine!Delete)
  /\ \A ip \in Sources : SF_engineVars(Engine!LookAt(ip))

EngineSpec == Engine!Spec /\ Fairness

-----------------------------------------------------------------------------
\* As long as calls and deletions come one at a time, a phase lasts until its time is
\* over or an operation other than Check ends it (internal/ddos/engine.go).
PhasesLast == Engine!PhasesLast

\* "Three-phase escalation: Challenge -> Throttle -> Block" (the comment of package
\* ddos): a client that floods without end is blocked.
FloodsAreBlocked == Engine!FloodsAreBlocked

\* With a block threshold above one request per millisecond no request blocks anybody
\* (Check, with the thresholds of server.New).
RequestsDoNotBlock == Engine!RequestsDoNotBlock

\* A state that is idle for long and not flagged leaves the table or is used again
\* (cleanup).
StaleStatesGo == Engine!StaleStatesGo
=============================================================================
