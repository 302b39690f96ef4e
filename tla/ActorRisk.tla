------------------------------- MODULE ActorRisk -------------------------------
(***************************************************************************)
(* The risk score of one actor (CalculateRiskScore) over its life in the   *)
(* tracker, and what AutoRespond makes of it.  Points are counted in       *)
(* hundredths: a request beyond the hundredth is worth one.                *)
(*                                                                         *)
(* Of the indicators the score adds up, nothing in the program writes      *)
(* HoneypotHits, SQLiAttempts, XSSAttempts, SuspiciousPaths, ScannerHits   *)
(* and Fingerprints; they contribute nothing and are left out.             *)
(***************************************************************************)
EXTENDS Integers

CONSTANTS
  StartCounts,  \* requests a new actor begins with: none if a block made it, else its counter's
  KeptThreats,  \* threat types an actor keeps, 100 in the code
  MaxRequests,  \* bound: requests counted
  MaxBlocks     \* bound: blocks counted

RiskAssumption ==
  /\ KeptThreats \in Nat /\ KeptThreats >= 5
  /\ StartCounts \subseteq 0..MaxRequests
  /\ MaxRequests \in Nat /\ MaxBlocks \in Nat

VARIABLES
  actor,   \* the actor's counters
  answer   \* what AutoRespond did when it last saw this actor

vars == <<actor, answer>>

Ages == {"new", "day", "week"}
Answers == {"none", "throttle", "isolate", "tempBlock"}

AtMost(limit, points) == IF points < limit THEN points ELSE limit

NewActor(requests) == [requests |-> requests, blocked |-> 0, threats |-> 0, age |-> "new"]

\* Mutant: the volume is not capped.
VolumeUncapped(requests) == IF requests > 100 THEN requests ELSE 0

Volume(requests) == IF requests > 100 THEN AtMost(1000, requests) ELSE 0

Persistence(age) == CASE age = "new" -> 0 [] age = "day" -> 500 [] age = "week" -> 1000

\* CalculateRiskScore.
Risk(a) ==
  AtMost(3000, 500 * a.blocked) + AtMost(2000, 400 * a.threats)
    + Persistence(a.age) + Volume(a.requests)

\* Mutant: a band begins at its bound.
AutoRespondAtBound(risk) ==
  IF risk >= 7000 THEN "tempBlock" ELSE IF risk >= 4000 THEN "isolate"
  ELSE IF risk >= 2000 THEN "throttle" ELSE "none"

AutoRespond(risk) ==
  IF risk > 7000 THEN "tempBlock" ELSE IF risk > 4000 THEN "isolate"
  ELSE IF risk > 2000 THEN "throttle" ELSE "none"

\* Mutant: the list is emptied when it is full.
KeptEmptied(threats) == IF threats > KeptThreats THEN 0 ELSE threats

Kept(threats) == AtMost(KeptThreats, threats)

-----------------------------------------------------------------------------
Init == (\E n \in StartCounts : actor = NewActor(n)) /\ answer = "none"

Track ==
  /\ actor.requests < MaxRequests
  /\ actor' = [actor EXCEPT !.requests = @ + 1]
  /\ UNCHANGED answer

AddThreat ==
  /\ actor' = [actor EXCEPT !.threats = Kept(@ + 1)]
  /\ UNCHANGED answer

Block ==
  /\ actor.blocked < MaxBlocks
  /\ actor' = [actor EXCEPT !.blocked = @ + 1]
  /\ UNCHANGED answer

\* A day, or a week, has passed since the actor was first seen.
Age ==
  /\ \/ actor.age = "new" /\ actor' = [actor EXCEPT !.age = "day"]
     \/ actor.age = "day" /\ actor' = [actor EXCEPT !.age = "week"]
  /\ UNCHANGED answer

\* By a request of the actor or by an operator.
Respond == answer' = AutoRespond(Risk(actor)) /\ UNCHANGED actor

\* The tracker lets go of the actor and makes a new one of the address later.
Evict == (\E n \in StartCounts : actor' = NewActor(n)) /\ answer' = "none"

Next == Track \/ AddThreat \/ Block \/ Age \/ Respond \/ Evict

Spec == Init /\ [][Next]_vars

-----------------------------------------------------------------------------
TypeOK ==
  /\ actor \in [requests : 0..MaxRequests, blocked : 0..MaxBlocks,
                threats : 0..KeptThreats, age : Ages]
  /\ answer \in Answers

\* The points a live actor can collect add up to 70 exactly, and AutoRespond blocks
\* above 70: it never does, whatever an actor did.  The middlewares' model relies on it.
NeverTempBlocks == answer # "tempBlock"

\* An actor that was never blocked and never reported cannot be slowed down for being old
\* and busy, though those alone reach the bound of 20.
NoCauseNoAnswer == actor.blocked = 0 /\ actor.threats = 0 => answer = "none"

\* The score only rises while the tracker keeps the actor: more offences, the cut of the
\* list of threats included, never lead to a milder answer.
RiskNeverFalls == [][Evict \/ Risk(actor') >= Risk(actor)]_vars
=============================================================================
