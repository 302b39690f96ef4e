----------------------------- MODULE EgressScanner -----------------------------
(***************************************************************************)
(* The advanced egress scanner (internal/egress/advanced.go), which the    *)
(* egress middleware asks about every response before it is sent.          *)
(*                                                                         *)
(* A scan looks at where the response goes, at how much the client was     *)
(* sent lately, and at the body; what it finds goes to a list of alerts.   *)
(* The flows and the alerts are under one lock, which a scan takes once    *)
(* for each.  A body is its size, its encoding ("plain", "entropy" or      *)
(* "large", a Base64 run beyond the limit) and the kinds of secrets in it: *)
(* "pii", "generic", or "key", the patterns that always block.  Scores,    *)
(* counters and the requests of a flow, which nothing reads, are left out. *)
(***************************************************************************)
EXTENDS Integers, FiniteSetsExt, SequencesExt

CONSTANTS
  Scans,           \* goroutines with a response to scan
  Identities,      \* what X-User-Id says, or else the address
  Bodies,          \* [size, encoding, secrets] records
  GeofenceMode, PIISecretMode, GenericSecretMode, \* "block", "alert" or "log"
  VelocityWindow, MaxBytesPerWindow, VelocitySpikeMultiplier,
  BaselineSamples, \* windows without which there is no spike
  MaxAlerts, KeptAlerts,
  MaxScans, MaxTime, \* bounds: responses and ticks of a behaviour
  None

Flow == [bytes : Nat, start : Nat, total : Nat, samples : Nat]

\* A list that is cut keeps no more than it may have.
ScannerAssumption ==
  /\ Bodies \subseteq [size : Nat, encoding : {"plain", "entropy", "large"},
                      secrets : SUBSET {"pii", "generic", "key"}]
  /\ {VelocityWindow, MaxBytesPerWindow, VelocitySpikeMultiplier, MaxAlerts, KeptAlerts} \subseteq Nat
  /\ KeptAlerts <= MaxAlerts
  /\ None \notin Flow /\ None \notin {"volume", "spike"}

VARIABLES
  userFlows, \* [Identities -> the flow of the identity, or None]
  alerts,
  scan,      \* what each goroutine is doing
  now,
  served,    \* history: [Identities -> what was sent to it, after how much, in which flow,
             \*           and what was said of it]
  recorded   \* history: every alert, in order

vars == <<userFlows, alerts, scan, now, served, recorded>>

Idle == [pc |-> "idle"]

Init ==
  /\ userFlows = [id \in Identities |-> None]
  /\ alerts = <<>>
  /\ scan = [s \in Scans |-> Idle]
  /\ now = 0
  /\ served = [id \in Identities |-> <<>>]
  /\ recorded = <<>>

-----------------------------------------------------------------------------
NewFlow == [bytes |-> 0, start |-> now, total |-> 0, samples |-> 0]

\* A mutated form: the new window starts with the old one's bytes.
RolledOn(flow) ==
  IF now - flow.start > VelocityWindow
    THEN [flow EXCEPT !.start = now, !.total = @ + flow.bytes, !.samples = @ + 1]
    ELSE flow

\* A window that is over goes into the average, which is total / samples.
Rolled(flow) ==
  IF now - flow.start > VelocityWindow
    THEN [bytes |-> 0, start |-> now, total |-> flow.total + flow.bytes, samples |-> flow.samples + 1]
    ELSE flow

Spikes(flow) ==
  /\ flow.samples >= BaselineSamples /\ flow.total > 0
  /\ flow.bytes * flow.samples >= VelocitySpikeMultiplier * flow.total

Velocity(flow) ==
  CASE flow.bytes > MaxBytesPerWindow -> "volume"
    [] flow.bytes <= MaxBytesPerWindow /\ Spikes(flow) -> "spike"
    [] OTHER -> None

\* A response comes from its handler.  checkGeofence only looks at it.
Analyze(s, id, body, abroad) ==
  /\ scan[s] = Idle
  /\ FoldSet(LAMBDA i, n : n + Len(served[i]), 0, Identities)
       + Cardinality({u \in Scans : scan[u].pc = "velocity"}) < MaxScans
  /\ scan' = [scan EXCEPT ![s] =
       [pc |-> "velocity", id |-> id, body |-> body, threats |-> IF abroad THEN {"geofence"} ELSE {}]]
  /\ UNCHANGED <<userFlows, alerts, now, served, recorded>>

\* History: what was sent to an identity so far.
SentTo(id) ==
  LET sent == served[id] IN
  IF sent = <<>> THEN 0 ELSE sent[Len(sent)].before + sent[Len(sent)].size

\* checkVelocity, under the lock.
checkVelocity(s) ==
  LET id == scan[s].id
      old == Rolled(IF userFlows[id] = None THEN NewFlow ELSE userFlows[id])
      flow == [old EXCEPT !.bytes = @ + scan[s].body.size]
      found == Velocity(flow)
  IN /\ scan[s].pc = "velocity"
     /\ userFlows' = [userFlows EXCEPT ![id] = flow]
     /\ served' = [served EXCEPT ![id] = Append(@,
          [at |-> now, size |-> scan[s].body.size, before |-> SentTo(id), flow |-> flow, said |-> found])]
     /\ scan' = [scan EXCEPT ![s] = [scan[s] EXCEPT !.pc = "body", !.threats = @ \cup ({found} \ {None})]]
     /\ UNCHANGED <<alerts, now, recorded>>

checkEncoded(body) ==
  CASE body.encoding = "large" -> {"encoded"}
    [] body.encoding = "entropy" -> {"entropy"}
    [] OTHER -> {}

Blocking(secret) ==
  \/ secret = "key"
  \/ secret = "pii" /\ PIISecretMode = "block"
  \/ secret = "generic" /\ GenericSecretMode = "block"

checkSecretLeak(body) ==
  CASE \E x \in body.secrets : Blocking(x) -> {"leak"}
    [] body.secrets # {} /\ \A x \in body.secrets : ~Blocking(x) -> {"suspect"}
    [] OTHER -> {}

\* Too long a list loses its older half.
Kept(list) == IF Len(list) > MaxAlerts THEN SubSeq(list, Len(list) - KeptAlerts + 1, Len(list)) ELSE list

Found(s, threats, x) == IF x \in threats THEN <<[type |-> x, scan |-> s]>> ELSE <<>>
AlertsOf(s, threats) ==
  Found(s, threats, "geofence")
    \o Found(s, threats, "volume") \o Found(s, threats, "spike")
    \o Found(s, threats, "encoded") \o Found(s, threats, "entropy")
    \o Found(s, threats, "leak") \o Found(s, threats, "suspect")

\* The body is looked at, and recordAlert, under the lock, adds what was found.
checkBody(s) ==
  LET threats == scan[s].threats \cup checkEncoded(scan[s].body) \cup checkSecretLeak(scan[s].body)
      new == AlertsOf(s, threats)
      denying == {"encoded", "leak"} \cup (IF GeofenceMode = "block" THEN {"geofence"} ELSE {})
  IN /\ scan[s].pc = "body"
     /\ alerts' = Kept(alerts \o new)
     /\ recorded' = recorded \o new
     /\ scan' = [scan EXCEPT ![s] =
          [pc |-> "result", body |-> @.body, threats |-> threats,
           allowed |-> threats \cap denying = {}, upTo |-> Len(recorded')]]
     /\ UNCHANGED <<userFlows, now, served>>

\* The middleware withholds the response or sends it.
Finish(s) ==
  /\ scan[s].pc = "result"
  /\ scan' = [scan EXCEPT ![s] = Idle]
  /\ UNCHANGED <<userFlows, alerts, now, served, recorded>>

\* A response is scanned in less than a tick.
Tick ==
  /\ now < MaxTime /\ \A s \in Scans : scan[s] = Idle
  /\ now' = now + 1
  /\ UNCHANGED <<userFlows, alerts, scan, served, recorded>>

Next ==
  \/ \E s \in Scans, id \in Identities, body \in Bodies, abroad \in BOOLEAN : Analyze(s, id, body, abroad)
  \/ \E s \in Scans : checkVelocity(s) \/ checkBody(s) \/ Finish(s)
  \/ Tick

Spec == Init /\ [][Next]_vars

-----------------------------------------------------------------------------
\* What went out with the i-th to the j-th of the responses of a client.
Bytes(sent, i, j) == sent[j].before + sent[j].size - sent[i].before

\* Windows begin with a response, so a stretch as long as a window lies in two of
\* them at most, and no more than twice the limit passes in it unnoticed; what is
\* noticed was sent in one.
VolumesAreTold ==
  \A id \in Identities : \A j \in DOMAIN served[id] :
    LET sent == served[id]
        recent == {i \in 1..j : sent[j].at - sent[i].at <= VelocityWindow}
    IN /\ sent[j].said = "volume" => \E i \in recent : Bytes(sent, i, j) > MaxBytesPerWindow
       /\ \A i \in recent :
            Bytes(sent, i, j) > 2 * MaxBytesPerWindow =>
              \E k \in i..j : sent[k].said = "volume"
       /\ sent[j].said = "spike" =>
            \E i \in recent, k \in 1..j : Bytes(sent, i, j) >= VelocitySpikeMultiplier * sent[k].size

\* The list holds the latest alerts, so what a refused response was refused for.
AlertsAreLatest ==
  /\ Len(alerts) <= MaxAlerts
  /\ Len(alerts) = Len(recorded) \/ Len(alerts) >= KeptAlerts
  /\ alerts = SubSeq(recorded, Len(recorded) - Len(alerts) + 1, Len(recorded))
  /\ \A s \in Scans :
       scan[s].pc = "result" /\ Len(recorded) - scan[s].upTo + Cardinality(scan[s].threats) <= KeptAlerts =>
         \A x \in scan[s].threats : \E i \in DOMAIN alerts : alerts[i] = [type |-> x, scan |-> s]

\* A response is withheld for what it is, never for what was sent before.
RefusalsAreForTheBody ==
  \A s \in Scans :
    scan[s].pc = "result" =>
      (scan[s].allowed <=>
         /\ scan[s].body.encoding # "large"
         /\ \A x \in scan[s].body.secrets : ~Blocking(x)
         /\ "geofence" \in scan[s].threats => GeofenceMode # "block")

\* The scanner tells what went out.  A client is said to receive too much only
\* when it did within one window, and no more than twice the limit reaches it in
\* that time without a word; the list of alerts loses only its older half; and a
\* response is withheld for its own content or destination, in the modes that say
\* so, whatever was sent before (internal/egress/advanced.go).
ScansAreTold == VolumesAreTold /\ AlertsAreLatest /\ RefusalsAreForTheBody
=============================================================================
