------------------------------- MODULE Reputation -------------------------------
(***************************************************************************)
(* The profiles of reserse.go: which addresses are taken for one attacker, *)
(* and whom the honeypot blocks for it.  The maps are sync.Maps, so a call *)
(* of Track is several steps between which other calls run; a profile has  *)
(* a lock of its own.  A profile is an object: the maps know it by its ID, *)
(* a call in progress by itself.                                           *)
(*                                                                         *)
(* Left out: what nothing decides on (timelines, hours, threat levels,     *)
(* Correlate); GeoLocations, which nothing writes; the maps by technique   *)
(* and by user agent, which nothing reads.  Whether the user agents and    *)
(* the injected headers of two clients are alike is left open.             *)
(***************************************************************************)
EXTENDS Integers, Sequences, FiniteSets, SequencesExt

CONSTANTS
  IPs, Fps, Techniques, None,
  Events,         \* what is tracked: <<address, fingerprint or None, technique or None>>
  Net24, Net16,   \* [IPs -> networks]
  Family,         \* [Fps -> what the first eight characters are]
  Weights,        \* <<w1, w2, ...>>: weight in thousandths of a fingerprint seen from n addresses
  GenericAt,      \* genericFPThreshold, 10 in the code
  Curious,        \* addresses that step into traps
  EscalateAt,     \* blocks that escalate, 3
  PostLimit,      \* requests after a block that do not escalate yet, 50
  Legacy,         \* addresses attacker-memory.json knows
  Threads,
  MaxClock, MaxCalls, MaxWaits  \* bounds: milliseconds, calls and pauses in a behaviour

ASSUME NoneAssumption == None \notin Nat
ASSUME BoundAssumption == MaxClock \in Nat
ASSUME LegacyAssumption == Legacy \subseteq IPs /\ IsFiniteSet(Legacy)
ASSUME AddressAssumption == IsFiniteSet(IPs)
ASSUME LimitAssumption == EscalateAt \in Nat /\ PostLimit \in Nat
ASSUME EventAssumption == Events \subseteq IPs \X (Fps \cup {None}) \X (Techniques \cup {None})
ASSUME CuriousAssumption == Curious \subseteq IPs

VARIABLES
  heap,       \* the profile objects ever made
  profiles,   \* ID -> index in heap
  ipTo, fpTo, \* address, fingerprint -> ID
  fpIPs,      \* fingerprint -> addresses it came from
  clock,      \* the last millisecond generateProfileID has read
  call,       \* what each goroutine is doing
  calls, waits,
  used,       \* history: fingerprints and techniques each address has shown
  born,       \* history: the addresses a profile of that ID was made for
  trapped, posted, \* history: traps of each address, its requests after a block
  escalated   \* history: blocked by the honeypot, and what their kin had done by then

maps == <<profiles, ipTo, fpTo, fpIPs>>
vars == <<heap, maps, clock, call, calls, waits, used, born, trapped, posted, escalated>>

\* A profile is named after the millisecond it was made in, or, imported, after its address.
IDs == (0..MaxClock) \cup IPs
Idle == [pc |-> "idle"]

\* When a profile was last seen, as far as anything decides on it: within a minute, within
\* five, before; and when its last block was: never, within the hour, before.
Ages == {"now", "recent", "old"}
Blocked == {"never", "lately", "before"}

NewProfile(id, ip, fps, seen) ==
  [id |-> id, ips |-> <<ip>>, fps |-> fps, ttps |-> {}, seen |-> seen,
   blocks |-> 0, posts |-> 0, blocked |-> "never"]

\* ImportLegacyActorMemory, at the start: a profile for each address, in the order in which
\* Go ranges over a map, last seen at any time.
Orders == {s \in [1..Cardinality(Legacy) -> Legacy] : \A ip \in Legacy : \E i \in DOMAIN s : s[i] = ip}
Imported(ips, seen) == [i \in DOMAIN ips |-> NewProfile(ips[i], ips[i], <<>>, seen[i])]

Init ==
  /\ \E ips \in Orders, seen \in [1..Cardinality(Legacy) -> Ages] : heap = Imported(ips, seen)
  /\ profiles = [id \in IDs |-> IF id \in Legacy
                                THEN CHOOSE i \in DOMAIN heap : heap[i].id = id ELSE None]
  /\ ipTo = [ip \in IPs |-> IF ip \in Legacy THEN ip ELSE None]
  /\ fpTo = [f \in Fps |-> None]
  /\ fpIPs = [f \in Fps |-> {}]
  /\ clock = 0 /\ calls = 0 /\ waits = 0
  /\ call = [t \in Threads |-> Idle]
  /\ used = [ip \in IPs |-> {}]
  /\ born = [id \in IDs |-> Legacy \cap {id}]
  /\ trapped = [ip \in IPs |-> 0] /\ posted = [ip \in IPs |-> 0]
  /\ escalated = {}

\* GetProfileByIP: the object, or None.
ProfileOf(ip) == IF ipTo[ip] = None THEN None ELSE profiles[ipTo[ip]]

At(t, pc) == call[t].pc = pc
Goes(t, c) == call' = [call EXCEPT ![t] = c]
History == <<waits, used, born, trapped, posted, escalated>>

-----------------------------------------------------------------------------
(* calculateCorrelationScore, in thousandths.                              *)

First(s, like) == CHOOSE i \in {j \in DOMAIN s : s[j] \in like} :
                    \A j \in DOMAIN s : s[j] \in like => i <= j

\* Of the addresses, the first in the same /16 decides.
SubnetScore(ip, p) ==
  LET near == {x \in IPs : Net16[x] = Net16[ip]} IN
  IF \A i \in DOMAIN p.ips : p.ips[i] \notin near THEN 0
  ELSE IF Net24[p.ips[First(p.ips, near)]] = Net24[ip] THEN 300 ELSE 150

FingerprintWeight(fp) ==
  IF Cardinality(fpIPs[fp]) = 0 THEN 1000 ELSE Weights[Cardinality(fpIPs[fp])]

\* Of the fingerprints, the first alike.
FingerprintScore(fp, p) ==
  IF fp = None THEN 0
  ELSE LET alike == {f \in Fps : Family[f] = Family[fp]} IN
       IF \A i \in DOMAIN p.fps : p.fps[i] \notin alike THEN 0
       ELSE ((IF p.fps[First(p.fps, alike)] = fp THEN 400 ELSE 200) * FingerprintWeight(fp)) \div 1000

RecencyScore(p) == IF p.seen = "now" THEN 200 ELSE IF p.seen = "recent" THEN 100 ELSE 0

TechniqueScore(technique, p) == IF technique # None /\ p.ttps = {technique} THEN 500 ELSE 0

\* similar: points of the user agent and of the injected headers.
Score(ip, fp, technique, similar, p) ==
  SubnetScore(ip, p) + FingerprintScore(fp, p) + RecencyScore(p) + TechniqueScore(technique, p)
    + similar

\* Mutant: half the points are enough.
EnoughAtHalf(score) == score >= 350

\* correlationThreshold
Enough(score) == score >= 700

Generic(fp) == Cardinality(fpIPs[fp]) > GenericAt

-----------------------------------------------------------------------------
(* Track.                                                                  *)

\* The fingerprint is counted; an address with a profile is updated at once.
Track(t, ip, fp, technique) ==
  /\ At(t, "idle") /\ calls < MaxCalls
  /\ calls' = calls + 1
  /\ fpIPs' = IF fp = None THEN fpIPs ELSE [fpIPs EXCEPT ![fp] = @ \cup {ip}]
  /\ used' = [used EXCEPT ![ip] = @ \cup ({fp, technique} \ {None})]
  /\ Goes(t, [pc |-> IF ProfileOf(ip) = None THEN "match" ELSE "update",
              ip |-> ip, fp |-> fp, technique |-> technique, object |-> ProfileOf(ip)])
  /\ UNCHANGED <<heap, profiles, ipTo, fpTo, clock, waits, born, trapped, posted, escalated>>

\* By a fingerprint that is not generic, which a profile has claimed.
MatchFingerprint(t) ==
  LET c == call[t]
      known == c.fp # None /\ ~Generic(c.fp) /\ fpTo[c.fp] # None /\ profiles[fpTo[c.fp]] # None
  IN /\ At(t, "match")
     /\ IF known THEN Goes(t, [c EXCEPT !.pc = "link", !.object = profiles[fpTo[c.fp]]])
                 ELSE Goes(t, [c EXCEPT !.pc = "correlate"])
     /\ UNCHANGED <<heap, maps, clock, calls, History>>

\* The best of the profiles seen within five minutes, in any order.
CorrelateAdvanced(t) ==
  LET c == call[t]
      active == {i \in {profiles[id] : id \in IDs} \ {None} : heap[i].seen # "old"}
  IN /\ At(t, "correlate")
     /\ \E similar \in [active -> {0, 100, 200, 300}] :
          LET points == [i \in active |-> Score(c.ip, c.fp, c.technique, similar[i], heap[i])]
              best == {i \in active : Enough(points[i]) /\ \A j \in active : points[j] <= points[i]}
          IN \/ \E i \in best : Goes(t, [c EXCEPT !.pc = "link", !.object = i])
             \/ best = {} /\ Goes(t, [c EXCEPT !.pc = "create", !.object = None])
     /\ UNCHANGED <<heap, maps, clock, calls, History>>

Link(t) ==
  /\ At(t, "link")
  /\ ipTo' = [ipTo EXCEPT ![call[t].ip] = heap[call[t].object].id]
  /\ Goes(t, [call[t] EXCEPT !.pc = "update"])
  /\ UNCHANGED <<heap, profiles, fpTo, fpIPs, clock, calls, History>>

AppendNew(s, x) == IF x = None \/ \E i \in DOMAIN s : s[i] = x THEN s ELSE Append(s, x)

\* actorTrackingMiddleware looks whether the client was blocked before; the orchestrator,
\* which tracks the attacks, does not.
AfterTrack(c, p) == IF c.technique = None /\ p.blocks > 0 THEN [pc |-> "post", ip |-> c.ip] ELSE Idle

\* updateProfile, under the profile's lock; the maps are written for what is new.
UpdateProfile(t) ==
  LET c == call[t]
      p == heap[c.object]
      ips == AppendNew(p.ips, c.ip)
      fps == AppendNew(p.fps, c.fp)
      q == [p EXCEPT !.ips = ips, !.fps = fps, !.seen = "now",
                     !.ttps = p.ttps \cup ({c.technique} \ {None})]
  IN /\ At(t, "update")
     /\ heap' = [heap EXCEPT ![c.object] = q]
     /\ ipTo' = IF ips = p.ips THEN ipTo ELSE [ipTo EXCEPT ![c.ip] = p.id]
     /\ fpTo' = IF fps = p.fps THEN fpTo ELSE [fpTo EXCEPT ![c.fp] = p.id]
     /\ Goes(t, AfterTrack(c, p))
     /\ UNCHANGED <<profiles, fpIPs, clock, calls, History>>

\* createProfile: the ID is the millisecond, maybe still the one of the last profile made.
\* The event's technique is not recorded.
CreateProfile(t) ==
  LET c == call[t]
      fps == IF c.fp = None THEN <<>> ELSE <<c.fp>>
  IN /\ At(t, "create")
     /\ clock' \in {clock, clock + 1} \cap 0..MaxClock
     /\ heap' = Append(heap, NewProfile(clock', c.ip, fps, "now"))
     /\ fpTo' = IF c.fp = None THEN fpTo ELSE [fpTo EXCEPT ![c.fp] = clock']
     /\ born' = [born EXCEPT ![clock'] = @ \cup {c.ip}]
     /\ Goes(t, [c EXCEPT !.pc = "store", !.object = Len(heap) + 1])
     /\ UNCHANGED <<profiles, ipTo, fpIPs, calls, waits, used, trapped, posted, escalated>>

\* Mutant: the address is told the ID before the profile is in the map.
StoreIPFirst(t) ==
  /\ At(t, "store")
  /\ ipTo' = [ipTo EXCEPT ![call[t].ip] = heap[call[t].object].id]
  /\ Goes(t, [call[t] EXCEPT !.pc = "point"])
  /\ UNCHANGED <<heap, profiles, fpTo, fpIPs, clock, calls, History>>

StoreProfile(t) ==
  /\ At(t, "store")
  /\ profiles' = [profiles EXCEPT ![heap[call[t].object].id] = call[t].object]
  /\ Goes(t, [call[t] EXCEPT !.pc = "point"])
  /\ UNCHANGED <<heap, ipTo, fpTo, fpIPs, clock, calls, History>>

PointIP(t) ==
  /\ At(t, "point")
  /\ ipTo' = [ipTo EXCEPT ![call[t].ip] = heap[call[t].object].id]
  /\ Goes(t, AfterTrack(call[t], heap[call[t].object]))
  /\ UNCHANGED <<heap, profiles, fpTo, fpIPs, clock, calls, History>>

\* RecordPostBlockRequest looks the profile up once more.
RecordPostBlockRequest(t) ==
  LET ip == call[t].ip
      p == ProfileOf(ip)
      counts == p # None /\ heap[p].blocked = "lately"
  IN /\ At(t, "post")
     /\ heap' = IF counts THEN [heap EXCEPT ![p].posts = @ + 1] ELSE heap
     /\ posted' = IF counts THEN [posted EXCEPT ![ip] = @ + 1] ELSE posted
     /\ Goes(t, Idle)
     /\ UNCHANGED <<maps, clock, calls, waits, used, born, trapped, escalated>>

-----------------------------------------------------------------------------
(* The honeypot.                                                           *)

\* A trap.  One who was never tracked has no profile, and nothing is counted.
RecordBlock(t, ip) ==
  LET p == ProfileOf(ip) IN
  /\ At(t, "idle") /\ calls < MaxCalls
  /\ calls' = calls + 1
  /\ trapped' = [trapped EXCEPT ![ip] = @ + 1]
  /\ heap' = IF p = None THEN heap
             ELSE [heap EXCEPT ![p].blocks = @ + 1, ![p].blocked = "lately"]
  /\ Goes(t, [pc |-> "escalate", ip |-> ip])
  /\ UNCHANGED <<maps, clock, waits, used, born, posted, escalated>>

\* Two addresses have something in common.
Tie(x, y) ==
  \/ Net16[x] = Net16[y]
  \/ used[x] \cap used[y] # {}
  \/ \E f \in used[x] \cap Fps, g \in used[y] \cap Fps : Family[f] = Family[g]
  \/ \E id \in IDs : {x, y} \subseteq born[id]

\* The addresses that ties, direct or through others, lead to.
Kin(ip) == {x \in IPs : \A S \in SUBSET IPs :
              ip \in S /\ (\A y \in S, z \in IPs : Tie(y, z) => z \in S) => x \in S}

Total(f, S) == FoldFunctionOnSet(+, 0, f, S)

\* Mutant: the limit itself is already too much.
ShouldEscalateAtLimit(p) == p.posts >= PostLimit \/ p.blocks >= EscalateAt

ShouldEscalate(p) == p.posts > PostLimit \/ p.blocks >= EscalateAt

\* ShouldEscalateBlock, looked up again, and then TempBlock.  How long is the business of
\* the countermeasures: the duration computed here is only logged.
EscalateBlock(t) ==
  LET ip == call[t].ip
      p == ProfileOf(ip)
  IN /\ At(t, "escalate")
     /\ escalated' =
          IF p # None /\ ShouldEscalate(heap[p])
          THEN escalated \cup {[ip |-> ip, traps |-> Total(trapped, Kin(ip)), posts |-> Total(posted, Kin(ip))]}
          ELSE escalated
     /\ Goes(t, Idle)
     /\ UNCHANGED <<heap, maps, clock, calls, waits, used, born, trapped, posted>>

-----------------------------------------------------------------------------
Older(seen) == IF seen = "now" THEN "recent" ELSE "old"

\* Minutes go by, or an hour.
Wait ==
  /\ waits < MaxWaits /\ waits' = waits + 1
  /\ \/ heap' = [i \in DOMAIN heap |-> [heap[i] EXCEPT !.seen = Older(@)]]
     \/ heap' = [i \in DOMAIN heap |->
                   [heap[i] EXCEPT !.seen = "old", !.blocked = IF @ = "never" THEN @ ELSE "before"]]
  /\ UNCHANGED <<maps, clock, call, calls, used, born, trapped, posted, escalated>>

Caller(t) ==
  \/ \E e \in Events : Track(t, e[1], e[2], e[3])
  \/ MatchFingerprint(t) \/ CorrelateAdvanced(t) \/ Link(t) \/ UpdateProfile(t)
  \/ CreateProfile(t) \/ StoreProfile(t) \/ PointIP(t)
  \/ RecordPostBlockRequest(t)
  \/ \E ip \in Curious : RecordBlock(t, ip)
  \/ EscalateBlock(t)

Next == (\E t \in Threads : Caller(t)) \/ Wait

Spec == Init /\ [][Next]_vars

-----------------------------------------------------------------------------
Profile == [id : IDs, ips : Seq(IPs), fps : Seq(Fps), ttps : SUBSET Techniques, seen : Ages,
            blocks : Nat, posts : Nat, blocked : Blocked]

\* Where a call of Track is, with what it tracks; which object it holds is in TypeOK.
Tracking == [pc : {"match", "correlate", "link", "update", "create", "store", "point"}, ip : IPs,
             fp : Fps \cup {None}, technique : Techniques \cup {None}, object : Nat \cup {None}]

\* Types: what the maps hold are objects that were made, and a call that holds an object
\* holds one of them (Track and its parts).
TypeOK ==
  /\ heap \in Seq(Profile)
  /\ profiles \in [IDs -> DOMAIN heap \cup {None}]
  /\ ipTo \in [IPs -> IDs \cup {None}] /\ fpTo \in [Fps -> IDs \cup {None}]
  /\ fpIPs \in [Fps -> SUBSET IPs]
  /\ clock \in 0..MaxClock /\ calls \in Nat /\ waits \in Nat
  /\ call \in [Threads -> {Idle} \cup [pc : {"post", "escalate"}, ip : IPs] \cup Tracking]
  /\ \A t \in Threads : call[t].pc \in {"link", "update", "store", "point"} => call[t].object \in DOMAIN heap
  /\ used \in [IPs -> SUBSET (Fps \cup Techniques)] /\ born \in [IDs -> SUBSET IPs]
  /\ trapped \in [IPs -> Nat] /\ posted \in [IPs -> Nat]
  /\ \A e \in escalated : e.ip \in IPs

\* What the maps say of an address can be followed: there is a profile of that ID, at
\* every moment of every call (createProfile stores the profile first).
AddressesResolve == \A ip \in IPs : ipTo[ip] # None => profiles[ipTo[ip]] # None

\* Addresses are one attacker only by something in common, maybe with others between:
\* a network, a fingerprint, a technique - or the millisecond of their first request,
\* which generateProfileID takes for an identity.
StrangersStayApart ==
  \A x, y \in IPs : x # y /\ ipTo[x] # None /\ ipTo[x] = ipTo[y] => y \in Kin(x)

\* The honeypot blocks an address only once it and its kin have stepped into enough
\* traps, or sent enough requests after one.
EscalationIsEarned ==
  \A e \in escalated : e.traps >= EscalateAt \/ (e.traps > 0 /\ e.posts > PostLimit)
=============================================================================
