---------------------------- MODULE AttackersProofs ----------------------------
(***************************************************************************)
(* Theorems about the components of MCAttackers: the profiles              *)
(* (Reputation), for any number of goroutines, addresses, fingerprints and *)
(* techniques, and the reports of other nodes (HeimdallReport, here        *)
(* Reporting), for any number of requests, addresses and threat types.     *)
(***************************************************************************)
EXTENDS MCAttackers, FiniteSetTheorems, SequenceTheorems, WellFoundedInduction, TLAPS

\* An address or a call leads to an ID whose profile is in the map.
Resolves(id) == profiles[id] # None

\* A profile is found under its own ID, and whoever links an address to an object has taken
\* it from the map or put it there before.
Resolved ==
  /\ \A id \in IDs : Resolves(id) => heap[profiles[id]].id = id
  /\ AddressesResolve
  /\ \A t \in Threads : call[t].pc \in {"link", "update", "point"} => Resolves(heap[call[t].object].id)

IInv == TypeOK /\ Resolved

LEMMA IDsOfAddresses == IPs \subseteq IDs /\ 0..MaxClock \subseteq IDs
BY DEF IDs

LEMMA ProfileMade ==
  ASSUME NEW id \in IDs, NEW ip \in IPs, NEW fps \in Seq(Fps), NEW seen \in Ages
  PROVE  NewProfile(id, ip, fps, seen) \in Profile /\ NewProfile(id, ip, fps, seen).id = id
BY DEF NewProfile, Profile, Blocked

LEMMA AppendNewInSeq ==
  ASSUME NEW S, NEW s \in Seq(S), NEW x \in S \cup {None}
  PROVE  AppendNew(s, x) \in Seq(S)
BY DEF AppendNew

LEMMA Import ==
  ASSUME NEW ips \in Orders, NEW seen \in [1..Cardinality(Legacy) -> Ages]
  PROVE  /\ Imported(ips, seen) \in Seq(Profile)
         /\ \A id \in Legacy : \E i \in DOMAIN Imported(ips, seen) : Imported(ips, seen)[i].id = id
<1>. DEFINE n == Cardinality(Legacy)  h == Imported(ips, seen)
<1>1. n \in Nat
  BY LegacyAssumption, FS_CardinalityType
<1>2. /\ ips \in [1..n -> Legacy] /\ \A ip \in Legacy : \E i \in 1..n : ips[i] = ip
      /\ h = [i \in 1..n |-> NewProfile(ips[i], ips[i], <<>>, seen[i])]
  BY DEF Orders, Imported
<1>3. \A i \in 1..n : /\ NewProfile(ips[i], ips[i], <<>>, seen[i]) \in Profile
                      /\ NewProfile(ips[i], ips[i], <<>>, seen[i]).id = ips[i]
  <2>. TAKE i \in 1..n
  <2>1. ips[i] \in IPs /\ ips[i] \in IDs /\ seen[i] \in Ages /\ << >> \in Seq(Fps)
    BY <1>2, LegacyAssumption, IDsOfAddresses
  <2>. QED  BY <2>1, ProfileMade
<1>. HIDE DEF n, h
<1>4. h \in [1..n -> Profile]
  BY <1>2, <1>3
<1>5. h \in Seq(Profile)
  BY <1>1, <1>4
<1>6. \A i \in 1..n : h[i].id = ips[i]
  BY <1>2, <1>3
<1>. QED  BY <1>2, <1>4, <1>5, <1>6 DEF h

LEMMA InitIInv == Init => IInv
<1>. SUFFICES ASSUME Init PROVE IInv
  OBVIOUS
<1>1. heap \in Seq(Profile) /\ \A id \in Legacy : \E i \in DOMAIN heap : heap[i].id = id
  BY Import DEF Init
<1>2. profiles \in [IDs -> DOMAIN heap \cup {None}]
  BY <1>1 DEF Init
<1>3. \A id \in Legacy : profiles[id] \in DOMAIN heap /\ heap[profiles[id]].id = id
  BY <1>1, LegacyAssumption, IDsOfAddresses DEF Init
<1>4. DOMAIN heap \subseteq Nat
  BY <1>1
<1>5. \A id \in IDs : Resolves(id) <=> id \in Legacy
  BY <1>3, <1>4, NoneAssumption DEF Init, Resolves
<1>6. ipTo \in [IPs -> IDs \cup {None}] /\ fpTo \in [Fps -> IDs \cup {None}] /\ fpIPs \in [Fps -> SUBSET IPs]
  BY LegacyAssumption, IDsOfAddresses DEF Init
<1>7. clock \in 0..MaxClock /\ calls \in Nat /\ waits \in Nat
  BY BoundAssumption DEF Init
<1>8. call \in [Threads -> {Idle}] /\ \A t \in Threads : call[t].pc = "idle"
  BY DEF Init, Idle
<1>9. used \in [IPs -> SUBSET (Fps \cup Techniques)] /\ born \in [IDs -> SUBSET IPs]
  BY LegacyAssumption DEF Init
<1>10. trapped \in [IPs -> Nat] /\ posted \in [IPs -> Nat] /\ escalated = {}
  BY DEF Init
<1>11. TypeOK
  BY <1>1, <1>2, <1>6, <1>7, <1>8, <1>9, <1>10 DEF TypeOK
<1>12. AddressesResolve
  BY <1>5, LegacyAssumption, IDsOfAddresses DEF AddressesResolve, Resolves, Init
<1>. QED  BY <1>3, <1>5, <1>8, <1>11, <1>12 DEF IInv, Resolved

-----------------------------------------------------------------------------
\* Steps that leave the map of profiles alone, keep what exists in the heap under its ID, and
\* let addresses and calls lead only where there is a profile.
LEMMA ResolvedKept ==
  ASSUME IInv, NEW t \in Threads, NEW c,
         call' = [call EXCEPT ![t] = c], UNCHANGED profiles,
         DOMAIN heap \subseteq DOMAIN heap',
         \A i \in DOMAIN heap : heap'[i].id = heap[i].id,
         \A ip \in IPs : ipTo'[ip] = ipTo[ip] \/ Resolves(ipTo'[ip]),
         c.pc \in {"link", "update", "point"} => c.object \in DOMAIN heap /\ Resolves(heap[c.object].id)
  PROVE  Resolved'
<1>1. \A id \in IDs : Resolves(id)' => heap'[profiles'[id]].id = id
  BY DEF IInv, Resolved, Resolves, TypeOK
<1>2. AddressesResolve'
  BY DEF IInv, Resolved, Resolves, AddressesResolve
<1>3. \A u \in Threads : call'[u].pc \in {"link", "update", "point"} => profiles'[heap'[call'[u].object].id] # None
  <2>. TAKE u \in Threads
  <2>1. CASE u = t
    <3>1. call'[u] = c
      BY <2>1 DEF IInv, TypeOK
    <3>. QED  BY <3>1 DEF Resolves
  <2>2. CASE u # t
    <3>1. call'[u] = call[u]
      BY <2>2 DEF IInv, TypeOK
    <3>. QED  BY <3>1 DEF Resolves, IInv, Resolved, TypeOK
  <2>. QED  BY <2>1, <2>2
<1>. QED  BY <1>1, <1>2, <1>3 DEF Resolved, Resolves

\* What a call holds that is inside Track.
LEMMA Inside ==
  ASSUME IInv, NEW t \in Threads,
         call[t].pc \in {"match", "correlate", "link", "update", "create", "store", "point"}
  PROVE  call[t] \in Tracking
<1>1. call[t] \in {Idle} \cup [pc : {"post", "escalate"}, ip : IPs] \cup Tracking
  BY DEF IInv, TypeOK
<1>2. call[t] # Idle
  BY DEF Idle
<1>3. \A c \in [pc : {"post", "escalate"}, ip : IPs] : c.pc \in {"post", "escalate"}
  OBVIOUS
<1>. QED  BY <1>1, <1>2, <1>3

LEMMA Held ==
  ASSUME IInv, NEW t \in Threads, call[t].pc \in {"link", "update", "store", "point"}
  PROVE  call[t].object \in DOMAIN heap /\ heap[call[t].object] \in Profile
BY DEF IInv, TypeOK

\* A call may be replaced by one that is idle, on its way to the honeypot or inside Track.
LEMMA CallsTyped ==
  ASSUME IInv, NEW t \in Threads, NEW c \in {Idle} \cup [pc : {"post", "escalate"}, ip : IPs] \cup Tracking,
         call' = [call EXCEPT ![t] = c],
         DOMAIN heap \subseteq DOMAIN heap',
         c.pc \in {"link", "update", "store", "point"} => c.object \in DOMAIN heap'
  PROVE  /\ call' \in [Threads -> {Idle} \cup [pc : {"post", "escalate"}, ip : IPs] \cup Tracking]
         /\ \A u \in Threads : call'[u].pc \in {"link", "update", "store", "point"} => call'[u].object \in DOMAIN heap'
<1>1. \A u \in Threads : call'[u] = IF u = t THEN c ELSE call[u]
  BY DEF IInv, TypeOK
<1>2. call' \in [Threads -> {Idle} \cup [pc : {"post", "escalate"}, ip : IPs] \cup Tracking]
  BY DEF IInv, TypeOK
<1>3. \A u \in Threads : call[u].pc \in {"link", "update", "store", "point"} => call[u].object \in DOMAIN heap
  BY DEF IInv, TypeOK
<1>. QED  BY <1>1, <1>2, <1>3

LEMMA ObjectOf ==
  ASSUME IInv, NEW ip \in IPs, ProfileOf(ip) # None
  PROVE  /\ ProfileOf(ip) \in DOMAIN heap /\ heap[ProfileOf(ip)] \in Profile
         /\ Resolves(heap[ProfileOf(ip)].id)
BY DEF IInv, TypeOK, Resolved, Resolves, ProfileOf

LEMMA TrackIInv ==
  ASSUME IInv, NEW t \in Threads, NEW e \in Events, Track(t, e[1], e[2], e[3])
  PROVE  IInv'
<1>. DEFINE ip == e[1]  fp == e[2]  technique == e[3]
            c == [pc |-> IF ProfileOf(ip) = None THEN "match" ELSE "update",
                  ip |-> ip, fp |-> fp, technique |-> technique, object |-> ProfileOf(ip)]
<1>1. ip \in IPs /\ fp \in Fps \cup {None} /\ technique \in Techniques \cup {None}
  BY EventAssumption
<1>2. ProfileOf(ip) \in Nat \cup {None}
  BY <1>1, ObjectOf DEF IInv, TypeOK
<1>3. c \in Tracking
  BY <1>1, <1>2 DEF Tracking
<1>4. c.pc \in {"link", "update", "store", "point"} =>
        c.object \in DOMAIN heap /\ Resolves(heap[c.object].id)
  BY <1>1, ObjectOf
<1>5. call' = [call EXCEPT ![t] = c] /\ UNCHANGED <<heap, profiles, ipTo, fpTo, clock, waits, born, trapped, posted, escalated>>
  BY DEF Track, Goes
<1>6. calls' \in Nat /\ fpIPs' \in [Fps -> SUBSET IPs] /\ used' \in [IPs -> SUBSET (Fps \cup Techniques)]
  BY <1>1 DEF Track, IInv, TypeOK
<1>. HIDE DEF c
<1>7. TypeOK'
  BY <1>3, <1>4, <1>5, <1>6, CallsTyped DEF IInv, TypeOK
<1>8. Resolved'
  BY <1>4, <1>5, ResolvedKept
<1>. QED  BY <1>7, <1>8 DEF IInv

\* Steps that change no more than the call: to one that is typed and leads to a profile.
LEMMA CallIInv ==
  ASSUME IInv, NEW t \in Threads, NEW c \in Tracking, call' = [call EXCEPT ![t] = c],
         c.pc \in {"link", "update", "store", "point"} =>
           c.object \in DOMAIN heap /\ Resolves(heap[c.object].id),
         UNCHANGED <<heap, maps, clock, calls, History>>
  PROVE  IInv'
<1>1. TypeOK'
  BY CallsTyped DEF IInv, TypeOK, maps, History
<1>2. Resolved'
  BY ResolvedKept DEF maps
<1>. QED  BY <1>1, <1>2 DEF IInv

LEMMA ProfileFound ==
  ASSUME IInv, NEW id \in IDs, profiles[id] # None
  PROVE  profiles[id] \in DOMAIN heap /\ profiles[id] \in Nat /\ heap[profiles[id]].id = id
BY DEF IInv, TypeOK, Resolved, Resolves

LEMMA MatchIInv ==
  ASSUME IInv, NEW t \in Threads, MatchFingerprint(t)
  PROVE  IInv'
<1>. DEFINE c == call[t]  id == fpTo[c.fp]
<1>1. c \in Tracking
  BY Inside DEF MatchFingerprint, At
<1>2. UNCHANGED <<heap, maps, clock, calls, History>>
  BY DEF MatchFingerprint
<1>3. CASE Goes(t, [c EXCEPT !.pc = "correlate"])
  <2>1. [c EXCEPT !.pc = "correlate"] \in Tracking /\ [c EXCEPT !.pc = "correlate"].pc = "correlate"
    BY <1>1 DEF Tracking
  <2>. QED  BY <1>2, <1>3, <2>1, CallIInv DEF Goes
<1>4. CASE /\ c.fp # None /\ fpTo[c.fp] # None /\ profiles[id] # None
           /\ Goes(t, [c EXCEPT !.pc = "link", !.object = profiles[id]])
  <2>1. id \in IDs
    BY <1>1, <1>4 DEF Tracking, IInv, TypeOK
  <2>2. profiles[id] \in DOMAIN heap /\ profiles[id] \in Nat /\ heap[profiles[id]].id = id
    BY <1>4, <2>1, ProfileFound
  <2>3. /\ [c EXCEPT !.pc = "link", !.object = profiles[id]] \in Tracking
        /\ [c EXCEPT !.pc = "link", !.object = profiles[id]].object = profiles[id]
    BY <1>1, <2>2 DEF Tracking
  <2>. QED  BY <1>2, <1>4, <2>2, <2>3, CallIInv DEF Goes, Resolves
<1>. QED  BY <1>3, <1>4 DEF MatchFingerprint

LEMMA CorrelateIInv ==
  ASSUME IInv, NEW t \in Threads, CorrelateAdvanced(t)
  PROVE  IInv'
<1>. DEFINE c == call[t]
<1>1. c \in Tracking
  BY Inside DEF CorrelateAdvanced, At
<1>2. UNCHANGED <<heap, maps, clock, calls, History>>
  BY DEF CorrelateAdvanced
<1>3. \/ \E id \in IDs : profiles[id] # None /\ Goes(t, [c EXCEPT !.pc = "link", !.object = profiles[id]])
      \/ Goes(t, [c EXCEPT !.pc = "create", !.object = None])
  <2>. DEFINE active == {i \in {profiles[id] : id \in IDs} \ {None} : heap[i].seen # "old"}
  <2>1. PICK similar \in [active -> {0, 100, 200, 300}], best \in SUBSET active :
           \/ \E i \in best : Goes(t, [c EXCEPT !.pc = "link", !.object = i])
           \/ Goes(t, [c EXCEPT !.pc = "create", !.object = None])
    BY Zenon DEF CorrelateAdvanced
  <2>2. \A i \in active : \E id \in IDs : i = profiles[id] /\ profiles[id] # None
    OBVIOUS
  <2>. QED  BY <2>1, <2>2
<1>4. CASE Goes(t, [c EXCEPT !.pc = "create", !.object = None])
  <2>1. /\ [c EXCEPT !.pc = "create", !.object = None] \in Tracking
        /\ [c EXCEPT !.pc = "create", !.object = None].pc = "create"
    BY <1>1 DEF Tracking
  <2>. QED  BY <1>2, <1>4, <2>1, CallIInv DEF Goes
<1>5. ASSUME NEW id \in IDs, profiles[id] # None,
             Goes(t, [c EXCEPT !.pc = "link", !.object = profiles[id]])
      PROVE  IInv'
  <2>1. profiles[id] \in DOMAIN heap /\ profiles[id] \in Nat /\ heap[profiles[id]].id = id
    BY <1>5, ProfileFound
  <2>2. /\ [c EXCEPT !.pc = "link", !.object = profiles[id]] \in Tracking
        /\ [c EXCEPT !.pc = "link", !.object = profiles[id]].object = profiles[id]
    BY <1>1, <2>1 DEF Tracking
  <2>. QED  BY <1>2, <1>5, <2>1, <2>2, CallIInv DEF Goes, Resolves
<1>. QED  BY <1>3, <1>4, <1>5

LEMMA LinkIInv ==
  ASSUME IInv, NEW t \in Threads, Link(t)
  PROVE  IInv'
<1>. DEFINE c == call[t]  d == [c EXCEPT !.pc = "update"]
<1>1. c \in Tracking /\ c.object \in DOMAIN heap /\ heap[c.object] \in Profile
  BY Inside, Held DEF Link, At
<1>2. Resolves(heap[c.object].id)
  BY DEF IInv, Resolved, Link, At
<1>3. d \in Tracking /\ d.object = c.object
  BY <1>1 DEF Tracking
<1>4. ipTo' = [ipTo EXCEPT ![c.ip] = heap[c.object].id] /\ call' = [call EXCEPT ![t] = d]
      /\ UNCHANGED <<heap, profiles, fpTo, fpIPs, clock, calls, History>>
  BY DEF Link, Goes
<1>5. heap[c.object].id \in IDs
  BY <1>1 DEF Profile
<1>. HIDE DEF d
<1>6. TypeOK'
  BY <1>1, <1>3, <1>4, <1>5, CallsTyped DEF IInv, TypeOK, History
<1>7. \A ip \in IPs : ipTo'[ip] = ipTo[ip] \/ Resolves(ipTo'[ip])
  BY <1>2, <1>4 DEF IInv, TypeOK
<1>8. Resolved'
  BY <1>1, <1>2, <1>3, <1>4, <1>7, ResolvedKept
<1>. QED  BY <1>6, <1>8 DEF IInv

\* What the middleware does after Track.
LEMMA AfterTyped ==
  ASSUME NEW c \in Tracking, NEW p
  PROVE  /\ AfterTrack(c, p) \in {Idle} \cup [pc : {"post", "escalate"}, ip : IPs]
         /\ AfterTrack(c, p).pc \in {"idle", "post"}
BY DEF AfterTrack, Idle, Tracking

LEMMA UpdateIInv ==
  ASSUME IInv, NEW t \in Threads, UpdateProfile(t)
  PROVE  IInv'
<1>. DEFINE c == call[t]  p == heap[c.object]
            ips == AppendNew(p.ips, c.ip)  fps == AppendNew(p.fps, c.fp)
            q == [p EXCEPT !.ips = ips, !.fps = fps, !.seen = "now",
                           !.ttps = p.ttps \cup ({c.technique} \ {None})]
            d == AfterTrack(c, p)
<1>1. c \in Tracking /\ c.object \in DOMAIN heap /\ p \in Profile
  BY Inside, Held DEF UpdateProfile, At
<1>2. Resolves(p.id) /\ p.id \in IDs
  BY <1>1 DEF IInv, Resolved, UpdateProfile, At, Profile
<1>3. /\ heap' = [heap EXCEPT ![c.object] = q]
      /\ ipTo' = IF ips = p.ips THEN ipTo ELSE [ipTo EXCEPT ![c.ip] = p.id]
      /\ fpTo' = IF fps = p.fps THEN fpTo ELSE [fpTo EXCEPT ![c.fp] = p.id]
      /\ call' = [call EXCEPT ![t] = d]
      /\ UNCHANGED <<profiles, fpIPs, clock, calls, History>>
  BY DEF UpdateProfile, Goes
<1>4. ips \in Seq(IPs) /\ fps \in Seq(Fps)
  BY <1>1, AppendNewInSeq DEF Profile, Tracking
<1>5. q \in Profile /\ q.id = p.id
  <2>. HIDE DEF ips, fps, p
  <2>. QED  BY <1>1, <1>4 DEF Profile, Ages, Tracking
<1>6. d \in {Idle} \cup [pc : {"post", "escalate"}, ip : IPs] /\ d.pc \in {"idle", "post"}
  BY <1>1, AfterTyped
<1>7. ipTo' \in [IPs -> IDs \cup {None}]
  BY <1>1, <1>2, <1>3 DEF IInv, TypeOK
<1>8. fpTo' \in [Fps -> IDs \cup {None}]
  BY <1>1, <1>2, <1>3 DEF IInv, TypeOK
<1>. HIDE DEF ips, fps, q, d
<1>9. /\ heap' \in Seq(Profile) /\ DOMAIN heap' = DOMAIN heap
      /\ \A i \in DOMAIN heap : heap'[i].id = heap[i].id
  BY <1>1, <1>3, <1>5 DEF IInv, TypeOK
<1>10. TypeOK'
  BY <1>3, <1>6, <1>7, <1>8, <1>9, CallsTyped DEF IInv, TypeOK, History
<1>11. \A ip \in IPs : ipTo'[ip] = ipTo[ip] \/ Resolves(ipTo'[ip])
  BY <1>2, <1>3 DEF IInv, TypeOK
<1>12. Resolved'
  BY <1>3, <1>6, <1>9, <1>11, ResolvedKept
<1>. QED  BY <1>10, <1>12 DEF IInv

LEMMA CreateIInv ==
  ASSUME IInv, NEW t \in Threads, CreateProfile(t)
  PROVE  IInv'
<1>. DEFINE c == call[t]  fps == IF c.fp = None THEN <<>> ELSE <<c.fp>>
            p == NewProfile(clock', c.ip, fps, "now")
            n == Len(heap) + 1
            d == [c EXCEPT !.pc = "store", !.object = n]
<1>1. c \in Tracking
  BY Inside DEF CreateProfile, At
<1>2. /\ clock' \in 0..MaxClock
      /\ heap' = Append(heap, p)
      /\ fpTo' = IF c.fp = None THEN fpTo ELSE [fpTo EXCEPT ![c.fp] = clock']
      /\ born' = [born EXCEPT ![clock'] = @ \cup {c.ip}]
      /\ call' = [call EXCEPT ![t] = d]
      /\ UNCHANGED <<profiles, ipTo, fpIPs, calls, waits, used, trapped, posted, escalated>>
  BY DEF CreateProfile, Goes
<1>3. clock' \in IDs /\ fps \in Seq(Fps) /\ c.ip \in IPs /\ "now" \in Ages
  BY <1>1, <1>2, IDsOfAddresses DEF Tracking, Ages
<1>4. p \in Profile
  BY <1>3, ProfileMade
<1>. HIDE DEF p
<1>5. /\ heap' \in Seq(Profile) /\ DOMAIN heap \subseteq DOMAIN heap'
      /\ n \in DOMAIN heap' /\ n \in Nat
      /\ \A i \in DOMAIN heap : heap'[i] = heap[i]
  BY <1>2, <1>4 DEF IInv, TypeOK
<1>. HIDE DEF n
<1>6. d \in Tracking /\ d.pc = "store" /\ d.object = n
  BY <1>1, <1>5 DEF Tracking
<1>. HIDE DEF d
<1>7. fpTo' \in [Fps -> IDs \cup {None}] /\ born' \in [IDs -> SUBSET IPs]
  BY <1>1, <1>2, <1>3 DEF IInv, TypeOK, Tracking
<1>8. profiles' \in [IDs -> DOMAIN heap' \cup {None}]
  BY <1>2, <1>5 DEF IInv, TypeOK
<1>9. TypeOK'
  BY <1>2, <1>5, <1>6, <1>7, <1>8, CallsTyped DEF IInv, TypeOK
<1>10. Resolved'
  BY <1>2, <1>5, <1>6, ResolvedKept
<1>. QED  BY <1>9, <1>10 DEF IInv

\* The one step that changes the map: an ID that had no profile gets one, or another one.
LEMMA StoreIInv ==
  ASSUME IInv, NEW t \in Threads, StoreProfile(t)
  PROVE  IInv'
<1>. DEFINE c == call[t]  id == heap[c.object].id  d == [c EXCEPT !.pc = "point"]
<1>1. c \in Tracking /\ c.object \in DOMAIN heap /\ heap[c.object] \in Profile
  BY Inside, Held DEF StoreProfile, At
<1>2. id \in IDs /\ c.object \in Nat /\ c.object # None
  BY <1>1, NoneAssumption DEF Profile, IInv, TypeOK
<1>3. /\ profiles' = [profiles EXCEPT ![id] = c.object]
      /\ call' = [call EXCEPT ![t] = d]
      /\ UNCHANGED <<heap, ipTo, fpTo, fpIPs, clock, calls, History>>
  BY DEF StoreProfile, Goes
<1>4. d \in Tracking /\ d.pc = "point" /\ d.object = c.object
  BY <1>1 DEF Tracking
<1>. HIDE DEF d
<1>5. profiles' \in [IDs -> DOMAIN heap \cup {None}]
  BY <1>1, <1>2, <1>3 DEF IInv, TypeOK
<1>6. TypeOK'
  BY <1>1, <1>3, <1>4, <1>5, CallsTyped DEF IInv, TypeOK, History
<1>7. \A i \in IDs : profiles'[i] = IF i = id THEN c.object ELSE profiles[i]
  BY <1>2, <1>3 DEF IInv, TypeOK
<1>8. \A i \in IDs : profiles[i] # None => profiles'[i] # None
  BY <1>2, <1>7
<1>9. \A i \in IDs : profiles'[i] # None => heap'[profiles'[i]].id = i
  BY <1>3, <1>7 DEF IInv, Resolved, Resolves
<1>10. AddressesResolve'
  BY <1>3, <1>8 DEF IInv, TypeOK, Resolved, AddressesResolve
<1>11. \A u \in Threads : call'[u].pc \in {"link", "update", "point"} => profiles'[heap'[call'[u].object].id] # None
  <2>. TAKE u \in Threads
  <2>1. CASE u = t
    <3>1. call'[u] = d
      BY <1>3, <2>1 DEF IInv, TypeOK
    <3>. QED  BY <1>2, <1>3, <1>4, <1>7, <3>1
  <2>2. CASE u # t
    <3>1. call'[u] = call[u]
      BY <1>3, <2>2 DEF IInv, TypeOK
    <3>2. ASSUME call[u].pc \in {"link", "update", "point"}
          PROVE  heap[call[u].object].id \in IDs /\ profiles[heap[call[u].object].id] # None
      BY <3>2, Held DEF IInv, Resolved, Resolves, Profile
    <3>. QED  BY <1>3, <1>8, <3>1, <3>2
  <2>. QED  BY <2>1, <2>2
<1>12. Resolved'
  BY <1>9, <1>10, <1>11 DEF Resolved, Resolves
<1>. QED  BY <1>6, <1>12 DEF IInv

LEMMA PointIInv ==
  ASSUME IInv, NEW t \in Threads, PointIP(t)
  PROVE  IInv'
<1>. DEFINE c == call[t]  d == AfterTrack(c, heap[c.object])
<1>1. c \in Tracking /\ c.object \in DOMAIN heap /\ heap[c.object] \in Profile
  BY Inside, Held DEF PointIP, At
<1>2. Resolves(heap[c.object].id) /\ heap[c.object].id \in IDs
  BY <1>1 DEF IInv, Resolved, PointIP, At, Profile
<1>3. d \in {Idle} \cup [pc : {"post", "escalate"}, ip : IPs] /\ d.pc \in {"idle", "post"}
  BY <1>1, AfterTyped
<1>4. ipTo' = [ipTo EXCEPT ![c.ip] = heap[c.object].id] /\ call' = [call EXCEPT ![t] = d]
      /\ UNCHANGED <<heap, profiles, fpTo, fpIPs, clock, calls, History>>
  BY DEF PointIP, Goes
<1>. HIDE DEF d
<1>5. TypeOK'
  BY <1>2, <1>3, <1>4, CallsTyped DEF IInv, TypeOK, History
<1>6. \A ip \in IPs : ipTo'[ip] = ipTo[ip] \/ Resolves(ipTo'[ip])
  BY <1>2, <1>4 DEF IInv, TypeOK
<1>7. Resolved'
  BY <1>3, <1>4, <1>6, ResolvedKept
<1>. QED  BY <1>5, <1>7 DEF IInv

\* Steps that change no map, and nothing of a profile but what it counts; the call goes on
\* to where it holds no object.
LEMMA CountIInv ==
  ASSUME IInv, NEW t \in Threads, NEW d \in {Idle} \cup [pc : {"post", "escalate"}, ip : IPs],
         d.pc \in {"idle", "escalate"}, call' = [call EXCEPT ![t] = d],
         heap' \in Seq(Profile), DOMAIN heap' = DOMAIN heap,
         \A i \in DOMAIN heap : heap'[i].id = heap[i].id,
         calls' \in Nat, trapped' \in [IPs -> Nat], posted' \in [IPs -> Nat],
         \A e \in escalated' : e.ip \in IPs,
         UNCHANGED <<maps, clock, waits, used, born>>
  PROVE  IInv'
<1>1. TypeOK'
  BY CallsTyped DEF IInv, TypeOK, maps
<1>2. Resolved'
  BY ResolvedKept DEF maps
<1>. QED  BY <1>1, <1>2 DEF IInv

LEMMA HeapPut ==
  ASSUME NEW h \in Seq(Profile), NEW i \in DOMAIN h, NEW q \in Profile, q.id = h[i].id
  PROVE  /\ [h EXCEPT ![i] = q] \in Seq(Profile) /\ DOMAIN [h EXCEPT ![i] = q] = DOMAIN h
         /\ \A j \in DOMAIN h : [h EXCEPT ![i] = q][j].id = h[j].id
OBVIOUS

LEMMA HeapMapped ==
  ASSUME NEW h \in Seq(Profile), NEW g, DOMAIN g = DOMAIN h, g = [i \in DOMAIN g |-> g[i]],
         \A i \in DOMAIN h : g[i] \in Profile /\ g[i].id = h[i].id
  PROVE  g \in Seq(Profile)
<1>1. g \in [1..Len(h) -> Profile] /\ Len(h) \in Nat
  OBVIOUS
<1>. QED  BY <1>1

LEMMA ProfileCounts ==
  ASSUME NEW q \in Profile
  PROVE  /\ [q EXCEPT !.posts = @ + 1] \in Profile /\ [q EXCEPT !.posts = @ + 1].id = q.id
         /\ [q EXCEPT !.blocks = @ + 1, !.blocked = "lately"] \in Profile
         /\ [q EXCEPT !.blocks = @ + 1, !.blocked = "lately"].id = q.id
<1>1. q.posts + 1 \in Nat /\ q.blocks + 1 \in Nat
  BY DEF Profile
<1>. QED  BY <1>1 DEF Profile, Blocked

LEMMA Caught ==
  ASSUME IInv, NEW t \in Threads, call[t].pc \in {"post", "escalate"}
  PROVE  call[t].ip \in IPs
<1>1. call[t] \in {Idle} \cup [pc : {"post", "escalate"}, ip : IPs] \cup Tracking
  BY DEF IInv, TypeOK
<1>. QED  BY <1>1 DEF Idle, Tracking

LEMMA IdleTyped == Idle \in {Idle} \cup [pc : {"post", "escalate"}, ip : IPs] /\ Idle.pc = "idle"
BY DEF Idle

LEMMA PostIInv ==
  ASSUME IInv, NEW t \in Threads, RecordPostBlockRequest(t)
  PROVE  IInv'
<1>. DEFINE ip == call[t].ip  p == ProfileOf(ip)
            q == [heap[p] EXCEPT !.posts = @ + 1]
<1>1. ip \in IPs
  BY Caught DEF RecordPostBlockRequest, At
<1>2. p # None => p \in DOMAIN heap /\ heap[p] \in Profile
  BY <1>1, ObjectOf
<1>3. /\ heap' = heap \/ (p # None /\ heap' = [heap EXCEPT ![p] = q])
      /\ posted' = posted \/ posted' = [posted EXCEPT ![ip] = @ + 1]
      /\ call' = [call EXCEPT ![t] = Idle]
      /\ UNCHANGED <<maps, clock, calls, waits, used, born, trapped, escalated>>
  BY DEF RecordPostBlockRequest, Goes
<1>. HIDE DEF p
<1>0. p # None => q \in Profile /\ q.id = heap[p].id
  BY <1>2, ProfileCounts
<1>. HIDE DEF q
<1>4. heap' \in Seq(Profile) /\ DOMAIN heap' = DOMAIN heap /\ \A i \in DOMAIN heap : heap'[i].id = heap[i].id
  <2>1. heap \in Seq(Profile)
    BY DEF IInv, TypeOK
  <2>. QED  BY <1>2, <1>3, <1>0, <2>1, HeapPut
<1>5. posted' \in [IPs -> Nat]
  BY <1>1, <1>3 DEF IInv, TypeOK
<1>6. calls \in Nat /\ trapped \in [IPs -> Nat] /\ \A e \in escalated : e.ip \in IPs
  BY DEF IInv, TypeOK
<1>. QED  BY <1>3, <1>4, <1>5, <1>6, IdleTyped, CountIInv

LEMMA BlockIInv ==
  ASSUME IInv, NEW t \in Threads, NEW ip \in Curious, RecordBlock(t, ip)
  PROVE  IInv'
<1>. DEFINE p == ProfileOf(ip)  q == [heap[p] EXCEPT !.blocks = @ + 1, !.blocked = "lately"]
            d == [pc |-> "escalate", ip |-> ip]
<1>1. ip \in IPs
  BY CuriousAssumption
<1>2. p # None => p \in DOMAIN heap /\ heap[p] \in Profile
  BY <1>1, ObjectOf
<1>3. /\ heap' = heap \/ (p # None /\ heap' = [heap EXCEPT ![p] = q])
      /\ trapped' = [trapped EXCEPT ![ip] = @ + 1] /\ calls' = calls + 1
      /\ call' = [call EXCEPT ![t] = d]
      /\ UNCHANGED <<maps, clock, waits, used, born, posted, escalated>>
  BY DEF RecordBlock, Goes
<1>. HIDE DEF p
<1>0. p # None => q \in Profile /\ q.id = heap[p].id
  BY <1>2, ProfileCounts
<1>. HIDE DEF q
<1>4. heap' \in Seq(Profile) /\ DOMAIN heap' = DOMAIN heap /\ \A i \in DOMAIN heap : heap'[i].id = heap[i].id
  <2>1. heap \in Seq(Profile)
    BY DEF IInv, TypeOK
  <2>. QED  BY <1>2, <1>3, <1>0, <2>1, HeapPut
<1>5. trapped' \in [IPs -> Nat] /\ calls' \in Nat
  BY <1>1, <1>3 DEF IInv, TypeOK
<1>6. posted \in [IPs -> Nat] /\ \A e \in escalated : e.ip \in IPs
  BY DEF IInv, TypeOK
<1>7. d \in [pc : {"post", "escalate"}, ip : IPs] /\ d.pc = "escalate"
  BY <1>1
<1>. HIDE DEF d
<1>. QED  BY <1>3, <1>4, <1>5, <1>6, <1>7, CountIInv

LEMMA EscalateIInv ==
  ASSUME IInv, NEW t \in Threads, EscalateBlock(t)
  PROVE  IInv'
<1>. DEFINE ip == call[t].ip
            e == [ip |-> ip, traps |-> Total(trapped, Kin(ip)), posts |-> Total(posted, Kin(ip))]
<1>1. ip \in IPs
  BY Caught DEF EscalateBlock, At
<1>2. escalated' = escalated \/ escalated' = escalated \cup {e}
  BY DEF EscalateBlock
<1>3. call' = [call EXCEPT ![t] = Idle] /\ UNCHANGED <<heap, maps, clock, calls, waits, used, born, trapped, posted>>
  BY DEF EscalateBlock, Goes
<1>4. \A x \in escalated' : x.ip \in IPs
  BY <1>1, <1>2 DEF IInv, TypeOK
<1>5. heap \in Seq(Profile) /\ calls \in Nat /\ trapped \in [IPs -> Nat] /\ posted \in [IPs -> Nat]
  BY DEF IInv, TypeOK
<1>. QED  BY <1>3, <1>4, <1>5, IdleTyped, CountIInv

LEMMA WaitIInv ==
  ASSUME IInv, Wait
  PROVE  IInv'
<1>0. heap \in Seq(Profile) /\ waits \in Nat
  BY DEF IInv, TypeOK
<1>1. /\ heap' \in Seq(Profile) /\ DOMAIN heap' = DOMAIN heap
      /\ \A i \in DOMAIN heap : heap'[i].id = heap[i].id
  <2>1. \A i \in DOMAIN heap :
          /\ [heap[i] EXCEPT !.seen = Older(@)] \in Profile
          /\ [heap[i] EXCEPT !.seen = Older(@)].id = heap[i].id
    <3>. TAKE i \in DOMAIN heap
    <3>1. heap[i] \in Profile
      BY <1>0
    <3>. QED  BY <3>1 DEF Profile, Older, Ages
  <2>2. \A i \in DOMAIN heap :
          LET q == [heap[i] EXCEPT !.seen = "old", !.blocked = IF @ = "never" THEN @ ELSE "before"]
          IN  q \in Profile /\ q.id = heap[i].id
    <3>. TAKE i \in DOMAIN heap
    <3>1. heap[i] \in Profile
      BY <1>0
    <3>. QED  BY <3>1 DEF Profile, Ages, Blocked
  <2>3. CASE heap' = [i \in DOMAIN heap |-> [heap[i] EXCEPT !.seen = Older(@)]]
    BY <1>0, <2>1, <2>3, HeapMapped
  <2>4. CASE heap' = [i \in DOMAIN heap |->
                       [heap[i] EXCEPT !.seen = "old", !.blocked = IF @ = "never" THEN @ ELSE "before"]]
    BY <1>0, <2>2, <2>4, HeapMapped
  <2>. QED  BY <2>3, <2>4 DEF Wait
<1>2. waits' \in Nat /\ UNCHANGED <<maps, clock, call, calls, used, born, trapped, posted, escalated>>
  <2>1. waits' = waits + 1 /\ UNCHANGED <<maps, clock, call, calls, used, born, trapped, posted, escalated>>
    BY Zenon DEF Wait
  <2>. QED  BY <1>0, <2>1
<1>3. TypeOK'
  BY <1>1, <1>2 DEF IInv, TypeOK, maps
<1>4. Resolved'
  BY <1>1, <1>2, Held DEF IInv, TypeOK, Resolved, Resolves, AddressesResolve, maps
<1>. QED  BY <1>3, <1>4 DEF IInv

LEMMA StutterIInv ==
  ASSUME IInv, UNCHANGED vars
  PROVE  IInv'
BY DEF IInv, TypeOK, Resolved, Resolves, AddressesResolve, vars, maps

LEMMA StepIInv == IInv /\ [Next]_vars => IInv'
<1>. SUFFICES ASSUME IInv, [Next]_vars PROVE IInv'
  OBVIOUS
<1>1. ASSUME NEW t \in Threads, Caller(t) PROVE IInv'
  BY <1>1, TrackIInv, MatchIInv, CorrelateIInv, LinkIInv, UpdateIInv, CreateIInv, StoreIInv,
     PointIInv, PostIInv, BlockIInv, EscalateIInv DEF Caller
<1>. QED  BY <1>1, WaitIInv, StutterIInv DEF Next

-----------------------------------------------------------------------------
\* Types: what the maps hold was made, and a call of Track that holds a profile holds one
\* that exists, at every step between which other goroutines run.
THEOREM TypeCorrect == Spec => []TypeOK
<1>1. IInv => TypeOK
  BY DEF IInv
<1>. QED  BY <1>1, InitIInv, StepIInv, PTL DEF Spec

\* However many goroutines track requests at once, and whichever profiles replace each other
\* under the ID of one millisecond: the ID an address leads to has a profile.
THEOREM AddressesAlwaysResolve == Spec => []AddressesResolve
<1>1. IInv => AddressesResolve
  BY DEF IInv, Resolved
<1>. QED  BY <1>1, InitIInv, StepIInv, PTL DEF Spec

-----------------------------------------------------------------------------
(* Who is taken for whom.  A set of addresses is closed when no tie leads  *)
(* out of it.  Of a closed set the invariant says that whatever the maps   *)
(* put together is inside it or outside it as a whole: an address, a       *)
(* fingerprint's claim, a profile, a call that holds one all follow an     *)
(* address that the profile was made for.                                  *)

Closed(S) == \A x, y \in IPs : Tie(x, y) => (x \in S <=> y \in S)

\* Of the addresses B, one that is on x's side of S.
Follows(S, B, x) == \E first \in B : x \in S <=> first \in S

\* An address that has shown v is on the side of one of B.
Shown(S, u, B, v) == \E x \in IPs : v \in u[x] /\ Follows(S, B, x)

OfOneKind(S, u, B, p) ==
  /\ \A i \in DOMAIN p.ips : Follows(S, B, p.ips[i])
  /\ \A i \in DOMAIN p.fps : Shown(S, u, B, p.fps[i])
  /\ \A technique \in p.ttps : Shown(S, u, B, technique)

Respects(S) ==
  /\ \A ip \in IPs : ipTo[ip] # None => Follows(S, born[ipTo[ip]], ip)
  /\ \A fp \in Fps : fpTo[fp] # None => Shown(S, used, born[fpTo[fp]], fp)
  /\ \A i \in DOMAIN heap : OfOneKind(S, used, born[heap[i].id], heap[i])
  /\ \A t \in Threads : call[t].pc \in {"link", "update", "store", "point"} =>
                          Follows(S, born[heap[call[t].object].id], call[t].ip)

\* What a call tracks, its address has shown.
Inner == {"match", "correlate", "link", "update", "create", "store", "point"}
Shows(c) == c.pc \in Inner => {c.fp, c.technique} \ {None} \subseteq used[c.ip]

KinInv == /\ \A t \in Threads : Shows(call[t])
          /\ \A S \in SUBSET IPs : Closed(S) => Respects(S)

-----------------------------------------------------------------------------
\* The history only adds to what ties addresses.
LEMMA ClosedBefore ==
  ASSUME NEW S \in SUBSET IPs, Closed(S)',
         \A ip \in IPs : used[ip] \subseteq used'[ip], \A id \in IDs : born[id] \subseteq born'[id]
  PROVE  Closed(S)
<1>1. ASSUME NEW x \in IPs, NEW y \in IPs, Tie(x, y) PROVE Tie(x, y)'
  <2>1. CASE Net16[x] = Net16[y]
    BY <2>1 DEF Tie
  <2>2. CASE used[x] \cap used[y] # {}
    <3>1. used'[x] \cap used'[y] # {}
      BY <2>2
    <3>. QED  BY <3>1 DEF Tie
  <2>3. CASE \E f \in used[x] \cap Fps, g \in used[y] \cap Fps : Family[f] = Family[g]
    <3>1. \E f \in used'[x] \cap Fps, g \in used'[y] \cap Fps : Family[f] = Family[g]
      BY <2>3
    <3>. QED  BY <3>1 DEF Tie
  <2>4. CASE \E id \in IDs : {x, y} \subseteq born[id]
    <3>1. \E id \in IDs : {x, y} \subseteq born'[id]
      BY <2>4
    <3>. QED  BY <3>1 DEF Tie
  <2>. QED  BY <1>1, <2>1, <2>2, <2>3, <2>4 DEF Tie
<1>. QED  BY <1>1 DEF Closed

LEMMA FollowsMore ==
  ASSUME NEW S, NEW B, NEW C, B \subseteq C, NEW x, Follows(S, B, x)
  PROVE  Follows(S, C, x)
BY DEF Follows

LEMMA ShownMore ==
  ASSUME NEW S, NEW u, NEW w, NEW B, NEW C, NEW v, B \subseteq C,
         \A x \in IPs : u[x] \subseteq w[x], Shown(S, u, B, v)
  PROVE  Shown(S, w, C, v)
BY FollowsMore DEF Shown

LEMMA KindMore ==
  ASSUME NEW S, NEW u, NEW w, NEW B, NEW C, NEW p, NEW q, B \subseteq C,
         \A x \in IPs : u[x] \subseteq w[x], OfOneKind(S, u, B, p),
         q.ips = p.ips, q.fps = p.fps, q.ttps = p.ttps
  PROVE  OfOneKind(S, w, C, q)
BY FollowsMore, ShownMore DEF OfOneKind

\* In a closed set an address follows whoever shares something with it.
LEMMA TiedFollows ==
  ASSUME NEW S \in SUBSET IPs, Closed(S), NEW x \in IPs, NEW y \in IPs, Tie(x, y),
         NEW B, Follows(S, B, x)
  PROVE  Follows(S, B, y)
BY DEF Closed, Follows

LEMMA SharedFollows ==
  ASSUME NEW S \in SUBSET IPs, Closed(S), NEW y \in IPs, NEW B, NEW v \in used[y], Shown(S, used, B, v)
  PROVE  Follows(S, B, y)
<1>1. PICK x \in IPs : v \in used[x] /\ Follows(S, B, x)
  BY DEF Shown
<1>2. Tie(x, y)
  BY <1>1 DEF Tie
<1>. QED  BY <1>1, <1>2, TiedFollows

-----------------------------------------------------------------------------
(* A profile that scores enough has something in common with the address.  *)

\* Recency and what is left open are not enough.
LEMMA NothingInCommon ==
  ASSUME NEW p, NEW similar \in {0, 100, 200, 300},
         NEW ip, NEW fp, NEW technique,
         SubnetScore(ip, p) = 0, FingerprintScore(fp, p) = 0, TechniqueScore(technique, p) = 0
  PROVE  ~Enough(Score(ip, fp, technique, similar, p))
<1>1. RecencyScore(p) \in {0, 100, 200}
  BY DEF RecencyScore
<1>. QED  BY <1>1 DEF Enough, Score

LEMMA EnoughFollows ==
  ASSUME IInv, NEW S \in SUBSET IPs, Closed(S), NEW B, NEW p \in Profile, OfOneKind(S, used, B, p),
         NEW ip \in IPs, NEW fp \in Fps \cup {None}, NEW technique \in Techniques \cup {None},
         {fp, technique} \ {None} \subseteq used[ip],
         NEW similar \in {0, 100, 200, 300}, Enough(Score(ip, fp, technique, similar, p))
  PROVE  Follows(S, B, ip)
<1>1. CASE SubnetScore(ip, p) # 0
  <2>1. PICK i \in DOMAIN p.ips : p.ips[i] \in IPs /\ Net16[p.ips[i]] = Net16[ip]
    BY <1>1 DEF SubnetScore
  <2>2. Tie(p.ips[i], ip)
    BY <2>1 DEF Tie
  <2>. QED  BY <2>1, <2>2, TiedFollows DEF OfOneKind
<1>2. CASE FingerprintScore(fp, p) # 0
  <2>1. fp # None
    BY <1>2 DEF FingerprintScore
  <2>2. PICK i \in DOMAIN p.fps : p.fps[i] \in Fps /\ Family[p.fps[i]] = Family[fp]
    BY <1>2, <2>1 DEF FingerprintScore
  <2>3. PICK x \in IPs : p.fps[i] \in used[x] /\ Follows(S, B, x)
    BY <2>2 DEF OfOneKind, Shown
  <2>4. fp \in used[ip] \cap Fps /\ p.fps[i] \in used[x] \cap Fps
    BY <2>1, <2>2, <2>3
  <2>5. Tie(x, ip)
    BY <2>2, <2>4 DEF Tie
  <2>. QED  BY <2>3, <2>5, TiedFollows
<1>3. CASE TechniqueScore(technique, p) # 0
  <2>1. technique # None /\ technique \in p.ttps
    BY <1>3 DEF TechniqueScore
  <2>2. technique \in used[ip] /\ Shown(S, used, B, technique)
    BY <2>1 DEF OfOneKind
  <2>. QED  BY <2>2, SharedFollows
<1>. QED  BY <1>1, <1>2, <1>3, NothingInCommon

-----------------------------------------------------------------------------
LEMMA IDsTyped == ASSUME IInv PROVE \A i \in DOMAIN heap : heap[i] \in Profile /\ heap[i].id \in IDs
<1>1. heap \in Seq(Profile)
  BY DEF IInv, TypeOK
<1>2. \A p \in Profile : p.id \in IDs
  BY DEF Profile
<1>. QED  BY <1>1, <1>2

\* What a step of a call may do to the maps without putting strangers together.
LEMMA RespectsKept ==
  ASSUME IInv, NEW S \in SUBSET IPs, Respects(S), NEW t \in Threads, NEW c,
         call' = [call EXCEPT ![t] = c],
         \A ip \in IPs : used[ip] \subseteq used'[ip], \A id \in IDs : born[id] \subseteq born'[id],
         \A ip \in IPs : ipTo'[ip] = ipTo[ip] \/ Follows(S, born'[ipTo'[ip]], ip),
         \A fp \in Fps : fpTo'[fp] = fpTo[fp] \/ Shown(S, used', born'[fpTo'[fp]], fp),
         DOMAIN heap \subseteq DOMAIN heap',
         \A i \in DOMAIN heap : heap'[i].id = heap[i].id,
         \A i \in DOMAIN heap' :
           \/ /\ i \in DOMAIN heap
              /\ heap'[i].ips = heap[i].ips /\ heap'[i].fps = heap[i].fps /\ heap'[i].ttps = heap[i].ttps
           \/ OfOneKind(S, used', born'[heap'[i].id], heap'[i]),
         c.pc \in {"link", "update", "store", "point"} => Follows(S, born'[heap'[c.object].id], c.ip)
  PROVE  Respects(S)'
<1>0. \A i \in DOMAIN heap : heap[i].id \in IDs
  BY IDsTyped
<1>1. ASSUME NEW ip \in IPs, ipTo'[ip] # None PROVE Follows(S, born'[ipTo'[ip]], ip)
  <2>1. CASE ipTo'[ip] = ipTo[ip]
    <3>1. ipTo[ip] \in IDs /\ Follows(S, born[ipTo[ip]], ip)
      BY <1>1, <2>1 DEF Respects, IInv, TypeOK
    <3>. QED  BY <2>1, <3>1, FollowsMore
  <2>. QED  BY <2>1
<1>2. ASSUME NEW fp \in Fps, fpTo'[fp] # None PROVE Shown(S, used', born'[fpTo'[fp]], fp)
  <2>1. CASE fpTo'[fp] = fpTo[fp]
    <3>1. fpTo[fp] \in IDs /\ Shown(S, used, born[fpTo[fp]], fp)
      BY <1>2, <2>1 DEF Respects, IInv, TypeOK
    <3>2. born[fpTo[fp]] \subseteq born'[fpTo[fp]]
      BY <3>1
    <3>. QED  BY <2>1, <3>1, <3>2, ShownMore
  <2>. QED  BY <2>1
<1>3. ASSUME NEW i \in DOMAIN heap' PROVE OfOneKind(S, used', born'[heap'[i].id], heap'[i])
  <2>1. CASE /\ i \in DOMAIN heap
             /\ heap'[i].ips = heap[i].ips /\ heap'[i].fps = heap[i].fps /\ heap'[i].ttps = heap[i].ttps
    <3>1. OfOneKind(S, used, born[heap[i].id], heap[i])
      BY <2>1 DEF Respects
    <3>2. born[heap[i].id] \subseteq born'[heap'[i].id]
      BY <1>0, <2>1
    <3>. QED  BY <2>1, <3>1, <3>2, KindMore
  <2>. QED  BY <2>1
<1>4. ASSUME NEW u \in Threads, call'[u].pc \in {"link", "update", "store", "point"}
      PROVE  Follows(S, born'[heap'[call'[u].object].id], call'[u].ip)
  <2>1. CASE u = t
    BY <1>4, <2>1 DEF IInv, TypeOK
  <2>2. CASE u # t
    <3>1. call'[u] = call[u]
      BY <2>2 DEF IInv, TypeOK
    <3>2. call[u].object \in DOMAIN heap /\ Follows(S, born[heap[call[u].object].id], call[u].ip)
      BY <1>4, <3>1, Held DEF Respects
    <3>3. born[heap[call[u].object].id] \subseteq born'[heap'[call[u].object].id]
      BY <1>0, <3>2
    <3>. QED  BY <3>1, <3>2, <3>3, FollowsMore
  <2>. QED  BY <2>1, <2>2
<1>. QED  BY <1>1, <1>2, <1>3, <1>4 DEF Respects

LEMMA ShowsKept ==
  ASSUME IInv, KinInv, NEW t \in Threads, NEW c, call' = [call EXCEPT ![t] = c],
         \A ip \in IPs : used[ip] \subseteq used'[ip],
         c.pc \in Inner => {c.fp, c.technique} \ {None} \subseteq used'[c.ip]
  PROVE  \A u \in Threads : Shows(call[u])'
<1>. SUFFICES ASSUME NEW u \in Threads, call'[u].pc \in Inner
              PROVE  {call'[u].fp, call'[u].technique} \ {None} \subseteq used'[call'[u].ip]
  BY DEF Shows
<1>1. CASE u = t
  BY <1>1 DEF IInv, TypeOK
<1>2. CASE u # t
  <2>1. call'[u] = call[u]
    BY <1>2 DEF IInv, TypeOK
  <2>2. call[u].ip \in IPs /\ {call[u].fp, call[u].technique} \ {None} \subseteq used[call[u].ip]
    BY <2>1, Inside DEF KinInv, Shows, Inner, Tracking
  <2>. QED  BY <2>1, <2>2
<1>. QED  BY <1>1, <1>2

\* The history only grows, so a set that is closed after the step was closed before.
LEMMA KinKept ==
  ASSUME IInv, KinInv, NEW t \in Threads, NEW c, call' = [call EXCEPT ![t] = c],
         \A ip \in IPs : used[ip] \subseteq used'[ip], \A id \in IDs : born[id] \subseteq born'[id],
         c.pc \in Inner => {c.fp, c.technique} \ {None} \subseteq used'[c.ip],
         \A S \in SUBSET IPs : Closed(S) /\ Closed(S)' /\ Respects(S) => Respects(S)'
  PROVE  KinInv'
<1>1. \A u \in Threads : Shows(call[u])'
  BY ShowsKept
<1>2. ASSUME NEW S \in SUBSET IPs, Closed(S)' PROVE Respects(S)'
  <2>1. Closed(S)
    BY <1>2, ClosedBefore
  <2>. QED  BY <1>2, <2>1 DEF KinInv
<1>. QED  BY <1>1, <1>2 DEF KinInv

LEMMA TrackKin ==
  ASSUME IInv, KinInv, NEW t \in Threads, NEW e \in Events, Track(t, e[1], e[2], e[3])
  PROVE  KinInv'
<1>. DEFINE ip == e[1]  fp == e[2]  technique == e[3]
            c == [pc |-> IF ProfileOf(ip) = None THEN "match" ELSE "update",
                  ip |-> ip, fp |-> fp, technique |-> technique, object |-> ProfileOf(ip)]
<1>1. ip \in IPs
  BY EventAssumption
<1>2. /\ call' = [call EXCEPT ![t] = c] /\ UNCHANGED <<heap, profiles, ipTo, fpTo, born>>
      /\ used' = [used EXCEPT ![ip] = @ \cup ({fp, technique} \ {None})]
  BY DEF Track, Goes
<1>3. /\ \A x \in IPs : used[x] \subseteq used'[x]
      /\ {fp, technique} \ {None} \subseteq used'[ip]
  BY <1>1, <1>2 DEF IInv, TypeOK
<1>4. c.ip = ip /\ c.fp = fp /\ c.technique = technique /\ c.object = ProfileOf(ip)
      /\ (c.pc \in {"link", "update", "store", "point"} => ProfileOf(ip) # None)
  OBVIOUS
<1>5. ASSUME NEW S \in SUBSET IPs, Respects(S), ProfileOf(ip) # None
      PROVE  Follows(S, born'[heap'[ProfileOf(ip)].id], ip)
  <2>1. ipTo[ip] # None /\ heap[ProfileOf(ip)].id = ipTo[ip]
    BY <1>1, <1>5, ProfileFound DEF ProfileOf, IInv, TypeOK
  <2>. QED  BY <1>1, <1>2, <1>5, <2>1 DEF Respects
<1>. HIDE DEF c, ip, fp, technique
<1>6. ASSUME NEW S \in SUBSET IPs, Closed(S), Closed(S)', Respects(S) PROVE Respects(S)'
  <2>1. c.pc \in {"link", "update", "store", "point"} => Follows(S, born'[heap'[c.object].id], c.ip)
    BY <1>4, <1>5, <1>6
  <2>. QED  BY <1>2, <1>3, <1>6, <2>1, RespectsKept
<1>7. c.pc \in Inner => {c.fp, c.technique} \ {None} \subseteq used'[c.ip]
  BY <1>3, <1>4
<1>. QED  BY <1>2, <1>3, <1>6, <1>7, KinKept

\* Steps that change no more than the call of a goroutine inside Track.
LEMMA CallKin ==
  ASSUME IInv, KinInv, NEW t \in Threads, NEW c, call' = [call EXCEPT ![t] = c],
         UNCHANGED <<heap, maps, clock, calls, History>>,
         call[t].pc \in Inner,
         c.ip = call[t].ip, c.fp = call[t].fp, c.technique = call[t].technique,
         \A S \in SUBSET IPs : Closed(S) /\ Respects(S) /\ c.pc \in {"link", "update", "store", "point"} =>
           Follows(S, born[heap[c.object].id], c.ip)
  PROVE  KinInv'
<1>1. {c.fp, c.technique} \ {None} \subseteq used'[c.ip]
  BY DEF KinInv, Shows, History
<1>2. UNCHANGED <<heap, profiles, ipTo, fpTo, used, born>>
  BY DEF maps, History
<1>3. ASSUME NEW S \in SUBSET IPs, Closed(S), Closed(S)', Respects(S) PROVE Respects(S)'
  <2>1. c.pc \in {"link", "update", "store", "point"} => Follows(S, born'[heap'[c.object].id], c.ip)
    BY <1>2, <1>3
  <2>. QED  BY <1>2, <1>3, <2>1, RespectsKept
<1>. QED  BY <1>1, <1>2, <1>3, KinKept

LEMMA MatchKin ==
  ASSUME IInv, KinInv, NEW t \in Threads, MatchFingerprint(t)
  PROVE  KinInv'
<1>. DEFINE c == call[t]  id == fpTo[c.fp]
<1>1. c \in Tracking /\ c.pc \in Inner /\ UNCHANGED <<heap, maps, clock, calls, History>>
  BY Inside DEF MatchFingerprint, At, Inner
<1>2. c.ip \in IPs /\ c.fp \in Fps \cup {None} /\ {c.fp, c.technique} \ {None} \subseteq used[c.ip]
  BY <1>1 DEF KinInv, Shows, Tracking
<1>3. CASE Goes(t, [c EXCEPT !.pc = "correlate"])
  <2>. DEFINE d == [c EXCEPT !.pc = "correlate"]
  <2>1. d.pc = "correlate" /\ d.ip = c.ip /\ d.fp = c.fp /\ d.technique = c.technique
    BY <1>1 DEF Tracking
  <2>2. call' = [call EXCEPT ![t] = d]
    BY <1>3 DEF Goes
  <2>. HIDE DEF d
  <2>. QED  BY <1>1, <2>1, <2>2, CallKin
<1>4. CASE /\ c.fp # None /\ fpTo[c.fp] # None /\ profiles[id] # None
           /\ Goes(t, [c EXCEPT !.pc = "link", !.object = profiles[id]])
  <2>. DEFINE d == [c EXCEPT !.pc = "link", !.object = profiles[id]]
  <2>1. c.fp \in Fps /\ id \in IDs /\ heap[profiles[id]].id = id
    BY <1>2, <1>4, ProfileFound DEF IInv, TypeOK
  <2>2. d.object = profiles[id] /\ d.ip = c.ip /\ d.fp = c.fp /\ d.technique = c.technique
    BY <1>1 DEF Tracking
  <2>3. call' = [call EXCEPT ![t] = d]
    BY <1>4 DEF Goes
  <2>4. ASSUME NEW S \in SUBSET IPs, Closed(S), Respects(S) PROVE Follows(S, born[id], c.ip)
    <3>1. Shown(S, used, born[id], c.fp)
      BY <1>4, <2>1, <2>4 DEF Respects
    <3>2. c.fp \in used[c.ip]
      BY <1>2, <1>4
    <3>. QED  BY <1>2, <2>4, <3>1, <3>2, SharedFollows
  <2>. HIDE DEF d
  <2>5. \A S \in SUBSET IPs : Closed(S) /\ Respects(S) /\ d.pc \in {"link", "update", "store", "point"} =>
          Follows(S, born[heap[d.object].id], d.ip)
    BY <2>1, <2>2, <2>4
  <2>. QED  BY <1>1, <2>2, <2>3, <2>5, CallKin
<1>. QED  BY <1>3, <1>4 DEF MatchFingerprint

LEMMA CorrelateKin ==
  ASSUME IInv, KinInv, NEW t \in Threads, CorrelateAdvanced(t)
  PROVE  KinInv'
<1>. DEFINE c == call[t]
            Chosen(id, similar) ==
              /\ profiles[id] # None
              /\ Enough(Score(c.ip, c.fp, c.technique, similar, heap[profiles[id]]))
              /\ Goes(t, [c EXCEPT !.pc = "link", !.object = profiles[id]])
<1>1. c \in Tracking /\ c.pc \in Inner /\ UNCHANGED <<heap, maps, clock, calls, History>>
  BY Inside DEF CorrelateAdvanced, At, Inner
<1>2. /\ c.ip \in IPs /\ c.fp \in Fps \cup {None} /\ c.technique \in Techniques \cup {None}
      /\ {c.fp, c.technique} \ {None} \subseteq used[c.ip]
  BY <1>1 DEF KinInv, Shows, Tracking
<1>3. \/ \E id \in IDs, similar \in {0, 100, 200, 300} : Chosen(id, similar)
      \/ Goes(t, [c EXCEPT !.pc = "create", !.object = None])
  <2>. DEFINE active == {i \in {profiles[id] : id \in IDs} \ {None} : heap[i].seen # "old"}
              points(similar) == [i \in active |-> Score(c.ip, c.fp, c.technique, similar[i], heap[i])]
              best(similar) == {i \in active : /\ Enough(points(similar)[i])
                                               /\ \A j \in active : points(similar)[j] <= points(similar)[i]}
  <2>1. PICK similar \in [active -> {0, 100, 200, 300}] :
           \/ \E i \in best(similar) : Goes(t, [c EXCEPT !.pc = "link", !.object = i])
           \/ Goes(t, [c EXCEPT !.pc = "create", !.object = None])
    BY Zenon DEF CorrelateAdvanced
  <2>2. \A i \in active : \E id \in IDs : i = profiles[id] /\ profiles[id] # None
    OBVIOUS
  <2>3. \A i \in best(similar) :
          /\ i \in active /\ similar[i] \in {0, 100, 200, 300}
          /\ Enough(Score(c.ip, c.fp, c.technique, similar[i], heap[i]))
    OBVIOUS
  <2>4. ASSUME NEW i \in best(similar), Goes(t, [c EXCEPT !.pc = "link", !.object = i])
        PROVE  \E id \in IDs, any \in {0, 100, 200, 300} : Chosen(id, any)
    <3>1. PICK id \in IDs : i = profiles[id] /\ profiles[id] # None
      BY <2>2, <2>3
    <3>2. Chosen(id, similar[i])
      BY <2>3, <2>4, <3>1
    <3>. HIDE DEF Chosen, best
    <3>. QED  BY <2>3, <3>2
  <2>. HIDE DEF Chosen, best
  <2>. QED  BY <2>1, <2>4
<1>4. CASE Goes(t, [c EXCEPT !.pc = "create", !.object = None])
  <2>. DEFINE d == [c EXCEPT !.pc = "create", !.object = None]
  <2>1. d.pc = "create" /\ d.ip = c.ip /\ d.fp = c.fp /\ d.technique = c.technique
    BY <1>1 DEF Tracking
  <2>2. call' = [call EXCEPT ![t] = d]
    BY <1>4 DEF Goes
  <2>. HIDE DEF d
  <2>. QED  BY <1>1, <2>1, <2>2, CallKin
<1>5. ASSUME NEW id \in IDs, NEW similar \in {0, 100, 200, 300}, Chosen(id, similar)
      PROVE  KinInv'
  <2>. DEFINE d == [c EXCEPT !.pc = "link", !.object = profiles[id]]
  <2>1. profiles[id] \in DOMAIN heap /\ heap[profiles[id]] \in Profile
    BY <1>5, ProfileFound DEF IInv, TypeOK
  <2>2. d.object = profiles[id] /\ d.ip = c.ip /\ d.fp = c.fp /\ d.technique = c.technique
    BY <1>1 DEF Tracking
  <2>3. call' = [call EXCEPT ![t] = d]
    BY <1>5 DEF Goes
  <2>4. ASSUME NEW S \in SUBSET IPs, Closed(S), Respects(S)
        PROVE  Follows(S, born[heap[profiles[id]].id], c.ip)
    <3>1. OfOneKind(S, used, born[heap[profiles[id]].id], heap[profiles[id]])
      BY <2>1, <2>4 DEF Respects
    <3>. QED  BY <1>2, <1>5, <2>1, <2>4, <3>1, EnoughFollows
  <2>. HIDE DEF d
  <2>5. \A S \in SUBSET IPs : Closed(S) /\ Respects(S) /\ d.pc \in {"link", "update", "store", "point"} =>
          Follows(S, born[heap[d.object].id], d.ip)
    BY <2>2, <2>4
  <2>. QED  BY <1>1, <2>2, <2>3, <2>5, CallKin
<1>. HIDE DEF Chosen
<1>. QED  BY <1>3, <1>4, <1>5

LEMMA LinkKin ==
  ASSUME IInv, KinInv, NEW t \in Threads, Link(t)
  PROVE  KinInv'
<1>. DEFINE c == call[t]  d == [c EXCEPT !.pc = "update"]
<1>1. c \in Tracking /\ c.object \in DOMAIN heap /\ c.pc = "link"
  BY Inside, Held DEF Link, At
<1>2. d.object = c.object /\ d.ip = c.ip /\ d.fp = c.fp /\ d.technique = c.technique
  BY <1>1 DEF Tracking
<1>3. /\ ipTo' = [ipTo EXCEPT ![c.ip] = heap[c.object].id] /\ call' = [call EXCEPT ![t] = d]
      /\ UNCHANGED <<heap, profiles, fpTo, used, born>>
  BY DEF Link, Goes, History
<1>4. {d.fp, d.technique} \ {None} \subseteq used'[d.ip]
  BY <1>1, <1>2, <1>3 DEF KinInv, Shows, Inner
<1>. HIDE DEF d
<1>5. ASSUME NEW S \in SUBSET IPs, Respects(S) PROVE Respects(S)'
  <2>1. Follows(S, born'[heap'[c.object].id], c.ip)
    BY <1>1, <1>3, <1>5 DEF Respects
  <2>2. \A ip \in IPs : ipTo'[ip] = ipTo[ip] \/ Follows(S, born'[ipTo'[ip]], ip)
    BY <1>3, <2>1 DEF IInv, TypeOK
  <2>. QED  BY <1>2, <1>3, <1>5, <2>1, <2>2, RespectsKept
<1>. QED  BY <1>3, <1>4, <1>5, KinKept

\* What is in a list after AppendNew was there before or is what was appended.
LEMMA AppendedFrom ==
  ASSUME NEW V, NEW s \in Seq(V), NEW x, NEW i \in DOMAIN AppendNew(s, x)
  PROVE  \/ \E j \in DOMAIN s : AppendNew(s, x)[i] = s[j]
         \/ x # None /\ AppendNew(s, x)[i] = x
<1>1. CASE x = None \/ \E j \in DOMAIN s : s[j] = x
  BY <1>1 DEF AppendNew
<1>2. CASE ~(x = None \/ \E j \in DOMAIN s : s[j] = x)
  <2>1. AppendNew(s, x) = Append(s, x) /\ x # None
    BY <1>2 DEF AppendNew
  <2>2. s \in Seq(V \cup {x})
    OBVIOUS
  <2>3. /\ DOMAIN Append(s, x) = 1..(Len(s) + 1) /\ Len(s) \in Nat /\ DOMAIN s = 1..Len(s)
        /\ Append(s, x)[Len(s) + 1] = x
        /\ \A j \in 1..Len(s) : Append(s, x)[j] = s[j]
    BY <2>2
  <2>4. i \in 1..Len(s) \/ i = Len(s) + 1
    BY <2>1, <2>3
  <2>. QED  BY <2>1, <2>3, <2>4
<1>. QED  BY <1>1, <1>2

LEMMA UpdateKin ==
  ASSUME IInv, KinInv, NEW t \in Threads, UpdateProfile(t)
  PROVE  KinInv'
<1>. DEFINE c == call[t]  p == heap[c.object]
            ips == AppendNew(p.ips, c.ip)  fps == AppendNew(p.fps, c.fp)
            ttps == p.ttps \cup ({c.technique} \ {None})
            q == [p EXCEPT !.ips = ips, !.fps = fps, !.seen = "now", !.ttps = ttps]
            d == AfterTrack(c, p)
<1>1. c \in Tracking /\ c.object \in DOMAIN heap /\ p \in Profile /\ c.pc = "update"
  BY Inside, Held DEF UpdateProfile, At
<1>2. p.id \in IDs /\ p.ips \in Seq(IPs) /\ p.fps \in Seq(Fps) /\ c.ip \in IPs
  BY <1>1 DEF Profile, Tracking
<1>3. {c.fp, c.technique} \ {None} \subseteq used[c.ip]
  BY <1>1 DEF KinInv, Shows, Inner
<1>4. /\ heap' = [heap EXCEPT ![c.object] = q]
      /\ ipTo' = IF ips = p.ips THEN ipTo ELSE [ipTo EXCEPT ![c.ip] = p.id]
      /\ fpTo' = IF fps = p.fps THEN fpTo ELSE [fpTo EXCEPT ![c.fp] = p.id]
      /\ call' = [call EXCEPT ![t] = d]
      /\ UNCHANGED <<profiles, used, born>>
  BY DEF UpdateProfile, Goes, History
<1>5. d.pc \in {"idle", "post"}
  BY <1>1, AfterTyped
<1>6. q.id = p.id /\ q.ips = ips /\ q.fps = fps /\ q.ttps = ttps
  <2>. HIDE DEF p, ips, fps, ttps
  <2>. QED  BY <1>1 DEF Profile
<1>7. fps # p.fps => c.fp # None
  BY DEF AppendNew
<1>. HIDE DEF q, d
<1>8. /\ DOMAIN heap' = DOMAIN heap /\ heap'[c.object] = q
      /\ \A i \in DOMAIN heap : heap'[i].id = heap[i].id /\ (i # c.object => heap'[i] = heap[i])
  BY <1>1, <1>4, <1>6
<1>9. ASSUME NEW S \in SUBSET IPs, Respects(S) PROVE Respects(S)'
  <2>. DEFINE B == born[p.id]
  <2>1. OfOneKind(S, used, B, p) /\ Follows(S, B, c.ip)
    BY <1>1, <1>9 DEF Respects
  <2>2. c.fp # None => Shown(S, used, B, c.fp)
    BY <1>2, <1>3, <2>1 DEF Shown
  <2>3. c.technique # None => Shown(S, used, B, c.technique)
    BY <1>2, <1>3, <2>1 DEF Shown
  <2>4. OfOneKind(S, used, B, q)
    <3>1. \A i \in DOMAIN ips : Follows(S, B, ips[i])
      <4>. HIDE DEF B
      <4>. QED  BY <1>2, <2>1, AppendedFrom DEF OfOneKind
    <3>2. \A i \in DOMAIN fps : Shown(S, used, B, fps[i])
      <4>. HIDE DEF B
      <4>. QED  BY <1>2, <2>1, <2>2, AppendedFrom DEF OfOneKind
    <3>3. \A technique \in ttps : Shown(S, used, B, technique)
      <4>. HIDE DEF B
      <4>. QED  BY <2>1, <2>3 DEF OfOneKind
    <3>. HIDE DEF B, ips, fps, ttps
    <3>. QED  BY <1>6, <3>1, <3>2, <3>3 DEF OfOneKind
  <2>5. \A ip \in IPs : ipTo'[ip] = ipTo[ip] \/ Follows(S, born'[ipTo'[ip]], ip)
    <3>. HIDE DEF ips
    <3>. QED  BY <1>2, <1>4, <2>1 DEF IInv, TypeOK
  <2>6. \A fp \in Fps : fpTo'[fp] = fpTo[fp] \/ Shown(S, used', born'[fpTo'[fp]], fp)
    <3>. HIDE DEF fps
    <3>. QED  BY <1>2, <1>4, <1>7, <2>2 DEF IInv, TypeOK
  <2>7. \A i \in DOMAIN heap' :
          \/ /\ i \in DOMAIN heap
             /\ heap'[i].ips = heap[i].ips /\ heap'[i].fps = heap[i].fps /\ heap'[i].ttps = heap[i].ttps
          \/ OfOneKind(S, used', born'[heap'[i].id], heap'[i])
    BY <1>4, <1>6, <1>8, <2>4
  <2>. QED  BY <1>4, <1>5, <1>8, <1>9, <2>5, <2>6, <2>7, RespectsKept
<1>. QED  BY <1>4, <1>5, <1>9, KinKept DEF Inner

LEMMA CreateKin ==
  ASSUME IInv, KinInv, NEW t \in Threads, CreateProfile(t)
  PROVE  KinInv'
<1>. DEFINE c == call[t]  fps == IF c.fp = None THEN <<>> ELSE <<c.fp>>
            p == NewProfile(clock', c.ip, fps, "now")
            n == Len(heap) + 1
            d == [c EXCEPT !.pc = "store", !.object = n]
<1>1. c \in Tracking /\ c.ip \in IPs /\ c.pc = "create"
  BY Inside DEF CreateProfile, At, Tracking
<1>2. /\ clock' \in IDs
      /\ heap' = Append(heap, p)
      /\ fpTo' = IF c.fp = None THEN fpTo ELSE [fpTo EXCEPT ![c.fp] = clock']
      /\ born' = [born EXCEPT ![clock'] = @ \cup {c.ip}]
      /\ call' = [call EXCEPT ![t] = d]
      /\ UNCHANGED <<profiles, ipTo, used>>
  BY IDsOfAddresses DEF CreateProfile, Goes
<1>3. {c.fp, c.technique} \ {None} \subseteq used[c.ip]
  BY <1>1 DEF KinInv, Shows, Inner
<1>4. d.object = n /\ d.ip = c.ip /\ d.fp = c.fp /\ d.technique = c.technique
  BY <1>1 DEF Tracking
<1>5. p.id = clock' /\ p.ips = <<c.ip>> /\ p.fps = fps /\ p.ttps = {}
  BY DEF NewProfile
<1>. HIDE DEF p, d
<1>6. /\ DOMAIN heap \subseteq DOMAIN heap' /\ DOMAIN heap' = DOMAIN heap \cup {n} /\ heap'[n] = p
      /\ \A i \in DOMAIN heap : heap'[i] = heap[i]
  BY <1>2 DEF IInv, TypeOK
<1>7. c.ip \in born'[clock'] /\ \A id \in IDs : born[id] \subseteq born'[id]
  BY <1>2 DEF IInv, TypeOK
<1>. HIDE DEF n
<1>8. ASSUME NEW S \in SUBSET IPs, Respects(S) PROVE Respects(S)'
  <2>. DEFINE B == born'[clock']
  <2>1. Follows(S, B, c.ip)
    BY <1>7 DEF Follows
  <2>2. c.fp # None => Shown(S, used', B, c.fp)
    BY <1>1, <1>2, <1>3, <2>1 DEF Shown
  <2>3. OfOneKind(S, used', B, p)
    <3>. HIDE DEF B
    <3>. QED  BY <1>5, <2>1, <2>2 DEF OfOneKind
  <2>4. \A fp \in Fps : fpTo'[fp] = fpTo[fp] \/ Shown(S, used', born'[fpTo'[fp]], fp)
    BY <1>2, <2>2 DEF IInv, TypeOK
  <2>5. \A i \in DOMAIN heap' :
          \/ /\ i \in DOMAIN heap
             /\ heap'[i].ips = heap[i].ips /\ heap'[i].fps = heap[i].fps /\ heap'[i].ttps = heap[i].ttps
          \/ OfOneKind(S, used', born'[heap'[i].id], heap'[i])
    BY <1>5, <1>6, <2>3
  <2>6. Follows(S, born'[heap'[d.object].id], d.ip)
    BY <1>4, <1>5, <1>6, <2>1
  <2>. QED  BY <1>2, <1>6, <1>7, <1>8, <2>4, <2>5, <2>6, RespectsKept
<1>. QED  BY <1>2, <1>3, <1>4, <1>7, <1>8, KinKept

LEMMA StoreKin ==
  ASSUME IInv, KinInv, NEW t \in Threads, StoreProfile(t)
  PROVE  KinInv'
<1>. DEFINE c == call[t]  d == [c EXCEPT !.pc = "point"]
<1>1. c \in Tracking /\ c.pc = "store"
  BY Inside DEF StoreProfile, At
<1>2. d.object = c.object /\ d.ip = c.ip /\ d.fp = c.fp /\ d.technique = c.technique
  BY <1>1 DEF Tracking
<1>3. call' = [call EXCEPT ![t] = d] /\ UNCHANGED <<heap, ipTo, fpTo, used, born>>
  BY DEF StoreProfile, Goes, History
<1>4. {d.fp, d.technique} \ {None} \subseteq used'[d.ip]
  BY <1>1, <1>2, <1>3 DEF KinInv, Shows, Inner
<1>. HIDE DEF d
<1>5. ASSUME NEW S \in SUBSET IPs, Respects(S) PROVE Respects(S)'
  <2>1. Follows(S, born'[heap'[d.object].id], d.ip)
    BY <1>1, <1>2, <1>3, <1>5 DEF Respects
  <2>. QED  BY <1>3, <1>5, <2>1, RespectsKept
<1>. QED  BY <1>3, <1>4, <1>5, KinKept

LEMMA PointKin ==
  ASSUME IInv, KinInv, NEW t \in Threads, PointIP(t)
  PROVE  KinInv'
<1>. DEFINE c == call[t]  d == AfterTrack(c, heap[c.object])
<1>1. c \in Tracking /\ c.pc = "point"
  BY Inside DEF PointIP, At
<1>2. d.pc \in {"idle", "post"}
  BY <1>1, AfterTyped
<1>3. /\ ipTo' = [ipTo EXCEPT ![c.ip] = heap[c.object].id] /\ call' = [call EXCEPT ![t] = d]
      /\ UNCHANGED <<heap, fpTo, used, born>>
  BY DEF PointIP, Goes, History
<1>. HIDE DEF d
<1>4. ASSUME NEW S \in SUBSET IPs, Respects(S) PROVE Respects(S)'
  <2>1. Follows(S, born[heap[c.object].id], c.ip)
    BY <1>1, <1>4 DEF Respects
  <2>2. \A ip \in IPs : ipTo'[ip] = ipTo[ip] \/ Follows(S, born'[ipTo'[ip]], ip)
    BY <1>3, <2>1 DEF IInv, TypeOK
  <2>. QED  BY <1>2, <1>3, <1>4, <2>2, RespectsKept
<1>. QED  BY <1>2, <1>3, <1>4, KinKept DEF Inner

\* A profile counts and ages without changing whom it is about.
SameKin(p, q) == q.id = p.id /\ q.ips = p.ips /\ q.fps = p.fps /\ q.ttps = p.ttps
SameProfiles == DOMAIN heap' = DOMAIN heap /\ \A i \in DOMAIN heap : SameKin(heap[i], heap'[i])

\* Steps that change no map, and of the calls at most those that leave Track.
LEMMA CountKin ==
  ASSUME IInv, KinInv, SameProfiles, UNCHANGED <<ipTo, fpTo, used, born>>,
         \A u \in Threads : call'[u] = call[u] \/ call'[u].pc \in {"idle", "escalate"}
  PROVE  KinInv'
<1>1. \A u \in Threads : Shows(call[u])'
  BY DEF KinInv, Shows, Inner
<1>2. ASSUME NEW S \in SUBSET IPs, Closed(S)' PROVE Respects(S)'
  <2>1. Respects(S)
    <3>1. Closed(S)
      BY <1>2, ClosedBefore
    <3>. QED  BY <3>1 DEF KinInv
  <2>2. \A i \in DOMAIN heap' : OfOneKind(S, used', born'[heap'[i].id], heap'[i])
    BY <2>1, KindMore DEF SameKin, SameProfiles, Respects
  <2>3. \A u \in Threads : call[u].pc \in {"link", "update", "store", "point"} =>
                             heap'[call[u].object].id = heap[call[u].object].id
    BY Held DEF SameKin, SameProfiles
  <2>4. ASSUME NEW u \in Threads, call'[u].pc \in {"link", "update", "store", "point"}
        PROVE  Follows(S, born'[heap'[call'[u].object].id], call'[u].ip)
    BY <2>1, <2>3, <2>4 DEF Respects
  <2>. QED  BY <2>1, <2>2, <2>4 DEF Respects
<1>. QED  BY <1>1, <1>2 DEF KinInv

LEMMA CountsSame ==
  ASSUME NEW q \in Profile
  PROVE  /\ SameKin(q, [q EXCEPT !.posts = @ + 1])
         /\ SameKin(q, [q EXCEPT !.blocks = @ + 1, !.blocked = "lately"])
         /\ SameKin(q, [q EXCEPT !.seen = Older(@)])
         /\ SameKin(q, [q EXCEPT !.seen = "old", !.blocked = IF @ = "never" THEN @ ELSE "before"])
         /\ SameKin(q, q)
BY DEF SameKin, Profile

LEMMA PostKin ==
  ASSUME IInv, KinInv, NEW t \in Threads, RecordPostBlockRequest(t)
  PROVE  KinInv'
<1>. DEFINE p == ProfileOf(call[t].ip)  q == [heap[p] EXCEPT !.posts = @ + 1]
<1>1. call[t].ip \in IPs
  BY Caught DEF RecordPostBlockRequest, At
<1>2. /\ heap' = heap \/ (p # None /\ heap' = [heap EXCEPT ![p] = q])
      /\ call' = [call EXCEPT ![t] = Idle] /\ UNCHANGED <<ipTo, fpTo, used, born>>
  BY DEF RecordPostBlockRequest, Goes, maps
<1>3. p # None => p \in DOMAIN heap /\ SameKin(heap[p], q)
  BY <1>1, ObjectOf, CountsSame
<1>. HIDE DEF p, q
<1>4. SameProfiles
  BY <1>2, <1>3, IDsTyped, CountsSame DEF SameProfiles
<1>5. \A u \in Threads : call'[u] = call[u] \/ call'[u].pc = "idle"
  BY <1>2, IdleTyped DEF IInv, TypeOK
<1>. QED  BY <1>2, <1>4, <1>5, CountKin

LEMMA BlockKin ==
  ASSUME IInv, KinInv, NEW t \in Threads, NEW ip \in Curious, RecordBlock(t, ip)
  PROVE  KinInv'
<1>. DEFINE p == ProfileOf(ip)  q == [heap[p] EXCEPT !.blocks = @ + 1, !.blocked = "lately"]
            d == [pc |-> "escalate", ip |-> ip]
<1>1. /\ heap' = heap \/ (p # None /\ heap' = [heap EXCEPT ![p] = q])
      /\ call' = [call EXCEPT ![t] = d] /\ UNCHANGED <<ipTo, fpTo, used, born>>
  BY DEF RecordBlock, Goes, maps
<1>2. p # None => p \in DOMAIN heap /\ SameKin(heap[p], q)
  BY CuriousAssumption, ObjectOf, CountsSame
<1>3. d.pc = "escalate"
  OBVIOUS
<1>. HIDE DEF p, q, d
<1>4. SameProfiles
  BY <1>1, <1>2, IDsTyped, CountsSame DEF SameProfiles
<1>5. \A u \in Threads : call'[u] = call[u] \/ call'[u].pc = "escalate"
  BY <1>1, <1>3 DEF IInv, TypeOK
<1>. QED  BY <1>1, <1>4, <1>5, CountKin

LEMMA EscalateKin ==
  ASSUME IInv, KinInv, NEW t \in Threads, EscalateBlock(t)
  PROVE  KinInv'
<1>1. call' = [call EXCEPT ![t] = Idle] /\ UNCHANGED <<heap, ipTo, fpTo, used, born>>
  BY DEF EscalateBlock, Goes, maps
<1>2. SameProfiles
  BY <1>1, IDsTyped, CountsSame DEF SameProfiles
<1>3. \A u \in Threads : call'[u] = call[u] \/ call'[u].pc = "idle"
  BY <1>1, IdleTyped DEF IInv, TypeOK
<1>. QED  BY <1>1, <1>2, <1>3, CountKin

LEMMA WaitKin ==
  ASSUME IInv, KinInv, Wait
  PROVE  KinInv'
<1>1. UNCHANGED <<call, ipTo, fpTo, used, born>>
  BY Zenon DEF Wait, maps
<1>2. \/ heap' = [i \in DOMAIN heap |-> [heap[i] EXCEPT !.seen = Older(@)]]
      \/ heap' = [i \in DOMAIN heap |->
                    [heap[i] EXCEPT !.seen = "old", !.blocked = IF @ = "never" THEN @ ELSE "before"]]
  BY Zenon DEF Wait
<1>3. DOMAIN heap' = DOMAIN heap
  BY <1>2
<1>4. \A i \in DOMAIN heap : SameKin(heap[i], heap'[i])
  <2>. TAKE i \in DOMAIN heap
  <2>1. \/ heap'[i] = [heap[i] EXCEPT !.seen = Older(@)]
        \/ heap'[i] = [heap[i] EXCEPT !.seen = "old", !.blocked = IF @ = "never" THEN @ ELSE "before"]
    BY <1>2
  <2>2. heap[i] \in Profile
    BY IDsTyped
  <2>. QED  BY <2>1, <2>2, CountsSame
<1>. QED  BY <1>1, <1>3, <1>4, CountKin DEF SameProfiles

LEMMA StutterKin ==
  ASSUME IInv, KinInv, UNCHANGED vars
  PROVE  KinInv'
<1>1. UNCHANGED <<heap, call, ipTo, fpTo, used, born>>
  BY DEF vars, maps
<1>2. SameProfiles
  BY <1>1, IDsTyped, CountsSame DEF SameProfiles
<1>. QED  BY <1>1, <1>2, CountKin

LEMMA StepKin == IInv /\ KinInv /\ [Next]_vars => KinInv'
<1>. SUFFICES ASSUME IInv, KinInv, [Next]_vars PROVE KinInv'
  OBVIOUS
<1>1. ASSUME NEW t \in Threads, Caller(t) PROVE KinInv'
  BY <1>1, TrackKin, MatchKin, CorrelateKin, LinkKin, UpdateKin, CreateKin, StoreKin,
     PointKin, PostKin, BlockKin, EscalateKin DEF Caller
<1>. QED  BY <1>1, WaitKin, StutterKin DEF Next

LEMMA InitKin == Init => KinInv
<1>. SUFFICES ASSUME Init PROVE KinInv
  OBVIOUS
<1>1. \A t \in Threads : call[t].pc = "idle"
  BY DEF Init, Idle
<1>2. \A ip \in IPs : ipTo[ip] # None => ipTo[ip] = ip /\ ip \in born[ip]
  BY IDsOfAddresses DEF Init
<1>3. \A fp \in Fps : fpTo[fp] = None
  BY DEF Init
<1>4. \A i \in DOMAIN heap : /\ heap[i].ips = <<heap[i].id>> /\ heap[i].fps = <<>> /\ heap[i].ttps = {}
                             /\ heap[i].id \in born[heap[i].id]
  <2>1. PICK ips \in Orders, seen \in [1..Cardinality(Legacy) -> Ages] : heap = Imported(ips, seen)
    BY DEF Init
  <2>2. \A i \in DOMAIN heap : ips[i] \in Legacy /\ heap[i] = NewProfile(ips[i], ips[i], <<>>, seen[i])
    BY <2>1 DEF Orders, Imported
  <2>3. \A id \in Legacy : id \in born[id]
    BY LegacyAssumption, IDsOfAddresses DEF Init
  <2>. QED  BY <2>2, <2>3 DEF NewProfile
<1>5. ASSUME NEW S \in SUBSET IPs PROVE Respects(S)
  <2>1. \A ip \in IPs : ipTo[ip] # None => Follows(S, born[ipTo[ip]], ip)
    BY <1>2 DEF Follows
  <2>2. \A i \in DOMAIN heap : OfOneKind(S, used, born[heap[i].id], heap[i])
    BY <1>4 DEF OfOneKind, Follows
  <2>. QED  BY <1>1, <1>3, <2>1, <2>2 DEF Respects
<1>. QED  BY <1>1, <1>5 DEF KinInv, Shows, Inner

\* Kin are on the same side of every closed set.
LEMMA KinFollow ==
  ASSUME IInv, KinInv, NEW x \in IPs, NEW y \in IPs, ipTo[x] # None, ipTo[x] = ipTo[y]
  PROVE  y \in Kin(x)
<1>. SUFFICES ASSUME NEW S \in SUBSET IPs, x \in S, \A v \in S, w \in IPs : Tie(v, w) => w \in S
              PROVE  y \in S
  BY DEF Kin
<1>1. \A v, w \in IPs : Tie(v, w) => Tie(w, v)
  BY DEF Tie
<1>2. Closed(S)
  BY <1>1 DEF Closed
<1>3. Follows(S, born[ipTo[x]], x) /\ Follows(S, born[ipTo[x]], y)
  BY <1>2 DEF KinInv, Respects
<1>4. ipTo[x] \in IDs /\ born[ipTo[x]] \subseteq IPs
  BY DEF IInv, TypeOK
<1>5. PICK v \in born[ipTo[x]], w \in born[ipTo[x]] : (x \in S <=> v \in S) /\ (y \in S <=> w \in S)
  BY <1>3 DEF Follows
<1>6. Tie(v, w)
  BY <1>4, <1>5 DEF Tie
<1>. QED  BY <1>2, <1>4, <1>5, <1>6 DEF Closed

\* Two addresses under one ID are kin (StrangersStayApart): whatever goroutines track at once,
\* however long a chain of profiles grows and whichever weights the fingerprints have, the
\* score that makes two addresses one attacker never comes from recency and the likeness of
\* user agents and headers alone.
THEOREM StrangersAlwaysStayApart == Spec => []StrangersStayApart
<1>1. IInv /\ KinInv => StrangersStayApart
  BY KinFollow DEF StrangersStayApart
<1>. QED  BY <1>1, InitIInv, InitKin, StepIInv, StepKin, PTL DEF Spec

-----------------------------------------------------------------------------
(* Sums over finite sets.  Total is a fold, which is a recursive function  *)
(* on the subsets: that there is one, and what it computes, is proved by   *)
(* induction, from the library's theorems on well-founded relations.       *)

One(s) == CHOOSE x \in s : TRUE
SumStep(f, g, s) == IF s = {} THEN 0 ELSE f[One(s)] + g[s \ {One(s)}]
IsSum(f, S, g) == g = [s \in SUBSET S |-> SumStep(f, g, s)]

\* Total is the value at S of a function that is chosen to satisfy the recursion.
LEMMA TotalIs == ASSUME NEW f, NEW S PROVE Total(f, S) = (CHOOSE g : IsSum(f, S, g))[S]
BY DEF Total, FoldFunctionOnSet, MapThenFoldSet, IsSum, SumStep, One

LEMMA OneIn == ASSUME NEW s, s # {} PROVE One(s) \in s
BY DEF One

\* Induction over the subsets of a finite set: a family F that has a set as soon as it
\* has those strictly inside has them all.
LEMMA SubsetInduction ==
  ASSUME NEW S, IsFiniteSet(S), NEW F,
         \A s \in SUBSET S : (\A r \in SUBSET s : r # s => r \in F) => s \in F
  PROVE  S \in F
<1>. DEFINE B == {s \in SUBSET S : s \notin F}
            R == StrictSubsetOrdering(S)
<1>1. FiniteSubsetsOf(S) = SUBSET S
  BY FS_FiniteSubsetsOfFinite
<1>2. IsWellFoundedOn(R, SUBSET S)
  BY <1>1, FS_StrictSubsetOrderingWellFounded
<1>3. ASSUME B # {} PROVE FALSE
  <2>1. B \subseteq SUBSET S
    OBVIOUS
  <2>2. PICK s \in B : \A r \in B : <<r, s>> \notin R
    <3>. HIDE DEF B, R
    <3>. QED  BY <1>2, <1>3, <2>1, WFMin
  <2>3. \A r \in SUBSET s : r # s => r \in F
    BY <2>2 DEF StrictSubsetOrdering
  <2>. QED  BY <2>2, <2>3
<1>. QED  BY <1>3

\* Induction over the natural numbers.
LEMMA NatSetInduction ==
  ASSUME NEW F, 0 \in F, \A n \in Nat : n \in F => n + 1 \in F
  PROVE  \A n \in Nat : n \in F
<1>. DEFINE B == {n \in Nat : n \notin F}
            R == OpToRel(<, Nat)
<1>1. IsWellFoundedOn(R, Nat)
  BY NatLessThanWellFounded
<1>2. \A m, n \in Nat : m < n => <<m, n>> \in R
  BY DEF OpToRel
<1>3. ASSUME B # {} PROVE FALSE
  <2>1. B \subseteq Nat
    OBVIOUS
  <2>2. PICK n \in B : \A m \in B : <<m, n>> \notin R
    <3>. HIDE DEF B, R
    <3>. QED  BY <1>1, <1>3, <2>1, WFMin
  <2>. HIDE DEF R
  <2>3. n # 0 /\ n \in Nat
    OBVIOUS
  <2>4. n - 1 \in Nat /\ n - 1 < n /\ (n - 1) + 1 = n
    BY <2>3
  <2>5. n - 1 \notin B
    BY <1>2, <2>2, <2>4
  <2>. QED  BY <2>2, <2>4, <2>5
<1>. QED  BY <1>3

\* There is a function that satisfies it: from the sets of up to n elements to those of n + 1.
LEMMA SumExists ==
  ASSUME NEW S, IsFiniteSet(S), NEW f, \A x \in S : f[x] \in Nat
  PROVE  \E g : IsSum(f, S, g)
<1>. DEFINE Small(n) == {s \in SUBSET S : Cardinality(s) <= n}
            Solves(g, n) == g \in [Small(n) -> Nat] /\ \A s \in Small(n) : g[s] = SumStep(f, g, s)
            F == {n \in Nat : \E g : Solves(g, n)}
<1>1. \A s \in SUBSET S : IsFiniteSet(s) /\ Cardinality(s) \in Nat
  BY FS_Subset, FS_CardinalityType
<1>2. \A s \in SUBSET S : s # {} => /\ One(s) \in s /\ f[One(s)] \in Nat
                                     /\ s \ {One(s)} \in SUBSET S
                                     /\ Cardinality(s \ {One(s)}) = Cardinality(s) - 1
  BY <1>1, OneIn, FS_RemoveElement
<1>3. 0 \in F
  <2>1. \A s \in Small(0) : s = {}
    BY <1>1, FS_EmptySet
  <2>2. Solves([s \in Small(0) |-> 0], 0)
    BY <2>1 DEF SumStep
  <2>. HIDE DEF Solves
  <2>. QED  BY <2>2
<1>4. ASSUME NEW n \in Nat, n \in F PROVE n + 1 \in F
  <2>1. PICK g : Solves(g, n)
    BY <1>4
  <2>. DEFINE h == [s \in Small(n + 1) |-> IF s \in Small(n) THEN g[s] ELSE f[One(s)] + g[s \ {One(s)}]]
  <2>2. Small(n) \subseteq Small(n + 1)
    BY <1>1
  <2>3. \A s \in Small(n + 1) : s # {} => s \ {One(s)} \in Small(n)
    BY <1>1, <1>2
  <2>4. {} \in Small(n)
    BY FS_EmptySet
  <2>5. h \in [Small(n + 1) -> Nat]
    <3>1. \A s \in Small(n + 1) : (IF s \in Small(n) THEN g[s] ELSE f[One(s)] + g[s \ {One(s)}]) \in Nat
      <4>. TAKE s \in Small(n + 1)
      <4>1. s \in Small(n) => g[s] \in Nat
        <5>. HIDE DEF Small
        <5>. QED  BY <2>1
      <4>2. s \notin Small(n) => f[One(s)] \in Nat /\ g[s \ {One(s)}] \in Nat
        <5>1. s \notin Small(n) => s # {} /\ s \in SUBSET S
          BY <2>4
        <5>. HIDE DEF Small
        <5>. QED  BY <1>2, <2>1, <2>3, <5>1
      <4>. QED  BY <4>1, <4>2
    <3>. HIDE DEF Small
    <3>. QED  BY <3>1
  <2>6. \A s \in Small(n + 1) : h[s] = SumStep(f, h, s)
    <3>. HIDE DEF Small
    <3>. QED  BY <2>1, <2>2, <2>3, <2>4 DEF SumStep
  <2>7. Solves(h, n + 1)
    BY <2>5, <2>6
  <2>. HIDE DEF Solves, h
  <2>. QED  BY <2>7
<1>5. Cardinality(S) \in F
  <2>. HIDE DEF F
  <2>. QED  BY <1>1, <1>3, <1>4, NatSetInduction
<1>6. Small(Cardinality(S)) = SUBSET S
  BY <1>1, FS_Subset
<1>7. PICK g : Solves(g, Cardinality(S))
  BY <1>5
<1>8. g = [s \in SUBSET S |-> g[s]] /\ \A s \in SUBSET S : g[s] = SumStep(f, g, s)
  <2>. HIDE DEF Small
  <2>. QED  BY <1>6, <1>7
<1>. QED  BY <1>8 DEF IsSum

SumOver(f, S) == CHOOSE g : IsSum(f, S, g)

LEMMA SumOverIs ==
  ASSUME NEW S, IsFiniteSet(S), NEW f, \A x \in S : f[x] \in Nat
  PROVE  /\ Total(f, S) = SumOver(f, S)[S]
         /\ \A s \in SUBSET S : SumOver(f, S)[s] = SumStep(f, SumOver(f, S), s)
<1>1. IsSum(f, S, SumOver(f, S))
  BY SumExists DEF SumOver
<1>. HIDE DEF SumOver
<1>2. Total(f, S) = SumOver(f, S)[S]
  BY TotalIs DEF SumOver
<1>. QED  BY <1>1, <1>2 DEF IsSum

LEMMA TotalType ==
  ASSUME NEW S, IsFiniteSet(S), NEW f, \A x \in S : f[x] \in Nat
  PROVE  Total(f, S) \in Nat
<1>. DEFINE g == SumOver(f, S)  F == {s \in SUBSET S : g[s] \in Nat}
<1>1. \A s \in SUBSET S : g[s] = SumStep(f, g, s)
  BY SumOverIs
<1>. HIDE DEF g
<1>2. ASSUME NEW s \in SUBSET S, \A r \in SUBSET s : r # s => r \in F PROVE s \in F
  <2>1. CASE s = {}
    <3>1. g[s] = 0
      BY <1>1, <2>1 DEF SumStep
    <3>. QED  BY <2>1, <3>1
  <2>2. CASE s # {}
    <3>1. One(s) \in s /\ f[One(s)] \in Nat /\ g[s \ {One(s)}] \in Nat
      BY <1>2, <2>2, OneIn
    <3>. QED  BY <1>1, <2>2, <3>1 DEF SumStep
  <2>. QED  BY <2>1, <2>2
<1>3. S \in F
  <2>. HIDE DEF F
  <2>. QED  BY <1>2, SubsetInduction
<1>. QED  BY <1>3, SumOverIs DEF g

\* No number in a sum exceeds it.
LEMMA TotalHolds ==
  ASSUME NEW S, IsFiniteSet(S), NEW f, \A x \in S : f[x] \in Nat, NEW y \in S
  PROVE  Total(f, S) >= f[y]
<1>. DEFINE g == SumOver(f, S)  F == {s \in SUBSET S : g[s] \in Nat /\ (y \in s => g[s] >= f[y])}
<1>1. \A s \in SUBSET S : g[s] = SumStep(f, g, s)
  BY SumOverIs
<1>. HIDE DEF g
<1>2. ASSUME NEW s \in SUBSET S, \A r \in SUBSET s : r # s => r \in F PROVE s \in F
  <2>1. CASE s = {}
    <3>1. g[s] = 0 /\ y \notin s
      BY <1>1, <2>1 DEF SumStep
    <3>. QED  BY <2>1, <3>1
  <2>2. CASE s # {}
    <3>1. One(s) \in s /\ f[One(s)] \in Nat /\ s \ {One(s)} \in F
      BY <1>2, <2>2, OneIn
    <3>2. g[s] = f[One(s)] + g[s \ {One(s)}]
      BY <1>1, <2>2 DEF SumStep
    <3>. QED  BY <3>1, <3>2
  <2>. QED  BY <2>1, <2>2
<1>3. S \in F
  <2>. HIDE DEF F
  <2>. QED  BY <1>2, SubsetInduction
<1>. QED  BY <1>3, SumOverIs DEF g

\* One more at y is one more in a sum that counts y.
LEMMA TotalCounts ==
  ASSUME NEW S, IsFiniteSet(S), NEW f, \A x \in S : f[x] \in Nat, NEW y, NEW h,
         \A x \in S : h[x] = IF x = y THEN f[x] + 1 ELSE f[x]
  PROVE  Total(h, S) = IF y \in S THEN Total(f, S) + 1 ELSE Total(f, S)
<1>. DEFINE g == SumOver(f, S)  k == SumOver(h, S)
            F == {s \in SUBSET S : g[s] \in Nat /\ k[s] = IF y \in s THEN g[s] + 1 ELSE g[s]}
<1>1. \A s \in SUBSET S : g[s] = SumStep(f, g, s) /\ k[s] = SumStep(h, k, s)
  BY SumOverIs
<1>. HIDE DEF g, k
<1>2. ASSUME NEW s \in SUBSET S, \A r \in SUBSET s : r # s => r \in F PROVE s \in F
  <2>1. CASE s = {}
    <3>1. g[s] = 0 /\ k[s] = 0 /\ y \notin s
      BY <1>1, <2>1 DEF SumStep
    <3>. QED  BY <2>1, <3>1
  <2>2. CASE s # {}
    <3>1. One(s) \in s /\ f[One(s)] \in Nat /\ s \ {One(s)} \in F
      BY <1>2, <2>2, OneIn
    <3>2. g[s] = f[One(s)] + g[s \ {One(s)}] /\ k[s] = h[One(s)] + k[s \ {One(s)}]
      BY <1>1, <2>2 DEF SumStep
    <3>3. h[One(s)] = IF One(s) = y THEN f[One(s)] + 1 ELSE f[One(s)]
      BY <3>1
    <3>. QED  BY <3>1, <3>2, <3>3
  <2>. QED  BY <2>1, <2>2
<1>3. S \in F
  <2>. HIDE DEF F
  <2>. QED  BY <1>2, SubsetInduction
<1>4. Total(f, S) = g[S] /\ Total(h, S) = k[S]
  BY SumOverIs DEF g, k
<1>. QED  BY <1>3, <1>4

-----------------------------------------------------------------------------
(* What is counted.  Of a closed set that holds an address a profile was   *)
(* made for, the invariant says that its addresses have done at least what *)
(* the profile counts.                                                     *)

Counts(S) ==
  \A i \in DOMAIN heap : (\E first \in born[heap[i].id] : first \in S) =>
    heap[i].blocks <= Total(trapped, S) /\ heap[i].posts <= Total(posted, S)

CountInv ==
  /\ \A i \in DOMAIN heap : born[heap[i].id] # {}
  /\ \A S \in SUBSET IPs : Closed(S) => Counts(S)
  /\ \A t \in Threads : call[t].pc = "escalate" => trapped[call[t].ip] > 0
  /\ EscalationIsEarned

LEMMA Finite == \A S \in SUBSET IPs : IsFiniteSet(S)
BY AddressAssumption, FS_Subset

LEMMA TotalNat ==
  ASSUME NEW S \in SUBSET IPs, NEW f \in [IPs -> Nat]
  PROVE  Total(f, S) \in Nat
<1>1. \A x \in S : f[x] \in Nat
  OBVIOUS
<1>. QED  BY <1>1, Finite, TotalType

LEMMA TotalMore ==
  ASSUME NEW S \in SUBSET IPs, NEW f \in [IPs -> Nat], NEW y \in IPs
  PROVE  Total([f EXCEPT ![y] = @ + 1], S) = IF y \in S THEN Total(f, S) + 1 ELSE Total(f, S)
<1>. DEFINE h == [f EXCEPT ![y] = @ + 1]
<1>1. \A x \in S : f[x] \in Nat /\ h[x] = IF x = y THEN f[x] + 1 ELSE f[x]
  OBVIOUS
<1>. HIDE DEF h
<1>2. Total(h, S) = IF y \in S THEN Total(f, S) + 1 ELSE Total(f, S)
  BY <1>1, Finite, TotalCounts
<1>. QED  BY <1>2 DEF h

\* If a closed set holds one address that a profile was made for, it holds them all.
LEMMA BornTogether ==
  ASSUME TypeOK, NEW S \in SUBSET IPs, Closed(S), NEW id \in IDs,
         NEW x \in born[id], NEW y \in born[id], x \in S
  PROVE  y \in S
<1>1. x \in IPs /\ y \in IPs
  BY DEF TypeOK
<1>2. Tie(x, y)
  BY DEF Tie
<1>. QED  BY <1>1, <1>2 DEF Closed

\* Steps that count nothing: profiles keep their numbers, new ones start at zero.
LEMMA CountKept ==
  ASSUME IInv, IInv', CountInv, UNCHANGED <<trapped, posted, escalated>>,
         \A ip \in IPs : used[ip] \subseteq used'[ip], \A id \in IDs : born[id] \subseteq born'[id],
         DOMAIN heap \subseteq DOMAIN heap',
         \A i \in DOMAIN heap : /\ heap'[i].id = heap[i].id
                                /\ heap'[i].blocks = heap[i].blocks /\ heap'[i].posts = heap[i].posts,
         \A i \in DOMAIN heap' \ DOMAIN heap :
           heap'[i].blocks = 0 /\ heap'[i].posts = 0 /\ born'[heap'[i].id] # {},
         \A u \in Threads : call'[u] = call[u] \/ call'[u].pc # "escalate"
  PROVE  CountInv'
<1>0. \A i \in DOMAIN heap : heap[i].id \in IDs
  BY IDsTyped
<1>1. \A i \in DOMAIN heap' : born'[heap'[i].id] # {}
  <2>. TAKE i \in DOMAIN heap'
  <2>1. CASE i \in DOMAIN heap
    <3>1. born[heap[i].id] # {} /\ born[heap[i].id] \subseteq born'[heap[i].id]
      BY <1>0, <2>1 DEF CountInv
    <3>. QED  BY <2>1, <3>1
  <2>. QED  BY <2>1
<1>2. ASSUME NEW S \in SUBSET IPs, Closed(S)',
             NEW i \in DOMAIN heap', NEW first \in born'[heap'[i].id], first \in S
      PROVE  heap'[i].blocks <= Total(trapped', S) /\ heap'[i].posts <= Total(posted', S)
  <2>1. CASE i \in DOMAIN heap
    <3>1. Closed(S) /\ heap[i].id \in IDs
      BY <1>0, <1>2, <2>1, ClosedBefore
    <3>2. PICK old \in born[heap[i].id] : old \in born'[heap[i].id]
      BY <1>0, <2>1 DEF CountInv
    <3>3. old \in S
      <4>1. TypeOK' /\ first \in born'[heap[i].id] /\ heap[i].id \in IDs
        BY <1>2, <2>1, <3>1 DEF IInv
      <4>2. old \in IPs /\ first \in IPs
        BY <3>2, <4>1 DEF TypeOK
      <4>3. Tie(first, old)'
        BY <3>2, <4>1 DEF Tie
      <4>. QED  BY <1>2, <4>2, <4>3 DEF Closed
    <3>4. heap[i].blocks <= Total(trapped, S) /\ heap[i].posts <= Total(posted, S)
      BY <2>1, <3>1, <3>2, <3>3 DEF CountInv, Counts
    <3>. QED  BY <2>1, <3>4
  <2>2. CASE i \notin DOMAIN heap
    <3>1. Total(trapped, S) \in Nat /\ Total(posted, S) \in Nat
      BY TotalNat DEF IInv, TypeOK
    <3>2. heap'[i].blocks = 0 /\ heap'[i].posts = 0
      BY <2>2
    <3>3. Total(trapped', S) = Total(trapped, S) /\ Total(posted', S) = Total(posted, S)
      OBVIOUS
    <3>. QED  BY <3>1, <3>2, <3>3
  <2>. QED  BY <2>1, <2>2
<1>3. \A t \in Threads : call'[t].pc = "escalate" => trapped'[call'[t].ip] > 0
  BY DEF CountInv
<1>4. EscalationIsEarned'
  BY DEF CountInv, EscalationIsEarned
<1>. QED  BY <1>1, <1>2, <1>3, <1>4 DEF CountInv, Counts

\* A step of a call that leaves the heap alone and adds to no count.
LEMMA CallCount ==
  ASSUME IInv, IInv', CountInv, NEW t \in Threads, NEW c, call' = [call EXCEPT ![t] = c],
         c.pc # "escalate", UNCHANGED <<heap, born, trapped, posted, escalated>>,
         \A ip \in IPs : used[ip] \subseteq used'[ip]
  PROVE  CountInv'
<1>1. \A u \in Threads : call'[u] = call[u] \/ call'[u].pc # "escalate"
  BY DEF IInv, TypeOK
<1>. QED  BY <1>1, CountKept

LEMMA TrackCount ==
  ASSUME IInv, IInv', CountInv, NEW t \in Threads, NEW e \in Events, Track(t, e[1], e[2], e[3])
  PROVE  CountInv'
<1>. DEFINE ip == e[1]
            c == [pc |-> IF ProfileOf(ip) = None THEN "match" ELSE "update",
                  ip |-> ip, fp |-> e[2], technique |-> e[3], object |-> ProfileOf(ip)]
<1>1. ip \in IPs /\ c.pc # "escalate"
  BY EventAssumption
<1>2. /\ call' = [call EXCEPT ![t] = c] /\ UNCHANGED <<heap, born, trapped, posted, escalated>>
      /\ used' = [used EXCEPT ![ip] = @ \cup ({e[2], e[3]} \ {None})]
  BY DEF Track, Goes
<1>3. \A x \in IPs : used[x] \subseteq used'[x]
  BY <1>1, <1>2 DEF IInv, TypeOK
<1>. HIDE DEF c
<1>. QED  BY <1>1, <1>2, <1>3, CallCount

LEMMA CorrelateCount ==
  ASSUME IInv, IInv', CountInv, NEW t \in Threads, CorrelateAdvanced(t)
  PROVE  CountInv'
<1>. DEFINE c == call[t]
<1>1. c \in Tracking
  BY Inside DEF CorrelateAdvanced, At
<1>2. UNCHANGED <<heap, born, used, trapped, posted, escalated>>
  BY DEF CorrelateAdvanced, History
<1>3. \/ \E i : Goes(t, [c EXCEPT !.pc = "link", !.object = i])
      \/ Goes(t, [c EXCEPT !.pc = "create", !.object = None])
  BY Zenon DEF CorrelateAdvanced
<1>4. ASSUME NEW i, Goes(t, [c EXCEPT !.pc = "link", !.object = i]) PROVE CountInv'
  <2>. DEFINE d == [c EXCEPT !.pc = "link", !.object = i]
  <2>1. d.pc # "escalate" /\ call' = [call EXCEPT ![t] = d]
    BY <1>1, <1>4 DEF Goes, Tracking
  <2>. HIDE DEF d
  <2>. QED  BY <1>2, <2>1, CallCount
<1>5. CASE Goes(t, [c EXCEPT !.pc = "create", !.object = None])
  <2>. DEFINE d == [c EXCEPT !.pc = "create", !.object = None]
  <2>1. d.pc # "escalate" /\ call' = [call EXCEPT ![t] = d]
    BY <1>1, <1>5 DEF Goes, Tracking
  <2>. HIDE DEF d
  <2>. QED  BY <1>2, <2>1, CallCount
<1>. QED  BY <1>3, <1>4, <1>5

LEMMA WalkCount ==
  ASSUME IInv, IInv', CountInv, NEW t \in Threads,
         MatchFingerprint(t) \/ Link(t) \/ StoreProfile(t) \/ PointIP(t)
  PROVE  CountInv'
<1>. DEFINE c == call[t]
<1>1. c \in Tracking
  BY Inside DEF MatchFingerprint, Link, StoreProfile, PointIP, At
<1>2. UNCHANGED <<heap, born, used, trapped, posted, escalated>>
  BY DEF MatchFingerprint, Link, StoreProfile, PointIP, History
<1>3. CASE PointIP(t)
  <2>. DEFINE d == AfterTrack(c, heap[c.object])
  <2>1. d.pc # "escalate" /\ call' = [call EXCEPT ![t] = d]
    BY <1>1, <1>3, AfterTyped DEF PointIP, Goes
  <2>. HIDE DEF d
  <2>. QED  BY <1>2, <2>1, CallCount
<1>4. CASE Link(t) \/ StoreProfile(t)
  <2>1. PICK place \in {"update", "point"} : call' = [call EXCEPT ![t] = [c EXCEPT !.pc = place]]
    BY <1>4 DEF Link, StoreProfile, Goes
  <2>. DEFINE d == [c EXCEPT !.pc = place]
  <2>2. d.pc # "escalate" /\ call' = [call EXCEPT ![t] = d]
    BY <1>1, <2>1 DEF Tracking
  <2>. HIDE DEF d
  <2>. QED  BY <1>2, <2>2, CallCount
<1>5. CASE MatchFingerprint(t)
  <2>1. CASE Goes(t, [c EXCEPT !.pc = "correlate"])
    <3>. DEFINE d == [c EXCEPT !.pc = "correlate"]
    <3>1. d.pc # "escalate" /\ call' = [call EXCEPT ![t] = d]
      BY <1>1, <2>1 DEF Goes, Tracking
    <3>. HIDE DEF d
    <3>. QED  BY <1>2, <3>1, CallCount
  <2>2. CASE Goes(t, [c EXCEPT !.pc = "link", !.object = profiles[fpTo[c.fp]]])
    <3>. DEFINE d == [c EXCEPT !.pc = "link", !.object = profiles[fpTo[c.fp]]]
    <3>1. d.pc # "escalate" /\ call' = [call EXCEPT ![t] = d]
      BY <1>1, <2>2 DEF Goes, Tracking
    <3>. HIDE DEF d
    <3>. QED  BY <1>2, <3>1, CallCount
  <2>. QED  BY <1>5, <2>1, <2>2 DEF MatchFingerprint
<1>. QED  BY <1>3, <1>4, <1>5

LEMMA UpdateCount ==
  ASSUME IInv, IInv', CountInv, NEW t \in Threads, UpdateProfile(t)
  PROVE  CountInv'
<1>. DEFINE c == call[t]  p == heap[c.object]
            ips == AppendNew(p.ips, c.ip)  fps == AppendNew(p.fps, c.fp)
            ttps == p.ttps \cup ({c.technique} \ {None})
            q == [p EXCEPT !.ips = ips, !.fps = fps, !.seen = "now", !.ttps = ttps]
            d == AfterTrack(c, p)
<1>1. c \in Tracking /\ c.object \in DOMAIN heap /\ p \in Profile
  BY Inside, Held DEF UpdateProfile, At
<1>2. /\ heap' = [heap EXCEPT ![c.object] = q] /\ call' = [call EXCEPT ![t] = d]
      /\ UNCHANGED <<used, born, trapped, posted, escalated>>
  BY DEF UpdateProfile, Goes, History
<1>3. d.pc # "escalate"
  BY <1>1, AfterTyped
<1>4. q.id = p.id /\ q.blocks = p.blocks /\ q.posts = p.posts
  <2>. HIDE DEF p, ips, fps, ttps
  <2>. QED  BY <1>1 DEF Profile
<1>. HIDE DEF q, d
<1>5. /\ DOMAIN heap' = DOMAIN heap
      /\ \A i \in DOMAIN heap : /\ heap'[i].id = heap[i].id
                                /\ heap'[i].blocks = heap[i].blocks /\ heap'[i].posts = heap[i].posts
  BY <1>1, <1>2, <1>4
<1>6. \A u \in Threads : call'[u] = call[u] \/ call'[u].pc # "escalate"
  BY <1>2, <1>3 DEF IInv, TypeOK
<1>. QED  BY <1>2, <1>5, <1>6, CountKept

LEMMA CreateCount ==
  ASSUME IInv, IInv', CountInv, NEW t \in Threads, CreateProfile(t)
  PROVE  CountInv'
<1>. DEFINE c == call[t]
            p == NewProfile(clock', c.ip, IF c.fp = None THEN <<>> ELSE <<c.fp>>, "now")
            d == [c EXCEPT !.pc = "store", !.object = Len(heap) + 1]
<1>1. c \in Tracking /\ d.pc = "store"
  BY Inside DEF CreateProfile, At, Tracking
<1>2. /\ clock' \in IDs
      /\ heap' = Append(heap, p)
      /\ born' = [born EXCEPT ![clock'] = @ \cup {c.ip}]
      /\ call' = [call EXCEPT ![t] = d]
      /\ UNCHANGED <<used, trapped, posted, escalated>>
  BY IDsOfAddresses DEF CreateProfile, Goes
<1>3. p.id = clock' /\ p.blocks = 0 /\ p.posts = 0
  BY DEF NewProfile
<1>. HIDE DEF p, d
<1>4. /\ DOMAIN heap' = DOMAIN heap \cup {Len(heap) + 1} /\ heap'[Len(heap) + 1] = p
      /\ \A i \in DOMAIN heap : heap'[i] = heap[i]
  BY <1>2 DEF IInv, TypeOK
<1>5. born'[clock'] # {} /\ \A id \in IDs : born[id] \subseteq born'[id]
  BY <1>2 DEF IInv, TypeOK
<1>6. \A u \in Threads : call'[u] = call[u] \/ call'[u].pc # "escalate"
  BY <1>1, <1>2 DEF IInv, TypeOK
<1>7. \A i \in DOMAIN heap' \ DOMAIN heap :
        heap'[i].blocks = 0 /\ heap'[i].posts = 0 /\ born'[heap'[i].id] # {}
  BY <1>3, <1>4, <1>5
<1>8. /\ UNCHANGED <<trapped, posted, escalated>>
      /\ \A ip \in IPs : used[ip] \subseteq used'[ip]
  BY <1>2
<1>. QED  BY <1>4, <1>5, <1>6, <1>7, <1>8, CountKept

LEMMA WaitCount ==
  ASSUME IInv, IInv', CountInv, Wait
  PROVE  CountInv'
<1>1. UNCHANGED <<call, used, born, trapped, posted, escalated>>
  BY Zenon DEF Wait
<1>2. \/ heap' = [i \in DOMAIN heap |-> [heap[i] EXCEPT !.seen = Older(@)]]
      \/ heap' = [i \in DOMAIN heap |->
                    [heap[i] EXCEPT !.seen = "old", !.blocked = IF @ = "never" THEN @ ELSE "before"]]
  BY Zenon DEF Wait
<1>3. DOMAIN heap' = DOMAIN heap
  BY <1>2
<1>4. \A i \in DOMAIN heap : /\ heap'[i].id = heap[i].id
                              /\ heap'[i].blocks = heap[i].blocks /\ heap'[i].posts = heap[i].posts
  <2>. TAKE i \in DOMAIN heap
  <2>1. \/ heap'[i] = [heap[i] EXCEPT !.seen = Older(@)]
        \/ heap'[i] = [heap[i] EXCEPT !.seen = "old", !.blocked = IF @ = "never" THEN @ ELSE "before"]
    BY <1>2
  <2>2. heap[i] \in Profile
    BY IDsTyped
  <2>. QED  BY <2>1, <2>2 DEF Profile
<1>. QED  BY <1>1, <1>3, <1>4, CountKept

LEMMA StutterCount ==
  ASSUME CountInv, UNCHANGED vars
  PROVE  CountInv'
<1>1. UNCHANGED <<heap, call, used, born, trapped, posted, escalated>>
  BY DEF vars
<1>. QED  BY <1>1 DEF CountInv, Counts, Closed, Tie, EscalationIsEarned

\* An address whose profile is of a closed set is in the set.
LEMMA OwnerInside ==
  ASSUME IInv, KinInv, NEW ip \in IPs, ProfileOf(ip) # None, NEW S \in SUBSET IPs, Closed(S),
         NEW first \in born[heap[ProfileOf(ip)].id], first \in S
  PROVE  ip \in S
<1>1. ipTo[ip] # None /\ ipTo[ip] \in IDs /\ heap[ProfileOf(ip)].id = ipTo[ip]
  BY ProfileFound DEF ProfileOf, IInv, TypeOK
<1>2. Follows(S, born[ipTo[ip]], ip)
  BY <1>1 DEF KinInv, Respects
<1>3. \A x \in born[ipTo[ip]] : x \in S
  BY <1>1, BornTogether DEF IInv
<1>. QED  BY <1>2, <1>3 DEF Follows

\* A count of an address may go up, and with it the one of the profile it has.
CountsMore(ip) ==
  /\ DOMAIN heap' = DOMAIN heap
  /\ trapped' \in {trapped, [trapped EXCEPT ![ip] = @ + 1]}
  /\ posted' \in {posted, [posted EXCEPT ![ip] = @ + 1]}
  /\ \A i \in DOMAIN heap :
       /\ heap'[i].id = heap[i].id
       /\ \/ heap'[i].blocks = heap[i].blocks
          \/ /\ i = ProfileOf(ip) /\ i # None /\ heap'[i].blocks = heap[i].blocks + 1
             /\ trapped' = [trapped EXCEPT ![ip] = @ + 1]
       /\ \/ heap'[i].posts = heap[i].posts
          \/ /\ i = ProfileOf(ip) /\ i # None /\ heap'[i].posts = heap[i].posts + 1
             /\ posted' = [posted EXCEPT ![ip] = @ + 1]

LEMMA CountUp ==
  ASSUME IInv, KinInv, CountInv, NEW ip \in IPs, CountsMore(ip), UNCHANGED <<used, born>>,
         NEW S \in SUBSET IPs, Closed(S)'
  PROVE  Counts(S)'
<1>1. Closed(S)
  BY ClosedBefore
<1>2. /\ Total(trapped, S) \in Nat /\ Total(posted, S) \in Nat
      /\ trapped \in [IPs -> Nat] /\ posted \in [IPs -> Nat]
  BY TotalNat DEF IInv, TypeOK
<1>3. /\ Total([trapped EXCEPT ![ip] = @ + 1], S) = IF ip \in S THEN Total(trapped, S) + 1 ELSE Total(trapped, S)
      /\ Total([posted EXCEPT ![ip] = @ + 1], S) = IF ip \in S THEN Total(posted, S) + 1 ELSE Total(posted, S)
  <2>1. Total([trapped EXCEPT ![ip] = @ + 1], S) = IF ip \in S THEN Total(trapped, S) + 1 ELSE Total(trapped, S)
    BY <1>2, TotalMore
  <2>2. Total([posted EXCEPT ![ip] = @ + 1], S) = IF ip \in S THEN Total(posted, S) + 1 ELSE Total(posted, S)
    BY <1>2, TotalMore
  <2>. QED  BY <2>1, <2>2
<1>4. ASSUME NEW i \in DOMAIN heap, NEW first \in born[heap[i].id], first \in S
      PROVE  heap'[i].blocks <= Total(trapped', S) /\ heap'[i].posts <= Total(posted', S)
  <2>1. heap[i].blocks \in Nat /\ heap[i].posts \in Nat
    BY IDsTyped DEF Profile
  <2>2. heap[i].blocks <= Total(trapped, S) /\ heap[i].posts <= Total(posted, S)
    BY <1>1, <1>4 DEF CountInv, Counts
  <2>3. i = ProfileOf(ip) /\ i # None => ip \in S
    BY <1>1, <1>4, OwnerInside
  <2>4. heap'[i].blocks <= Total(trapped', S)
    <3>1. \/ Total(trapped', S) = Total(trapped, S)
          \/ Total(trapped', S) = Total(trapped, S) + 1
      BY <1>3 DEF CountsMore
    <3>2. CASE heap'[i].blocks = heap[i].blocks
      BY <1>2, <2>1, <2>2, <3>1, <3>2
    <3>3. CASE /\ i = ProfileOf(ip) /\ i # None /\ heap'[i].blocks = heap[i].blocks + 1
               /\ trapped' = [trapped EXCEPT ![ip] = @ + 1]
      <4>1. Total(trapped', S) = Total(trapped, S) + 1
        BY <1>3, <2>3, <3>3
      <4>. QED  BY <1>2, <2>1, <2>2, <3>3, <4>1
    <3>. QED  BY <3>2, <3>3 DEF CountsMore
  <2>5. heap'[i].posts <= Total(posted', S)
    <3>1. \/ Total(posted', S) = Total(posted, S)
          \/ Total(posted', S) = Total(posted, S) + 1
      BY <1>3 DEF CountsMore
    <3>2. CASE heap'[i].posts = heap[i].posts
      BY <1>2, <2>1, <2>2, <3>1, <3>2
    <3>3. CASE /\ i = ProfileOf(ip) /\ i # None /\ heap'[i].posts = heap[i].posts + 1
               /\ posted' = [posted EXCEPT ![ip] = @ + 1]
      <4>1. Total(posted', S) = Total(posted, S) + 1
        BY <1>3, <2>3, <3>3
      <4>. QED  BY <1>2, <2>1, <2>2, <3>3, <4>1
    <3>. QED  BY <3>2, <3>3 DEF CountsMore
  <2>. QED  BY <2>4, <2>5
<1>5. DOMAIN heap' = DOMAIN heap /\ \A i \in DOMAIN heap : heap'[i].id = heap[i].id
  BY DEF CountsMore
<1>. QED  BY <1>4, <1>5 DEF Counts

LEMMA PostCount ==
  ASSUME IInv, KinInv, CountInv, NEW t \in Threads, RecordPostBlockRequest(t)
  PROVE  CountInv'
<1>. DEFINE ip == call[t].ip  p == ProfileOf(ip)  q == [heap[p] EXCEPT !.posts = @ + 1]
<1>1. ip \in IPs
  BY Caught DEF RecordPostBlockRequest, At
<1>2. p # None => p \in DOMAIN heap /\ heap[p] \in Profile
  BY <1>1, ObjectOf
<1>3. /\ \/ heap' = heap /\ posted' = posted
         \/ p # None /\ heap' = [heap EXCEPT ![p] = q] /\ posted' = [posted EXCEPT ![ip] = @ + 1]
      /\ call' = [call EXCEPT ![t] = Idle] /\ UNCHANGED <<used, born, trapped, escalated>>
  BY DEF RecordPostBlockRequest, Goes
<1>. HIDE DEF p
<1>4. p # None => q.id = heap[p].id /\ q.blocks = heap[p].blocks /\ q.posts = heap[p].posts + 1
  BY <1>2 DEF Profile
<1>. HIDE DEF q
<1>5. CountsMore(ip)
  BY <1>2, <1>3, <1>4 DEF CountsMore, p
<1>6. \A S \in SUBSET IPs : Closed(S)' => Counts(S)'
  BY <1>1, <1>3, <1>5, CountUp
<1>7. \A i \in DOMAIN heap' : born'[heap'[i].id] # {}
  BY <1>3, <1>5 DEF CountsMore, CountInv
<1>8. \A u \in Threads : call'[u] = call[u] \/ call'[u].pc = "idle"
  BY <1>3, IdleTyped DEF IInv, TypeOK
<1>9. \A u \in Threads : call'[u].pc = "escalate" => trapped'[call'[u].ip] > 0
  BY <1>3, <1>8 DEF CountInv
<1>10. EscalationIsEarned'
  BY <1>3 DEF CountInv, EscalationIsEarned
<1>. QED  BY <1>6, <1>7, <1>9, <1>10 DEF CountInv

LEMMA BlockCount ==
  ASSUME IInv, KinInv, CountInv, NEW t \in Threads, NEW ip \in Curious, RecordBlock(t, ip)
  PROVE  CountInv'
<1>. DEFINE p == ProfileOf(ip)  q == [heap[p] EXCEPT !.blocks = @ + 1, !.blocked = "lately"]
            d == [pc |-> "escalate", ip |-> ip]
<1>1. ip \in IPs
  BY CuriousAssumption
<1>2. p # None => p \in DOMAIN heap /\ heap[p] \in Profile
  BY <1>1, ObjectOf
<1>3. /\ heap' = heap \/ (p # None /\ heap' = [heap EXCEPT ![p] = q])
      /\ trapped' = [trapped EXCEPT ![ip] = @ + 1]
      /\ call' = [call EXCEPT ![t] = d] /\ UNCHANGED <<used, born, posted, escalated>>
  BY DEF RecordBlock, Goes
<1>. HIDE DEF p
<1>4. p # None => q.id = heap[p].id /\ q.blocks = heap[p].blocks + 1 /\ q.posts = heap[p].posts
  BY <1>2 DEF Profile
<1>. HIDE DEF q
<1>5. CountsMore(ip)
  BY <1>2, <1>3, <1>4 DEF CountsMore, p
<1>6. \A S \in SUBSET IPs : Closed(S)' => Counts(S)'
  BY <1>1, <1>3, <1>5, CountUp
<1>7. \A i \in DOMAIN heap' : born'[heap'[i].id] # {}
  BY <1>3, <1>5 DEF CountsMore, CountInv
<1>8. \A x \in IPs : trapped[x] \in Nat /\ trapped'[x] \in Nat /\ trapped'[x] >= trapped[x] /\ trapped'[ip] > 0
  BY <1>1, <1>3 DEF IInv, TypeOK
<1>9. \A u \in Threads : call'[u].pc = "escalate" => trapped'[call'[u].ip] > 0
  <2>. SUFFICES ASSUME NEW u \in Threads, call'[u].pc = "escalate" PROVE trapped'[call'[u].ip] > 0
    OBVIOUS
  <2>1. CASE u = t
    BY <1>1, <1>3, <1>8, <2>1 DEF IInv, TypeOK
  <2>2. CASE u # t
    <3>1. call'[u] = call[u]
      BY <1>3, <2>2 DEF IInv, TypeOK
    <3>2. call[u].ip \in IPs /\ trapped[call[u].ip] > 0
      BY <3>1, Caught DEF CountInv
    <3>. QED  BY <1>8, <3>1, <3>2
  <2>. QED  BY <2>1, <2>2
<1>10. EscalationIsEarned'
  BY <1>3 DEF CountInv, EscalationIsEarned
<1>. QED  BY <1>6, <1>7, <1>9, <1>10 DEF CountInv

\* The addresses that ties lead to are a closed set.
LEMMA KinClosed == ASSUME NEW ip \in IPs PROVE Kin(ip) \in SUBSET IPs /\ Closed(Kin(ip)) /\ ip \in Kin(ip)
<1>1. \A x, y \in IPs : Tie(x, y) => Tie(y, x)
  BY DEF Tie
<1>2. ASSUME NEW x \in IPs, NEW y \in IPs, Tie(x, y), x \in Kin(ip) PROVE y \in Kin(ip)
  BY <1>2 DEF Kin
<1>. QED  BY <1>1, <1>2 DEF Kin, Closed

LEMMA EscalateCount ==
  ASSUME IInv, KinInv, CountInv, NEW t \in Threads, EscalateBlock(t)
  PROVE  CountInv'
<1>. DEFINE ip == call[t].ip  p == ProfileOf(ip)  K == Kin(ip)
            e == [ip |-> ip, traps |-> Total(trapped, K), posts |-> Total(posted, K)]
<1>1. ip \in IPs /\ trapped[ip] > 0 /\ trapped \in [IPs -> Nat] /\ posted \in [IPs -> Nat]
  BY Caught DEF EscalateBlock, At, CountInv, IInv, TypeOK
<1>2. /\ \/ escalated' = escalated
         \/ p # None /\ ShouldEscalate(heap[p]) /\ escalated' = escalated \cup {e}
      /\ call' = [call EXCEPT ![t] = Idle] /\ UNCHANGED <<heap, used, born, trapped, posted>>
  BY DEF EscalateBlock, Goes
<1>3. K \in SUBSET IPs /\ Closed(K) /\ ip \in K
  BY <1>1, KinClosed
<1>. HIDE DEF K
<1>4. ASSUME p # None, ShouldEscalate(heap[p])
      PROVE  e.traps >= EscalateAt \/ (e.traps > 0 /\ e.posts > PostLimit)
  <2>1. p \in DOMAIN heap /\ heap[p] \in Profile /\ heap[p].id = ipTo[ip] /\ ipTo[ip] # None
    BY <1>1, <1>4, ObjectOf, ProfileFound DEF ProfileOf, IInv, TypeOK
  <2>2. \E first \in born[heap[p].id] : first \in K
    <3>1. Follows(K, born[ipTo[ip]], ip)
      BY <1>1, <1>3, <2>1 DEF KinInv, Respects
    <3>. QED  BY <1>3, <2>1, <3>1 DEF Follows
  <2>3. heap[p].blocks <= Total(trapped, K) /\ heap[p].posts <= Total(posted, K)
    BY <1>3, <2>1, <2>2 DEF CountInv, Counts
  <2>4. Total(trapped, K) \in Nat /\ Total(posted, K) \in Nat
    BY <1>1, <1>3, TotalNat
  <2>5. Total(trapped, K) > 0
    <3>1. \A x \in K : trapped[x] \in Nat
      BY <1>1, <1>3
    <3>2. trapped[ip] <= Total(trapped, K)
      BY <1>3, <3>1, Finite, TotalHolds
    <3>. QED  BY <1>1, <2>4, <3>2
  <2>6. heap[p].blocks \in Nat /\ heap[p].posts \in Nat
    BY <2>1 DEF Profile
  <2>. HIDE DEF p
  <2>7. heap[p].posts > PostLimit \/ heap[p].blocks >= EscalateAt
    BY <1>4 DEF ShouldEscalate
  <2>. QED  BY <2>3, <2>4, <2>5, <2>6, <2>7, LimitAssumption
<1>5. EscalationIsEarned'
  <2>. HIDE DEF e, p
  <2>. QED  BY <1>2, <1>4 DEF CountInv, EscalationIsEarned
<1>6. \A u \in Threads : call'[u] = call[u] \/ call'[u].pc = "idle"
  BY <1>2, IdleTyped DEF IInv, TypeOK
<1>7. \A u \in Threads : call'[u].pc = "escalate" => trapped'[call'[u].ip] > 0
  BY <1>2, <1>6 DEF CountInv
<1>8. \A S \in SUBSET IPs : Closed(S)' => Counts(S)'
  BY <1>2 DEF CountInv, Counts, Closed, Tie
<1>9. \A i \in DOMAIN heap' : born'[heap'[i].id] # {}
  BY <1>2 DEF CountInv
<1>. QED  BY <1>5, <1>7, <1>8, <1>9 DEF CountInv

LEMMA StepCount == IInv /\ IInv' /\ KinInv /\ CountInv /\ [Next]_vars => CountInv'
<1>. SUFFICES ASSUME IInv, IInv', KinInv, CountInv, [Next]_vars PROVE CountInv'
  OBVIOUS
<1>1. ASSUME NEW t \in Threads, Caller(t) PROVE CountInv'
  BY <1>1, TrackCount, CorrelateCount, WalkCount, UpdateCount, CreateCount,
     PostCount, BlockCount, EscalateCount DEF Caller
<1>. QED  BY <1>1, WaitCount, StutterCount DEF Next

LEMMA InitCount == Init => CountInv
<1>. SUFFICES ASSUME Init PROVE CountInv
  OBVIOUS
<1>1. \A t \in Threads : call[t].pc = "idle"
  BY DEF Init, Idle
<1>2. \A i \in DOMAIN heap : /\ heap[i].blocks = 0 /\ heap[i].posts = 0
                             /\ heap[i].id \in born[heap[i].id]
  <2>1. PICK ips \in Orders, seen \in [1..Cardinality(Legacy) -> Ages] : heap = Imported(ips, seen)
    BY DEF Init
  <2>2. \A i \in DOMAIN heap : ips[i] \in Legacy /\ heap[i] = NewProfile(ips[i], ips[i], <<>>, seen[i])
    BY <2>1 DEF Orders, Imported
  <2>3. \A id \in Legacy : id \in born[id]
    BY LegacyAssumption, IDsOfAddresses DEF Init
  <2>. QED  BY <2>2, <2>3 DEF NewProfile
<1>3. ASSUME NEW S \in SUBSET IPs PROVE Counts(S)
  <2>1. Total(trapped, S) \in Nat /\ Total(posted, S) \in Nat
    BY TotalNat DEF Init
  <2>. QED  BY <1>2, <2>1 DEF Counts
<1>4. EscalationIsEarned
  BY DEF Init, EscalationIsEarned
<1>. QED  BY <1>1, <1>2, <1>3, <1>4 DEF CountInv

\* Nobody is blocked by the honeypot whose kin have not stepped into enough traps, or sent
\* enough requests after one (EscalationIsEarned): the counts of a profile, which wanders
\* among the addresses that are linked to it, are never more than what those have done.
THEOREM EscalationIsAlwaysEarned == Spec => []EscalationIsEarned
<1>1. CountInv => EscalationIsEarned
  BY DEF CountInv
<1>. QED  BY <1>1, InitIInv, InitKin, InitCount, StepIInv, StepKin, StepCount, PTL DEF Spec


-----------------------------------------------------------------------------
(* The reports of other nodes (HeimdallReport, here Reporting).            *)

Writing == {"truncate", "write"}

\* Every variable has its type; a handler knows its report, and the memory it will write.
ReportInv ==
  /\ Reporting!TypeOK
  /\ DOMAIN memory = Nodes
  /\ \A t \in Nodes : pc[t] # "idle" => report[t] \in Reporting!Reports
  /\ \A t \in Nodes : pc[t] \in Writing => Reporting!IsMemory(memory[t])

LEMMA RiskTyped == \A r \in Reporting!Reports : Reporting!riskScore(r) \in 1..100
<1>. SUFFICES ASSUME NEW x \in 1..10, NEW y \in 1..10 PROVE x * y \in 1..100
  BY DEF Reporting!Reports, Reporting!riskScore
<1>1. x \in {1, 2, 3, 4, 5, 6, 7, 8, 9, 10}
  OBVIOUS
<1>. QED  BY <1>1

LEMMA ReportFields ==
  \A r \in Reporting!Reports :
    r.ip \in Suspects /\ r.type \in Types /\ r.severity \in 1..10 /\ r.confidence \in 1..10
BY DEF Reporting!Reports

LEMMA ArrivalsAreReports == \A r \in Reporting!Arrivals : r \in Reporting!Reports
BY DEF Reporting!Arrivals

LEMMA NoneIsNothing == None \notin Nat
BY ReportAssumption DEF Reporting!NoneAssumption

-----------------------------------------------------------------------------
(* What a report makes of a memory.                                        *)

Timelines == UNION {[1..n -> Types] : n \in 1..Cap}

LEMMA AppendedTyped ==
  ASSUME NEW line, line = <<>> \/ line \in Timelines, NEW r \in Reporting!Reports
  PROVE  Reporting!Appended(line, r) \in Timelines
<1>1. Cap \in Nat \ {0} /\ r.type \in Types
  BY ReportAssumption, ReportFields DEF Reporting!CapAssumption
<1>2. ASSUME NEW n \in 1..Cap, line \in [1..n -> Types] PROVE line \in Seq(Types) /\ Len(line) = n
  BY <1>1, <1>2
<1>3. line \in Seq(Types) /\ Len(line) \in 0..Cap
  <2>1. CASE line = <<>>
    BY <1>1, <2>1, EmptySeq
  <2>2. CASE line \in Timelines
    <3>1. PICK n \in 1..Cap : line \in [1..n -> Types]
      BY <2>2 DEF Timelines
    <3>. QED  BY <1>1, <1>2, <3>1
  <2>. QED  BY <2>1, <2>2
<1>. DEFINE base == IF Len(line) >= Cap THEN SubSeq(line, Len(line) - (Cap - 2), Len(line)) ELSE line
<1>4. base \in Seq(Types) /\ Len(base) \in 0..(Cap - 1)
  BY <1>1, <1>3
<1>5. Reporting!Appended(line, r) = Append(base, r.type)
  BY DEF Reporting!Appended
<1>. HIDE DEF base
<1>6. Append(base, r.type) \in Seq(Types) /\ Len(Append(base, r.type)) \in 1..Cap
  BY <1>1, <1>4
<1>7. Append(base, r.type) \in [1..Len(Append(base, r.type)) -> Types]
  BY <1>6, LenProperties
<1>. QED  BY <1>5, <1>6, <1>7 DEF Timelines

LEMMA ActorsTyped ==
  ASSUME NEW x
  PROVE  x \in Reporting!Actors <=>
           /\ x = [status |-> x.status, riskScore |-> x.riskScore, totalActions |-> x.totalActions,
                   timeline |-> x.timeline]
           /\ x.status \in {"HOSTILE", "BLOCKED"} /\ x.riskScore \in 1..100
           /\ x.totalActions \in Nat \ {0} /\ x.timeline \in Timelines
BY DEF Reporting!Actors, Timelines

LEMMA NewActorTyped ==
  ASSUME NEW r \in Reporting!Reports
  PROVE  Reporting!NewActor(r) \in Reporting!Actors
<1>1. Reporting!Appended(<<>>, r) \in Timelines /\ Reporting!riskScore(r) \in 1..100
  BY AppendedTyped, RiskTyped
<1>. QED  BY <1>1 DEF Reporting!NewActor, Reporting!Actors, Timelines

LEMMA UpdatedTyped ==
  ASSUME NEW x \in Reporting!Actors, NEW r \in Reporting!Reports
  PROVE  Reporting!Updated(x, r) \in Reporting!Actors
<1>1. Reporting!Appended(x.timeline, r) \in Timelines /\ Reporting!riskScore(r) \in 1..100
  BY AppendedTyped, RiskTyped, ActorsTyped
<1>2. /\ x.status \in {"HOSTILE", "BLOCKED"} /\ x.riskScore \in 1..100
      /\ x.totalActions \in Nat \ {0}
  BY ActorsTyped
<1>. QED  BY <1>1, <1>2 DEF Reporting!Updated, Reporting!Actors, Timelines

LEMMA MergeTyped ==
  ASSUME NEW m, Reporting!IsMemory(m), NEW r \in Reporting!Reports
  PROVE  Reporting!IsMemory(Reporting!Merge(m, r))
<1>1. PICK S \in SUBSET Suspects : m \in [S -> Reporting!Actors]
  BY DEF Reporting!IsMemory
<1>2. S \cup {r.ip} \in SUBSET Suspects
  BY ReportFields
<1>3. \A ip \in S \cup {r.ip} :
        (IF ip # r.ip THEN m[ip]
         ELSE IF ip \in DOMAIN m THEN Reporting!Updated(m[ip], r) ELSE Reporting!NewActor(r))
          \in Reporting!Actors
  BY <1>1, NewActorTyped, UpdatedTyped
<1>4. Reporting!Merge(m, r) \in [S \cup {r.ip} -> Reporting!Actors]
  BY <1>1, <1>3 DEF Reporting!Merge
<1>. QED  BY <1>2, <1>4 DEF Reporting!IsMemory

LEMMA ParsedTyped ==
  ASSUME ReportInv
  PROVE  Reporting!IsMemory(Reporting!Parsed)
<1>1. Reporting!NoActors \in [{} -> Reporting!Actors]
  BY DEF Reporting!NoActors
<1>2. Reporting!IsMemory(Reporting!NoActors)
  BY <1>1 DEF Reporting!IsMemory
<1>. QED  BY <1>2 DEF ReportInv, Reporting!TypeOK, Reporting!Parsed

-----------------------------------------------------------------------------
\* Stamps and the ages of reports.
StampsTyped(stamps) == stamps \in [Reporting!Keys -> 0..Keep + 1 \cup {None}]

LEMMA OlderTyped ==
  ASSUME NEW stamps, StampsTyped(stamps)
  PROVE  StampsTyped([k \in Reporting!Keys |-> Reporting!Older(stamps[k], Keep)])
<1>1. Keep \in Nat
  BY ReportAssumption DEF Reporting!WindowsAssumption
<1>. QED  BY <1>1 DEF StampsTyped, Reporting!Older

LEMMA PrunedTyped ==
  ASSUME NEW stamps, StampsTyped(stamps), NEW k \in Reporting!Keys
  PROVE  /\ StampsTyped([stamps EXCEPT ![k] = 0])
         /\ StampsTyped(Reporting!Pruned([stamps EXCEPT ![k] = 0]))
<1>1. Keep \in Nat
  BY ReportAssumption DEF Reporting!WindowsAssumption
<1>2. StampsTyped([stamps EXCEPT ![k] = 0])
  BY <1>1 DEF StampsTyped
<1>3. \A s : StampsTyped(s) => StampsTyped(Reporting!Pruned(s))
  BY DEF StampsTyped, Reporting!Pruned
<1>. QED  BY <1>2, <1>3

LEMMA KeyTyped == \A r \in Reporting!Reports : Reporting!KeyOf(r) \in Reporting!Keys
BY ReportFields DEF Reporting!KeyOf, Reporting!Keys

LEMMA ReportInit == Reporting!Init => ReportInv
<1>. SUFFICES ASSUME Reporting!Init PROVE ReportInv
  OBVIOUS
<1>1. /\ dedup = [k \in Reporting!Keys |-> None] /\ heard = [k \in Reporting!Keys |-> None]
      /\ file = Void /\ pc = [t \in Nodes |-> "idle"] /\ report = [t \in Nodes |-> None]
      /\ memory = [t \in Nodes |-> None] /\ blocked = {} /\ merged = [ip \in Suspects |-> <<>>]
      /\ alone = TRUE /\ intact = TRUE
  BY DEF Reporting!Init
<1>. QED  BY <1>1 DEF ReportInv, Reporting!TypeOK, Writing

LEMMA ReceiveTyped ==
  ASSUME ReportInv, NEW t \in Nodes, NEW r \in Reporting!Arrivals, Reporting!Receive(t, r)
  PROVE  ReportInv'
<1>1. /\ pc[t] = "idle" /\ report' = [report EXCEPT ![t] = r]
      /\ pc' = [pc EXCEPT ![t] = IF Reporting!Duplicate(r) THEN "idle" ELSE "stamp"]
      /\ alone' = (alone /\ Reporting!Quiescent)
      /\ UNCHANGED <<dedup, file, memory, blocked, heard, merged, intact>>
  BY DEF Reporting!Receive
<1>2. r \in Reporting!Reports
  BY ArrivalsAreReports
<1>. QED  BY <1>1, <1>2 DEF ReportInv, Reporting!TypeOK, Writing

LEMMA StampTyped ==
  ASSUME ReportInv, NEW t \in Nodes, Reporting!Stamp(t)
  PROVE  ReportInv'
<1>. DEFINE k == Reporting!KeyOf(report[t])
<1>1. /\ pc[t] = "stamp" /\ pc' = [pc EXCEPT ![t] = "read"]
      /\ dedup' = Reporting!Pruned([dedup EXCEPT ![k] = 0]) /\ heard' = [heard EXCEPT ![k] = 0]
      /\ blocked' = IF Reporting!Grave(report[t]) THEN blocked \cup {report[t].ip} ELSE blocked
      /\ UNCHANGED <<file, report, memory, merged, alone, intact>>
  BY DEF Reporting!Stamp
<1>2. report[t] \in Reporting!Reports
  BY <1>1 DEF ReportInv
<1>3. k \in Reporting!Keys /\ report[t].ip \in Suspects
  BY <1>2, KeyTyped, ReportFields
<1>. HIDE DEF k
<1>4. StampsTyped(dedup') /\ StampsTyped(heard')
  BY <1>1, <1>3, PrunedTyped DEF ReportInv, Reporting!TypeOK, StampsTyped
<1>5. blocked' \subseteq Suspects
  BY <1>1, <1>3 DEF ReportInv, Reporting!TypeOK
<1>. QED  BY <1>1, <1>4, <1>5 DEF ReportInv, Reporting!TypeOK, Writing, StampsTyped

\* A reading gives what the file holds, or nothing.
LEMMA ReadIs ==
  ASSUME ReportInv, NEW t \in Nodes, Reporting!Read(t)
  PROVE  \E actors \in {Reporting!Parsed, Reporting!NoActors} :
           /\ pc[t] = "read" /\ pc' = [pc EXCEPT ![t] = "truncate"]
           /\ memory' = [memory EXCEPT ![t] = Reporting!Merge(actors, report[t])]
           /\ intact' = (intact /\ actors = Reporting!Parsed) /\ Reporting!IsMemory(actors)
           /\ UNCHANGED <<dedup, file, report, blocked, heard, merged, alone>>
<1>1. PICK actors \in {Reporting!Parsed, Reporting!NoActors} :
        /\ memory' = [memory EXCEPT ![t] = Reporting!Merge(actors, report[t])]
        /\ intact' = (intact /\ actors = Reporting!Parsed)
  BY DEF Reporting!Read
<1>2. Reporting!IsMemory(Reporting!NoActors)
  <2>1. Reporting!NoActors \in [{} -> Reporting!Actors]
    BY DEF Reporting!NoActors
  <2>. QED  BY <2>1 DEF Reporting!IsMemory
<1>3. /\ pc[t] = "read" /\ pc' = [pc EXCEPT ![t] = "truncate"]
      /\ UNCHANGED <<dedup, file, report, blocked, heard, merged, alone>>
  BY DEF Reporting!Read
<1>4. Reporting!IsMemory(actors)
  BY <1>1, <1>2, ParsedTyped
<1>. QED  BY <1>1, <1>3, <1>4

LEMMA ReadTyped ==
  ASSUME ReportInv, NEW t \in Nodes, Reporting!Read(t)
  PROVE  ReportInv'
<1>1. PICK actors : /\ pc[t] = "read" /\ pc' = [pc EXCEPT ![t] = "truncate"]
                    /\ memory' = [memory EXCEPT ![t] = Reporting!Merge(actors, report[t])]
                    /\ intact' \in BOOLEAN /\ Reporting!IsMemory(actors)
                    /\ UNCHANGED <<dedup, file, report, blocked, heard, merged, alone>>
  BY ReadIs DEF ReportInv, Reporting!TypeOK
<1>. DEFINE m == Reporting!Merge(actors, report[t])
<1>2. Reporting!IsMemory(m)
  BY <1>1, MergeTyped DEF ReportInv
<1>3. memory' = [memory EXCEPT ![t] = m]
  BY <1>1
<1>. HIDE DEF m
<1>. QED  BY <1>1, <1>2, <1>3 DEF ReportInv, Reporting!TypeOK, Writing

LEMMA TruncateTyped ==
  ASSUME ReportInv, NEW t \in Nodes, Reporting!Truncate(t)
  PROVE  ReportInv'
<1>1. /\ pc[t] = "truncate" /\ pc' = [pc EXCEPT ![t] = "write"] /\ file' = Void
      /\ UNCHANGED <<dedup, report, memory, blocked, heard, merged, alone, intact>>
  BY DEF Reporting!Truncate
<1>. QED  BY <1>1 DEF ReportInv, Reporting!TypeOK, Writing

\* A report is answered, written or not.
Answers(t) == Reporting!Write(t) \/ Reporting!WriteFails(t)

LEMMA AnswerIs ==
  ASSUME ReportInv, NEW t \in Nodes, Answers(t)
  PROVE  /\ pc[t] \in Writing /\ pc' = [pc EXCEPT ![t] = "idle"] /\ memory' = [memory EXCEPT ![t] = None]
         /\ file' \in {file, memory[t], Torn}
         /\ report[t] \in Reporting!Reports /\ report[t].ip \in Suspects
         /\ merged' = [merged EXCEPT ![report[t].ip] = Append(@, report[t])]
         /\ intact' = intact \/ ~intact'
         /\ intact' \in BOOLEAN
         /\ UNCHANGED <<dedup, report, blocked, heard, alone>>
<1>1. /\ pc' = [pc EXCEPT ![t] = "idle"] /\ memory' = [memory EXCEPT ![t] = None]
      /\ merged' = [merged EXCEPT ![report[t].ip] = Append(@, report[t])]
      /\ UNCHANGED <<dedup, report, blocked, heard, alone>>
  BY DEF Answers, Reporting!Write, Reporting!WriteFails, Reporting!Answer
<1>2. pc[t] \in Writing /\ file' \in {file, memory[t], Torn}
  BY DEF Answers, Reporting!Write, Reporting!WriteFails, Writing
<1>3. intact' \in BOOLEAN /\ (intact' = intact \/ ~intact')
  BY DEF Answers, Reporting!Write, Reporting!WriteFails, ReportInv, Reporting!TypeOK
<1>4. report[t] \in Reporting!Reports
  BY <1>2 DEF ReportInv, Writing
<1>. QED  BY <1>1, <1>2, <1>3, <1>4, ReportFields

LEMMA WriteIs ==
  ASSUME NEW t \in Nodes, Reporting!Write(t)
  PROVE  pc[t] = "write" /\ (file' = memory[t] \/ file # Void) /\ UNCHANGED intact
BY DEF Reporting!Write

LEMMA AnswerTyped ==
  ASSUME ReportInv, NEW t \in Nodes, Answers(t)
  PROVE  ReportInv'
<1>1. file' \in {Void, Torn} \/ Reporting!IsMemory(file')
  BY AnswerIs DEF ReportInv, Reporting!TypeOK
<1>2. merged' \in [Suspects -> Seq(Reporting!Reports)]
  <2>1. merged \in [Suspects -> Seq(Reporting!Reports)]
    BY DEF ReportInv, Reporting!TypeOK
  <2>. DEFINE ip == report[t].ip  longer == Append(merged[ip], report[t])
  <2>2. longer \in Seq(Reporting!Reports) /\ ip \in Suspects /\ merged' = [merged EXCEPT ![ip] = longer]
    BY <2>1, AnswerIs
  <2>. HIDE DEF ip, longer
  <2>. QED  BY <2>1, <2>2
<1>. QED  BY <1>1, <1>2, AnswerIs DEF ReportInv, Reporting!TypeOK, Writing

LEMMA TickTyped ==
  ASSUME ReportInv, Reporting!Tick
  PROVE  ReportInv'
<1>1. StampsTyped(dedup') /\ StampsTyped(heard') /\ UNCHANGED <<file, pc, report, memory, blocked, merged, alone, intact>>
  BY OlderTyped DEF Reporting!Tick, ReportInv, Reporting!TypeOK, StampsTyped
<1>. QED  BY <1>1 DEF ReportInv, Reporting!TypeOK, StampsTyped

LEMMA CrashTyped ==
  ASSUME ReportInv, Reporting!Crash
  PROVE  ReportInv'
BY DEF Reporting!Crash, ReportInv, Reporting!TypeOK, Writing

LEMMA ReportSteps == ReportInv /\ [Reporting!Next]_Reporting!vars => ReportInv'
<1>. SUFFICES ASSUME ReportInv, [Reporting!Next]_Reporting!vars PROVE ReportInv'
  OBVIOUS
<1>1. CASE UNCHANGED Reporting!vars
  BY <1>1 DEF Reporting!vars, ReportInv, Reporting!TypeOK
<1>2. CASE Reporting!Next
  BY <1>2, ReceiveTyped, StampTyped, ReadTyped, TruncateTyped, AnswerTyped, TickTyped, CrashTyped
     DEF Reporting!Next, Reporting!Step, Answers
<1>. QED  BY <1>1, <1>2

\* The intake of reports, type-correct whatever interleaves: no timeline is longer than Cap, and
\* a handler that writes has a memory to write (handleHeimdallReport).
THEOREM ReportsTypeCorrect == Reporting!Spec => []Reporting!TypeOK
<1>1. ReportInv => Reporting!TypeOK
  BY DEF ReportInv
<1>. QED  BY <1>1, ReportInit, ReportSteps, PTL DEF Reporting!Spec

-----------------------------------------------------------------------------
(* Nothing is made up: what a memory credits an address with was reported  *)
(* of it.                                                                  *)

\* All of one sequence of reports is in another.
Within(s, u) == Len(s) <= Len(u) /\ \A i \in DOMAIN s : \E j \in DOMAIN u : u[j] = s[i]

Credited(x, s) ==
  /\ x.totalActions <= Len(s)
  /\ \E i \in DOMAIN s : Reporting!riskScore(s[i]) = x.riskScore
  /\ x.status = "BLOCKED" => \E i \in DOMAIN s : s[i].severity >= 7

\* What will have been reported of an address when t is done.
Expected(t, ip) == IF ip = report[t].ip THEN Append(merged[ip], report[t]) ELSE merged[ip]

CreditInv ==
  /\ \A ip \in DOMAIN Reporting!Parsed : ip \in Suspects /\ Credited(Reporting!Parsed[ip], merged[ip])
  /\ \A t \in Nodes : pc[t] \in Writing =>
       \A ip \in DOMAIN memory[t] : ip \in Suspects /\ Credited(memory[t][ip], Expected(t, ip))

LEMMA WithinLonger ==
  ASSUME NEW s \in Seq(Reporting!Reports), NEW r \in Reporting!Reports
  PROVE  /\ Append(s, r) \in Seq(Reporting!Reports) /\ Len(Append(s, r)) = Len(s) + 1
         /\ DOMAIN s = 1..Len(s) /\ DOMAIN Append(s, r) = 1..(Len(s) + 1)
         /\ \A i \in DOMAIN s : Append(s, r)[i] = s[i]
         /\ Append(s, r)[Len(s) + 1] = r
         /\ Within(s, Append(s, r))
<1>1. /\ Append(s, r) \in Seq(Reporting!Reports) /\ Len(Append(s, r)) = Len(s) + 1
      /\ DOMAIN s = 1..Len(s) /\ DOMAIN Append(s, r) = 1..(Len(s) + 1)
      /\ \A i \in DOMAIN s : Append(s, r)[i] = s[i]
      /\ Append(s, r)[Len(s) + 1] = r
  OBVIOUS
<1>. DEFINE u == Append(s, r)
<1>. HIDE DEF u
<1>2. DOMAIN s \subseteq DOMAIN u /\ Len(s) <= Len(u) /\ \A i \in DOMAIN s : u[i] = s[i]
  BY <1>1, LenProperties DEF u
<1>3. Within(s, u)
  BY <1>2 DEF Within
<1>. QED  BY <1>1, <1>3 DEF u

\* A report that comes in between takes nothing away.
LEMMA WithinBetween ==
  ASSUME NEW s \in Seq(Reporting!Reports), NEW r \in Reporting!Reports, NEW q \in Reporting!Reports
  PROVE  Within(Append(s, r), Append(Append(s, q), r))
<1>. DEFINE u == Append(s, r)  v == Append(s, q)  w == Append(v, r)  n == Len(s)
<1>1. n \in Nat
  BY LenProperties
<1>2. /\ u \in Seq(Reporting!Reports) /\ Len(u) = n + 1 /\ DOMAIN s = 1..n /\ DOMAIN u = 1..(n + 1)
      /\ \A i \in DOMAIN s : u[i] = s[i]
      /\ u[n + 1] = r
  BY WithinLonger
<1>3. /\ v \in Seq(Reporting!Reports) /\ Len(v) = n + 1 /\ DOMAIN v = 1..(n + 1)
      /\ \A i \in DOMAIN s : v[i] = s[i]
  BY WithinLonger
<1>4. /\ Len(w) = Len(v) + 1 /\ DOMAIN w = 1..(Len(v) + 1)
      /\ \A i \in DOMAIN v : w[i] = v[i]
      /\ w[Len(v) + 1] = r
  BY <1>3, WithinLonger
<1>. HIDE DEF u, v, w, n
<1>5. ASSUME NEW i \in DOMAIN u PROVE \E j \in DOMAIN w : w[j] = u[i]
  <2>1. CASE i = n + 1
    <3>1. n + 2 \in DOMAIN w /\ w[n + 2] = u[i]
      BY <1>1, <1>2, <1>3, <1>4, <2>1
    <3>. QED  BY <3>1
  <2>2. CASE i # n + 1
    <3>1. i \in DOMAIN s /\ i \in DOMAIN v /\ i \in DOMAIN w
      BY <1>1, <1>2, <1>3, <1>4, <2>2
    <3>. QED  BY <1>2, <1>3, <1>4, <3>1
  <2>. QED  BY <2>1, <2>2
<1>6. Len(u) <= Len(w)
  BY <1>1, <1>2, <1>3, <1>4
<1>7. Within(u, w)
  BY <1>5, <1>6 DEF Within
<1>. QED  BY <1>7 DEF u, v, w

LEMMA CreditedWithin ==
  ASSUME NEW x, x.totalActions \in Nat, NEW s \in Seq(Reporting!Reports), NEW u \in Seq(Reporting!Reports),
         Credited(x, s), Within(s, u)
  PROVE  Credited(x, u)
<1>1. Len(s) \in Nat /\ Len(u) \in Nat
  BY LenProperties
<1>2. x.totalActions <= Len(u)
  BY <1>1 DEF Credited, Within
<1>3. \E j \in DOMAIN u : Reporting!riskScore(u[j]) = x.riskScore
  <2>1. PICK i \in DOMAIN s : Reporting!riskScore(s[i]) = x.riskScore
    BY DEF Credited
  <2>2. PICK j \in DOMAIN u : u[j] = s[i]
    BY DEF Within
  <2>. QED  BY <2>1, <2>2
<1>4. ASSUME x.status = "BLOCKED" PROVE \E j \in DOMAIN u : u[j].severity >= 7
  <2>1. PICK i \in DOMAIN s : s[i].severity >= 7
    BY <1>4 DEF Credited
  <2>2. PICK j \in DOMAIN u : u[j] = s[i]
    BY DEF Within
  <2>. QED  BY <2>1, <2>2
<1>. QED  BY <1>2, <1>3, <1>4 DEF Credited

\* What the merge writes down of a report's address was reported.
LEMMA UpdatedCredited ==
  ASSUME NEW x \in Reporting!Actors, NEW s \in Seq(Reporting!Reports), NEW r \in Reporting!Reports,
         Credited(x, s)
  PROVE  Credited(Reporting!Updated(x, r), Append(s, r))
<1>. DEFINE u == Append(s, r)  y == Reporting!Updated(x, r)  n == Len(s) + 1
<1>1. /\ u \in Seq(Reporting!Reports) /\ Len(u) = n /\ n \in DOMAIN u /\ u[n] = r /\ Within(s, u)
      /\ Len(s) \in Nat
  BY WithinLonger, LenProperties
<1>2. /\ y.totalActions = x.totalActions + 1 /\ x.totalActions \in Nat
      /\ y.status = IF r.severity >= 7 THEN "BLOCKED" ELSE x.status
      /\ y.riskScore = x.riskScore \/ y.riskScore = Reporting!riskScore(r)
  BY ActorsTyped DEF Reporting!Updated
<1>3. Credited(x, u)
  BY <1>1, <1>2, CreditedWithin
<1>. HIDE DEF u, y
<1>4. y.totalActions <= Len(u)
  BY <1>1, <1>2 DEF Credited
<1>5. \E i \in DOMAIN u : Reporting!riskScore(u[i]) = y.riskScore
  BY <1>1, <1>2, <1>3 DEF Credited
<1>6. y.status = "BLOCKED" => \E i \in DOMAIN u : u[i].severity >= 7
  BY <1>1, <1>2, <1>3 DEF Credited
<1>7. Credited(y, u)
  BY <1>4, <1>5, <1>6 DEF Credited
<1>. QED  BY <1>7 DEF u, y

LEMMA NewActorCredited ==
  ASSUME NEW s \in Seq(Reporting!Reports), NEW r \in Reporting!Reports
  PROVE  Credited(Reporting!NewActor(r), Append(s, r))
<1>. DEFINE u == Append(s, r)  y == Reporting!NewActor(r)  n == Len(s) + 1
<1>1. /\ u \in Seq(Reporting!Reports) /\ Len(u) = n /\ n \in DOMAIN u /\ u[n] = r
      /\ Len(s) \in Nat
  BY WithinLonger, LenProperties
<1>2. y.totalActions = 1 /\ y.status = "HOSTILE" /\ y.riskScore = Reporting!riskScore(r)
  BY DEF Reporting!NewActor
<1>. HIDE DEF u, y
<1>3. Credited(y, u)
  BY <1>1, <1>2 DEF Credited
<1>. QED  BY <1>3 DEF u, y

\* Of an actor in a memory.
LEMMA InMemory ==
  ASSUME NEW m, Reporting!IsMemory(m)
  PROVE  DOMAIN m \subseteq Suspects /\ \A ip \in DOMAIN m : m[ip] \in Reporting!Actors /\ m[ip].totalActions \in Nat
BY ActorsTyped DEF Reporting!IsMemory

LEMMA MergedTyped ==
  ASSUME ReportInv
  PROVE  /\ \A ip \in Suspects : merged[ip] \in Seq(Reporting!Reports)
         /\ \A t \in Nodes, ip \in Suspects :
              pc[t] # "idle" => Expected(t, ip) \in Seq(Reporting!Reports)
BY WithinLonger DEF ReportInv, Reporting!TypeOK, Expected

LEMMA ReadCredits ==
  ASSUME ReportInv, CreditInv, NEW t \in Nodes, Reporting!Read(t)
  PROVE  CreditInv'
<1>0. PICK actors \in {Reporting!Parsed, Reporting!NoActors} :
        /\ pc[t] = "read" /\ pc' = [pc EXCEPT ![t] = "truncate"]
        /\ memory' = [memory EXCEPT ![t] = Reporting!Merge(actors, report[t])]
        /\ Reporting!IsMemory(actors) /\ UNCHANGED <<file, report, merged>>
  BY ReadIs
<1>. DEFINE r == report[t]  m == Reporting!Merge(actors, r)
<1>1. /\ pc[t] = "read" /\ pc' = [pc EXCEPT ![t] = "truncate"] /\ memory' = [memory EXCEPT ![t] = m]
      /\ UNCHANGED <<file, report, merged>>
  BY <1>0
<1>2. r \in Reporting!Reports /\ r.ip \in Suspects
  BY <1>1, ReportFields DEF ReportInv
<1>3. /\ DOMAIN m = DOMAIN actors \cup {r.ip}
      /\ \A ip \in DOMAIN m :
           m[ip] = IF ip # r.ip THEN actors[ip]
                   ELSE IF ip \in DOMAIN actors THEN Reporting!Updated(actors[ip], r)
                   ELSE Reporting!NewActor(r)
  BY DEF Reporting!Merge
<1>9. \A ip \in DOMAIN actors : ip \in Suspects /\ Credited(actors[ip], merged[ip])
  <2>1. DOMAIN Reporting!NoActors = {}
    BY DEF Reporting!NoActors
  <2>. QED  BY <2>1 DEF CreditInv
<1>4. \A ip \in DOMAIN m : ip \in Suspects /\ Credited(m[ip], Expected(t, ip))
  <2>. SUFFICES ASSUME NEW ip \in DOMAIN m PROVE ip \in Suspects /\ Credited(m[ip], Expected(t, ip))
    OBVIOUS
  <2>1. ip \in Suspects /\ merged[ip] \in Seq(Reporting!Reports)
    BY <1>2, <1>3, <1>9, MergedTyped
  <2>2. CASE ip # r.ip
    BY <1>3, <1>9, <2>1, <2>2 DEF Expected
  <2>3. CASE ip = r.ip /\ ip \in DOMAIN actors
    <3>1. actors[ip] \in Reporting!Actors
      BY <1>0, <2>3, InMemory
    <3>2. Credited(Reporting!Updated(actors[ip], r), Append(merged[ip], r))
      BY <1>2, <1>9, <2>1, <2>3, <3>1, UpdatedCredited
    <3>. QED  BY <1>3, <2>1, <2>3, <3>2 DEF Expected
  <2>4. CASE ip = r.ip /\ ip \notin DOMAIN actors
    <3>1. Credited(Reporting!NewActor(r), Append(merged[ip], r))
      BY <1>2, <2>1, NewActorCredited
    <3>. QED  BY <1>3, <2>1, <2>4, <3>1 DEF Expected
  <2>. QED  BY <2>2, <2>3, <2>4
<1>. HIDE DEF m
<1>5. \A u \in Nodes : pc'[u] = (IF u = t THEN "truncate" ELSE pc[u]) /\ memory'[u] = IF u = t THEN m ELSE memory[u]
  BY <1>1 DEF ReportInv, Reporting!TypeOK
<1>6. \A u \in Nodes, ip \in Suspects : Expected(u, ip)' = Expected(u, ip)
  BY <1>1 DEF Expected
<1>7. Reporting!Parsed' = Reporting!Parsed
  BY <1>1 DEF Reporting!Parsed
<1>8. ASSUME NEW u \in Nodes, pc'[u] \in Writing, NEW ip \in DOMAIN memory'[u]
      PROVE  ip \in Suspects /\ Credited(memory'[u][ip], Expected(u, ip)')
  <2>1. CASE u = t
    BY <1>4, <1>5, <1>6, <1>8, <2>1
  <2>2. CASE u # t
    BY <1>5, <1>6, <1>8, <2>2 DEF CreditInv
  <2>. QED  BY <2>1, <2>2
<1>. QED  BY <1>1, <1>7, <1>8 DEF CreditInv

LEMMA AnswerCredits ==
  ASSUME ReportInv, CreditInv, NEW t \in Nodes, Answers(t)
  PROVE  CreditInv'
<1>. DEFINE r == report[t]
<1>1. /\ pc[t] \in Writing /\ pc' = [pc EXCEPT ![t] = "idle"] /\ memory' = [memory EXCEPT ![t] = None]
      /\ file' \in {file, memory[t], Torn}
      /\ r \in Reporting!Reports /\ r.ip \in Suspects
      /\ merged' = [merged EXCEPT ![r.ip] = Append(@, r)]
      /\ UNCHANGED report
  BY AnswerIs
<1>2. \A ip \in Suspects : merged'[ip] = IF ip = r.ip THEN Append(merged[ip], r) ELSE merged[ip]
  BY <1>1 DEF ReportInv, Reporting!TypeOK
<1>3. \A ip \in Suspects : merged'[ip] = Expected(t, ip)
  BY <1>2 DEF Expected
<1>4. ASSUME NEW ip \in DOMAIN Reporting!Parsed'
      PROVE  ip \in Suspects /\ Credited(Reporting!Parsed'[ip], merged'[ip])
  <2>1. Reporting!Parsed' = Reporting!NoActors \/ Reporting!Parsed' = memory[t] \/ Reporting!Parsed' = Reporting!Parsed
    BY <1>1 DEF Reporting!Parsed
  <2>2. DOMAIN Reporting!NoActors = {}
    BY DEF Reporting!NoActors
  <2>3. CASE Reporting!Parsed' = memory[t]
    BY <1>1, <1>3, <1>4, <2>3 DEF CreditInv
  <2>4. CASE Reporting!Parsed' = Reporting!Parsed
    <3>1. ip \in Suspects /\ Credited(Reporting!Parsed[ip], merged[ip])
      BY <1>4, <2>4 DEF CreditInv
    <3>2. Reporting!Parsed[ip].totalActions \in Nat
      BY <1>4, <2>4, ParsedTyped, InMemory
    <3>3. /\ merged[ip] \in Seq(Reporting!Reports) /\ merged'[ip] \in Seq(Reporting!Reports)
          /\ Within(merged[ip], merged'[ip])
      <4>1. merged[ip] \in Seq(Reporting!Reports) /\ \A q \in Seq(Reporting!Reports) : Within(q, q)
        BY <3>1, MergedTyped, LenProperties DEF Within
      <4>2. Append(merged[ip], r) \in Seq(Reporting!Reports) /\ Within(merged[ip], Append(merged[ip], r))
        BY <1>1, <4>1, WithinLonger
      <4>. QED  BY <1>2, <3>1, <4>1, <4>2
    <3>. QED  BY <2>4, <3>1, <3>2, <3>3, CreditedWithin
  <2>. QED  BY <1>4, <2>1, <2>2, <2>3, <2>4
<1>5. ASSUME NEW u \in Nodes, pc'[u] \in Writing, NEW ip \in DOMAIN memory'[u]
      PROVE  ip \in Suspects /\ Credited(memory'[u][ip], Expected(u, ip)')
  <2>1. u # t /\ pc'[u] = pc[u] /\ memory'[u] = memory[u] /\ pc[u] # "idle"
    BY <1>1, <1>5 DEF ReportInv, Reporting!TypeOK, Writing
  <2>2. ip \in Suspects /\ Credited(memory[u][ip], Expected(u, ip))
    BY <1>5, <2>1 DEF CreditInv
  <2>3. memory[u][ip].totalActions \in Nat
    BY <1>5, <2>1, InMemory DEF ReportInv
  <2>4. report[u] \in Reporting!Reports /\ merged[ip] \in Seq(Reporting!Reports)
    BY <2>1, <2>2, MergedTyped DEF ReportInv
  <2>5. Within(Expected(u, ip), Expected(u, ip)') /\ Expected(u, ip)' \in Seq(Reporting!Reports)
    <3>1. CASE ip # r.ip
      <4>1. Expected(u, ip)' = Expected(u, ip)
        BY <1>1, <1>2, <2>2, <3>1 DEF Expected
      <4>2. Expected(u, ip) \in Seq(Reporting!Reports)
        BY <2>1, <2>2, MergedTyped
      <4>3. \A s \in Seq(Reporting!Reports) : Within(s, s)
        BY LenProperties DEF Within
      <4>. QED  BY <4>1, <4>2, <4>3
    <3>2. CASE ip = r.ip
      <4>1. /\ Within(merged[ip], Append(merged[ip], r)) /\ Append(merged[ip], r) \in Seq(Reporting!Reports)
            /\ Within(Append(merged[ip], report[u]), Append(Append(merged[ip], r), report[u]))
            /\ Append(Append(merged[ip], r), report[u]) \in Seq(Reporting!Reports)
        BY <1>1, <2>4, WithinLonger, WithinBetween
      <4>. QED  BY <1>1, <1>2, <2>2, <3>2, <4>1 DEF Expected
    <3>. QED  BY <3>1, <3>2
  <2>6. Expected(u, ip) \in Seq(Reporting!Reports)
    BY <2>1, <2>2, MergedTyped
  <2>. QED  BY <2>1, <2>2, <2>3, <2>5, <2>6, CreditedWithin
<1>. QED  BY <1>4, <1>5 DEF CreditInv

\* A step that leaves alone what has been reported and what handlers remember.
LEMMA OtherCredits ==
  ASSUME ReportInv, CreditInv, UNCHANGED merged, file' = file \/ file' = Void,
         \A t \in Nodes : pc'[t] \in Writing =>
           pc[t] \in Writing /\ memory'[t] = memory[t] /\ report'[t] = report[t]
  PROVE  CreditInv'
<1>1. Reporting!Parsed' = Reporting!Parsed \/ Reporting!Parsed' = Reporting!NoActors
  BY DEF Reporting!Parsed
<1>2. DOMAIN Reporting!NoActors = {}
  BY DEF Reporting!NoActors
<1>3. \A ip \in DOMAIN Reporting!Parsed' : ip \in Suspects /\ Credited(Reporting!Parsed'[ip], merged'[ip])
  BY <1>1, <1>2 DEF CreditInv
<1>4. ASSUME NEW u \in Nodes, pc'[u] \in Writing, NEW ip \in DOMAIN memory'[u]
      PROVE  ip \in Suspects /\ Credited(memory'[u][ip], Expected(u, ip)')
  BY <1>4 DEF CreditInv, Expected
<1>. QED  BY <1>3, <1>4 DEF CreditInv

\* What the other steps do to handlers.
LEMMA OtherSteps ==
  ASSUME ReportInv,
         \/ \E t \in Nodes, r \in Reporting!Arrivals : Reporting!Receive(t, r)
         \/ \E t \in Nodes : Reporting!Stamp(t) \/ Reporting!Truncate(t)
         \/ Reporting!Tick \/ Reporting!Crash \/ UNCHANGED Reporting!vars
  PROVE  /\ UNCHANGED merged /\ (file' = file \/ file' = Void)
         /\ \A t \in Nodes : pc'[t] \in Writing =>
              pc[t] \in Writing /\ memory'[t] = memory[t] /\ report'[t] = report[t]
<1>1. ASSUME NEW t \in Nodes, NEW r \in Reporting!Arrivals, Reporting!Receive(t, r)
      PROVE  /\ UNCHANGED <<merged, file, memory>> /\ pc[t] = "idle"
             /\ report' = [report EXCEPT ![t] = r]
             /\ \E new \in {"idle", "stamp"} : pc' = [pc EXCEPT ![t] = new]
  BY <1>1 DEF Reporting!Receive
<1>2. ASSUME NEW t \in Nodes, Reporting!Stamp(t)
      PROVE  UNCHANGED <<merged, file, memory, report>> /\ pc' = [pc EXCEPT ![t] = "read"]
  BY <1>2 DEF Reporting!Stamp
<1>3. ASSUME NEW t \in Nodes, Reporting!Truncate(t)
      PROVE  /\ UNCHANGED <<merged, memory, report>> /\ file' = Void /\ pc[t] = "truncate"
             /\ pc' = [pc EXCEPT ![t] = "write"]
  BY <1>3 DEF Reporting!Truncate
<1>4. CASE Reporting!Tick \/ UNCHANGED Reporting!vars
  BY <1>4 DEF Reporting!Tick, Reporting!vars
<1>5. CASE Reporting!Crash
  BY <1>5 DEF Reporting!Crash, Writing
<1>. QED  BY <1>1, <1>2, <1>3, <1>4, <1>5 DEF ReportInv, Reporting!TypeOK, Writing

LEMMA CreditInit == Reporting!Init => CreditInv
<1>. SUFFICES ASSUME Reporting!Init PROVE CreditInv
  OBVIOUS
<1>1. file = Void /\ pc = [t \in Nodes |-> "idle"]
  BY DEF Reporting!Init
<1>2. DOMAIN Reporting!Parsed = {}
  BY <1>1 DEF Reporting!Parsed, Reporting!NoActors
<1>. QED  BY <1>1, <1>2 DEF CreditInv, Writing

LEMMA CreditSteps == ReportInv /\ CreditInv /\ [Reporting!Next]_Reporting!vars => CreditInv'
<1>. SUFFICES ASSUME ReportInv, CreditInv, [Reporting!Next]_Reporting!vars PROVE CreditInv'
  OBVIOUS
<1>1. ASSUME NEW t \in Nodes, Reporting!Read(t) \/ Answers(t) PROVE CreditInv'
  BY <1>1, ReadCredits, AnswerCredits
<1>2. CASE \/ \E t \in Nodes, r \in Reporting!Arrivals : Reporting!Receive(t, r)
           \/ \E t \in Nodes : Reporting!Stamp(t) \/ Reporting!Truncate(t)
           \/ Reporting!Tick \/ Reporting!Crash \/ UNCHANGED Reporting!vars
  BY <1>2, OtherSteps, OtherCredits
<1>. QED  BY <1>1, <1>2 DEF Reporting!Next, Reporting!Step, Answers

-----------------------------------------------------------------------------
(* Reports that come one at a time.                                        *)

\* Two stamps agree where it matters.
StampsAgree ==
  \A k \in Reporting!Keys : heard[k] # None /\ heard[k] < Quiet => dedup[k] = heard[k]

\* As long as reports come one at a time, one handler is at work, and a report that is about to
\* leave its stamp is still no duplicate.
OneByOne ==
  alone => /\ \A t, u \in Nodes : pc[t] # "idle" /\ pc[u] # "idle" => t = u
           /\ \A t \in Nodes : pc[t] = "stamp" => ~Reporting!Duplicate(report[t])

QuietInv == StampsAgree /\ OneByOne

LEMMA Windows == Quiet \in Nat \ {0} /\ Keep \in Nat /\ Quiet <= Keep
BY ReportAssumption DEF Reporting!WindowsAssumption

LEMMA ReceiveQuiet ==
  ASSUME ReportInv, QuietInv, NEW t \in Nodes, NEW r \in Reporting!Arrivals, Reporting!Receive(t, r)
  PROVE  QuietInv'
<1>1. /\ pc[t] = "idle" /\ report' = [report EXCEPT ![t] = r]
      /\ pc' = [pc EXCEPT ![t] = IF Reporting!Duplicate(r) THEN "idle" ELSE "stamp"]
      /\ alone' = (alone /\ Reporting!Quiescent)
      /\ UNCHANGED <<dedup, heard>>
  BY DEF Reporting!Receive
<1>2. \A u \in Nodes : /\ pc'[u] = IF u = t THEN IF Reporting!Duplicate(r) THEN "idle" ELSE "stamp" ELSE pc[u]
                       /\ report'[u] = IF u = t THEN r ELSE report[u]
  BY <1>1 DEF ReportInv, Reporting!TypeOK
<1>3. \A x : Reporting!Duplicate(x)' = Reporting!Duplicate(x)
  BY <1>1 DEF Reporting!Duplicate
<1>4. StampsAgree'
  BY <1>1 DEF QuietInv, StampsAgree
<1>5. ASSUME alone'
      PROVE  /\ \A x, u \in Nodes : pc'[x] # "idle" /\ pc'[u] # "idle" => x = u
             /\ \A x \in Nodes : pc'[x] = "stamp" => ~Reporting!Duplicate(report[x])'
  <2>1. \A u \in Nodes : pc[u] = "idle"
    BY <1>1, <1>5 DEF Reporting!Quiescent
  <2>2. \A x \in Nodes : Reporting!Duplicate(report[x])' = Reporting!Duplicate(report'[x])
    BY <1>1 DEF Reporting!Duplicate
  <2>. QED  BY <1>2, <2>1, <2>2
<1>. QED  BY <1>4, <1>5 DEF QuietInv, OneByOne

LEMMA StampQuiet ==
  ASSUME ReportInv, QuietInv, NEW t \in Nodes, Reporting!Stamp(t)
  PROVE  QuietInv'
<1>. DEFINE k == Reporting!KeyOf(report[t])  stamps == [dedup EXCEPT ![k] = 0]
<1>1. /\ pc[t] = "stamp" /\ pc' = [pc EXCEPT ![t] = "read"]
      /\ dedup' = Reporting!Pruned(stamps) /\ heard' = [heard EXCEPT ![k] = 0]
      /\ UNCHANGED <<report, alone>>
  BY DEF Reporting!Stamp
<1>. HIDE DEF k
<1>2. /\ dedup \in [Reporting!Keys -> 0..Keep + 1 \cup {None}]
      /\ heard \in [Reporting!Keys -> 0..Keep + 1 \cup {None}]
  BY DEF ReportInv, Reporting!TypeOK
<1>3. ASSUME NEW j \in Reporting!Keys, heard'[j] # None, heard'[j] < Quiet PROVE dedup'[j] = heard'[j]
  <2>1. stamps[j] = (IF j = k THEN 0 ELSE dedup[j]) /\ heard'[j] = (IF j = k THEN 0 ELSE heard[j])
    BY <1>1, <1>2
  <2>2. stamps[j] = heard'[j] /\ heard'[j] \in Nat /\ ~(heard'[j] > Keep)
    BY <1>2, <1>3, <2>1, Windows DEF QuietInv, StampsAgree
  <2>. HIDE DEF stamps
  <2>. QED  BY <1>1, <2>2 DEF Reporting!Pruned
<1>4. OneByOne'
  <2>1. \A u \in Nodes : pc'[u] = IF u = t THEN "read" ELSE pc[u]
    BY <1>1 DEF ReportInv, Reporting!TypeOK
  <2>2. alone' => \A u \in Nodes : pc'[u] = "stamp" => FALSE
    BY <1>1, <2>1 DEF QuietInv, OneByOne
  <2>. QED  BY <1>1, <2>1, <2>2 DEF QuietInv, OneByOne
<1>. QED  BY <1>3, <1>4 DEF QuietInv, StampsAgree

\* The other steps of a handler.
LEMMA StepQuiet ==
  ASSUME ReportInv, QuietInv, NEW t \in Nodes, pc[t] # "idle",
         NEW new \in {"idle", "truncate", "write"}, pc' = [pc EXCEPT ![t] = new],
         UNCHANGED <<dedup, heard, report, alone>>
  PROVE  QuietInv'
<1>1. \A u \in Nodes : pc'[u] = IF u = t THEN new ELSE pc[u]
  BY DEF ReportInv, Reporting!TypeOK
<1>. QED  BY <1>1 DEF QuietInv, StampsAgree, OneByOne, Reporting!Duplicate

LEMMA TickQuiet ==
  ASSUME ReportInv, QuietInv, Reporting!Tick
  PROVE  QuietInv'
<1>1. /\ \A k \in Reporting!Keys : dedup'[k] = Reporting!Older(dedup[k], Keep)
      /\ \A k \in Reporting!Keys : heard'[k] = Reporting!Older(heard[k], Keep)
      /\ UNCHANGED <<pc, report, alone>>
  BY DEF Reporting!Tick
<1>2. \A k \in Reporting!Keys : dedup[k] \in Nat \cup {None} /\ heard[k] \in Nat \cup {None}
  BY Windows DEF ReportInv, Reporting!TypeOK
<1>3. StampsAgree'
  BY <1>1, <1>2, Windows, NoneIsNothing DEF QuietInv, StampsAgree, Reporting!Older
<1>4. ASSUME NEW t \in Nodes, pc[t] = "stamp", ~Reporting!Duplicate(report[t])
      PROVE  ~Reporting!Duplicate(report[t])'
  <2>. DEFINE k == Reporting!KeyOf(report[t])
  <2>1. k \in Reporting!Keys
    BY <1>4, KeyTyped DEF ReportInv
  <2>2. dedup[k] = None \/ ~(dedup[k] < Quiet)
    BY <1>4 DEF Reporting!Duplicate
  <2>3. dedup'[k] = None \/ ~(dedup'[k] < Quiet)
    BY <1>1, <1>2, <2>1, <2>2, Windows DEF Reporting!Older
  <2>4. Reporting!KeyOf(report[t])' = k
    BY <1>1 DEF Reporting!KeyOf
  <2>. QED  BY <2>3, <2>4 DEF Reporting!Duplicate
<1>5. OneByOne'
  BY <1>1, <1>4 DEF QuietInv, OneByOne
<1>. QED  BY <1>3, <1>5 DEF QuietInv

LEMMA QuietInit == Reporting!Init => QuietInv
BY DEF Reporting!Init, QuietInv, StampsAgree, OneByOne

LEMMA QuietSteps == ReportInv /\ QuietInv /\ [Reporting!Next]_Reporting!vars => QuietInv'
<1>. SUFFICES ASSUME ReportInv, QuietInv, [Reporting!Next]_Reporting!vars PROVE QuietInv'
  OBVIOUS
<1>1. ASSUME NEW t \in Nodes, Reporting!Read(t) \/ Reporting!Truncate(t) \/ Answers(t)
      PROVE  QuietInv'
  <2>1. pc[t] # "idle" /\ UNCHANGED <<dedup, heard, report, alone>>
    BY <1>1, AnswerIs DEF Reporting!Read, Reporting!Truncate, Writing
  <2>2. \E new \in {"idle", "truncate", "write"} : pc' = [pc EXCEPT ![t] = new]
    BY <1>1, AnswerIs DEF Reporting!Read, Reporting!Truncate
  <2>. QED  BY <2>1, <2>2, StepQuiet
<1>2. CASE Reporting!Crash
  BY <1>2 DEF Reporting!Crash, QuietInv, StampsAgree, OneByOne
<1>3. CASE UNCHANGED Reporting!vars
  BY <1>3 DEF Reporting!vars, QuietInv, StampsAgree, OneByOne, Reporting!Duplicate
<1>. QED  BY <1>1, <1>2, <1>3, ReceiveQuiet, StampQuiet, TickQuiet DEF Reporting!Next, Reporting!Step, Answers

\* Of one address and type no two reports are taken within five minutes (OncePerQuiet), as long
\* as reports come one at a time: the cache is pruned of no stamp that is younger.
THEOREM OncePerQuietAlways == Reporting!Spec => OncePerQuiet
<1>. DEFINE A == \A t \in Nodes : alone /\ pc[t] = "stamp" /\ pc'[t] = "read" =>
                   LET age == heard[Reporting!KeyOf(report[t])] IN age = None \/ age >= Quiet
<1>1. ReportInv /\ QuietInv => A
  <2>. SUFFICES ASSUME ReportInv, QuietInv, NEW t \in Nodes, alone, pc[t] = "stamp"
                PROVE  heard[Reporting!KeyOf(report[t])] = None \/ heard[Reporting!KeyOf(report[t])] >= Quiet
    OBVIOUS
  <2>. DEFINE k == Reporting!KeyOf(report[t])
  <2>1. k \in Reporting!Keys /\ (dedup[k] = None \/ ~(dedup[k] < Quiet))
    BY KeyTyped DEF ReportInv, QuietInv, OneByOne, Reporting!Duplicate
  <2>2. heard[k] \in Nat \cup {None}
    BY <2>1, Windows DEF ReportInv, Reporting!TypeOK
  <2>. HIDE DEF k
  <2>3. heard[k] = None \/ heard[k] >= Quiet
    BY <2>1, <2>2, Windows DEF QuietInv, StampsAgree
  <2>. QED  BY <2>3 DEF k
<1>2. ReportInv /\ QuietInv /\ [Reporting!Next]_Reporting!vars => [A]_Reporting!vars
  BY <1>1
<1>. QED  BY <1>2, ReportInit, ReportSteps, QuietInit, QuietSteps, PTL
          DEF Reporting!Spec, OncePerQuiet, Reporting!OncePerQuiet

-----------------------------------------------------------------------------
(* What a sequence of reports adds up to.                                  *)

HasWorst(s) ==
  \E i \in DOMAIN s : \A j \in DOMAIN s : Reporting!riskScore(s[j]) <= Reporting!riskScore(s[i])

\* w is the highest risk among s.
Worst(w, s) ==
  /\ \E i \in DOMAIN s : Reporting!riskScore(s[i]) = w
  /\ \A j \in DOMAIN s : Reporting!riskScore(s[j]) <= w

LEMMA RiskOf ==
  ASSUME NEW s \in Seq(Reporting!Reports)
  PROVE  \A i \in DOMAIN s : s[i] \in Reporting!Reports /\ Reporting!riskScore(s[i]) \in 1..100
<1>1. \A i \in DOMAIN s : s[i] \in Reporting!Reports
  BY LenProperties
<1>. QED  BY <1>1, RiskTyped

LEMMA WorstIs ==
  ASSUME NEW s \in Seq(Reporting!Reports), HasWorst(s)
  PROVE  Worst(Reporting!ActorAfter(s).riskScore, s)
<1>. DEFINE scores == {Reporting!riskScore(s[i]) : i \in DOMAIN s}
            top(w) == \A i \in DOMAIN s : Reporting!riskScore(s[i]) <= w
<1>1. Reporting!ActorAfter(s).riskScore = CHOOSE w \in scores : top(w)
  BY DEF Reporting!ActorAfter
<1>2. \E w \in scores : top(w)
  BY DEF HasWorst
<1>3. (CHOOSE w \in scores : top(w)) \in scores /\ top(CHOOSE w \in scores : top(w))
  <2>. HIDE DEF scores, top
  <2>. QED  BY <1>2
<1>. QED  BY <1>1, <1>3 DEF Worst

LEMMA WorstUnique ==
  ASSUME NEW s \in Seq(Reporting!Reports), NEW w, NEW v, Worst(w, s), Worst(v, s)
  PROVE  w = v
<1>1. w \in 1..100 /\ v \in 1..100
  BY RiskOf DEF Worst
<1>2. w <= v /\ v <= w
  BY DEF Worst
<1>. QED  BY <1>1, <1>2

LEMMA WorstHas ==
  ASSUME NEW s, NEW w, Worst(w, s)
  PROVE  HasWorst(s)
BY DEF Worst, HasWorst

LEMMA WorstLonger ==
  ASSUME NEW s \in Seq(Reporting!Reports), NEW r \in Reporting!Reports, s = <<>> \/ HasWorst(s)
  PROVE  LET was == Reporting!ActorAfter(s).riskScore
             new == Reporting!riskScore(r)
         IN  Worst(IF s # <<>> /\ new <= was THEN was ELSE new, Append(s, r))
<1>. DEFINE was == Reporting!ActorAfter(s).riskScore
            new == Reporting!riskScore(r)
            u == Append(s, r)  n == Len(s) + 1
            w == IF s # <<>> /\ new <= was THEN was ELSE new
<1>1. /\ n \in Nat /\ DOMAIN s = 1..(n - 1) /\ DOMAIN u = 1..n /\ u[n] = r
      /\ \A i \in DOMAIN s : u[i] = s[i]
  BY WithinLonger, LenProperties
<1>2. new \in 1..100
  BY RiskTyped
<1>3. s # <<>> => Worst(was, s) /\ was \in 1..100
  <2>1. s # <<>> => Worst(was, s)
    BY WorstIs
  <2>. QED  BY <2>1, RiskOf DEF Worst
<1>4. s = <<>> => n = 1
  BY EmptySeq
<1>. HIDE DEF was, new, u, n
<1>0. /\ s = <<>> => w = new
      /\ s # <<>> => (w = was \/ w = new) /\ was <= w /\ new <= w /\ w \in 1..100
  <2>1. CASE s = <<>>
    BY <2>1
  <2>2. CASE s # <<>> /\ new <= was
    <3>1. w = was /\ was \in 1..100
      BY <1>3, <2>2
    <3>. HIDE DEF w
    <3>. QED  BY <1>2, <2>2, <3>1
  <2>3. CASE s # <<>> /\ ~(new <= was)
    <3>1. w = new /\ was \in 1..100
      BY <1>3, <2>3
    <3>. HIDE DEF w
    <3>. QED  BY <1>2, <2>3, <3>1
  <2>. QED  BY <2>1, <2>2, <2>3
<1>. HIDE DEF w
<1>5. CASE s = <<>>
  <2>1. w = new /\ n \in DOMAIN u /\ \A j \in DOMAIN u : j = n
    BY <1>0, <1>1, <1>4, <1>5
  <2>2. Reporting!riskScore(u[n]) = w
    BY <1>1, <2>1 DEF new
  <2>4. w <= w
    BY <1>2, <2>1
  <2>3. Worst(w, u)
    BY <2>1, <2>2, <2>4 DEF Worst
  <2>. QED  BY <2>3 DEF was, new, u, w
<1>6. CASE s # <<>>
  <2>1. PICK i \in DOMAIN s : Reporting!riskScore(s[i]) = was
    BY <1>3, <1>6 DEF Worst
  <2>2. \E j \in DOMAIN u : Reporting!riskScore(u[j]) = w
    <3>1. i \in DOMAIN u /\ Reporting!riskScore(u[i]) = was
      BY <1>1, <2>1
    <3>2. n \in DOMAIN u /\ Reporting!riskScore(u[n]) = new
      BY <1>1 DEF new
    <3>. QED  BY <1>0, <1>6, <3>1, <3>2
  <2>3. ASSUME NEW j \in DOMAIN u PROVE Reporting!riskScore(u[j]) <= w
    <3>1. CASE j = n
      BY <1>0, <1>1, <1>6, <3>1 DEF new
    <3>2. CASE j # n
      <4>1. j \in DOMAIN s /\ u[j] = s[j]
        BY <1>1, <3>2
      <4>2. Reporting!riskScore(s[j]) <= was /\ Reporting!riskScore(s[j]) \in 1..100
        BY <1>3, <1>6, <4>1, RiskOf DEF Worst
      <4>3. was <= w /\ was \in 1..100 /\ w \in 1..100
        BY <1>0, <1>3, <1>6
      <4>. DEFINE x == Reporting!riskScore(s[j])
      <4>4. x <= was /\ x \in 1..100 /\ Reporting!riskScore(u[j]) = x
        BY <4>1, <4>2
      <4>. HIDE DEF x
      <4>. QED  BY <4>3, <4>4
    <3>. QED  BY <3>1, <3>2
  <2>4. Worst(w, u)
    BY <2>2, <2>3 DEF Worst
  <2>. QED  BY <2>4 DEF was, new, u, w
<1>. QED  BY <1>5, <1>6

\* A timeline that gets one type more is the last of all types.
LEMMA LastLonger ==
  ASSUME NEW line \in Seq(Types), NEW r \in Reporting!Reports
  PROVE  Reporting!Appended(Reporting!Last(line, Cap), r) = Reporting!Last(Append(line, r.type), Cap)
<1>1. Cap \in Nat \ {0} /\ r.type \in Types
  BY ReportAssumption, ReportFields DEF Reporting!CapAssumption
<1>. DEFINE n == Len(line)  x == r.type  long == Append(line, x)
            tl == Reporting!Last(line, Cap)
            base == IF Len(tl) >= Cap THEN SubSeq(tl, Len(tl) - (Cap - 2), Len(tl)) ELSE tl
            left == Append(base, x)  right == Reporting!Last(long, Cap)
<1>2. /\ n \in Nat /\ long \in Seq(Types) /\ Len(long) = n + 1 /\ long[n + 1] = x
      /\ \A i \in 1..n : long[i] = line[i]
  BY <1>1
<1>3. Reporting!Appended(tl, r) = left
  BY DEF Reporting!Appended
<1>. HIDE DEF x, long
<1>4. CASE n < Cap
  <2>1. tl = line /\ base = line
    <3>1. tl = line
      BY <1>1, <1>2, <1>4 DEF Reporting!Last
    <3>. HIDE DEF tl
    <3>2. Len(tl) < Cap /\ Len(tl) \in Nat
      BY <1>2, <1>4, <3>1
    <3>. QED  BY <1>1, <3>1, <3>2
  <2>2. right = long
    BY <1>1, <1>2, <1>4 DEF Reporting!Last
  <2>. QED  BY <1>3, <2>1, <2>2 DEF long, x
<1>5. CASE n >= Cap
  <2>1. /\ tl \in Seq(Types) /\ Len(tl) = Cap
        /\ \A i \in 1..Cap : tl[i] = line[n - Cap + i]
    <3>1. CASE n = Cap
      <4>1. tl = line
        BY <1>1, <1>2, <3>1 DEF Reporting!Last
      <4>. QED  BY <1>1, <1>2, <3>1, <4>1
    <3>2. CASE n > Cap
      <4>1. tl = SubSeq(line, n - Cap + 1, n)
        BY <1>1, <1>2, <3>2 DEF Reporting!Last
      <4>2. \A i \in (n - Cap + 1)..n : line[i] \in Types
        BY <1>1, <1>2, <3>2, ElementOfSeq
      <4>3. n - Cap + 1 \in Int /\ n \in Int /\ n - (n - Cap + 1) + 1 = Cap /\ n - Cap + 1 <= n
        BY <1>1, <1>2, <3>2
      <4>4. /\ tl \in Seq(Types) /\ Len(tl) = Cap
            /\ \A i \in 1..Cap : tl[i] = line[n - Cap + 1 + i - 1]
        BY <4>1, <4>2, <4>3, SubSeqProperties
      <4>. QED  BY <1>1, <1>2, <4>4
    <3>. QED  BY <1>1, <1>2, <1>5, <3>1, <3>2
  <2>. HIDE DEF tl
  <2>2. /\ base \in Seq(Types) /\ Len(base) = Cap - 1
        /\ \A i \in 1..(Cap - 1) : base[i] = tl[i + 1]
    <3>1. base = SubSeq(tl, 2, Cap)
      BY <1>1, <2>1
    <3>. HIDE DEF base
    <3>2. \A i \in 2..Cap : tl[i] \in Types
      BY <1>1, <2>1, ElementOfSeq
    <3>3. /\ base \in Seq(Types) /\ Len(base) = IF 2 <= Cap THEN Cap - 2 + 1 ELSE 0
          /\ \A i \in 1..(Cap - 2 + 1) : base[i] = tl[2 + i - 1]
      BY <1>1, <3>1, <3>2, SubSeqProperties
    <3>. QED  BY <1>1, <3>3
  <2>. HIDE DEF base
  <2>3. /\ left \in Seq(Types) /\ Len(left) = Cap
        /\ \A i \in 1..Cap : left[i] = IF i = Cap THEN x ELSE base[i]
    BY <1>1, <2>2 DEF x
  <2>4. /\ right \in Seq(Types) /\ Len(right) = Cap
        /\ \A i \in 1..Cap : right[i] = long[n + 1 - Cap + i]
    <3>1. right = SubSeq(long, n + 1 - Cap + 1, n + 1)
      BY <1>1, <1>2, <1>5 DEF Reporting!Last
    <3>2. \A i \in (n + 1 - Cap + 1)..(n + 1) : long[i] \in Types
      BY <1>1, <1>2, <1>5, ElementOfSeq
    <3>3. /\ n + 1 - Cap + 1 \in Int /\ n + 1 \in Int
          /\ (n + 1) - (n + 1 - Cap + 1) + 1 = Cap /\ n + 1 - Cap + 1 <= n + 1
      BY <1>1, <1>2, <1>5
    <3>4. /\ right \in Seq(Types) /\ Len(right) = Cap
          /\ \A i \in 1..Cap : right[i] = long[n + 1 - Cap + 1 + i - 1]
      BY <3>1, <3>2, <3>3, SubSeqProperties
    <3>. QED  BY <1>1, <1>2, <3>4
  <2>. HIDE DEF left, right
  <2>5. ASSUME NEW i \in 1..Cap PROVE left[i] = right[i]
    <3>1. CASE i = Cap
      BY <1>1, <1>2, <2>3, <2>4, <3>1
    <3>2. CASE i # Cap
      <4>1. i \in 1..(Cap - 1) /\ i + 1 \in 1..Cap /\ n + 1 - Cap + i \in 1..n
        BY <1>1, <1>2, <1>5, <3>2
      <4>2. left[i] = line[n - Cap + (i + 1)] /\ right[i] = line[n + 1 - Cap + i]
        BY <1>2, <2>1, <2>2, <2>3, <2>4, <3>2, <4>1
      <4>3. n - Cap + (i + 1) = n + 1 - Cap + i
        BY <1>1, <1>2, <4>1
      <4>. QED  BY <4>2, <4>3
    <3>. QED  BY <3>1, <3>2
  <2>6. left = right
    BY <2>3, <2>4, <2>5, SeqEqual
  <2>. QED  BY <1>3, <2>6 DEF right, long, x, tl
<1>. QED  BY <1>1, <1>2, <1>4, <1>5

TypesOf(s) == [i \in DOMAIN s |-> s[i].type]

LEMMA TypesLonger ==
  ASSUME NEW s \in Seq(Reporting!Reports), NEW r \in Reporting!Reports
  PROVE  /\ TypesOf(s) \in Seq(Types) /\ Len(TypesOf(s)) = Len(s)
         /\ TypesOf(Append(s, r)) = Append(TypesOf(s), r.type)
<1>1. \A v \in Seq(Reporting!Reports) :
        /\ TypesOf(v) \in Seq(Types) /\ Len(TypesOf(v)) = Len(v)
        /\ \A i \in 1..Len(v) : TypesOf(v)[i] = v[i].type
  <2>. SUFFICES ASSUME NEW v \in Seq(Reporting!Reports)
                PROVE  /\ TypesOf(v) \in Seq(Types) /\ Len(TypesOf(v)) = Len(v)
                       /\ \A i \in 1..Len(v) : TypesOf(v)[i] = v[i].type
    OBVIOUS
  <2>1. DOMAIN v = 1..Len(v) /\ Len(v) \in Nat /\ \A i \in DOMAIN v : v[i].type \in Types
    BY LenProperties, ReportFields
  <2>2. TypesOf(v) \in [1..Len(v) -> Types]
    BY <2>1 DEF TypesOf
  <2>. QED  BY <2>1, <2>2 DEF TypesOf
<1>. DEFINE u == Append(s, r)  left == TypesOf(u)  right == Append(TypesOf(s), r.type)  n == Len(s)
<1>2. u \in Seq(Reporting!Reports) /\ Len(u) = n + 1 /\ n \in Nat /\ u[n + 1] = r /\ r.type \in Types
      /\ \A i \in 1..n : u[i] = s[i]
  BY WithinLonger, LenProperties, ReportFields
<1>3. /\ left \in Seq(Types) /\ Len(left) = n + 1
      /\ \A i \in 1..(n + 1) : left[i] = u[i].type
  BY <1>1, <1>2
<1>4. /\ right \in Seq(Types) /\ Len(right) = n + 1
      /\ \A i \in 1..(n + 1) : right[i] = IF i = n + 1 THEN r.type ELSE s[i].type
  <2>. DEFINE x == r.type  base == TypesOf(s)
  <2>1. base \in Seq(Types) /\ Len(base) = n /\ n \in Nat /\ x \in Types /\ \A i \in 1..n : base[i] = s[i].type
    BY <1>1, <1>2
  <2>. HIDE DEF x, base, n
  <2>2. /\ Append(base, x) \in Seq(Types) /\ Len(Append(base, x)) = n + 1
        /\ \A i \in 1..(n + 1) : Append(base, x)[i] = IF i = n + 1 THEN x ELSE base[i]
    BY <2>1
  <2>3. \A i \in 1..(n + 1) : i # n + 1 => i \in 1..n
    BY <2>1
  <2>. QED  BY <2>1, <2>2, <2>3 DEF x, base, n
<1>. HIDE DEF left, right, u
<1>5. \A i \in 1..(n + 1) : left[i] = right[i]
  BY <1>2, <1>3, <1>4
<1>6. left = right
  BY <1>3, <1>4, <1>5, SeqEqual
<1>. QED  BY <1>1, <1>6 DEF left, right, u

\* One report more, and what its address is credited with is what all of them add up to.
LEMMA AfterFields ==
  ASSUME NEW s \in Seq(Reporting!Reports)
  PROVE  LET x == Reporting!ActorAfter(s) IN
         /\ x.status = IF \E i \in 2..Len(s) : s[i].severity >= 7 THEN "BLOCKED" ELSE "HOSTILE"
         /\ x.totalActions = Len(s) /\ x.timeline = Reporting!Last(TypesOf(s), Cap)
         /\ x = [status |-> x.status, riskScore |-> x.riskScore, totalActions |-> x.totalActions,
                 timeline |-> x.timeline]
BY DEF Reporting!ActorAfter, TypesOf

LEMMA AfterWorst ==
  ASSUME NEW s \in Seq(Reporting!Reports), NEW r \in Reporting!Reports, s = <<>> \/ HasWorst(s)
  PROVE  LET was == Reporting!ActorAfter(s).riskScore
             new == Reporting!riskScore(r)
         IN  /\ HasWorst(Append(s, r))
             /\ Reporting!ActorAfter(Append(s, r)).riskScore = IF s # <<>> /\ new <= was THEN was ELSE new
<1>. DEFINE was == Reporting!ActorAfter(s).riskScore
            new == Reporting!riskScore(r)
            w == IF s # <<>> /\ new <= was THEN was ELSE new
            u == Append(s, r)
<1>1. Worst(w, u) /\ u \in Seq(Reporting!Reports)
  BY WorstLonger, WithinLonger
<1>. HIDE DEF w, u
<1>2. HasWorst(u)
  BY <1>1, WorstHas
<1>3. Reporting!ActorAfter(u).riskScore = w
  BY <1>1, <1>2, WorstIs, WorstUnique
<1>. QED  BY <1>2, <1>3 DEF w, u

LEMMA AfterFirst ==
  ASSUME NEW r \in Reporting!Reports
  PROVE  Reporting!NewActor(r) = Reporting!ActorAfter(Append(<<>>, r))
<1>. DEFINE s == <<>>  u == Append(s, r)  x == Reporting!NewActor(r)  y == Reporting!ActorAfter(u)
<1>1. s \in Seq(Reporting!Reports) /\ Len(s) = 0
  BY EmptySeq
<1>2. u \in Seq(Reporting!Reports) /\ Len(u) = 1
  BY <1>1, WithinLonger
<1>3. y.riskScore = Reporting!riskScore(r)
  BY <1>1, AfterWorst
<1>4. TypesOf(s) = <<>> /\ TypesOf(u) = Append(TypesOf(s), r.type)
  <2>1. TypesOf(s) \in Seq(Types) /\ Len(TypesOf(s)) = 0
    BY <1>1, TypesLonger
  <2>. QED  BY <1>1, <2>1, TypesLonger, EmptySeq
<1>5. y.timeline = Reporting!Appended(<<>>, r)
  <2>1. Reporting!Last(<<>>, Cap) = <<>>
    BY ReportAssumption, EmptySeq DEF Reporting!Last, Reporting!CapAssumption
  <2>2. <<>> \in Seq(Types)
    BY EmptySeq
  <2>3. Reporting!Appended(Reporting!Last(<<>>, Cap), r) = Reporting!Last(Append(<<>>, r.type), Cap)
    BY <2>2, LastLonger
  <2>. QED  BY <1>2, <1>4, <2>1, <2>3, AfterFields
<1>6. y.status = "HOSTILE" /\ y.totalActions = 1
  <2>1. /\ y.status = IF \E i \in 2..Len(u) : u[i].severity >= 7 THEN "BLOCKED" ELSE "HOSTILE"
        /\ y.totalActions = Len(u)
    BY <1>2, AfterFields
  <2>2. ~ \E i \in 2..1 : u[i].severity >= 7
    OBVIOUS
  <2>. HIDE DEF u, y
  <2>. QED  BY <1>2, <2>1, <2>2
<1>7. y = [status |-> y.status, riskScore |-> y.riskScore, totalActions |-> y.totalActions,
           timeline |-> y.timeline]
  BY <1>2, AfterFields
<1>8. x = [status |-> "HOSTILE", riskScore |-> Reporting!riskScore(r), totalActions |-> 1,
           timeline |-> Reporting!Appended(<<>>, r)]
  BY DEF Reporting!NewActor
<1>. HIDE DEF x, y
<1>9. x = y
  BY <1>3, <1>5, <1>6, <1>7, <1>8
<1>. QED  BY <1>9 DEF x, y

LEMMA AfterNext ==
  ASSUME NEW s \in Seq(Reporting!Reports), NEW r \in Reporting!Reports, s # <<>>, HasWorst(s)
  PROVE  Reporting!Updated(Reporting!ActorAfter(s), r) = Reporting!ActorAfter(Append(s, r))
<1>. DEFINE u == Append(s, r)  z == Reporting!ActorAfter(s)  n == Len(s)
            x == Reporting!Updated(z, r)  y == Reporting!ActorAfter(u)  new == Reporting!riskScore(r)
<1>1. /\ u \in Seq(Reporting!Reports) /\ Len(u) = n + 1 /\ n \in Nat \ {0}
      /\ DOMAIN s = 1..n /\ \A i \in DOMAIN s : u[i] = s[i]
      /\ u[n + 1] = r
  BY WithinLonger, EmptySeq
<1>2. /\ z.status = IF \E i \in 2..n : s[i].severity >= 7 THEN "BLOCKED" ELSE "HOSTILE"
      /\ z.totalActions = n /\ z.timeline = Reporting!Last(TypesOf(s), Cap)
  BY AfterFields
<1>3. /\ y.status = IF \E i \in 2..(n + 1) : u[i].severity >= 7 THEN "BLOCKED" ELSE "HOSTILE"
      /\ y.totalActions = n + 1 /\ y.timeline = Reporting!Last(TypesOf(u), Cap)
      /\ y = [status |-> y.status, riskScore |-> y.riskScore, totalActions |-> y.totalActions,
              timeline |-> y.timeline]
  BY <1>1, AfterFields
<1>4. new \in 1..100 /\ z.riskScore \in 1..100
  <2>1. Worst(z.riskScore, s)
    BY WorstIs
  <2>. QED  BY <2>1, RiskTyped, RiskOf DEF Worst
<1>5. y.riskScore = IF new > z.riskScore THEN new ELSE z.riskScore
  <2>1. y.riskScore = IF s # <<>> /\ new <= z.riskScore THEN z.riskScore ELSE new
    BY AfterWorst
  <2>. DEFINE a1 == y.riskScore  a2 == z.riskScore
  <2>. HIDE DEF y, z, new
  <2>2. a1 = IF new <= a2 THEN a2 ELSE new
    BY <2>1, Zenon
  <2>3. a2 \in 1..100 /\ new \in 1..100
    BY <1>4
  <2>. HIDE DEF a1, a2
  <2>4. a1 = IF new > a2 THEN new ELSE a2
    BY <2>2, <2>3
  <2>. QED  BY <2>4 DEF a1, a2
<1>6. y.timeline = Reporting!Appended(z.timeline, r)
  BY <1>2, <1>3, TypesLonger, LastLonger
<1>7. x = [status |-> IF r.severity >= 7 THEN "BLOCKED" ELSE z.status,
           riskScore |-> IF new > z.riskScore THEN new ELSE z.riskScore,
           totalActions |-> z.totalActions + 1, timeline |-> Reporting!Appended(z.timeline, r)]
  BY DEF Reporting!Updated
<1>. HIDE DEF u, x, y, z, n, new
<1>8. y.status = IF r.severity >= 7 THEN "BLOCKED" ELSE z.status
  <2>1. (\E i \in 2..(n + 1) : u[i].severity >= 7) <=> r.severity >= 7 \/ \E i \in 2..n : s[i].severity >= 7
    <3>1. n + 1 \in 2..(n + 1) /\ \A i \in 2..n : i \in 2..(n + 1) /\ u[i] = s[i]
      BY <1>1
    <3>2. \A i \in 2..(n + 1) : i = n + 1 \/ i \in 2..n
      BY <1>1
    <3>. QED  BY <1>1, <3>1, <3>2
  <2>. QED  BY <1>2, <1>3, <2>1
<1>9. x = y
  BY <1>2, <1>3, <1>5, <1>6, <1>7, <1>8
<1>. QED  BY <1>9 DEF x, y, z, u

-----------------------------------------------------------------------------
(* The file, as long as reports come one at a time and nothing fails.      *)

Sum == [ip \in Reporting!Known |-> Reporting!ActorAfter(merged[ip])]

WorstInv == \A ip \in Suspects : merged[ip] = <<>> \/ HasWorst(merged[ip])

FileInv ==
  alone /\ intact =>
           /\ (\A t \in Nodes : pc[t] # "write") => Reporting!Parsed = Sum
           /\ \A t \in Nodes : pc[t] \in Writing => memory[t] = Reporting!Merge(Sum, report[t])
           /\ \A t \in Nodes : pc[t] = "write" => file = Void

SumInv == WorstInv /\ FileInv

\* The merge of a report into a memory that holds what the reports before it add up to.
LEMMA MergeSum ==
  ASSUME ReportInv, WorstInv, NEW r \in Reporting!Reports,
         merged' = [merged EXCEPT ![r.ip] = Append(@, r)]
  PROVE  WorstInv' /\ Reporting!Merge(Sum, r) = Sum'
<1>1. r.ip \in Suspects /\ \A ip \in Suspects : merged[ip] \in Seq(Reporting!Reports)
  BY ReportFields, MergedTyped
<1>2. \A ip \in Suspects : merged'[ip] = IF ip = r.ip THEN Append(merged[ip], r) ELSE merged[ip]
  BY DEF ReportInv, Reporting!TypeOK
<1>3. HasWorst(Append(merged[r.ip], r))
  BY <1>1, AfterWorst DEF WorstInv
<1>4. WorstInv'
  BY <1>2, <1>3 DEF WorstInv, HasWorst
<1>5. Append(merged[r.ip], r) # <<>>
  BY <1>1
<1>6. Reporting!Known' = Reporting!Known \cup {r.ip}
  BY <1>1, <1>2, <1>5 DEF Reporting!Known
<1>7. /\ DOMAIN Sum = Reporting!Known /\ \A ip \in Reporting!Known : Sum[ip] = Reporting!ActorAfter(merged[ip])
      /\ Sum' = [ip \in Reporting!Known' |-> Reporting!ActorAfter(merged'[ip])]
  BY DEF Sum, Reporting!ActorAfter, Reporting!riskScore, Reporting!Last
<1>8. Reporting!Merge(Sum, r) =
        [ip \in DOMAIN Sum \cup {r.ip} |->
           IF ip # r.ip THEN Sum[ip]
           ELSE IF ip \in DOMAIN Sum THEN Reporting!Updated(Sum[ip], r) ELSE Reporting!NewActor(r)]
  BY DEF Reporting!Merge
<1>. DEFINE value(ip) == IF ip # r.ip THEN Sum[ip]
                         ELSE IF ip \in DOMAIN Sum THEN Reporting!Updated(Sum[ip], r) ELSE Reporting!NewActor(r)
<1>9. ASSUME NEW ip \in Reporting!Known'
      PROVE  value(ip) = Reporting!ActorAfter(merged'[ip])
  <2>0. ip \in Suspects
    BY DEF Reporting!Known
  <2>1. CASE ip # r.ip
    BY <1>2, <1>6, <1>7, <2>0, <2>1
  <2>2. CASE ip = r.ip /\ ip \in Reporting!Known
    <3>1. merged[ip] # <<>> /\ HasWorst(merged[ip]) /\ merged[ip] \in Seq(Reporting!Reports)
      BY <1>1, <2>2 DEF WorstInv, Reporting!Known
    <3>2. Reporting!Updated(Reporting!ActorAfter(merged[ip]), r) = Reporting!ActorAfter(Append(merged[ip], r))
      BY <3>1, AfterNext
    <3>. QED  BY <1>2, <1>7, <2>0, <2>2, <3>2
  <2>3. CASE ip = r.ip /\ ip \notin Reporting!Known
    <3>1. merged[ip] = <<>>
      BY <2>0, <2>3 DEF Reporting!Known
    <3>. QED  BY <1>2, <1>7, <2>0, <2>3, <3>1, AfterFirst
  <2>. QED  BY <2>1, <2>2, <2>3
<1>10. Reporting!Merge(Sum, r) = [ip \in Reporting!Known' |-> value(ip)]
  BY <1>6, <1>7, <1>8
<1>. HIDE DEF value
<1>11. Reporting!Merge(Sum, r) = Sum'
  BY <1>7, <1>9, <1>10
<1>. QED  BY <1>4, <1>11

\* A step that changes no record of what was reported.
LEMMA SumSame ==
  ASSUME SumInv, UNCHANGED merged
  PROVE  WorstInv' /\ Sum' = Sum
BY DEF SumInv, WorstInv, HasWorst, Sum, Reporting!Known, Reporting!ActorAfter

\* The steps that begin or end a handler's work at once, or have nothing to do with the file.
LEMMA AsideFile ==
  ASSUME ReportInv, SumInv, UNCHANGED <<merged, file, intact>>, alone' => alone,
         alone' => \A u \in Nodes : /\ pc'[u] = "write" <=> pc[u] = "write"
                                    /\ pc'[u] \in Writing =>
                                         pc[u] \in Writing /\ memory'[u] = memory[u] /\ report'[u] = report[u]
  PROVE  SumInv'
<1>1. WorstInv' /\ Sum' = Sum
  BY SumSame
<1>2. Reporting!Parsed' = Reporting!Parsed
  BY DEF Reporting!Parsed
<1>3. ASSUME alone', intact'
      PROVE  /\ (\A t \in Nodes : pc'[t] # "write") => Reporting!Parsed' = Sum'
             /\ \A t \in Nodes : pc'[t] \in Writing => memory'[t] = Reporting!Merge(Sum', report'[t])
             /\ \A t \in Nodes : pc'[t] = "write" => file' = Void
  BY <1>1, <1>2, <1>3 DEF SumInv, FileInv
<1>4. \A t \in Nodes : Reporting!Merge(Sum, report[t])' = Reporting!Merge(Sum', report'[t])
  BY DEF Reporting!Merge, Reporting!Updated, Reporting!NewActor, Reporting!Appended, Reporting!riskScore
<1>. QED  BY <1>1, <1>3, <1>4 DEF SumInv, FileInv

LEMMA ReadFile ==
  ASSUME ReportInv, QuietInv, SumInv, NEW t \in Nodes, Reporting!Read(t)
  PROVE  SumInv'
<1>0. PICK actors : /\ pc[t] = "read" /\ pc' = [pc EXCEPT ![t] = "truncate"]
                    /\ memory' = [memory EXCEPT ![t] = Reporting!Merge(actors, report[t])]
                    /\ intact' => intact /\ actors = Reporting!Parsed
                    /\ UNCHANGED <<file, report, merged, alone>>
  BY ReadIs
<1>. DEFINE m == Reporting!Merge(actors, report[t])
<1>1. /\ pc[t] = "read" /\ pc' = [pc EXCEPT ![t] = "truncate"] /\ memory' = [memory EXCEPT ![t] = m]
      /\ intact' => intact /\ actors = Reporting!Parsed
      /\ UNCHANGED <<file, report, merged, alone>>
  BY <1>0
<1>2. WorstInv' /\ Sum' = Sum /\ Reporting!Parsed' = Reporting!Parsed
  BY <1>1, SumSame DEF Reporting!Parsed
<1>3. ASSUME alone, intact'
      PROVE  /\ \A u \in Nodes : pc'[u] # "write"
             /\ \A u \in Nodes : pc'[u] \in Writing => u = t
             /\ memory'[t] = Reporting!Merge(Sum, report[t]) /\ Reporting!Parsed = Sum
  <2>1. \A u \in Nodes : pc[u] # "idle" => u = t
    BY <1>1, <1>3 DEF QuietInv, OneByOne
  <2>2. \A u \in Nodes : pc'[u] = IF u = t THEN "truncate" ELSE pc[u]
    BY <1>1 DEF ReportInv, Reporting!TypeOK
  <2>3. Reporting!Parsed = Sum
    BY <1>1, <1>3, <2>1 DEF SumInv, FileInv
  <2>4. memory'[t] = m
    <3>. HIDE DEF m
    <3>. QED  BY <1>1 DEF ReportInv
  <2>5. memory'[t] = Reporting!Merge(Sum, report[t])
    BY <1>1, <1>3, <2>3, <2>4
  <2>. HIDE DEF m
  <2>. QED  BY <2>1, <2>2, <2>3, <2>5 DEF Writing
<1>4. Reporting!Merge(Sum, report[t])' = Reporting!Merge(Sum', report'[t])
  BY DEF Reporting!Merge, Reporting!Updated, Reporting!NewActor, Reporting!Appended, Reporting!riskScore
<1>5. FileInv'
  BY <1>1, <1>2, <1>3, <1>4 DEF FileInv
<1>. QED  BY <1>2, <1>5 DEF SumInv

LEMMA TruncateFile ==
  ASSUME ReportInv, QuietInv, SumInv, NEW t \in Nodes, Reporting!Truncate(t)
  PROVE  SumInv'
<1>1. /\ pc[t] = "truncate" /\ pc' = [pc EXCEPT ![t] = "write"] /\ file' = Void
      /\ UNCHANGED <<report, memory, merged, alone, intact>>
  BY DEF Reporting!Truncate
<1>2. WorstInv' /\ Sum' = Sum
  BY <1>1, SumSame
<1>3. \A u \in Nodes : pc'[u] = IF u = t THEN "write" ELSE pc[u]
  BY <1>1 DEF ReportInv, Reporting!TypeOK
<1>4. alone /\ intact => \A u \in Nodes : pc[u] \in Writing => memory[u] = Reporting!Merge(Sum, report[u])
  BY DEF SumInv, FileInv
<1>5. \A u \in Nodes : Reporting!Merge(Sum, report[u])' = Reporting!Merge(Sum', report'[u])
  BY DEF Reporting!Merge, Reporting!Updated, Reporting!NewActor, Reporting!Appended, Reporting!riskScore
<1>6. FileInv'
  BY <1>1, <1>2, <1>3, <1>4, <1>5 DEF FileInv, Writing
<1>. QED  BY <1>2, <1>6 DEF SumInv

LEMMA WriteFile ==
  ASSUME ReportInv, QuietInv, SumInv, NEW t \in Nodes, Reporting!Write(t)
  PROVE  SumInv'
<1>1. /\ pc[t] = "write" /\ pc' = [pc EXCEPT ![t] = "idle"] /\ report[t] \in Reporting!Reports
      /\ merged' = [merged EXCEPT ![report[t].ip] = Append(@, report[t])] /\ UNCHANGED alone
      /\ (file' = memory[t] \/ file # Void) /\ UNCHANGED intact
  BY WriteIs, AnswerIs DEF Answers
<1>2. WorstInv' /\ Reporting!Merge(Sum, report[t]) = Sum'
  BY <1>1, MergeSum DEF SumInv
<1>3. ASSUME alone, intact
      PROVE  /\ \A u \in Nodes : pc'[u] = "idle"
             /\ Reporting!Parsed' = Sum'
  <2>1. \A u \in Nodes : pc'[u] = "idle"
    BY <1>1, <1>3 DEF QuietInv, OneByOne, ReportInv, Reporting!TypeOK
  <2>2. file' = memory[t] /\ memory[t] = Reporting!Merge(Sum, report[t])
    BY <1>1, <1>3 DEF SumInv, FileInv, Writing
  <2>3. memory[t] # Void /\ memory[t] # Torn
    BY <1>1, ReportAssumption DEF ReportInv, Writing, Reporting!TextAssumption
  <2>. QED  BY <1>2, <2>1, <2>2, <2>3 DEF Reporting!Parsed
<1>4. FileInv'
  BY <1>1, <1>3 DEF FileInv, Writing
<1>. QED  BY <1>2, <1>4 DEF SumInv

\* A failure is remembered, and the file need hold nothing any more.
LEMMA FailFile ==
  ASSUME ReportInv, SumInv, NEW t \in Nodes, Reporting!WriteFails(t)
  PROVE  SumInv'
<1>1. report[t] \in Reporting!Reports /\ merged' = [merged EXCEPT ![report[t].ip] = Append(@, report[t])]
  BY AnswerIs DEF Answers
<1>2. intact' = FALSE
  BY DEF Reporting!WriteFails
<1>. QED  BY <1>1, <1>2, MergeSum DEF SumInv, FileInv

LEMMA SumInit == Reporting!Init => SumInv
<1>. SUFFICES ASSUME Reporting!Init PROVE SumInv
  OBVIOUS
<1>1. file = Void /\ pc = [t \in Nodes |-> "idle"] /\ merged = [ip \in Suspects |-> <<>>]
  BY DEF Reporting!Init
<1>2. WorstInv
  BY <1>1 DEF WorstInv
<1>3. Reporting!Known = {}
  BY <1>1 DEF Reporting!Known
<1>4. Reporting!Parsed = Sum
  BY <1>1, <1>3 DEF Reporting!Parsed, Reporting!NoActors, Sum
<1>. QED  BY <1>1, <1>2, <1>4 DEF SumInv, FileInv, Writing

LEMMA SumSteps == ReportInv /\ QuietInv /\ SumInv /\ [Reporting!Next]_Reporting!vars => SumInv'
<1>. SUFFICES ASSUME ReportInv, QuietInv, SumInv, [Reporting!Next]_Reporting!vars PROVE SumInv'
  OBVIOUS
<1>1. ASSUME NEW t \in Nodes, NEW r \in Reporting!Arrivals, Reporting!Receive(t, r) PROVE SumInv'
  <2>1. /\ \E new \in {"idle", "stamp"} : pc' = [pc EXCEPT ![t] = new]
        /\ report' = [report EXCEPT ![t] = r] /\ alone' = (alone /\ Reporting!Quiescent)
        /\ UNCHANGED <<file, memory, merged, intact>>
    BY <1>1 DEF Reporting!Receive
  <2>2. alone' => \A u \in Nodes : pc[u] = "idle"
    BY <2>1 DEF Reporting!Quiescent
  <2>3. \A u \in Nodes : pc'[u] = pc[u] \/ pc'[u] \in {"idle", "stamp"}
    BY <2>1 DEF ReportInv, Reporting!TypeOK
  <2>. QED  BY <2>1, <2>2, <2>3, AsideFile DEF Writing
<1>2. ASSUME NEW t \in Nodes, Reporting!Stamp(t) PROVE SumInv'
  <2>1. /\ pc[t] = "stamp" /\ pc' = [pc EXCEPT ![t] = "read"]
        /\ UNCHANGED <<file, report, memory, merged, alone, intact>>
    BY <1>2 DEF Reporting!Stamp
  <2>2. \A u \in Nodes : pc'[u] = IF u = t THEN "read" ELSE pc[u]
    BY <2>1 DEF ReportInv, Reporting!TypeOK
  <2>. QED  BY <2>1, <2>2, AsideFile DEF Writing
<1>3. CASE Reporting!Tick \/ UNCHANGED Reporting!vars
  <2>1. UNCHANGED <<file, pc, report, memory, merged, alone, intact>>
    BY <1>3 DEF Reporting!Tick, Reporting!vars
  <2>. QED  BY <2>1, AsideFile
<1>4. CASE Reporting!Crash
  <2>1. /\ pc' = [u \in Nodes |-> "idle"] /\ alone' = (alone /\ Reporting!Quiescent)
        /\ UNCHANGED <<file, merged, intact>>
    BY <1>4 DEF Reporting!Crash
  <2>2. alone' => \A u \in Nodes : pc[u] = "idle"
    BY <2>1 DEF Reporting!Quiescent
  <2>. QED  BY <2>1, <2>2, AsideFile DEF Writing
<1>. QED  BY <1>1, <1>2, <1>3, <1>4, ReadFile, TruncateFile, WriteFile, FailFile DEF Reporting!Next, Reporting!Step

-----------------------------------------------------------------------------
(* What is served from the file.                                           *)

MemoryInv == ReportInv /\ CreditInv /\ QuietInv /\ SumInv

LEMMA MemoryInit == Reporting!Init => MemoryInv
BY ReportInit, CreditInit, QuietInit, SumInit DEF MemoryInv

LEMMA MemorySteps == MemoryInv /\ [Reporting!Next]_Reporting!vars => MemoryInv'
BY ReportSteps, CreditSteps, QuietSteps, SumSteps DEF MemoryInv

\* Alone, intact and quiet, the file is the sum of what was reported.
LEMMA FileIsSum ==
  ASSUME MemoryInv, Reporting!Quiescent, alone, intact
  PROVE  Reporting!Parsed = Sum
BY DEF MemoryInv, SumInv, FileInv, Reporting!Quiescent

\* The intake of reports loses nothing unless reports overlap, the process dies or a reading
\* or writing of the file fails, and makes nothing up whatever happens (MemoryIsTrue): one report more in the file is one more of those
\* that were answered (handleHeimdallReport).
THEOREM MemoryIsAlwaysTrue == Reporting!Spec => []MemoryIsTrue
<1>1. ASSUME MemoryInv PROVE Reporting!ReportsAreKept
  BY <1>1, FileIsSum DEF Reporting!ReportsAreKept, Sum
<1>2. ASSUME MemoryInv PROVE Reporting!NothingIsMadeUp
  BY <1>2 DEF MemoryInv, CreditInv, Credited, Reporting!NothingIsMadeUp
<1>3. MemoryInv => MemoryIsTrue
  BY <1>1, <1>2 DEF MemoryIsTrue
<1>. QED  BY <1>3, MemoryInit, MemorySteps, PTL DEF Reporting!Spec

\* The indicators reach the default threshold only for an actor that is blocked and has more
\* actions than the highest number that counts.
LEMMA DerivedIsHigh ==
  ASSUME NEW x \in Reporting!Actors, Reporting!calculateDerivedScore(x) >= 50
  PROVE  x.status = "BLOCKED" /\ x.totalActions > Busy[Len(Busy)]
<1>. DEFINE over == {i \in DOMAIN Busy : x.totalActions > Busy[i]}  k == Cardinality(over)
<1>1. Busy \in [1..3 -> Nat] /\ Len(Busy) = 3 /\ DOMAIN Busy = 1..3
  BY ReportAssumption DEF Reporting!BusyAssumption
<1>2. Reporting!Cardinality(over) = Cardinality(over)
  BY DEF Reporting!Cardinality, Cardinality
<1>3. IsFiniteSet(1..3) /\ Cardinality(1..3) = 3
  <2>. DEFINE n == 3
  <2>1. n \in Nat
    OBVIOUS
  <2>. HIDE DEF n
  <2>2. IsFiniteSet(1..n)
    BY <2>1, FS_Interval
  <2>3. Cardinality(1..n) = n
    BY <2>1, FS_Interval
  <2>. QED  BY <2>2, <2>3 DEF n
<1>4. over \in SUBSET (1..3)
  BY <1>1
<1>5. Reporting!calculateDerivedScore(x) = (IF x.status = "BLOCKED" THEN 20 ELSE 15) + 10 * Reporting!Cardinality(over)
  BY DEF Reporting!calculateDerivedScore
<1>. HIDE DEF over
<1>6. IsFiniteSet(over) /\ k \in Nat /\ k <= 3 /\ (k = 3 => over = 1..3)
  BY <1>3, <1>4, FS_Subset, FS_CardinalityType
<1>7. (IF x.status = "BLOCKED" THEN 20 ELSE 15) + 10 * k >= 50
  BY <1>2, <1>5
<1>. HIDE DEF k
<1>8. x.status = "BLOCKED" /\ k = 3
  BY <1>6, <1>7
<1>9. 3 \in over
  BY <1>6, <1>8
<1>. QED  BY <1>1, <1>8, <1>9 DEF over

\* A tenant's feed names an address only for what was reported of it, whatever interleaves, fails
\* and dies, and as long as reports come one at a time and the file can be read and written the
\* blocklist names every one it should
\* (FeedsAreEarned; handleDNSBlocklist, handleShieldThreats).
THEOREM FeedsAreAlwaysEarned == Reporting!Spec => []FeedsAreEarned
<1>. DEFINE Weighs(ip, n) == \E i \in DOMAIN merged[ip] : Reporting!riskScore(merged[ip][i]) >= n
            Severe(ip) == \E i \in DOMAIN merged[ip] : merged[ip][i].severity >= 7
<1>1. ASSUME MemoryInv
      PROVE  \A ip \in DOMAIN Reporting!Parsed :
               /\ ip \in Suspects /\ Reporting!Parsed[ip] \in Reporting!Actors
               /\ Credited(Reporting!Parsed[ip], merged[ip]) /\ merged[ip] \in Seq(Reporting!Reports)
  BY <1>1, ParsedTyped, InMemory, MergedTyped DEF MemoryInv, CreditInv
<1>2. ASSUME MemoryInv, NEW ip \in DOMAIN Reporting!Parsed, NEW n \in Nat, Reporting!Parsed[ip].riskScore >= n
      PROVE  Weighs(ip, n)
  BY <1>1, <1>2 DEF Credited
<1>3. ASSUME MemoryInv PROVE \A ip \in Reporting!DNSBlocklist : Weighs(ip, 70)
  <2>. SUFFICES ASSUME NEW ip \in Reporting!DNSBlocklist PROVE Weighs(ip, 70)
    OBVIOUS
  <2>1. ip \in DOMAIN Reporting!Parsed /\ Reporting!Parsed[ip].riskScore >= 70
    BY DEF Reporting!DNSBlocklist
  <2>. HIDE DEF Weighs
  <2>. QED  BY <1>2, <1>3, <2>1
<1>4. ASSUME MemoryInv, NEW ip \in Reporting!ShieldThreats(50)
      PROVE  Weighs(ip, 50) \/ (Len(merged[ip]) > Busy[Len(Busy)] /\ Severe(ip))
  <2>. DEFINE x == Reporting!Parsed[ip]
  <2>1. ip \in DOMAIN Reporting!Parsed /\ Reporting!ThreatScore(x, 50) >= 50
    BY <1>4 DEF Reporting!ShieldThreats
  <2>2. x \in Reporting!Actors /\ Credited(x, merged[ip]) /\ merged[ip] \in Seq(Reporting!Reports)
    BY <1>1, <1>4, <2>1
  <2>3. CASE x.riskScore >= 50
    <3>. HIDE DEF Weighs
    <3>. QED  BY <1>2, <1>4, <2>1, <2>3
  <2>4. CASE ~(x.riskScore >= 50)
    <3>0. x.riskScore \in 1..100
      BY <2>2, ActorsTyped
    <3>1. Reporting!ThreatScore(x, 50) = Reporting!calculateDerivedScore(x)
      <4>1. x.riskScore < 50
        BY <2>4, <3>0
      <4>. QED  BY <4>1 DEF Reporting!ThreatScore
    <3>2. x.status = "BLOCKED" /\ x.totalActions > Busy[Len(Busy)]
      BY <2>1, <2>2, <3>1, DerivedIsHigh
    <3>3. x.totalActions <= Len(merged[ip]) /\ Severe(ip)
      BY <2>2, <3>2 DEF Credited
    <3>4. x.totalActions \in Nat
      BY <2>2 DEF Reporting!Actors
    <3>5. Len(merged[ip]) \in Nat
      BY <2>2, LenProperties
    <3>6. Busy[Len(Busy)] \in Nat
      <4>1. Busy \in [1..3 -> Nat]
        BY ReportAssumption DEF Reporting!BusyAssumption
      <4>2. Len(Busy) = 3
        BY <4>1
      <4>. QED  BY <4>1, <4>2
    <3>. HIDE DEF x, Severe
    <3>. QED  BY <3>2, <3>3, <3>4, <3>5, <3>6
  <2>. QED  BY <2>3, <2>4
<1>5. ASSUME MemoryInv, Reporting!Quiescent, alone, intact, NEW ip \in Suspects, Weighs(ip, 70)
      PROVE  ip \in Reporting!DNSBlocklist
  <2>1. merged[ip] \in Seq(Reporting!Reports)
    BY <1>5, MergedTyped DEF MemoryInv
  <2>2. merged[ip] # <<>>
    BY <1>5
  <2>3. Reporting!Parsed = Sum /\ ip \in Reporting!Known
    BY <1>5, <2>2, FileIsSum DEF Reporting!Known
  <2>4. ip \in DOMAIN Reporting!Parsed /\ Reporting!Parsed[ip] = Reporting!ActorAfter(merged[ip])
    BY <2>3 DEF Sum
  <2>5. Worst(Reporting!Parsed[ip].riskScore, merged[ip])
    BY <1>5, <2>1, <2>2, <2>4, WorstIs DEF MemoryInv, SumInv, WorstInv
  <2>6. Reporting!Parsed[ip].riskScore >= 70
    <3>1. PICK i \in DOMAIN merged[ip] : Reporting!riskScore(merged[ip][i]) >= 70
      BY <1>5
    <3>2. Reporting!riskScore(merged[ip][i]) <= Reporting!Parsed[ip].riskScore
      BY <2>5 DEF Worst
    <3>3. Reporting!riskScore(merged[ip][i]) \in 1..100 /\ Reporting!Parsed[ip].riskScore \in 1..100
      BY <2>1, <2>5, RiskOf DEF Worst
    <3>. DEFINE x == Reporting!riskScore(merged[ip][i])  y == Reporting!Parsed[ip].riskScore
    <3>4. x >= 70 /\ x <= y /\ x \in 1..100 /\ y \in 1..100
      BY <3>1, <3>2, <3>3
    <3>. HIDE DEF x, y
    <3>5. y >= 70
      BY <3>4
    <3>. QED  BY <3>5 DEF y
  <2>. QED  BY <2>4, <2>6 DEF Reporting!DNSBlocklist
<1>6. MemoryInv => FeedsAreEarned
  <2>. HIDE DEF Weighs, Severe
  <2>1. ASSUME MemoryInv
        PROVE  /\ \A ip \in Reporting!DNSBlocklist : Weighs(ip, 70)
               /\ \A ip \in Reporting!ShieldThreats(50) :
                    Weighs(ip, 50) \/ (Len(merged[ip]) > Busy[Len(Busy)] /\ Severe(ip))
               /\ Reporting!Quiescent /\ alone /\ intact =>
                    {ip \in Suspects : Weighs(ip, 70)} \subseteq Reporting!DNSBlocklist
    BY <1>3, <1>4, <1>5, <2>1
  <2>. QED  BY <2>1 DEF Weighs, Severe, FeedsAreEarned, Reporting!FeedsAreEarned
<1>. QED  BY <1>6, MemoryInit, MemorySteps, PTL DEF Reporting!Spec
================================================================================
