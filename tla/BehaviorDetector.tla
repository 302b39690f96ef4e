--------------------------- MODULE BehaviorDetector ---------------------------
(***************************************************************************)
(* The behavioral detector (internal/behavior/detector.go) and the         *)
(* middleware that asks it about every answered request.                   *)
(*                                                                         *)
(* An address has a profile: its latest events and the sessions it named.  *)
(* The table of profiles is a sync.Map, the profiles themselves have no    *)
(* lock.  Requests of one address append to the same slice and write to    *)
(* the same maps, and the cleanup filters the slice in place, all while    *)
(* others walk it.  Events is therefore modelled as Go has it: a backing   *)
(* array, slots, and the part of it the slice's header names.  The array   *)
(* never runs out, so append never moves it.                               *)
(*                                                                         *)
(* A status is "ok", "denied" (400, 401, 403) or "error" (any other from   *)
(* 400 up).  Severities and counters are left out.                         *)
(***************************************************************************)
EXTENDS TimeWindow, FiniteSetsExt, SequencesExt

CONSTANTS
  Threads,       \* goroutines serving requests
  IPs,
  Requests,      \* [path, status, session] records: what is asked, and how it is answered
  LoginPaths, ApiPaths, \* paths that name a login, paths below /api/
  CredentialStuffingThreshold, APIEnumerationThreshold, ScrapingThreshold,
  SuspiciousSessionThreshold, TemporalAnomalyThreshold,
  ErrorRateThreshold,   \* in percent
  MaxTrackedEvents, ShortWindow, MediumWindow, SessionWindow, LongWindow,
  MaxRequests, MaxTime, \* bounds: requests and ticks of a behaviour
  None

Names ==
  {"CredentialStuffing", "APIEnumeration", "Scraping", "SessionAnomaly", "TemporalAnomaly", "ErrorRate"}

\* Thresholds count something, and what the cleanup drops is out of every other window
\* (detector.go:85-124, as shipped).
DetectorAssumption ==
  /\ IsFiniteSet(Threads)
  /\ {CredentialStuffingThreshold, APIEnumerationThreshold, ScrapingThreshold, SuspiciousSessionThreshold,
      TemporalAnomalyThreshold, ErrorRateThreshold, MaxTrackedEvents, LongWindow} \subseteq Nat \ {0}
  /\ {ShortWindow, MediumWindow, SessionWindow} \subseteq 0..(LongWindow - 1)
  /\ \A r \in Requests : r.status \in {"ok", "denied", "error"}
  /\ None \notin Nat \cup IPs \cup Names

VARIABLES
  profiles,  \* [IPs -> the number of a profile, or None]
  heap,      \* the profiles made so far
  req,       \* what each thread is doing
  cleaner,   \* what the cleanup is doing
  now,
  night,     \* the hour is before five
  down,      \* the runtime has stopped the process over a map accessed twice at once
  log,       \* history: [IPs -> the events of its requests]
  alone,     \* history: [IPs -> BOOLEAN], its requests met no other and no cleanup
  swept      \* history: [IPs -> BOOLEAN], one of them met a cleanup

vars == <<profiles, heap, req, cleaner, now, night, down, log, alone, swept>>

Idle == [pc |-> "idle"]

Init ==
  /\ profiles = [ip \in IPs |-> None]
  /\ heap = <<>>
  /\ req = [t \in Threads |-> Idle]
  /\ cleaner = Idle
  /\ now = 0
  /\ night \in BOOLEAN
  /\ down = FALSE
  /\ log = [ip \in IPs |-> <<>>]
  /\ alone = [ip \in IPs |-> TRUE]
  /\ swept = [ip \in IPs |-> FALSE]

At(t, pc) == ~down /\ req[t].pc = pc
Serving(t, ip) == req[t].pc # "idle" /\ req[t].ip = ip

-----------------------------------------------------------------------------
(* A profile is recorded in.                                               *)

NewProfile == [slots |-> <<>>, from |-> 0, to |-> 0, sessions |-> {}, lastSeen |-> now]

\* getOrCreateProfile, once the request has been answered.
Get(t, ip, r) ==
  LET id == IF profiles[ip] = None THEN Len(heap) + 1 ELSE profiles[ip]
      company == \E u \in Threads : Serving(u, ip)
      sweep == cleaner.pc # "idle" /\ cleaner.ip = ip
      event == [at |-> now, path |-> r.path, status |-> r.status, session |-> r.session]
  IN /\ At(t, "idle")
     /\ Cardinality(UNION {{i} \X DOMAIN log[i] : i \in IPs}) < MaxRequests
     /\ profiles' = [profiles EXCEPT ![ip] = id]
     /\ heap' = IF id > Len(heap) THEN Append(heap, NewProfile) ELSE heap
     /\ req' = [req EXCEPT ![t] = [pc |-> "append", ip |-> ip, id |-> id, event |-> event]]
     /\ log' = [log EXCEPT ![ip] = Append(@, event)]
     /\ alone' = [alone EXCEPT ![ip] = @ /\ ~company /\ ~sweep]
     /\ swept' = [swept EXCEPT ![ip] = @ \/ sweep]
     /\ UNCHANGED <<cleaner, now, night, down>>

Put(slots, i, e) == IF i > Len(slots) THEN Append(slots, e) ELSE [slots EXCEPT ![i] = e]

\* A mutated form: a full slice gives up its newest event, not its oldest.
AppendedOldest(p, header, e) ==
  [p EXCEPT !.slots = Put(@, header.to + 1, e), !.from = header.from,
            !.to = Min({header.to + 1, header.from + MaxTrackedEvents})]

\* append to the slice whose header was read before, cut at the front if it has
\* grown too long.
Appended(p, header, e) ==
  [p EXCEPT !.slots = Put(@, header.to + 1, e), !.to = header.to + 1,
            !.from = Max({header.from, header.to + 1 - MaxTrackedEvents})]

\* recordEvent reads the slice's header ...
ReadEvents(t) ==
  LET r == req[t]
      p == heap[r.id]
  IN /\ At(t, "append")
     /\ req' = [req EXCEPT ![t] = [pc |-> "record", ip |-> r.ip, id |-> r.id, event |-> r.event,
                                   header |-> [from |-> p.from, to |-> p.to]]]
     /\ UNCHANGED <<profiles, heap, cleaner, now, night, down, log, alone, swept>>

\* ... and writes it, and two maps, which the runtime may catch another doing.
RecordEvent(t) ==
  LET r == req[t]
      p == Appended(heap[r.id], r.header, r.event)
      meets == \E u \in Threads \ {t} :
                 /\ req[u].pc = "record" \/ (req[u].pc = "detect" /\ r.event.session # None)
                 /\ req[u].id = r.id
  IN /\ At(t, "record")
     /\ heap' = [heap EXCEPT ![r.id] =
          [p EXCEPT !.sessions =
                      IF r.event.session = None THEN @
                      ELSE {s \in @ : s.id # r.event.session}
                             \cup {[id |-> r.event.session, at |-> r.event.at]},
                    !.lastSeen = r.event.at]]
     /\ down' \in (IF meets THEN BOOLEAN ELSE {FALSE})
     /\ req' = [req EXCEPT ![t] = [pc |-> "detect", ip |-> r.ip, id |-> r.id, event |-> r.event]]
     /\ UNCHANGED <<profiles, cleaner, now, night, log, alone, swept>>

-----------------------------------------------------------------------------
(* The detectors.                                                          *)

Since(events, window) == {i \in DOMAIN events : events[i].at >= now - window}

countEvents(events, window, statuses, paths) ==
  Cardinality({i \in Since(events, window) :
                 events[i].status \in statuses /\ events[i].path \in paths})

uniquePaths(events, window, paths) ==
  Cardinality({events[i].path : i \in Since(events, window)} \cap paths)

Statuses == {"ok", "denied", "error"}
Paths == {r.path : r \in Requests}

Alert(name, score) == [name |-> name, score |-> Min({score, 100})]
NoAlert == [name |-> None, score |-> 0]

detectCredentialStuffing(events, e) ==
  LET failed == countEvents(events, MediumWindow, {"denied"}, LoginPaths)
  IN IF e.path \in LoginPaths /\ e.status = "denied" /\ failed >= CredentialStuffingThreshold
       THEN Alert("CredentialStuffing", 2 * failed) ELSE NoAlert

detectAPIEnumeration(events) ==
  LET paths == uniquePaths(events, ShortWindow, ApiPaths)
  IN IF paths >= APIEnumerationThreshold
       THEN Alert("APIEnumeration", 50 + paths - APIEnumerationThreshold) ELSE NoAlert

detectScraping(events) ==
  LET count == countEvents(events, ShortWindow, Statuses, Paths)
  IN IF /\ count >= ScrapingThreshold
        /\ uniquePaths(events, ShortWindow, Paths) >= APIEnumerationThreshold
       THEN Alert("Scraping", 60 + (count - ScrapingThreshold) \div 2) ELSE NoAlert

detectSessionAnomaly(sessions) ==
  LET active == Cardinality({s \in sessions : now - s.at <= SessionWindow})
  IN IF active >= SuspiciousSessionThreshold
       THEN Alert("SessionAnomaly", 55 + 5 * (active - SuspiciousSessionThreshold)) ELSE NoAlert

detectTemporalAnomaly(events) ==
  LET count == countEvents(events, ShortWindow, Statuses, Paths)
  IN IF night /\ count >= TemporalAnomalyThreshold
       THEN Alert("TemporalAnomaly", 50 + count - TemporalAnomalyThreshold) ELSE NoAlert

errorsOf(events) == countEvents(events, MediumWindow, {"denied", "error"}, Paths)

detectErrorRate(errors, total) ==
  IF total > 0 /\ 100 * errors >= ErrorRateThreshold * total
    THEN Alert("ErrorRate", 40 + (100 * errors) \div total) ELSE NoAlert

\* What a walk of a profile's slice can see.  While the filter moves events to
\* the front, any slot it writes is still the old or already the new one.
Views(id) ==
  LET p == heap[id]
      moves == cleaner.pc = "filter" /\ cleaner.id = id
      moved == {i \in (p.from + 1)..p.to : moves /\ i - cleaner.from \in DOMAIN cleaner.kept}
  IN {[i \in 1..(p.to - p.from) |->
         IF i + p.from \in new THEN cleaner.kept[i + p.from - cleaner.from]
                               ELSE p.slots[i + p.from]] : new \in SUBSET moved}

First(found) ==
  LET alerts == {i \in DOMAIN found : found[i] # NoAlert}
  IN IF alerts = {} THEN NoAlert ELSE found[Min(alerts)]

\* What the detectors before detectErrorRate find.
EarlierAlerts(events, sessions, e) ==
  <<detectCredentialStuffing(events, e), detectAPIEnumeration(events), detectScraping(events),
    detectSessionAnomaly(sessions), detectTemporalAnomaly(events)>>

\* AnalyzeRequest asks one detector after the other until one raises an alert.
\* The walks of the profile up to here, with nothing but comparisons between them,
\* are one step; detectErrorRate has counted all events, and not yet the errors.
Detect(t) ==
  /\ At(t, "detect")
  /\ \E events \in Views(req[t].id) :
       LET r == req[t]
           alert == First(EarlierAlerts(events, heap[r.id].sessions, r.event))
           total == countEvents(events, MediumWindow, Statuses, Paths)
       IN req' = [req EXCEPT ![t] =
            IF alert = NoAlert
              THEN [pc |-> "errors", ip |-> r.ip, id |-> r.id, event |-> r.event, total |-> total]
              ELSE [pc |-> "alert", ip |-> r.ip, id |-> r.id, event |-> r.event, alert |-> alert]]
  /\ UNCHANGED <<profiles, heap, cleaner, now, night, down, log, alone, swept>>

DetectErrorRate(t) ==
  /\ At(t, "errors")
  /\ \E events \in Views(req[t].id) :
       LET r == req[t]
       IN req' = [req EXCEPT ![t] = [pc |-> "alert", ip |-> r.ip, id |-> r.id, event |-> r.event,
                                     alert |-> detectErrorRate(errorsOf(events), r.total)]]
  /\ UNCHANGED <<profiles, heap, cleaner, now, night, down, log, alone, swept>>

\* The caller has its answer.
Finish(t) ==
  /\ At(t, "alert")
  /\ req' = [req EXCEPT ![t] = Idle]
  /\ UNCHANGED <<profiles, heap, cleaner, now, night, down, log, alone, swept>>

-----------------------------------------------------------------------------
(* The cleanup goes through the profiles, in any order.                    *)

\* history: a cleanup that meets a request under way.
Meets(ip) == \E t \in Threads : Serving(t, ip)

Sweep(ip) ==
  LET p == heap[profiles[ip]]
      keep == Newer(SubSeq(p.slots, p.from + 1, p.to), now - LongWindow)
  IN /\ ~down /\ cleaner = Idle
     /\ profiles[ip] # None
     /\ cleaner' = IF p.lastSeen < now - LongWindow
                     THEN [pc |-> "delete", ip |-> ip]
                     ELSE [pc |-> "filter", ip |-> ip, id |-> profiles[ip],
                           from |-> p.from, kept |-> keep]
     /\ alone' = [alone EXCEPT ![ip] = @ /\ ~Meets(ip)]
     /\ swept' = [swept EXCEPT ![ip] = @ \/ Meets(ip)]
     /\ UNCHANGED <<profiles, heap, req, now, night, down, log>>

\* The profile goes, whatever has happened to it since.
Delete ==
  /\ ~down /\ cleaner.pc = "delete"
  /\ profiles' = [profiles EXCEPT ![cleaner.ip] = None]
  /\ cleaner' = Idle
  /\ UNCHANGED <<heap, req, now, night, down, log, alone, swept>>

\* The filter is through, and the slice is what it has kept.
Filter ==
  LET p == heap[cleaner.id]
      n == Len(cleaner.kept)
      slots == [i \in DOMAIN p.slots |->
                  IF i - cleaner.from \in 1..n THEN cleaner.kept[i - cleaner.from] ELSE p.slots[i]]
  IN /\ ~down /\ cleaner.pc = "filter"
     /\ heap' = [heap EXCEPT ![cleaner.id] =
          [p EXCEPT !.slots = slots, !.from = cleaner.from, !.to = cleaner.from + n]]
     /\ cleaner' = Idle
     /\ UNCHANGED <<profiles, req, now, night, down, log, alone, swept>>

\* Requests are served, and the profiles swept, in less than a tick.
Tick ==
  /\ ~down /\ now < MaxTime
  /\ cleaner = Idle /\ \A t \in Threads : req[t] = Idle
  /\ now' = now + 1
  /\ UNCHANGED <<profiles, heap, req, cleaner, night, down, log, alone, swept>>

AnalyzeRequest(t) ==
  \/ ReadEvents(t) \/ RecordEvent(t)
  \/ Detect(t) \/ DetectErrorRate(t) \/ Finish(t)

Next ==
  \/ \E t \in Threads, ip \in IPs, r \in Requests : Get(t, ip, r)
  \/ \E t \in Threads : AnalyzeRequest(t)
  \/ \E ip \in IPs : Sweep(ip)
  \/ Delete \/ Filter \/ Tick

Spec == Init /\ [][Next]_vars

-----------------------------------------------------------------------------
(* The alert the address's requests call for.  Its latest events are all   *)
(* it takes, and the sessions it has named.                                *)
Latest(all) == SubSeq(all, Max({1, Len(all) - MaxTrackedEvents + 1}), Len(all))

LastNamed(all, s) == Max({all[i].at : i \in {j \in DOMAIN all : all[j].session = s}})
Named(all) ==
  {[id |-> s, at |-> LastNamed(all, s)] : s \in {all[i].session : i \in DOMAIN all} \ {None}}

Called(ip, e) ==
  LET events == Latest(log[ip])
      sessions == Named(log[ip])
  IN First(Append(EarlierAlerts(events, sessions, e),
                  detectErrorRate(errorsOf(events), countEvents(events, MediumWindow, Statuses, Paths))))

\* What the address has at least done if it is given an alert.  A walk that meets
\* a cleanup may see an event in several places.
Earned(ip, name) ==
  LET all == log[ip]
      full(n) == IF swept[ip] THEN 1 ELSE n
      requests == countEvents(all, ShortWindow, Statuses, Paths)
  IN CASE name = "CredentialStuffing" ->
            countEvents(all, MediumWindow, {"denied"}, LoginPaths) >= full(CredentialStuffingThreshold)
       [] name = "APIEnumeration" -> uniquePaths(all, ShortWindow, ApiPaths) >= APIEnumerationThreshold
       [] name = "Scraping" ->
            /\ requests >= full(ScrapingThreshold)
            /\ uniquePaths(all, ShortWindow, Paths) >= APIEnumerationThreshold
       [] name = "SessionAnomaly" ->
            Cardinality({all[i].session : i \in Since(all, SessionWindow)} \ {None})
              >= SuspiciousSessionThreshold
       [] name = "TemporalAnomaly" -> night /\ requests >= full(TemporalAnomalyThreshold)
       [] name = "ErrorRate" -> errorsOf(all) > 0
       [] OTHER -> TRUE

\* An alert is about what its address did.  Whatever the requests that append
\* to one slice and the cleanup that filters it under them, an address is given
\* no alert for paths and sessions it never named, and, unless a cleanup met one
\* of its requests, none for fewer events than the threshold.  An address whose
\* requests came one by one gets exactly the alert its latest events call
\* for (internal/behavior/detector.go).
AlertsAreRight ==
  \A t \in Threads :
    At(t, "alert") =>
      /\ Earned(req[t].ip, req[t].alert.name)
      /\ alone[req[t].ip] => req[t].alert = Called(req[t].ip, req[t].event)
=============================================================================
