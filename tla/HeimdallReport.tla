---------------------------- MODULE HeimdallReport ----------------------------
(***************************************************************************)
(* The intake of threat reports from HEIMDALL firewall nodes               *)
(* (handleHeimdallReport in internal/server/handlers.go): a duplicate      *)
(* check, the stamp of a new report, its block, and the report's merge     *)
(* into data/attacker-memory.json, which is read, changed in memory and    *)
(* written back with no lock.  Each thread is a request being handled.     *)
(*                                                                         *)
(* os.WriteFile first truncates the file, then writes it from the start:   *)
(* a file on which another handler has written in between ends as the new  *)
(* text or as the new text followed by the end of a longer old one.  A     *)
(* file that does not parse is read as an empty memory.                    *)
(*                                                                         *)
(* Reading may fail, and then the handler goes on with an empty memory;    *)
(* opening or writing may fail, and the report is answered as processed    *)
(* all the same.  A text of which only a part was written does not parse.  *)
(*                                                                         *)
(* A report is its IP, its threat type, its severity (1 to 10) and its     *)
(* confidence in tenths.  Time is kept as ages, counted no further than    *)
(* the code's comparisons can tell apart.                                  *)
(***************************************************************************)
EXTENDS Naturals, Sequences, FiniteSetsExt

CONSTANTS
  Threads,     \* requests handled at the same time
  IPs, Types,
  Kinds,       \* the pairs <<severity, confidence>> that nodes send
  Quiet,       \* 5 minutes: the same IP and type is a duplicate
  Keep,        \* 10 minutes: an older stamp is dropped
  Cap,         \* entries a timeline holds, 50 in the code
  Busy,        \* three numbers of actions that count as many: 100, 500 and 1000
  MaxReports,  \* bound: reports that are merged before the last ones arrive
  None, Void, Torn

WindowsAssumption == Quiet \in Nat \ {0} /\ Keep \in Nat /\ Quiet <= Keep
CapAssumption == Cap \in Nat \ {0}
KindsAssumption == Kinds \subseteq (1..10) \X (1..10)
BusyAssumption == Busy \in [1..3 -> Nat]

VARIABLES
  dedup,    \* <<ip, type>> -> age of the stamp in heimdallDedup, or None
  file,     \* data/attacker-memory.json: what it parses to, Void or Torn
  pc,       \* thread -> idle, stamp, read, truncate or write
  report,   \* thread -> the report it handles or answered last
  memory,   \* thread -> the memory it has read and changed
  blocked,  \* the IPs this handler has had blocked
  heard,    \* <<ip, type>> -> age of the last report that was not a duplicate
  merged,   \* ip -> the reports answered as processed, in order of their answers
  alone,    \* history: no report arrived, and the process did not die, during another
  intact    \* history: no reading or writing of the file has failed

vars == <<dedup, file, pc, report, memory, blocked, heard, merged, alone, intact>>

Keys == IPs \X Types
Reports == [ip : IPs, type : Types, severity : 1..10, confidence : 1..10]
Quiescent == \A t \in Threads : pc[t] = "idle"
KeyOf(r) == <<r.ip, r.type>>
Older(age, limit) == IF age = None \/ age > limit THEN age ELSE age + 1

riskScore(r) == r.severity * r.confidence
Grave(r) == r.severity >= 7 /\ r.confidence >= 7

-----------------------------------------------------------------------------
(* The merge of one report into the memory.                                *)

NoActors == [ip \in {} |-> None]
Parsed == IF file \in {Void, Torn} THEN NoActors ELSE file

Appended(timeline, r) ==
  Append(IF Len(timeline) >= Cap THEN SubSeq(timeline, Len(timeline) - (Cap - 2), Len(timeline))
                                 ELSE timeline,
         r.type)

NewActor(r) ==
  [status |-> "HOSTILE", riskScore |-> riskScore(r), totalActions |-> 1,
   timeline |-> Appended(<<>>, r)]

\* Mutant: the score of the last report replaces the higher one.
UpdatedLast(actor, r) ==
  [status |-> IF r.severity >= 7 THEN "BLOCKED" ELSE actor.status,
   riskScore |-> riskScore(r),
   totalActions |-> actor.totalActions + 1,
   timeline |-> Appended(actor.timeline, r)]

Updated(actor, r) ==
  [status |-> IF r.severity >= 7 THEN "BLOCKED" ELSE actor.status,
   riskScore |-> IF riskScore(r) > actor.riskScore THEN riskScore(r) ELSE actor.riskScore,
   totalActions |-> actor.totalActions + 1,
   timeline |-> Appended(actor.timeline, r)]

Merge(actors, r) ==
  [ip \in DOMAIN actors \cup {r.ip} |->
     IF ip # r.ip THEN actors[ip]
     ELSE IF ip \in DOMAIN actors THEN Updated(actors[ip], r) ELSE NewActor(r)]

-----------------------------------------------------------------------------
(* What other systems and tenants are served from the file.  An actor that *)
(* a report made has neither fingerprints nor a honeypot hit, and the gray *)
(* zone's own entries carry neither a host nor a flag that they were       *)
(* blocked: the halves of the feeds that look for those are empty.         *)

calculateDerivedScore(actor) ==
  (IF actor.status = "BLOCKED" THEN 20 ELSE 15)
    + 10 * Cardinality({i \in DOMAIN Busy : actor.totalActions > Busy[i]})

\* handleDNSBlocklist.  A file that does not parse gives an empty list.
DNSBlocklist == {ip \in DOMAIN Parsed : Parsed[ip].riskScore >= 70}

\* Mutant: the indicators add to the stored score.
ThreatScoreSummed(actor, minScore) == actor.riskScore + calculateDerivedScore(actor)

\* The indicators replace a stored score that is too low.
ThreatScore(actor, minScore) ==
  IF actor.riskScore < minScore THEN calculateDerivedScore(actor) ELSE actor.riskScore

\* handleShieldThreats
ShieldThreats(minScore) ==
  {ip \in DOMAIN Parsed : ThreatScore(Parsed[ip], minScore) >= minScore}

-----------------------------------------------------------------------------
Init ==
  /\ dedup = [k \in Keys |-> None]
  /\ file = Void
  /\ pc = [t \in Threads |-> "idle"]
  /\ report = [t \in Threads |-> None]
  /\ memory = [t \in Threads |-> None]
  /\ blocked = {}
  /\ heard = [k \in Keys |-> None]
  /\ merged = [ip \in IPs |-> <<>>]
  /\ alone = TRUE
  /\ intact = TRUE

Duplicate(r) == dedup[KeyOf(r)] # None /\ dedup[KeyOf(r)] < Quiet

\* A report arrives and the cache is read under its read lock.  A duplicate is
\* answered at once.
Receive(t, r) ==
  /\ pc[t] = "idle"
  /\ MapThenSumSet(LAMBDA ip : Len(merged[ip]), IPs) < MaxReports
  /\ report' = [report EXCEPT ![t] = r]
  /\ pc' = [pc EXCEPT ![t] = IF Duplicate(r) THEN "idle" ELSE "stamp"]
  /\ alone' = (alone /\ Quiescent)
  /\ UNCHANGED <<dedup, file, memory, blocked, heard, merged, intact>>

\* Mutant: the age at which a stamp is dropped is compared the wrong way round.
PrunedYoung(stamps) ==
  [k \in Keys |-> IF stamps[k] # None /\ stamps[k] < Keep THEN None ELSE stamps[k]]

Pruned(stamps) == [k \in Keys |-> IF stamps[k] # None /\ stamps[k] > Keep THEN None ELSE stamps[k]]

\* The stamp and the pruning under the write lock, then the block of a grave
\* report.  The block is part of this step: no other step here reads it.
Stamp(t) ==
  /\ pc[t] = "stamp"
  /\ dedup' = Pruned([dedup EXCEPT ![KeyOf(report[t])] = 0])
  /\ heard' = [heard EXCEPT ![KeyOf(report[t])] = 0]
  /\ blocked' = IF Grave(report[t]) THEN blocked \cup {report[t].ip} ELSE blocked
  /\ pc' = [pc EXCEPT ![t] = "read"]
  /\ UNCHANGED <<file, report, memory, merged, alone, intact>>

\* Without the file the report goes into an empty memory.
Read(t) ==
  /\ pc[t] = "read"
  /\ \E actors \in {Parsed, NoActors} :
       /\ memory' = [memory EXCEPT ![t] = Merge(actors, report[t])]
       /\ intact' = (intact /\ actors = Parsed)
  /\ pc' = [pc EXCEPT ![t] = "truncate"]
  /\ UNCHANGED <<dedup, file, report, blocked, heard, merged, alone>>

Truncate(t) ==
  /\ pc[t] = "truncate"
  /\ file' = Void
  /\ pc' = [pc EXCEPT ![t] = "write"]
  /\ UNCHANGED <<dedup, report, memory, blocked, heard, merged, alone, intact>>

\* The report is answered as processed, whatever became of it.
Answer(t) ==
  /\ merged' = [merged EXCEPT ![report[t].ip] = Append(@, report[t])]
  /\ memory' = [memory EXCEPT ![t] = None]
  /\ pc' = [pc EXCEPT ![t] = "idle"]
  /\ UNCHANGED <<dedup, report, blocked, heard, alone>>

Write(t) ==
  /\ pc[t] = "write"
  /\ file' \in IF file = Void THEN {memory[t]} ELSE {memory[t], Torn}
  /\ Answer(t)
  /\ UNCHANGED intact

\* The file is not opened, or nothing or only a part of the text gets into it.
WriteFails(t) ==
  /\ \/ pc[t] = "truncate" /\ file' = file
     \/ pc[t] = "write" /\ file' \in {file, Torn}
  /\ Answer(t)
  /\ intact' = FALSE

Tick ==
  /\ dedup' = [k \in Keys |-> Older(dedup[k], Keep)]
  /\ heard' = [k \in Keys |-> Older(heard[k], Keep)]
  /\ UNCHANGED <<file, pc, report, memory, blocked, merged, alone, intact>>

\* The process dies and starts again: the cache and the requests are gone.
Crash ==
  /\ dedup' = [k \in Keys |-> None]
  /\ heard' = [k \in Keys |-> None]
  /\ pc' = [t \in Threads |-> "idle"]
  /\ report' = [t \in Threads |-> None]
  /\ memory' = [t \in Threads |-> None]
  /\ alone' = (alone /\ Quiescent)
  /\ UNCHANGED <<file, blocked, merged, intact>>

Arrivals ==
  {r \in Reports : <<r.severity, r.confidence>> \in Kinds}

Step(t) == Stamp(t) \/ Read(t) \/ Truncate(t) \/ Write(t) \/ WriteFails(t)

Next ==
  \/ \E t \in Threads, r \in Arrivals : Receive(t, r)
  \/ \E t \in Threads : Step(t)
  \/ Tick
  \/ Crash

Spec == Init /\ [][Next]_vars

-----------------------------------------------------------------------------
(* Properties.                                                             *)

Actors ==
  [status : {"HOSTILE", "BLOCKED"}, riskScore : 1..100, totalActions : Nat \ {0},
   timeline : UNION {[1..n -> Types] : n \in 1..Cap}]
IsMemory(m) == \E S \in SUBSET IPs : m \in [S -> Actors]

\* A text that does not parse and an age that is none are none of the others.
TextAssumption == ~IsMemory(Void) /\ ~IsMemory(Torn)
NoneAssumption == None \notin Nat

\* Every variable has its type; in particular no timeline is longer than Cap.
TypeOK ==
  /\ dedup \in [Keys -> 0..Keep + 1 \cup {None}]
  /\ heard \in [Keys -> 0..Keep + 1 \cup {None}]
  /\ file \in {Void, Torn} \/ IsMemory(file)
  /\ pc \in [Threads -> {"idle", "stamp", "read", "truncate", "write"}]
  /\ report \in [Threads -> Reports \cup {None}]
  /\ \A t \in Threads : memory[t] = None \/ IsMemory(memory[t])
  /\ blocked \subseteq IPs
  /\ merged \in [IPs -> Seq(Reports)]
  /\ alone \in BOOLEAN /\ intact \in BOOLEAN

Last(s, n) == IF Len(s) <= n THEN s ELSE SubSeq(s, Len(s) - n + 1, Len(s))

\* What the memory should hold of an IP after a sequence of reports: all of
\* them counted, the highest risk, the types of the last Cap.
ActorAfter(reports) ==
  [status |-> IF \E i \in 2..Len(reports) : reports[i].severity >= 7 THEN "BLOCKED" ELSE "HOSTILE",
   riskScore |-> CHOOSE s \in {riskScore(reports[i]) : i \in DOMAIN reports} :
                   \A i \in DOMAIN reports : riskScore(reports[i]) <= s,
   totalActions |-> Len(reports),
   timeline |-> Last([i \in DOMAIN reports |-> reports[i].type], Cap)]

Known == {ip \in IPs : merged[ip] # <<>>}

\* As long as no two reports were handled at the same time, the process did not
\* die while it handled one and the file could be read and written, it holds
\* exactly what the reports that were answered as processed add up to (read, merge
\* and write of attacker-memory.json with no lock and its errors ignored).
ReportsAreKept ==
  Quiescent /\ alone /\ intact /\ Known # {} => Parsed = [ip \in Known |-> ActorAfter(merged[ip])]

\* Whatever is lost, nothing is made up, by failed reads and writes neither: the file credits an IP with no more
\* reports than were answered, and with no more risk than the worst of them.
NothingIsMadeUp ==
  \A ip \in DOMAIN Parsed :
    /\ Parsed[ip].totalActions <= Len(merged[ip])
    /\ \E i \in DOMAIN merged[ip] : riskScore(merged[ip][i]) = Parsed[ip].riskScore
    /\ Parsed[ip].status = "BLOCKED" => \E i \in DOMAIN merged[ip] : merged[ip][i].severity >= 7

\* A tenant's feed names an address only for what was reported of it: the
\* blocklist one of which some report weighs 70 or more, the default threat feed
\* one of which some report weighs 50 or more, or a report of severity 7 came
\* among very many.  As long as reports came one at a time and the file could be
\* read and written, the blocklist names all of those (handleDNSBlocklist,
\* handleShieldThreats).
FeedsAreEarned ==
  LET Weighs(ip, n) == \E i \in DOMAIN merged[ip] : riskScore(merged[ip][i]) >= n
      Many(ip) == Len(merged[ip]) > Busy[Len(Busy)]
  IN /\ \A ip \in DNSBlocklist : Weighs(ip, 70)
     /\ \A ip \in ShieldThreats(50) :
          \/ Weighs(ip, 50)
          \/ Many(ip) /\ \E i \in DOMAIN merged[ip] : merged[ip][i].severity >= 7
     /\ Quiescent /\ alone /\ intact => {ip \in IPs : Weighs(ip, 70)} \subseteq DNSBlocklist

\* The same IP and type is not taken twice within five minutes, unless a second
\* report of it arrived before the first one left its stamp.
OncePerQuiet ==
  [][\A t \in Threads : alone /\ pc[t] = "stamp" /\ pc'[t] = "read" =>
       LET age == heard[KeyOf(report[t])] IN age = None \/ age >= Quiet]_vars

=============================================================================
