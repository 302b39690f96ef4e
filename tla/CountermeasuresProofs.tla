------------------------- MODULE CountermeasuresProofs -------------------------
(***************************************************************************)
(* Proofs about Countermeasures, for every set of IPs and callers, every   *)
(* escalation table, every cap of the log and every clock bound.           *)
(***************************************************************************)
EXTENDS Countermeasures, SequenceTheorems, WellFoundedInduction, TLAPS

-----------------------------------------------------------------------------
(* Facts about the log's operators.                                        *)

\* A nonempty set of log positions has a latest one.
LEMMA LatestIsLast ==
  ASSUME NEW n \in Nat, NEW S \in SUBSET (1..n), S # {}
  PROVE  Latest(S) \in S /\ \A j \in S : j <= Latest(S)
<1> DEFINE T == {k \in 0..n : n - k \in S}
<1>1. T \subseteq Nat
  OBVIOUS
<1>2. T # {}
  <2>1. PICK i \in S : TRUE
    OBVIOUS
  <2>2. n - i \in T
    BY <2>1
  <2> QED BY <2>2
<1>3. PICK x \in T : \A y \in T : ~ (<<y, x>> \in OpToRel(<, Nat))
  BY ONLY <1>1, <1>2, NatLessThanWellFounded, WFMin
<1> HIDE DEF T
<1>4. \A y \in T : x <= y
  <2>1. SUFFICES ASSUME NEW y \in T, y < x PROVE FALSE
    BY <1>1
  <2>2. <<y, x>> \in OpToRel(<, Nat)
    BY <1>1, <2>1 DEF OpToRel
  <2> QED BY <1>3, <2>2
<1>5. \A j \in S : j <= n - x
  <2>1. SUFFICES ASSUME NEW j \in S PROVE j <= n - x
    OBVIOUS
  <2>2. n - j \in T /\ j \in Nat
    BY DEF T
  <2> QED BY <1>1, <1>4, <2>2
<1>6. n - x \in S
  BY DEF T
<1> QED BY <1>5, <1>6 DEF Latest

\* A log cut to its newest entries is a suffix of the log it was cut from.
LEMMA NewestIsSuffix ==
  ASSUME NEW S, NEW s \in Seq(S)
  PROVE  /\ Newest(s) \in Seq(S)
         /\ Len(Newest(s)) <= Len(s) /\ Len(Newest(s)) <= LogCap
         /\ \A i \in 1..Len(Newest(s)) : Newest(s)[i] = s[i + Len(s) - Len(Newest(s))]
         /\ s # <<>> => Newest(s) # <<>>
<1> USE CountermeasuresAssumption
<1>1. CASE Len(s) <= LogCap
  <2>1. Newest(s) = s
    BY <1>1 DEF Newest
  <2>2. Len(s) \in Nat /\ \A i \in 1..Len(s) : i + Len(s) - Len(s) = i
    OBVIOUS
  <2> QED BY <1>1, <2>1, <2>2
<1>2. CASE Len(s) > LogCap
  <2>1. Newest(s) = SubSeq(s, Len(s) - LogCap + 1, Len(s))
    BY <1>2 DEF Newest
  <2>2. \A i \in Len(s) - LogCap + 1 .. Len(s) : s[i] \in S
    BY <1>2
  <2>3. /\ Newest(s) \in Seq(S)
        /\ Len(Newest(s)) = LogCap
        /\ \A i \in 1..LogCap : Newest(s)[i] = s[Len(s) - LogCap + i]
    BY <1>2, <2>1, <2>2, SubSeqProperties
  <2> QED BY <1>2, <2>3
<1> QED BY <1>1, <1>2

\* The verdict is read off the last TEMP_BLOCK action of the IP.
LEMMA VerdictOfLast ==
  ASSUME NEW s \in Seq(ActionEntry), NEW ip \in IPs,
         NEW i \in Blocks(s, ip), \A j \in Blocks(s, ip) : j <= i
  PROVE  Verdict(s, ip) = IF s[i].reversed THEN NoEntry
                          ELSE [level |-> s[i].level, until |-> s[i].until]
<1>1. Blocks(s, ip) \in SUBSET (1..Len(s)) /\ Len(s) \in Nat
  BY DEF Blocks
<1>2. Latest(Blocks(s, ip)) \in Blocks(s, ip) /\ i <= Latest(Blocks(s, ip))
  BY <1>1, LatestIsLast
<1>3. Latest(Blocks(s, ip)) = i
  BY <1>1, <1>2
<1> QED BY <1>3 DEF Verdict

LEMMA VerdictType ==
  ASSUME NEW s \in Seq(ActionEntry), NEW ip \in IPs
  PROVE  Verdict(s, ip) \in Entry
<1>1. CASE Blocks(s, ip) = {}
  BY <1>1 DEF Verdict, Entry
<1>2. CASE Blocks(s, ip) # {}
  <2>1. Blocks(s, ip) \in SUBSET (1..Len(s)) /\ Len(s) \in Nat
    BY DEF Blocks
  <2>2. PICK i \in Blocks(s, ip) : \A j \in Blocks(s, ip) : j <= i
    BY <1>2, <2>1, LatestIsLast
  <2>3. s[i] \in ActionEntry /\ s[i].type = "TEMP_BLOCK"
    BY <2>1 DEF Blocks
  <2>4. s[i].level \in Nat /\ s[i].until \in Nat /\ (~s[i].reversed => s[i].level > 0)
    BY <2>3 DEF ActionEntry
  <2>5. Verdict(s, ip) = IF s[i].reversed THEN NoEntry
                         ELSE [level |-> s[i].level, until |-> s[i].until]
    BY <2>2, VerdictOfLast
  <2> QED BY <2>4, <2>5 DEF Entry, Sanction
<1> QED BY <1>1, <1>2

\* Appending an action to the log gives its IP a new verdict if it is a
\* TEMP_BLOCK action; any other verdict stays or is evicted.
LEMMA VerdictAfterAppend ==
  ASSUME NEW s \in Seq(ActionEntry), NEW a \in ActionEntry, NEW ip \in IPs
  PROVE  LET t == Newest(Append(s, a))
         IN  /\ a.type = "TEMP_BLOCK" /\ a.ip = ip =>
                  /\ Blocks(t, ip) # {}
                  /\ Verdict(t, ip) = IF a.reversed THEN NoEntry
                                      ELSE [level |-> a.level, until |-> a.until]
             /\ (a.type # "TEMP_BLOCK" \/ a.ip # ip) /\ Blocks(t, ip) # {} =>
                  Blocks(s, ip) # {} /\ Verdict(t, ip) = Verdict(s, ip)
<1> DEFINE u == Append(s, a)
           t == Newest(u)
           d == Len(u) - Len(t)
<1>1. /\ u \in Seq(ActionEntry) /\ Len(u) = Len(s) + 1 /\ u # <<>>
      /\ u[Len(u)] = a
      /\ \A i \in 1..Len(s) : u[i] = s[i]
  BY AppendProperties
<1>2. /\ t \in Seq(ActionEntry)
      /\ Len(t) \in Nat /\ Len(t) <= Len(u) /\ Len(t) > 0
      /\ \A i \in 1..Len(t) : t[i] = u[i + d]
  <2>1. t # <<>> /\ t \in Seq(ActionEntry) /\ Len(t) <= Len(u)
    BY <1>1, NewestIsSuffix
  <2>2. \A i \in 1..Len(t) : t[i] = u[i + Len(u) - Len(t)]
    BY <1>1, NewestIsSuffix
  <2>3. Len(u) \in Nat /\ Len(t) \in Nat /\ Len(t) > 0
    BY <1>1, <2>1, EmptySeq, LenProperties
  <2>4. \A i \in 1..Len(t) : i + Len(u) - Len(t) = i + d
    BY <2>3
  <2> HIDE DEF t, u
  <2> QED BY <2>1, <2>2, <2>3, <2>4
<1>3. d \in Nat /\ Len(s) \in Nat /\ t[Len(t)] = a
  BY <1>1, <1>2
<1> HIDE DEF t, u, d
<1>4. ASSUME a.type = "TEMP_BLOCK", a.ip = ip
      PROVE  /\ Blocks(t, ip) # {}
             /\ Verdict(t, ip) = IF a.reversed THEN NoEntry
                                 ELSE [level |-> a.level, until |-> a.until]
  <2>1. Len(t) \in Blocks(t, ip) /\ \A j \in Blocks(t, ip) : j <= Len(t)
    BY <1>2, <1>3, <1>4 DEF Blocks
  <2>2. Verdict(t, ip) = IF t[Len(t)].reversed THEN NoEntry
                         ELSE [level |-> t[Len(t)].level, until |-> t[Len(t)].until]
    BY <1>2, <2>1, VerdictOfLast
  <2> QED BY <1>3, <2>1, <2>2
<1>5. ASSUME a.type # "TEMP_BLOCK" \/ a.ip # ip, Blocks(t, ip) # {}
      PROVE  Blocks(s, ip) # {} /\ Verdict(t, ip) = Verdict(s, ip)
  <2>1. Blocks(t, ip) \in SUBSET (1..Len(t))
    BY DEF Blocks
  <2>2. PICK k \in Blocks(t, ip) : \A j \in Blocks(t, ip) : j <= k
    BY <1>2, <1>5, <2>1, LatestIsLast
  <2>3. Len(t) \notin Blocks(t, ip)
    BY <1>3, <1>5 DEF Blocks
  <2>4. k \in 1..(Len(t) - 1)
    BY <1>2, <2>1, <2>2, <2>3
  <2>5. d + Len(t) = Len(s) + 1
    BY <1>1, <1>2, <1>3 DEF d
  <2>6. \A i \in 1..(Len(t) - 1) : i + d \in 1..Len(s) /\ t[i] = s[i + d]
    <3>1. SUFFICES ASSUME NEW i \in 1..(Len(t) - 1)
                   PROVE  i + d \in 1..Len(s) /\ t[i] = s[i + d]
      OBVIOUS
    <3>2. i + d \in 1..Len(s)
      BY <1>2, <1>3, <2>5
    <3>3. t[i] = u[i + d]
      BY <1>2
    <3> QED BY <1>1, <3>2, <3>3
  <2>7. k + d \in Blocks(s, ip)
    BY <2>2, <2>4, <2>6 DEF Blocks
  <2>8. \A j \in Blocks(s, ip) : j <= k + d
    <3>1. SUFFICES ASSUME NEW j \in Blocks(s, ip), j > k + d PROVE FALSE
      BY <1>3, <2>1 DEF Blocks
    <3>2. j \in 1..Len(s) /\ s[j].type = "TEMP_BLOCK" /\ s[j].ip = ip
      BY DEF Blocks
    <3>3. j - d \in 1..(Len(t) - 1)
      BY <1>2, <1>3, <2>4, <2>5, <3>1, <3>2
    <3>4. t[j - d] = s[(j - d) + d] /\ (j - d) + d = j
      BY <1>3, <2>6, <3>2, <3>3
    <3>5. j - d \in Blocks(t, ip)
      BY <1>2, <3>2, <3>3, <3>4 DEF Blocks
    <3> QED BY <1>2, <1>3, <2>1, <2>2, <3>1, <3>2, <3>5
  <2>9. Verdict(s, ip) = IF s[k + d].reversed THEN NoEntry
                         ELSE [level |-> s[k + d].level, until |-> s[k + d].until]
    BY <2>7, <2>8, VerdictOfLast
  <2>10. Verdict(t, ip) = IF t[k].reversed THEN NoEntry
                          ELSE [level |-> t[k].level, until |-> t[k].until]
    BY <1>2, <2>2, VerdictOfLast
  <2> QED BY <2>4, <2>6, <2>7, <2>9, <2>10
<1> QED BY <1>4, <1>5 DEF t, u

\* Reversing in place the latest action not yet reversed leaves its IP
\* without a verdict, wherever that action stands, and touches no other IP.
LEMMA VerdictAfterReversal ==
  ASSUME NEW s \in Seq(ActionEntry), NEW ip \in IPs, NEW other \in IPs,
         NEW i \in Blocks(s, ip), ~s[i].reversed,
         \A j \in Blocks(s, ip) : ~s[j].reversed => j <= i
  PROVE  LET t == [s EXCEPT ![i].reversed = TRUE]
         IN  /\ t \in Seq(ActionEntry) /\ Len(t) = Len(s)
             /\ Blocks(t, other) = Blocks(s, other)
             /\ Verdict(t, ip) = NoEntry
             /\ other # ip => Verdict(t, other) = Verdict(s, other)
<1> DEFINE e == [s[i] EXCEPT !.reversed = TRUE]
           t == [s EXCEPT ![i] = e]
<1>1. i \in 1..Len(s) /\ s[i] \in ActionEntry /\ s[i].type = "TEMP_BLOCK" /\ s[i].ip = ip
  BY DEF Blocks
<1>2. /\ e \in ActionEntry
      /\ e.type = s[i].type /\ e.ip = s[i].ip /\ e.reversed = TRUE
  BY <1>1 DEF ActionEntry
<1> HIDE DEF e
<1>3. /\ t \in Seq(ActionEntry) /\ Len(t) = Len(s) /\ Len(s) \in Nat
      /\ t[i] = e
      /\ \A j \in 1..Len(s) : j # i => t[j] = s[j]
  BY <1>1, <1>2, ExceptSeq
<1> HIDE DEF t
<1>4. \A x \in IPs : Blocks(t, x) = Blocks(s, x)
  BY <1>1, <1>2, <1>3 DEF Blocks
<1>5. Verdict(t, ip) = NoEntry
  <2>1. Blocks(t, ip) \in SUBSET (1..Len(t)) /\ Blocks(t, ip) # {}
    BY <1>4 DEF Blocks
  <2>2. PICK k \in Blocks(t, ip) : \A j \in Blocks(t, ip) : j <= k
    BY <1>3, <2>1, LatestIsLast
  <2>3. t[k].reversed
    <3>1. CASE k = i
      BY <1>2, <1>3, <3>1
    <3>2. CASE k # i
      <4>1. t[k] = s[k] /\ k \in Blocks(s, ip)
        BY <1>3, <1>4, <2>1, <2>2, <3>2
      <4>2. i < k
        BY <1>1, <1>3, <1>4, <2>1, <2>2, <3>2
      <4>3. s[k] \in ActionEntry
        BY <4>1 DEF Blocks
      <4> QED BY <1>1, <1>3, <2>1, <2>2, <4>1, <4>2, <4>3 DEF ActionEntry
    <3> QED BY <3>1, <3>2
  <2> QED BY <1>3, <2>2, <2>3, VerdictOfLast
<1>6. ASSUME other # ip PROVE Verdict(t, other) = Verdict(s, other)
  <2>1. CASE Blocks(s, other) = {}
    BY <1>4, <2>1 DEF Verdict
  <2>2. CASE Blocks(s, other) # {}
    <3>1. Blocks(s, other) \in SUBSET (1..Len(s))
      BY DEF Blocks
    <3>2. PICK k \in Blocks(s, other) : \A j \in Blocks(s, other) : j <= k
      BY <1>3, <2>2, <3>1, LatestIsLast
    <3>3. k # i
      BY <1>1, <1>6, <3>2 DEF Blocks
    <3>4. t[k] = s[k]
      BY <1>3, <3>1, <3>2, <3>3
    <3> QED BY <1>3, <1>4, <3>2, <3>4, VerdictOfLast
  <2> QED BY <2>1, <2>2
<1>7. t = [s EXCEPT ![i].reversed = TRUE]
  BY DEF t, e
<1> QED BY <1>3, <1>4, <1>5, <1>6, <1>7

-----------------------------------------------------------------------------
(* Type correctness.                                                       *)

\* What a writer's change leaves in memory is well typed, and the log capped.
LEMMA ImposeType ==
  ASSUME TypeOK, NEW t \in Tables, NEW ip \in IPs, NEW e \in Entry,
         NEW a \in ActionEntry,
         Commit([table EXCEPT ![t][ip] = e], Append(log, a))
  PROVE  /\ table' \in [Tables -> [IPs -> Entry]]
         /\ log' \in Seq(ActionEntry) /\ Len(log') <= LogCap
         /\ saving' = "writing"
<1>1. table' \in [Tables -> [IPs -> Entry]]
  BY DEF TypeOK, Commit
<1>2. Append(log, a) \in Seq(ActionEntry)
  BY AppendProperties DEF TypeOK
<1> QED BY <1>1, <1>2, NewestIsSuffix DEF Commit

LEMMA NewBlockType ==
  ASSUME TypeOK, NEW ip \in IPs, BlockNow(ip)
  PROVE  \E e \in Sanction :
           /\ Action("TEMP_BLOCK", ip, e, FALSE) \in ActionEntry
           /\ Impose("blocked", ip, e, Action("TEMP_BLOCK", ip, e, FALSE))
<1> DEFINE level == NextLevel(table["blocked"][ip].level)
           e == [level |-> level, until |-> now + BlockEscalation[level]]
<1>1. table["blocked"][ip].level \in Nat
  BY DEF TypeOK, Tables, Entry, Sanction, NoEntry
<1>2. level \in 1..MaxLevel
  BY <1>1, CountermeasuresAssumption DEF NextLevel
<1> HIDE DEF level
<1>3. BlockEscalation[level] \in Nat /\ now \in Nat
  BY <1>2, CountermeasuresAssumption DEF TypeOK
<1>4. e \in Sanction
  BY <1>2, <1>3, CountermeasuresAssumption DEF Sanction
<1>5. Impose("blocked", ip, e, Action("TEMP_BLOCK", ip, e, FALSE))
  BY DEF BlockNow, level
<1>6. ASSUME NEW f \in Sanction
      PROVE  Action("TEMP_BLOCK", ip, f, FALSE) \in ActionEntry
  BY DEF Action, ActionEntry, ActionTypes, Sanction
<1> QED BY <1>4, <1>5, <1>6

\* The block, throttle and isolation steps leave tables and log well typed.
LEMMA OperationType ==
  ASSUME TypeOK, NEW ip \in IPs,
         \/ BlockNow(ip)
         \/ Throttle(ip, ThrottleHigh) \/ Throttle(ip, ThrottleLow)
         \/ SoftIsolate(ip)
         \/ LiftAndAppend(ip)
  PROVE  /\ table' \in [Tables -> [IPs -> Entry]]
         /\ log' \in Seq(ActionEntry) /\ Len(log') <= LogCap
         /\ saving' = "writing"
<1> USE DEF Tables
<1>0. now \in Nat /\ NoEntry \in Entry
  BY DEF TypeOK, Entry
<1>1. CASE BlockNow(ip)
  BY <1>1, NewBlockType, ImposeType DEF Impose, Entry
<1>2. ASSUME NEW t \in Throttling, Throttle(ip, t)
      PROVE  /\ table' \in [Tables -> [IPs -> Entry]]
             /\ log' \in Seq(ActionEntry) /\ Len(log') <= LogCap
             /\ saving' = "writing"
  <2>1. [level |-> t.multiplier, until |-> now + t.duration] \in Entry
    BY <1>0 DEF Throttling, Entry, Sanction
  <2>2. Action("THROTTLE", ip, NoEntry, FALSE) \in ActionEntry
    BY DEF Action, ActionEntry, ActionTypes, NoEntry
  <2> QED BY <1>2, <2>1, <2>2, ImposeType DEF Throttle, Impose
<1>3. CASE SoftIsolate(ip)
  <2>1. [level |-> 1, until |-> now + IsolateFor] \in Entry
    BY <1>0, CountermeasuresAssumption DEF Entry, Sanction
  <2>2. Action("SOFT_ISOLATE", ip, NoEntry, FALSE) \in ActionEntry
    BY DEF Action, ActionEntry, ActionTypes, NoEntry
  <2> QED BY <1>3, <2>1, <2>2, ImposeType DEF SoftIsolate, Impose
<1>4. CASE LiftAndAppend(ip)
  <2>1. Action("TEMP_BLOCK", ip, NoEntry, TRUE) \in ActionEntry
    BY DEF Action, ActionEntry, ActionTypes, NoEntry
  <2> QED BY <1>0, <1>4, <2>1, ImposeType DEF LiftAndAppend
<1> QED BY <1>1, <1>2, <1>3, <1>4, CountermeasuresAssumption

\* The position ReverseLastBlock picks.
LEMMA ReversedAction ==
  ASSUME TypeOK, NEW ip \in IPs, Unreversed(ip) # {}
  PROVE  LET i == Latest(Unreversed(ip))
         IN  /\ i \in Blocks(log, ip) /\ ~log[i].reversed
             /\ \A j \in Blocks(log, ip) : ~log[j].reversed => j <= i
<1>1. Unreversed(ip) \in SUBSET (1..Len(log)) /\ Len(log) \in Nat
  BY DEF Unreversed, Blocks, TypeOK
<1> QED BY <1>1, LatestIsLast DEF Unreversed

\* What ReverseLastBlock does to the log when it finds an action to reverse.
LEMMA ReversalStep ==
  ASSUME TypeOK, NEW ip \in IPs, ReverseLastBlock(ip), Unreversed(ip) # {}
  PROVE  /\ table' = [table EXCEPT !["blocked"][ip] = NoEntry]
         /\ log' \in Seq(ActionEntry) /\ Len(log') <= LogCap
         /\ Verdict(log', ip) = NoEntry
         /\ \A other \in IPs : /\ Blocks(log', other) = Blocks(log, other)
                               /\ other # ip => Verdict(log', other) = Verdict(log, other)
<1>1. PICK i \in Blocks(log, ip) :
        /\ ~log[i].reversed
        /\ \A j \in Blocks(log, ip) : ~log[j].reversed => j <= i
        /\ log' = Newest([log EXCEPT ![i].reversed = TRUE])
  BY ReversedAction DEF ReverseLastBlock, Commit
<1>2. log \in Seq(ActionEntry) /\ Len(log) <= LogCap
  BY DEF TypeOK
<1>3. \A other \in IPs :
        /\ [log EXCEPT ![i].reversed = TRUE] \in Seq(ActionEntry)
        /\ Len([log EXCEPT ![i].reversed = TRUE]) = Len(log)
        /\ Blocks([log EXCEPT ![i].reversed = TRUE], other) = Blocks(log, other)
        /\ Verdict([log EXCEPT ![i].reversed = TRUE], ip) = NoEntry
        /\ other # ip =>
             Verdict([log EXCEPT ![i].reversed = TRUE], other) = Verdict(log, other)
  BY ONLY <1>1, <1>2, VerdictAfterReversal
<1> DEFINE t == [log EXCEPT ![i].reversed = TRUE]
<1>4. log' = Newest(t) /\ Len(t) = Len(log)
  BY <1>1, <1>3
<1>5. \A other \in IPs :
        /\ t \in Seq(ActionEntry)
        /\ Blocks(t, other) = Blocks(log, other)
        /\ Verdict(t, ip) = NoEntry
        /\ other # ip => Verdict(t, other) = Verdict(log, other)
  BY <1>3
<1> HIDE DEF t
<1>6. log' = t
  BY <1>2, <1>4, CountermeasuresAssumption DEF Newest
<1>7. table' = [table EXCEPT !["blocked"][ip] = NoEntry]
  BY DEF ReverseLastBlock, Commit
<1> QED BY <1>2, <1>4, <1>5, <1>6, <1>7

LEMMA RebuildType ==
  ASSUME NEW s \in Seq(ActionEntry)
  PROVE  Rebuild(s) \in [IPs -> Entry]
BY VerdictType DEF Rebuild, Entry

\* The memory of a process that has just started or is down.
LEMMA BlankType ==
  /\ EmptyTables \in [Tables -> [IPs -> Entry]]
  /\ <<>> \in Seq(ActionEntry) /\ Len(<<>>) <= LogCap
  /\ [c \in Callers |-> Idle] \in [Callers -> CallState]
<1>1. EmptyTables \in [Tables -> [IPs -> Entry]]
  BY DEF EmptyTables, Entry
<1>2. <<>> \in Seq(ActionEntry) /\ Len(<<>>) <= LogCap
  BY CountermeasuresAssumption
<1>3. [c \in Callers |-> Idle] \in [Callers -> CallState]
  BY DEF CallState, Idle
<1> QED BY <1>1, <1>2, <1>3

LEMMA TypeInit == Init => TypeOK
<1> SUFFICES ASSUME Init PROVE TypeOK
  OBVIOUS
<1> QED BY BlankType DEF Init, TypeOK

LEMMA TypeNext == TypeOK /\ [Next]_vars => TypeOK'
<1> SUFFICES ASSUME TypeOK, [Next]_vars PROVE TypeOK'
  OBVIOUS
<1>1. ASSUME NEW ip \in IPs, TempBlock(ip) PROVE TypeOK'
  BY <1>1, OperationType DEF TempBlock, TypeOK
<1>2. ASSUME NEW ip \in IPs, Unblock(ip) PROVE TypeOK'
  BY <1>2, OperationType DEF Unblock, TypeOK
<1>3. ASSUME NEW ip \in IPs, ReverseLastBlock(ip) PROVE TypeOK'
  <2>1. CASE Unreversed(ip) = {}
    BY <1>3, <2>1, OperationType DEF ReverseLastBlock, TypeOK
  <2>2. CASE Unreversed(ip) # {}
    <3>1. table' = [table EXCEPT !["blocked"][ip] = NoEntry]
      BY <1>3, <2>2 DEF ReverseLastBlock, Commit
    <3>2. table' \in [Tables -> [IPs -> Entry]]
      BY <3>1 DEF TypeOK, Entry, Tables
    <3> QED BY <1>3, <2>2, <3>2, ReversalStep DEF ReverseLastBlock, Commit, TypeOK
  <2> QED BY <2>1, <2>2
<1>4. ASSUME NEW c \in Callers, NEW ip \in IPs, AutoRespond(c, ip) PROVE TypeOK'
  <2>1. call' \in [Callers -> CallState]
    BY <1>4 DEF AutoRespond, TypeOK, CallState
  <2> QED BY <1>4, <2>1, OperationType DEF AutoRespond, TypeOK
<1>5. ASSUME NEW c \in Callers, FinishAutoRespond(c) PROVE TypeOK'
  <2>1. call[c].ip \in IPs
    BY <1>5 DEF FinishAutoRespond, TypeOK, CallState
  <2>2. call' \in [Callers -> CallState]
    BY <1>5 DEF FinishAutoRespond, TypeOK, CallState, Idle
  <2> QED BY <1>5, <2>1, <2>2, OperationType DEF FinishAutoRespond, TypeOK
<1>6. ASSUME NEW c \in Callers, NEW t \in LookupTables, NEW ip \in IPs, ReadEntry(c, t, ip)
      PROVE  TypeOK'
  <2>1. t \in Tables /\ table[t][ip].until \in Nat
    BY CountermeasuresAssumption DEF TypeOK, Entry, Sanction, NoEntry
  <2>2. call' \in [Callers -> CallState]
    BY <1>6, <2>1 DEF ReadEntry, TypeOK, CallState
  <2> QED BY <1>6, <2>2 DEF ReadEntry, TypeOK
<1>7. ASSUME NEW c \in Callers, CheckExpiry(c) PROVE TypeOK'
  <2>1. call' \in [Callers -> CallState]
    BY <1>7 DEF CheckExpiry, TypeOK, CallState, Idle
  <2> QED BY <1>7, <2>1 DEF CheckExpiry, TypeOK
<1>8. ASSUME NEW c \in Callers, DeleteExpired(c) PROVE TypeOK'
  <2>1. call' \in [Callers -> CallState]
    BY <1>8 DEF DeleteExpired, TypeOK, CallState, Idle
  <2>2. table' \in [Tables -> [IPs -> Entry]]
    BY <1>8 DEF DeleteExpired, TypeOK, CallState, Entry
  <2> QED BY <1>8, <2>1, <2>2 DEF DeleteExpired, TypeOK
<1>9. ASSUME Cleanup PROVE TypeOK'
  <2>1. table' \in [Tables -> [IPs -> Entry]]
    BY <1>9 DEF Cleanup, TypeOK, Entry
  <2> QED BY <1>9, <2>1 DEF Cleanup, TypeOK
<1>10. ASSUME Save PROVE TypeOK'
  <2>1. CASE WriteTmp
    BY <2>1 DEF WriteTmp, TypeOK
  <2>2. CASE Rename
    BY <2>2 DEF Rename, TypeOK
  <2>3. CASE SaveFails
    BY <2>3 DEF SaveFails, TypeOK
  <2> QED BY <1>10, <2>1, <2>2, <2>3 DEF Save
<1>11. ASSUME Crash PROVE TypeOK'
  BY <1>11, BlankType DEF Crash, TypeOK
<1>12. ASSUME NEW readable \in BOOLEAN, New(readable) PROVE TypeOK'
  <2>1. Rebuild(disk.actions) \in [IPs -> Entry]
    BY RebuildType DEF TypeOK
  <2> QED BY <1>12, <2>1 DEF New, TypeOK, EmptyTables, Entry
<1>13. ASSUME Tick PROVE TypeOK'
  BY <1>13 DEF Tick, TypeOK
<1>14. ASSUME UNCHANGED vars PROVE TypeOK'
  BY <1>14 DEF vars, TypeOK
<1> QED BY <1>1, <1>2, <1>3, <1>4, <1>5, <1>6, <1>7, <1>8, <1>9, <1>10,
           <1>11, <1>12, <1>13, <1>14 DEF Next, Caller

\* Every variable of the store keeps its type, and the log its cap, for ever.
THEOREM TypeCorrect == Spec => []TypeOK
<1> QED BY TypeInit, TypeNext, PTL DEF Spec

-----------------------------------------------------------------------------
(* The file on disk.                                                       *)

\* Every restart finds a file it can parse, whatever step a crash interrupts.
THEOREM FileParses == Spec => []FileAlwaysParses
<1>1. Init => FileAlwaysParses
  BY DEF Init, FileAlwaysParses
<1>2. [Next]_vars => disk' = disk \/ Rename
  BY DEF Next, vars, Caller, TempBlock, Unblock, ReverseLastBlock, AutoRespond,
         FinishAutoRespond, ReadEntry, CheckExpiry, DeleteExpired, Cleanup, Save,
         WriteTmp, SaveFails, Crash, New, Tick
<1>3. Rename => FileAlwaysParses'
  BY DEF Rename, FileAlwaysParses
<1>4. FileAlwaysParses /\ disk' = disk => FileAlwaysParses'
  BY DEF FileAlwaysParses
<1> QED BY <1>1, <1>2, <1>3, <1>4, PTL DEF Spec

\* With no error reported the file holds exactly the log in memory.
THEOREM SavedIsReported == Spec => []SavedUnlessReported
<1> USE DEF SavedUnlessReported, LockFree
<1>1. Init => SavedUnlessReported
  BY DEF Init
<1>2. SavedUnlessReported /\ [Next]_vars => SavedUnlessReported'
  <2> SUFFICES ASSUME SavedUnlessReported, [Next]_vars PROVE SavedUnlessReported'
    OBVIOUS
  <2>1. ASSUME saving' = "writing" PROVE SavedUnlessReported'
    BY <2>1
  <2>2. ASSUME NEW ip \in IPs, TempBlock(ip) \/ Unblock(ip) \/ ReverseLastBlock(ip)
        PROVE  SavedUnlessReported'
    BY <2>1, <2>2 DEF TempBlock, BlockNow, Impose, Unblock, ReverseLastBlock,
                      LiftAndAppend, Commit
  <2>3. ASSUME NEW c \in Callers, Caller(c) PROVE SavedUnlessReported'
    BY <2>1, <2>3 DEF Caller, AutoRespond, FinishAutoRespond, ReadEntry, CheckExpiry,
         DeleteExpired, BlockNow, Throttle, SoftIsolate, Impose, Commit
  <2>4. ASSUME Cleanup \/ Tick \/ Crash \/ UNCHANGED vars PROVE SavedUnlessReported'
    BY <2>4 DEF Cleanup, Tick, Crash, vars
  <2>5. ASSUME Save PROVE SavedUnlessReported'
    <3>1. CASE WriteTmp
      BY <3>1 DEF WriteTmp
    <3>2. CASE Rename
      BY <3>2 DEF Rename
    <3>3. CASE SaveFails
      BY <3>3, Zenon DEF SaveFails
    <3> QED BY <2>5, <3>1, <3>2, <3>3 DEF Save
  <2>6. ASSUME NEW readable \in BOOLEAN, New(readable) PROVE SavedUnlessReported'
    BY <2>6 DEF New
  <2> QED BY <2>2, <2>3, <2>4, <2>5, <2>6 DEF Next
<1> QED BY <1>1, <1>2, PTL DEF Spec

-----------------------------------------------------------------------------
(* The blocks in memory and the log.                                       *)

\* The log and the blocks after an operation that imposes e on ip and
\* appends action a: the invariant holds of ip when a records e, and of
\* every other IP because its verdict stays or is evicted.
LEMMA AppendKeepsBlocksLogged ==
  ASSUME TypeOK, BlocksAreLogged, NEW ip \in IPs, NEW a \in ActionEntry,
         log' = Newest(Append(log, a)),
         a.type = "TEMP_BLOCK" => a.ip = ip,
         \A other \in IPs : other # ip \/ a.type # "TEMP_BLOCK" =>
            table'["blocked"][other] = table["blocked"][other],
         a.type = "TEMP_BLOCK" =>
            table'["blocked"][ip] = IF a.reversed THEN NoEntry
                                    ELSE [level |-> a.level, until |-> a.until]
  PROVE  BlocksAreLogged'
<1>1. log \in Seq(ActionEntry)
  BY DEF TypeOK
<1> SUFFICES ASSUME NEW other \in IPs,
                    Held(table'["blocked"][other]), Blocks(log', other) # {}
             PROVE  Verdict(log', other) = table'["blocked"][other]
  BY DEF BlocksAreLogged
<1>2. CASE a.type = "TEMP_BLOCK" /\ other = ip
  BY <1>1, <1>2, VerdictAfterAppend
<1>3. CASE a.type # "TEMP_BLOCK" \/ other # ip
  <2>1. Blocks(log, other) # {} /\ Verdict(log', other) = Verdict(log, other)
    BY <1>1, <1>3, VerdictAfterAppend
  <2>2. table'["blocked"][other] = table["blocked"][other]
    BY <1>3
  <2> QED BY <2>1, <2>2 DEF BlocksAreLogged
<1> QED BY <1>2, <1>3

\* Deleting entries from the block map breaks nothing.
LEMMA DeletionKeepsBlocksLogged ==
  ASSUME BlocksAreLogged, log' = log,
         \A ip \in IPs : table'["blocked"][ip] \in {table["blocked"][ip], NoEntry}
  PROVE  BlocksAreLogged'
BY DEF BlocksAreLogged, Held, NoEntry

LEMMA BlocksLoggedNext == TypeOK /\ BlocksAreLogged /\ [Next]_vars => BlocksAreLogged'
<1> SUFFICES ASSUME TypeOK, BlocksAreLogged, [Next]_vars PROVE BlocksAreLogged'
  OBVIOUS
<1>0. table \in [Tables -> [IPs -> Entry]] /\ "blocked" \in Tables /\ log \in Seq(ActionEntry)
  BY DEF TypeOK, Tables
<1>1. ASSUME NEW ip \in IPs, BlockNow(ip) PROVE BlocksAreLogged'
  <2>1. PICK e \in Sanction :
          /\ Action("TEMP_BLOCK", ip, e, FALSE) \in ActionEntry
          /\ Impose("blocked", ip, e, Action("TEMP_BLOCK", ip, e, FALSE))
    BY <1>1, NewBlockType
  <2> DEFINE a == Action("TEMP_BLOCK", ip, e, FALSE)
  <2>2. /\ a \in ActionEntry /\ a.type = "TEMP_BLOCK" /\ a.ip = ip /\ ~a.reversed
        /\ e = [level |-> a.level, until |-> a.until]
    BY <2>1 DEF Action, Sanction
  <2>3. table' = [table EXCEPT !["blocked"][ip] = e] /\ log' = Newest(Append(log, a))
    BY <2>1 DEF Impose, Commit
  <2> HIDE DEF a
  <2>4. /\ table'["blocked"][ip] = e
        /\ \A other \in IPs : other # ip => table'["blocked"][other] = table["blocked"][other]
    BY <1>0, <2>3
  <2> QED BY <2>2, <2>3, <2>4, AppendKeepsBlocksLogged
<1>2. ASSUME NEW ip \in IPs, NEW t \in Tables, t # "blocked", NEW e, NEW a \in ActionEntry,
             a.type # "TEMP_BLOCK", Impose(t, ip, e, a)
      PROVE  BlocksAreLogged'
  <2>1. log' = Newest(Append(log, a)) /\ table' = [table EXCEPT ![t][ip] = e]
    BY <1>2 DEF Impose, Commit
  <2>2. table'["blocked"] = table["blocked"]
    BY <1>0, <1>2, <2>1
  <2> QED BY <1>2, <2>1, <2>2, AppendKeepsBlocksLogged
<1>3. ASSUME NEW ip \in IPs, NEW t, Throttle(ip, t) \/ SoftIsolate(ip) PROVE BlocksAreLogged'
  <2>1. /\ Action("THROTTLE", ip, NoEntry, FALSE) \in ActionEntry
        /\ Action("THROTTLE", ip, NoEntry, FALSE).type # "TEMP_BLOCK"
        /\ Action("SOFT_ISOLATE", ip, NoEntry, FALSE) \in ActionEntry
        /\ Action("SOFT_ISOLATE", ip, NoEntry, FALSE).type # "TEMP_BLOCK"
    BY DEF Action, ActionEntry, ActionTypes, NoEntry
  <2>2. "throttled" \in Tables /\ "isolated" \in Tables
    BY DEF Tables
  <2> QED BY <1>2, <1>3, <2>1, <2>2 DEF Throttle, SoftIsolate
<1>4. ASSUME NEW ip \in IPs, LiftAndAppend(ip) PROVE BlocksAreLogged'
  <2> DEFINE a == Action("TEMP_BLOCK", ip, NoEntry, TRUE)
  <2>1. a \in ActionEntry /\ a.type = "TEMP_BLOCK" /\ a.ip = ip /\ a.reversed
    BY DEF Action, ActionEntry, ActionTypes, NoEntry
  <2>2. log' = Newest(Append(log, a)) /\ table' = [table EXCEPT !["blocked"][ip] = NoEntry]
    BY <1>4 DEF LiftAndAppend, Commit
  <2> HIDE DEF a
  <2>3. /\ table'["blocked"][ip] = NoEntry
        /\ \A other \in IPs : other # ip => table'["blocked"][other] = table["blocked"][other]
    BY <1>0, <2>2
  <2> QED BY <2>1, <2>2, <2>3, AppendKeepsBlocksLogged
<1>5. ASSUME NEW ip \in IPs, ReverseLastBlock(ip), Unreversed(ip) # {} PROVE BlocksAreLogged'
  <2>1. /\ table' = [table EXCEPT !["blocked"][ip] = NoEntry]
        /\ \A other \in IPs : /\ Blocks(log', other) = Blocks(log, other)
                              /\ other # ip => Verdict(log', other) = Verdict(log, other)
    BY <1>5, ReversalStep
  <2>2. /\ table'["blocked"][ip] = NoEntry
        /\ \A other \in IPs : other # ip => table'["blocked"][other] = table["blocked"][other]
    BY <1>0, <2>1
  <2>3. SUFFICES ASSUME NEW other \in IPs,
                        Held(table'["blocked"][other]), Blocks(log', other) # {}
                 PROVE  Verdict(log', other) = table'["blocked"][other]
    BY DEF BlocksAreLogged
  <2>4. other # ip
    BY <2>2, <2>3 DEF Held, NoEntry
  <2>5. table'["blocked"][other] = table["blocked"][other]
    BY <2>2, <2>4
  <2>6. Blocks(log, other) # {} /\ Verdict(log', other) = Verdict(log, other)
    BY <2>1, <2>3, <2>4
  <2>7. Held(table["blocked"][other])
    BY <2>3, <2>5
  <2> QED BY <2>5, <2>6, <2>7 DEF BlocksAreLogged
<1>6. ASSUME NEW ip \in IPs, TempBlock(ip) \/ Unblock(ip) \/ ReverseLastBlock(ip)
      PROVE  BlocksAreLogged'
  BY <1>1, <1>4, <1>5, <1>6 DEF TempBlock, Unblock, ReverseLastBlock
<1>7. ASSUME NEW c \in Callers, Caller(c) PROVE BlocksAreLogged'
  <2>1. ASSUME NEW ip \in IPs, AutoRespond(c, ip) PROVE BlocksAreLogged'
    BY <1>1, <1>3, <2>1 DEF AutoRespond
  <2>2. ASSUME FinishAutoRespond(c) PROVE BlocksAreLogged'
    <3>1. call[c].ip \in IPs
      BY <2>2 DEF FinishAutoRespond, TypeOK, CallState
    <3> QED BY <1>3, <2>2, <3>1 DEF FinishAutoRespond
  <2>3. ASSUME NEW t \in Tables, NEW ip \in IPs, ReadEntry(c, t, ip) PROVE BlocksAreLogged'
    BY <2>3, DeletionKeepsBlocksLogged DEF ReadEntry
  <2>4. ASSUME CheckExpiry(c) PROVE BlocksAreLogged'
    BY <2>4, DeletionKeepsBlocksLogged DEF CheckExpiry
  <2>5. ASSUME DeleteExpired(c) PROVE BlocksAreLogged'
    <3>1. call[c].ip \in IPs /\ call[c].table \in Tables
      BY <2>5 DEF DeleteExpired, TypeOK, CallState
    <3>2. log' = log /\ table' = [table EXCEPT ![call[c].table][call[c].ip] = NoEntry]
      BY <2>5 DEF DeleteExpired
    <3>3. \A ip \in IPs : table'["blocked"][ip] \in {table["blocked"][ip], NoEntry}
      BY <1>0, <3>1, <3>2
    <3> QED BY <3>2, <3>3, DeletionKeepsBlocksLogged
  <2> QED BY <1>7, <2>1, <2>2, <2>3, <2>4, <2>5, CountermeasuresAssumption DEF Caller
<1>8. ASSUME Cleanup PROVE BlocksAreLogged'
  BY <1>0, <1>8, DeletionKeepsBlocksLogged DEF Cleanup
<1>9. ASSUME Save \/ Tick \/ UNCHANGED vars PROVE BlocksAreLogged'
  BY <1>9, DeletionKeepsBlocksLogged DEF Save, WriteTmp, Rename, SaveFails, Tick, vars
<1>10. ASSUME Crash PROVE BlocksAreLogged'
  BY <1>0, <1>10 DEF Crash, EmptyTables, BlocksAreLogged, Held, NoEntry
<1>11. ASSUME NEW readable \in BOOLEAN, New(readable) PROVE BlocksAreLogged'
  <2>1. CASE ~(readable /\ disk.parses)
    BY <1>0, <1>11, <2>1, DeletionKeepsBlocksLogged DEF New
  <2>2. CASE readable /\ disk.parses
    <3>1. log' = disk.actions /\ table'["blocked"] = Rebuild(disk.actions)
      BY <1>0, <1>11, <2>2 DEF New, EmptyTables
    <3>2. \A ip \in IPs : table'["blocked"][ip] \in {Verdict(log', ip), NoEntry}
      BY <3>1 DEF Rebuild
    <3> QED BY <3>2 DEF BlocksAreLogged, Held, NoEntry
  <2> QED BY <2>1, <2>2
<1> QED BY <1>6, <1>7, <1>8, <1>9, <1>10, <1>11, CountermeasuresAssumption DEF Next, Caller

\* A block in force is the one the log records, until the cap evicts it.
THEOREM BlocksLogged == Spec => []BlocksAreLogged
<1>1. Init => BlocksAreLogged
  BY DEF Init, BlocksAreLogged, EmptyTables, Tables, Held, NoEntry
<1> QED BY <1>1, BlocksLoggedNext, TypeCorrect, PTL DEF Spec

-----------------------------------------------------------------------------
(* The store implements BlockLedger.                                       *)

\* An append leaves every verdict but that of the IP it concerns, or evicts it.
LEMMA AppendFades ==
  ASSUME NEW s \in Seq(ActionEntry), NEW a \in ActionEntry, NEW ip \in IPs,
         a.type # "TEMP_BLOCK" \/ a.ip # ip
  PROVE  Verdict(Newest(Append(s, a)), ip) \in {Verdict(s, ip), NoEntry}
<1>1. CASE Blocks(Newest(Append(s, a)), ip) = {}
  BY <1>1 DEF Verdict
<1>2. CASE Blocks(Newest(Append(s, a)), ip) # {}
  BY <1>2, VerdictAfterAppend
<1> QED BY <1>1, <1>2

\* The mapped variables are ledgers.
LEMMA MappedTypes ==
  ASSUME TypeOK
  PROVE  /\ table["blocked"] \in [IPs -> Entry]
         /\ [ip \in IPs |-> Verdict(log, ip)] \in [IPs -> Entry]
         /\ [ip \in IPs |-> Verdict(disk.actions, ip)] \in [IPs -> Entry]
<1>1. table["blocked"] \in [IPs -> Entry]
  BY DEF TypeOK, Tables
<1>2. \A ip \in IPs : Verdict(log, ip) \in Entry /\ Verdict(disk.actions, ip) \in Entry
  BY VerdictType DEF TypeOK
<1> QED BY <1>1, <1>2

\* A step that imposes nothing: blocks in force and verdicts stay or go.
LEMMA DropStep ==
  ASSUME TypeOK, TypeOK', up, up' = up, disk' = disk,
         \A ip \in IPs :
           /\ table'["blocked"][ip] \in {table["blocked"][ip], NoEntry}
           /\ Verdict(log', ip) \in {Verdict(log, ip), NoEntry}
  PROVE  Ledger!Drop
<1>1. /\ table'["blocked"] \in [IPs -> Entry]
      /\ [ip \in IPs |-> Verdict(log', ip)] \in [IPs -> Entry]
  BY MappedTypes, VerdictType DEF TypeOK, Tables
<1>2. [ip \in IPs |-> Verdict(disk'.actions, ip)] = [ip \in IPs |-> Verdict(disk.actions, ip)]
  OBVIOUS
<1> QED BY <1>1, <1>2 DEF Ledger!Drop, Ledger!Ledger, Ledger!Fades, Entry

LEMMA ImposeStep ==
  ASSUME TypeOK, TypeOK', NEW ip \in IPs, BlockNow(ip), up' = up, disk' = disk
  PROVE  Ledger!Impose(ip)
<1>1. PICK e \in Sanction :
        /\ Action("TEMP_BLOCK", ip, e, FALSE) \in ActionEntry
        /\ Impose("blocked", ip, e, Action("TEMP_BLOCK", ip, e, FALSE))
  BY NewBlockType
<1> DEFINE a == Action("TEMP_BLOCK", ip, e, FALSE)
<1>2. /\ a \in ActionEntry /\ a.type = "TEMP_BLOCK" /\ a.ip = ip /\ ~a.reversed
      /\ e = [level |-> a.level, until |-> a.until]
  BY <1>1 DEF Action, Sanction
<1>3. /\ table' = [table EXCEPT !["blocked"][ip] = e] /\ log' = Newest(Append(log, a))
      /\ up /\ log \in Seq(ActionEntry)
  BY <1>1 DEF Impose, Commit, LockFree, TypeOK
<1> HIDE DEF a
<1>4. /\ table'["blocked"][ip] = e
      /\ \A other \in IPs \ {ip} : table'["blocked"][other] = table["blocked"][other]
  BY <1>3 DEF TypeOK, Tables
<1>5. Verdict(log', ip) = e
  BY <1>2, <1>3, VerdictAfterAppend
<1>6. \A other \in IPs \ {ip} : Verdict(log', other) \in {Verdict(log, other), NoEntry}
  BY <1>2, <1>3, AppendFades
<1>7. /\ table'["blocked"] \in [IPs -> Entry]
      /\ [x \in IPs |-> Verdict(log', x)] \in [IPs -> Entry]
  BY VerdictType DEF TypeOK, Tables
<1>8. [x \in IPs |-> Verdict(disk'.actions, x)] = [x \in IPs |-> Verdict(disk.actions, x)]
  OBVIOUS
<1> QED BY <1>3, <1>4, <1>5, <1>6, <1>7, <1>8
        DEF Ledger!Impose, Ledger!Ledger, Ledger!Fades, Entry

\* Logging an action that concerns no block, or only lifts the block of ip.
LEMMA LogStep ==
  ASSUME TypeOK, TypeOK', NEW ip \in IPs, up' = up, disk' = disk,
         \/ \E t \in Throttling : Throttle(ip, t)
         \/ SoftIsolate(ip)
         \/ LockFree /\ LiftAndAppend(ip)
  PROVE  Ledger!Drop
<1>0. up /\ log \in Seq(ActionEntry) /\ table \in [Tables -> [IPs -> Entry]]
      /\ {"blocked", "throttled", "isolated"} = Tables
  BY DEF Throttle, SoftIsolate, Impose, LockFree, TypeOK, Tables
<1>1. ASSUME NEW t \in Tables, t # "blocked", NEW e, NEW a \in ActionEntry,
             a.type # "TEMP_BLOCK", Impose(t, ip, e, a)
      PROVE  Ledger!Drop
  <2>1. log' = Newest(Append(log, a)) /\ table' = [table EXCEPT ![t][ip] = e]
    BY <1>1 DEF Impose, Commit
  <2>2. table'["blocked"] = table["blocked"]
    BY <1>0, <1>1, <2>1
  <2>3. \A x \in IPs : Verdict(log', x) \in {Verdict(log, x), NoEntry}
    BY <1>0, <1>1, <2>1, AppendFades
  <2> QED BY <1>0, <2>2, <2>3, DropStep
<1>2. /\ Action("THROTTLE", ip, NoEntry, FALSE) \in ActionEntry
      /\ Action("THROTTLE", ip, NoEntry, FALSE).type # "TEMP_BLOCK"
      /\ Action("SOFT_ISOLATE", ip, NoEntry, FALSE) \in ActionEntry
      /\ Action("SOFT_ISOLATE", ip, NoEntry, FALSE).type # "TEMP_BLOCK"
  BY DEF Action, ActionEntry, ActionTypes, NoEntry
<1>3. ASSUME NEW t \in Throttling, Throttle(ip, t) PROVE Ledger!Drop
  BY <1>0, <1>1, <1>2, <1>3 DEF Throttle
<1>4. ASSUME SoftIsolate(ip) PROVE Ledger!Drop
  BY <1>0, <1>1, <1>2, <1>4 DEF SoftIsolate
<1>5. ASSUME LiftAndAppend(ip) PROVE Ledger!Drop
  <2> DEFINE a == Action("TEMP_BLOCK", ip, NoEntry, TRUE)
  <2>1. a \in ActionEntry /\ a.type = "TEMP_BLOCK" /\ a.ip = ip /\ a.reversed
    BY DEF Action, ActionEntry, ActionTypes, NoEntry
  <2>2. log' = Newest(Append(log, a)) /\ table' = [table EXCEPT !["blocked"][ip] = NoEntry]
    BY <1>5 DEF LiftAndAppend, Commit
  <2> HIDE DEF a
  <2>3. \A x \in IPs : table'["blocked"][x] \in {table["blocked"][x], NoEntry}
    BY <1>0, <2>2
  <2>4. Verdict(log', ip) = NoEntry
    BY <1>0, <2>1, <2>2, VerdictAfterAppend
  <2>5. \A x \in IPs \ {ip} : Verdict(log', x) \in {Verdict(log, x), NoEntry}
    BY <1>0, <2>1, <2>2, AppendFades
  <2> QED BY <1>0, <2>3, <2>4, <2>5, DropStep
<1> QED BY <1>3, <1>4, <1>5

\* A step of the process alone that changes neither blocks, log nor file.
LEMMA StutterStep ==
  ASSUME up' = up, table' = table, log' = log, disk' = disk
  PROVE  UNCHANGED Ledger!vars
BY DEF Ledger!vars

\* Between a crash and the next start there is nothing in memory and no save
\* under way.
DownIsBlank == ~up => table = EmptyTables /\ log = <<>> /\ saving = "idle"

LEMMA DownIsBlankNext == DownIsBlank /\ [Next]_vars => DownIsBlank'
<1> SUFFICES ASSUME DownIsBlank, [Next]_vars PROVE DownIsBlank'
  OBVIOUS
<1>1. CASE (up /\ up') \/ (~up /\ up')
  BY <1>1 DEF DownIsBlank
<1>2. CASE up /\ ~up'
  <2>1. ASSUME NEW ip \in IPs, TempBlock(ip) \/ Unblock(ip) \/ ReverseLastBlock(ip) PROVE up' = up
    BY <2>1 DEF TempBlock, Unblock, ReverseLastBlock
  <2>2. ASSUME NEW c \in Callers, Caller(c) PROVE up' = up
    BY <2>2 DEF Caller, AutoRespond, FinishAutoRespond, ReadEntry, CheckExpiry, DeleteExpired
  <2>3. ASSUME Cleanup \/ Save \/ Tick \/ UNCHANGED vars PROVE up' = up
    BY <2>3 DEF Cleanup, Save, WriteTmp, Rename, SaveFails, Tick, vars
  <2>4. Crash
    BY <1>2, <2>1, <2>2, <2>3 DEF Next, New
  <2> QED BY <2>4 DEF Crash, DownIsBlank
<1>3. CASE ~up /\ ~up'
  <2>1. saving = "idle" /\ ~LockFree
    BY <1>3 DEF DownIsBlank, LockFree
  <2>2. ASSUME NEW ip \in IPs, TempBlock(ip) \/ Unblock(ip) \/ ReverseLastBlock(ip) PROVE FALSE
    BY <2>1, <2>2 DEF TempBlock, BlockNow, Impose, Unblock, ReverseLastBlock
  <2>3. ASSUME NEW c \in Callers, Caller(c) PROVE UNCHANGED <<table, log, saving>>
    <3>1. ASSUME NEW ip \in IPs, AutoRespond(c, ip) PROVE FALSE
      BY <2>1, <3>1 DEF AutoRespond, BlockNow, Throttle, Impose
    <3>2. ~FinishAutoRespond(c) /\ ~DeleteExpired(c)
      BY <2>1 DEF FinishAutoRespond, SoftIsolate, Impose, DeleteExpired
    <3> QED BY <2>3, <3>1, <3>2 DEF Caller, ReadEntry, CheckExpiry
  <2>4. ~Cleanup /\ ~Save /\ ~Crash
    BY <1>3, <2>1 DEF Cleanup, Save, WriteTmp, Rename, SaveFails, Crash
  <2>5. ASSUME NEW readable \in BOOLEAN, New(readable) PROVE FALSE
    BY <1>3, <2>5 DEF New
  <2>6. UNCHANGED <<table, log, saving>>
    BY <2>2, <2>3, <2>4, <2>5 DEF Next, Tick, vars
  <2> QED BY <1>3, <2>6 DEF DownIsBlank
<1> QED BY <1>1, <1>2, <1>3

\* A step imposes a new block, or does what the ledger does beside that, or nothing to it.
Imposes == \E ip \in IPs : BlockNow(ip) /\ up' = up /\ disk' = disk /\ now' = now
Outcome ==
  \/ Imposes
  \/ Ledger!Drop \/ Ledger!Save \/ Ledger!Crash \/ Ledger!Start
  \/ UNCHANGED Ledger!vars

LEMMA StepOutcome ==
  TypeOK /\ TypeOK' /\ DownIsBlank /\ [Next]_vars => Outcome
<1> SUFFICES ASSUME TypeOK, TypeOK', DownIsBlank, [Next]_vars PROVE Outcome
  OBVIOUS
<1>0. table \in [Tables -> [IPs -> Entry]] /\ "blocked" \in Tables
  BY DEF TypeOK, Tables
<1>1. ASSUME Ledger!Drop PROVE Outcome
  BY <1>1 DEF Outcome
<1>2. ASSUME NEW ip \in IPs, TempBlock(ip) PROVE Outcome
  BY <1>2 DEF TempBlock, Outcome, Imposes
<1>3. ASSUME NEW ip \in IPs, Unblock(ip) PROVE Outcome
  BY <1>1, <1>3, LogStep DEF Unblock
<1>4. ASSUME NEW ip \in IPs, ReverseLastBlock(ip) PROVE Outcome
  <2>1. up /\ up' = up /\ disk' = disk
    BY <1>4 DEF ReverseLastBlock, LockFree
  <2>2. CASE Unreversed(ip) = {}
    BY <1>1, <1>4, <2>1, <2>2, LogStep DEF ReverseLastBlock
  <2>3. CASE Unreversed(ip) # {}
    <3>1. \A x \in IPs : table'["blocked"][x] \in {table["blocked"][x], NoEntry}
      BY <1>0, <1>4, <2>3, ReversalStep
    <3>2. \A x \in IPs : Verdict(log', x) \in {Verdict(log, x), NoEntry}
      BY <1>4, <2>3, ReversalStep
    <3> QED BY <1>1, <2>1, <3>1, <3>2, DropStep
  <2> QED BY <2>2, <2>3
<1>5. ASSUME NEW c \in Callers, Caller(c) PROVE Outcome
  <2>1. ASSUME NEW ip \in IPs, AutoRespond(c, ip) PROVE Outcome
    <3>1. CASE BlockNow(ip)
      BY <2>1, <3>1 DEF AutoRespond, Outcome, Imposes
    <3>2. CASE \E t \in Throttling : Throttle(ip, t)
      BY <1>1, <2>1, <3>2, LogStep DEF AutoRespond
    <3> QED BY <2>1, <3>1, <3>2, CountermeasuresAssumption DEF AutoRespond
  <2>2. ASSUME FinishAutoRespond(c) PROVE Outcome
    <3>1. call[c].ip \in IPs
      BY <2>2 DEF FinishAutoRespond, TypeOK, CallState
    <3> QED BY <1>1, <2>2, <3>1, LogStep DEF FinishAutoRespond
  <2>3. ASSUME NEW t, NEW ip, ReadEntry(c, t, ip) PROVE UNCHANGED Ledger!vars
    BY <2>3, StutterStep DEF ReadEntry
  <2>4. ASSUME CheckExpiry(c) PROVE UNCHANGED Ledger!vars
    BY <2>4, StutterStep DEF CheckExpiry
  <2>5. ASSUME DeleteExpired(c) PROVE Outcome
    <3>1. call[c].ip \in IPs /\ call[c].table \in Tables
      BY <2>5 DEF DeleteExpired, TypeOK, CallState
    <3>2. /\ up /\ up' = up /\ log' = log /\ disk' = disk
          /\ table' = [table EXCEPT ![call[c].table][call[c].ip] = NoEntry]
      BY <2>5 DEF DeleteExpired, LockFree
    <3>3. \A ip \in IPs : table'["blocked"][ip] \in {table["blocked"][ip], NoEntry}
      BY <1>0, <3>1, <3>2
    <3> QED BY <1>1, <3>2, <3>3, DropStep
  <2> QED BY <1>5, <2>1, <2>2, <2>3, <2>4, <2>5 DEF Caller, Outcome
<1>6. ASSUME Cleanup PROVE Outcome
  <2>1. up /\ up' = up /\ log' = log /\ disk' = disk
    BY <1>6 DEF Cleanup, LockFree
  <2>2. \A ip \in IPs : table'["blocked"][ip] \in {table["blocked"][ip], NoEntry}
    BY <1>0, <1>6 DEF Cleanup
  <2> QED BY <1>1, <2>1, <2>2, DropStep
<1>7. ASSUME WriteTmp \/ SaveFails \/ Tick \/ UNCHANGED vars PROVE UNCHANGED Ledger!vars
  BY <1>7, StutterStep DEF WriteTmp, SaveFails, Tick, vars
<1>8. ASSUME Rename PROVE Outcome
  <2>1. up /\ up' = up /\ table' = table /\ log' = log /\ disk'.actions = log
    BY <1>8 DEF Rename, DownIsBlank
  <2> QED BY <2>1 DEF Outcome, Ledger!Save
<1>9. ASSUME Crash PROVE Outcome
  <2>1. [ip \in IPs |-> Verdict(<<>>, ip)] = [ip \in IPs |-> NoEntry]
    BY DEF Verdict, Blocks
  <2>2. /\ up /\ up' = FALSE /\ log' = <<>> /\ disk' = disk
        /\ table'["blocked"] = [ip \in IPs |-> NoEntry]
    BY <1>0, <1>9 DEF Crash, EmptyTables
  <2>3. Ledger!Crash
    BY <2>1, <2>2 DEF Ledger!Crash, Ledger!Blank
  <2> QED BY <2>3 DEF Outcome
<1>10. ASSUME NEW readable \in BOOLEAN, New(readable) PROVE Outcome
  <2>1. up' = TRUE /\ ~up /\ disk' = disk
    BY <1>10 DEF New
  <2>2. table'["blocked"] \in [IPs -> Entry]
    BY DEF TypeOK, Tables
  <2>3. \A ip \in IPs : table'["blocked"][ip] \in {Verdict(log', ip), NoEntry}
    <3>1. CASE readable /\ disk.parses
      <4>1. log' = disk.actions /\ table'["blocked"] = Rebuild(disk.actions)
        BY <1>0, <1>10, <3>1 DEF New, EmptyTables
      <4> QED BY <4>1 DEF Rebuild
    <3>2. CASE ~(readable /\ disk.parses)
      BY <1>0, <1>10, <2>1, <3>2 DEF New, DownIsBlank, EmptyTables
    <3> QED BY <3>1, <3>2
  <2>4. log' = disk.actions \/ log' = <<>>
    BY <1>10, <2>1 DEF New, DownIsBlank
  <2>5. [ip \in IPs |-> Verdict(<<>>, ip)] = [ip \in IPs |-> NoEntry]
    BY DEF Verdict, Blocks
  <2>6. [ip \in IPs |-> Verdict(log', ip)] \in
          {[ip \in IPs |-> Verdict(disk.actions, ip)], [ip \in IPs |-> NoEntry]}
    BY <2>4, <2>5
  <2>7. Ledger!Start
    BY <2>1, <2>2, <2>3, <2>6 DEF Ledger!Start, Ledger!Blank, Ledger!Ledger, Ledger!Fades, Entry
  <2> QED BY <2>7 DEF Outcome
<1> QED BY <1>2, <1>3, <1>4, <1>5, <1>6, <1>7, <1>8, <1>9, <1>10 DEF Next, Save, Outcome

LEMMA LedgerNext ==
  TypeOK /\ TypeOK' /\ DownIsBlank /\ [Next]_vars => [Ledger!Next]_Ledger!vars
<1> SUFFICES ASSUME TypeOK, TypeOK', DownIsBlank, [Next]_vars PROVE Ledger!Next \/ UNCHANGED Ledger!vars
  OBVIOUS
<1>1. Imposes => Ledger!Next
  BY ImposeStep DEF Imposes, Ledger!Next
<1> QED BY <1>1, StepOutcome DEF Outcome, Ledger!Next

\* The store implements the ledger of sanctions: whatever the interleaving of
\* calls, failed saves, evictions, crashes and restarts, a sanction that was
\* lifted or replaced comes back only from the durable copy.
THEOREM LogImplementsLedger == Spec => LogIsLedger
<1>1. Init => Ledger!Init /\ DownIsBlank
  <2>1. [ip \in IPs |-> Verdict(<<>>, ip)] = [ip \in IPs |-> NoEntry]
    BY DEF Verdict, Blocks
  <2>2. EmptyTables["blocked"] = [ip \in IPs |-> NoEntry]
    BY DEF EmptyTables, Tables
  <2> QED BY <2>1, <2>2 DEF Init, Ledger!Init, Ledger!Blank, DownIsBlank
<1> QED BY <1>1, TypeCorrect, DownIsBlankNext, LedgerNext, PTL DEF Spec, LogIsLedger, Ledger!Spec

-----------------------------------------------------------------------------
(* A repeat offense.                                                       *)

\* No block, in memory, in the log or in the file, reaches farther than one of its level
\* imposed now would.
Dated(e) == Held(e) => e.level \in 1..MaxLevel /\ e.until <= now + BlockEscalation[e.level]
DatedInv ==
  \A ip \in IPs : /\ Dated(table["blocked"][ip])
                  /\ Dated(Verdict(log, ip))
                  /\ Dated(Verdict(disk.actions, ip))

LEMMA DatedInit == Init => DatedInv
<1> SUFFICES ASSUME Init PROVE DatedInv
  OBVIOUS
<1>1. \A ip \in IPs : table["blocked"][ip] = NoEntry
  BY DEF Init, EmptyTables, Tables
<1>2. \A ip \in IPs : Verdict(<<>>, ip) = NoEntry
  <2>1. \A ip \in IPs : Blocks(<<>>, ip) = {}
    BY DEF Blocks
  <2> QED BY <2>1 DEF Verdict
<1>3. log = <<>> /\ disk.actions = <<>>
  BY DEF Init
<1>4. Dated(NoEntry)
  BY DEF Dated, Held, NoEntry
<1> QED BY <1>1, <1>2, <1>3, <1>4 DEF DatedInv

\* Time goes forward, which takes nothing back.
LEMMA DatedStays ==
  ASSUME TypeOK, [Next]_vars, NEW e \in Entry, Dated(e)
  PROVE  Held(e) => e.level \in 1..MaxLevel /\ e.until <= now' + BlockEscalation[e.level]
<1>1. now \in Nat /\ now' \in {now, now + 1}
  BY DEF TypeOK, Next, vars, TempBlock, Unblock, ReverseLastBlock, Caller, AutoRespond,
         FinishAutoRespond, ReadEntry, CheckExpiry, DeleteExpired, Cleanup, Save, WriteTmp,
         Rename, SaveFails, Crash, New, Tick
<1>2. ASSUME Held(e) PROVE e.level \in 1..MaxLevel /\ e.until <= now' + BlockEscalation[e.level]
  <2>1. e.level \in 1..MaxLevel /\ e.until <= now + BlockEscalation[e.level] /\ e.until \in Nat
    BY <1>2 DEF Dated, Entry, Sanction, Held, NoEntry
  <2>2. BlockEscalation[e.level] \in Nat
    BY <2>1, CountermeasuresAssumption
  <2> QED BY <1>1, <2>1, <2>2
<1> QED BY <1>2

\* What a new block is.
LEMMA NewBlock ==
  ASSUME TypeOK, NEW ip \in IPs, BlockNow(ip)
  PROVE  LET level == NextLevel(table["blocked"][ip].level)
             e == [level |-> level, until |-> now + BlockEscalation[level]]
         IN  /\ level \in 1..MaxLevel /\ BlockEscalation[level] \in Nat
             /\ e \in Sanction
             /\ table'["blocked"][ip] = e
             /\ Verdict(log', ip) = e
             /\ \A x \in IPs \ {ip} : /\ table'["blocked"][x] = table["blocked"][x]
                                      /\ Verdict(log', x) \in {Verdict(log, x), NoEntry}
<1> DEFINE level == NextLevel(table["blocked"][ip].level)
           e == [level |-> level, until |-> now + BlockEscalation[level]]
           a == Action("TEMP_BLOCK", ip, e, FALSE)
<1>1. table["blocked"][ip].level \in Nat
  BY DEF TypeOK, Tables, Entry, Sanction, NoEntry
<1>2. level \in 1..MaxLevel
  BY <1>1, CountermeasuresAssumption DEF NextLevel
<1>3. table' = [table EXCEPT !["blocked"][ip] = e] /\ log' = Newest(Append(log, a))
  BY DEF BlockNow, Impose, Commit
<1> HIDE DEF level
<1>4. BlockEscalation[level] \in Nat /\ now \in Nat
  BY <1>2, CountermeasuresAssumption DEF TypeOK
<1>5. e \in Sanction /\ e.level = level /\ e.until = now + BlockEscalation[level]
  BY <1>2, <1>4, CountermeasuresAssumption DEF Sanction
<1> HIDE DEF e
<1>6. /\ a \in ActionEntry /\ a.type = "TEMP_BLOCK" /\ a.ip = ip /\ ~a.reversed
      /\ e = [level |-> a.level, until |-> a.until]
  BY <1>5 DEF Action, ActionEntry, ActionTypes, Sanction
<1> HIDE DEF a
<1>7. log \in Seq(ActionEntry) /\ table["blocked"] \in [IPs -> Entry]
  BY DEF TypeOK, Tables
<1>8. table'["blocked"] = [table["blocked"] EXCEPT ![ip] = e]
  BY <1>3 DEF TypeOK, Tables
<1>9. Verdict(log', ip) = e
  BY <1>3, <1>6, <1>7, VerdictAfterAppend
<1>10. \A x \in IPs \ {ip} : Verdict(log', x) \in {Verdict(log, x), NoEntry}
  BY <1>3, <1>6, <1>7, AppendFades
<1> QED BY <1>2, <1>4, <1>5, <1>7, <1>8, <1>9, <1>10 DEF e, level

LEMMA DatedNext == TypeOK /\ TypeOK' /\ DownIsBlank /\ DatedInv /\ [Next]_vars => DatedInv'
<1> SUFFICES ASSUME TypeOK, TypeOK', DownIsBlank, DatedInv, [Next]_vars, NEW ip \in IPs
             PROVE  /\ Dated(table["blocked"][ip])'
                    /\ Dated(Verdict(log, ip))'
                    /\ Dated(Verdict(disk.actions, ip))'
  BY DEF DatedInv
<1> DEFINE Fine(e) == Held(e) => e.level \in 1..MaxLevel /\ e.until <= now' + BlockEscalation[e.level]
<1>0. /\ table["blocked"][ip] \in Entry /\ Verdict(log, ip) \in Entry
      /\ Verdict(disk.actions, ip) \in Entry
  BY MappedTypes DEF TypeOK
<1>1. Fine(table["blocked"][ip]) /\ Fine(Verdict(log, ip)) /\ Fine(Verdict(disk.actions, ip))
  BY <1>0, DatedStays DEF DatedInv
<1>2. Fine(NoEntry)
  BY DEF Held, NoEntry
<1>3. Fine(table'["blocked"][ip]) /\ Fine(Verdict(log', ip)) /\ Fine(Verdict(disk'.actions, ip))
  <2> HIDE DEF Fine
  <2>1. CASE Imposes
    <3>1. PICK x \in IPs : BlockNow(x) /\ up' = up /\ disk' = disk /\ now' = now
      BY <2>1 DEF Imposes
    <3> DEFINE level == NextLevel(table["blocked"][x].level)
               e == [level |-> level, until |-> now + BlockEscalation[level]]
    <3>2. /\ level \in 1..MaxLevel /\ BlockEscalation[level] \in Nat /\ e \in Sanction
          /\ table'["blocked"][x] = e /\ Verdict(log', x) = e
          /\ \A y \in IPs \ {x} : /\ table'["blocked"][y] = table["blocked"][y]
                                  /\ Verdict(log', y) \in {Verdict(log, y), NoEntry}
      BY <3>1, NewBlock
    <3>3. Fine(e)
      <4>1. e.level = level /\ e.until = now + BlockEscalation[level]
        OBVIOUS
      <4> QED BY <3>1, <3>2, <4>1 DEF Fine, TypeOK
    <3> QED BY <1>1, <1>2, <3>1, <3>2, <3>3
  <2>2. CASE Ledger!Drop
    <3>1. /\ table'["blocked"][ip] \in {table["blocked"][ip], NoEntry}
          /\ Verdict(log', ip) \in {Verdict(log, ip), NoEntry}
          /\ Verdict(disk'.actions, ip) = Verdict(disk.actions, ip)
      BY <2>2 DEF Ledger!Drop, Ledger!Fades
    <3> QED BY <1>1, <1>2, <3>1
  <2>3. CASE Ledger!Save
    <3>1. /\ table'["blocked"] = table["blocked"] /\ Verdict(log', ip) = Verdict(log, ip)
          /\ Verdict(disk'.actions, ip) = Verdict(log, ip)
      BY <2>3 DEF Ledger!Save
    <3> QED BY <1>1, <3>1
  <2>4. CASE Ledger!Crash
    <3>1. /\ table'["blocked"][ip] = NoEntry /\ Verdict(log', ip) = NoEntry
          /\ Verdict(disk'.actions, ip) = Verdict(disk.actions, ip)
      BY <2>4 DEF Ledger!Crash, Ledger!Blank
    <3> QED BY <1>1, <1>2, <3>1
  <2>5. CASE Ledger!Start
    <3>1. Verdict(log', ip) \in {Verdict(disk.actions, ip), NoEntry}
      <4>1. \/ [x \in IPs |-> Verdict(log', x)] = [x \in IPs |-> Verdict(disk.actions, x)]
            \/ [x \in IPs |-> Verdict(log', x)] = [x \in IPs |-> NoEntry]
        BY <2>5 DEF Ledger!Start, Ledger!Blank
      <4> QED BY <4>1
    <3>2. /\ table'["blocked"][ip] \in {Verdict(log', ip), NoEntry}
          /\ Verdict(disk'.actions, ip) = Verdict(disk.actions, ip)
      BY <2>5 DEF Ledger!Start, Ledger!Fades
    <3> QED BY <1>1, <1>2, <3>1, <3>2
  <2>6. CASE UNCHANGED Ledger!vars
    <3>1. /\ table'["blocked"] = table["blocked"] /\ Verdict(log', ip) = Verdict(log, ip)
          /\ Verdict(disk'.actions, ip) = Verdict(disk.actions, ip)
      BY <2>6 DEF Ledger!vars
    <3> QED BY <1>1, <3>1
  <2> QED BY <2>1, <2>2, <2>3, <2>4, <2>5, <2>6, StepOutcome DEF Outcome
<1> QED BY <1>3 DEF Dated, Held

\* A step that replaces a block by another one imposes it, for a longer time.
LEMMA OffenseExtends ==
  ASSUME TypeOK, TypeOK', DownIsBlank, DatedInv, [Next]_vars, NEW ip \in IPs,
         NEW e, e = table["blocked"][ip], NEW f, f = table'["blocked"][ip],
         Held(e), e.level < MaxLevel, Held(f), f # e
  PROVE  f.level = e.level + 1 /\ f.until >= e.until
<1>1. ~Held(NoEntry) /\ e # NoEntry /\ f # NoEntry
  BY DEF Held, NoEntry
<1>2. ~Ledger!Drop /\ ~Ledger!Crash
  BY <1>1 DEF Ledger!Drop, Ledger!Crash, Ledger!Fades, Ledger!Blank
<1>3. ~Ledger!Save /\ ~UNCHANGED Ledger!vars
  BY DEF Ledger!Save, Ledger!vars
<1>4. ~Ledger!Start
  BY <1>1 DEF Ledger!Start, DownIsBlank, EmptyTables, Tables
<1>5. PICK x \in IPs : BlockNow(x)
  BY <1>2, <1>3, <1>4, StepOutcome DEF Outcome, Imposes
<1>6. x = ip
  BY <1>5, NewBlock
<1> DEFINE level == NextLevel(table["blocked"][ip].level)
           new == [level |-> level, until |-> now + BlockEscalation[level]]
<1>7. level \in 1..MaxLevel /\ BlockEscalation[level] \in Nat /\ f = new
  BY <1>5, <1>6, NewBlock
<1>8. e \in Entry /\ e.level \in 1..MaxLevel /\ e.until <= now + BlockEscalation[e.level]
  BY MappedTypes DEF DatedInv, Dated
<1>9. e.level \in 1..(MaxLevel - 1) /\ e.until \in Nat /\ now \in Nat
  <2>1. e.until \in Nat /\ now \in Nat
    BY <1>8 DEF Entry, Sanction, NoEntry, TypeOK
  <2>2. MaxLevel \in Nat
    BY CountermeasuresAssumption
  <2> QED BY <1>8, <2>1, <2>2
<1>10. level = e.level + 1
  BY <1>9 DEF NextLevel
<1>11. BlockEscalation[e.level] \in Nat /\ BlockEscalation[e.level] <= BlockEscalation[level]
  BY <1>8, <1>9, <1>10, CountermeasuresAssumption, EscalationAssumption
<1>12. new.level = level /\ new.until = now + BlockEscalation[level]
  OBVIOUS
<1> HIDE DEF level, new
<1> QED BY <1>7, <1>8, <1>9, <1>10, <1>11, <1>12

\* While an address is blocked below the last level, a new offense raises its level by
\* one and never brings the end of its block forward, whatever was reversed, evicted,
\* saved or lost before, over crashes and restarts (TempBlock, rebuildBlockedIPs).
THEOREM RepeatOffenseAlwaysExtends == Spec => RepeatOffenseExtends
<1> DEFINE Extends ==
             \A ip \in IPs :
               LET e == table["blocked"][ip]
                   f == table'["blocked"][ip]
               IN  Held(e) /\ e.level < MaxLevel /\ Held(f) /\ f # e
                     => f.level = e.level + 1 /\ f.until >= e.until
<1>1. TypeOK /\ TypeOK' /\ DownIsBlank /\ DatedInv /\ [Next]_vars => [Extends]_vars
  BY OffenseExtends
<1>2. Init => DownIsBlank
  BY DEF Init, DownIsBlank
<1> QED
  BY <1>1, <1>2, TypeCorrect, DownIsBlankNext, DatedInit, DatedNext, PTL
     DEF Spec, RepeatOffenseExtends
=============================================================================
