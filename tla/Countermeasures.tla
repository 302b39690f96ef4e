---------------------------- MODULE Countermeasures ----------------------------
(***************************************************************************)
(* The temporary-sanction store of internal/countermeasures: three maps    *)
(* (blocked, throttled and isolated IPs), an action log capped to its      *)
(* newest entries and saved to disk after every operation, lookups that    *)
(* read under one critical section and delete under another, the periodic  *)
(* Cleanup, and the crash and restart that rebuild the blocked IPs from    *)
(* the log.                                                                *)
(*                                                                         *)
(* Time is a tick counter.  One method call reads time.Now() several times *)
(* inside its critical section; the model gives them the same tick.        *)
(***************************************************************************)
EXTENDS Naturals, Sequences

CONSTANTS
  IPs,              \* client addresses
  Callers,          \* goroutines inside a lookup or inside AutoRespond
  MaxLevel,         \* the last escalation level (5 in the code)
  BlockEscalation,  \* level -> duration of a block, in ticks
  ThrottleHigh,     \* AutoRespond, risk in (40, 70]: [multiplier, duration]
  ThrottleLow,      \* AutoRespond, risk in (20, 40]: [multiplier, duration]
  IsolateFor,       \* AutoRespond, risk in (40, 70]: duration of the isolation
  RiskBands,        \* the bands of AutoRespond the instance exercises
  LookupTables,     \* the tables the instance's callers look up
  LogCap,           \* entries the action log keeps (1000 in the code)
  MaxTime           \* bound: the clock stops here

Throttling == [multiplier : Nat \ {0}, duration : Nat]

Tables == {"blocked", "throttled", "isolated"}
Bands == {"high", "middle", "low"}

ASSUME CountermeasuresAssumption ==
  /\ MaxLevel \in Nat \ {0}
  /\ BlockEscalation \in [1..MaxLevel -> Nat]
  /\ ThrottleHigh \in Throttling /\ ThrottleLow \in Throttling
  /\ IsolateFor \in Nat
  /\ RiskBands \subseteq Bands
  /\ LookupTables \subseteq Tables
  /\ LogCap \in Nat \ {0}
  /\ MaxTime \in Nat

\* No level is shorter than the one before it.
ASSUME EscalationAssumption ==
  \A level \in 1..(MaxLevel - 1) : BlockEscalation[level] <= BlockEscalation[level + 1]

VARIABLES
  up,       \* is the process running?
  now,      \* the clock
  table,    \* table[t][ip]: blockedIPs, throttledIPs and isolatedIPs
  log,      \* log.Actions
  disk,     \* the file at logPath: does it parse, and which entries it holds
  saving,   \* progress of saveLog; not "idle" while a writer holds c.lock
  saveErr,  \* saveErr # nil
  loadErr,  \* loadErr # nil
  call      \* call[c]: where caller c is inside a lookup or AutoRespond

vars == <<up, now, table, log, disk, saving, saveErr, loadErr, call>>

-----------------------------------------------------------------------------
(* An entry's level is the escalation level of a block, the multiplier of a *)
(* throttle, 1 for an isolation, and 0 for an IP the map does not hold.     *)

Sanction == [level : Nat \ {0}, until : Nat]
NoEntry == [level |-> 0, until |-> 0]
Entry == Sanction \cup {NoEntry}
Held(e) == e.level > 0
Expired(e) == now > e.until

\* Only a TEMP_BLOCK action's level and duration are ever read back, so the
\* details of the others are left out.
ActionTypes == {"TEMP_BLOCK", "THROTTLE", "SOFT_ISOLATE"}
ActionEntry ==
  {a \in [type : ActionTypes, ip : IPs, level : Nat, until : Nat, reversed : BOOLEAN] :
     a.type = "TEMP_BLOCK" /\ ~a.reversed => a.level > 0}

Action(type, ip, e, reversed) ==
  [type |-> type, ip |-> ip, level |-> e.level, until |-> e.until, reversed |-> reversed]

Idle == [pc |-> "idle"]
EmptyTables == [t \in Tables |-> [ip \in IPs |-> NoEntry]]

\* The newest LogCap entries, as every append leaves them.
Newest(s) == IF Len(s) > LogCap THEN SubSeq(s, Len(s) - LogCap + 1, Len(s)) ELSE s

Blocks(s, ip) == {i \in 1..Len(s) : s[i].type = "TEMP_BLOCK" /\ s[i].ip = ip}
Latest(indices) == CHOOSE i \in indices : \A j \in indices : j <= i

\* What the log says of ip: the entry its latest TEMP_BLOCK action imposed,
\* nothing when that action is reversed or the log has none.
Verdict(s, ip) ==
  LET blocks == Blocks(s, ip)
      action == s[Latest(blocks)]
  IN  IF blocks = {} \/ action.reversed
      THEN NoEntry
      ELSE [level |-> action.level, until |-> action.until]

\* Variant: one forward pass that skips reversed actions, so an older action
\* of the IP wins when its latest one is reversed.
RebuildOnePass(s) ==
  [ip \in IPs |->
     LET unreversed == {i \in Blocks(s, ip) : ~s[i].reversed /\ s[i].until >= now}
     IN  IF unreversed = {} THEN NoEntry
         ELSE [level |-> s[Latest(unreversed)].level, until |-> s[Latest(unreversed)].until]]

\* rebuildBlockedIPs: the verdicts that have not run out.
Rebuild(s) ==
  [ip \in IPs |-> LET v == Verdict(s, ip) IN IF Expired(v) THEN NoEntry ELSE v]

-----------------------------------------------------------------------------
(* c.lock is held by a writer from the first step of an operation until its *)
(* saveLog has returned; a reader and any other writer waits for it.        *)
LockFree == up /\ saving = "idle"

\* A writer's change: the new tables and log are in memory, saveLog starts.
Commit(tables, actions) ==
  /\ table' = tables
  /\ log' = Newest(actions)
  /\ saving' = "writing"

Impose(t, ip, e, action) ==
  /\ LockFree
  /\ Commit([table EXCEPT ![t][ip] = e], Append(log, action))

\* Variant: a repeat offense starts over.
NextLevelForgets(level) == 1

NextLevel(level) == IF level \in 1..(MaxLevel - 1) THEN level + 1 ELSE 1

BlockNow(ip) ==
  LET level == NextLevel(table["blocked"][ip].level)
      e     == [level |-> level, until |-> now + BlockEscalation[level]]
  IN  Impose("blocked", ip, e, Action("TEMP_BLOCK", ip, e, FALSE))

Throttle(ip, t) ==
  Impose("throttled", ip, [level |-> t.multiplier, until |-> now + t.duration],
         Action("THROTTLE", ip, NoEntry, FALSE))

SoftIsolate(ip) ==
  Impose("isolated", ip, [level |-> 1, until |-> now + IsolateFor],
         Action("SOFT_ISOLATE", ip, NoEntry, FALSE))

-----------------------------------------------------------------------------
(* Operations of the API, the admin handlers and the other packages.       *)

TempBlock(ip) ==
  /\ BlockNow(ip)
  /\ UNCHANGED <<up, now, disk, saveErr, loadErr, call>>

\* Drops the block and appends an already reversed TEMP_BLOCK action.
LiftAndAppend(ip) ==
  /\ Held(table["blocked"][ip])
  /\ Commit([table EXCEPT !["blocked"][ip] = NoEntry],
            Append(log, Action("TEMP_BLOCK", ip, NoEntry, TRUE)))

Unblock(ip) ==
  /\ LockFree
  /\ LiftAndAppend(ip)
  /\ UNCHANGED <<up, now, disk, saveErr, loadErr, call>>

Unreversed(ip) == {i \in Blocks(log, ip) : ~log[i].reversed}

\* Variant: the action is removed from the log instead of marked in it.
ReverseRemovesAction(ip) ==
  /\ LockFree
  /\ Unreversed(ip) # {}
  /\ LET i == Latest(Unreversed(ip))
     IN  Commit([table EXCEPT !["blocked"][ip] = NoEntry],
                SubSeq(log, 1, i - 1) \o SubSeq(log, i + 1, Len(log)))
  /\ UNCHANGED <<up, now, disk, saveErr, loadErr, call>>

\* The latest action not yet reversed is reversed in place; when the log has
\* none, the map alone decides.
ReverseLastBlock(ip) ==
  /\ LockFree
  /\ \/ /\ Unreversed(ip) # {}
        /\ Commit([table EXCEPT !["blocked"][ip] = NoEntry],
                  [log EXCEPT ![Latest(Unreversed(ip))].reversed = TRUE])
     \/ Unreversed(ip) = {} /\ LiftAndAppend(ip)
  /\ UNCHANGED <<up, now, disk, saveErr, loadErr, call>>

\* AutoRespond, by risk band: a block, a throttle followed by an isolation
\* (two critical sections), or a milder throttle.
AutoRespond(c, ip) ==
  /\ call[c] = Idle
  /\ \/ "high" \in RiskBands /\ BlockNow(ip) /\ UNCHANGED call
     \/ /\ "middle" \in RiskBands
        /\ Throttle(ip, ThrottleHigh)
        /\ call' = [call EXCEPT ![c] = [pc |-> "isolate", ip |-> ip]]
     \/ "low" \in RiskBands /\ Throttle(ip, ThrottleLow) /\ UNCHANGED call
  /\ UNCHANGED <<up, now, disk, saveErr, loadErr>>

FinishAutoRespond(c) ==
  /\ call[c].pc = "isolate"
  /\ SoftIsolate(call[c].ip)
  /\ call' = [call EXCEPT ![c] = Idle]
  /\ UNCHANGED <<up, now, disk, saveErr, loadErr>>

\* Variant: the ticker forgets the blocked IPs.
CleanupSkipsBlocked ==
  /\ LockFree
  /\ table' = [t \in Tables |-> [ip \in IPs |->
                 IF t # "blocked" /\ Expired(table[t][ip]) THEN NoEntry ELSE table[t][ip]]]
  /\ UNCHANGED <<up, now, log, disk, saving, saveErr, loadErr, call>>

Cleanup ==
  /\ LockFree
  /\ table' = [t \in Tables |-> [ip \in IPs |->
                 IF Expired(table[t][ip]) THEN NoEntry ELSE table[t][ip]]]
  /\ UNCHANGED <<up, now, log, disk, saving, saveErr, loadErr, call>>

-----------------------------------------------------------------------------
(* IsBlocked, ThrottleMultiplier and IsIsolated: the entry is copied under  *)
(* the read lock, compared with the clock outside any lock, and an expired  *)
(* one deleted under the write lock.  A lookup that finds nothing returns   *)
(* without a trace and is a stuttering step here.                           *)

ReadEntry(c, t, ip) ==
  /\ LockFree
  /\ call[c] = Idle
  /\ Held(table[t][ip])
  /\ call' = [call EXCEPT ![c] =
                [pc |-> "check", table |-> t, ip |-> ip, until |-> table[t][ip].until]]
  /\ UNCHANGED <<up, now, table, log, disk, saving, saveErr, loadErr>>

CheckExpiry(c) ==
  /\ call[c].pc = "check"
  /\ call' = [call EXCEPT ![c] = IF now > @.until THEN [@ EXCEPT !.pc = "delete"] ELSE Idle]
  /\ UNCHANGED <<up, now, table, log, disk, saving, saveErr, loadErr>>

DeleteExpired(c) ==
  /\ LockFree
  /\ call[c].pc = "delete"
  /\ table' = [table EXCEPT ![call[c].table][call[c].ip] = NoEntry]
  /\ call' = [call EXCEPT ![c] = Idle]
  /\ UNCHANGED <<up, now, log, disk, saving, saveErr, loadErr>>

-----------------------------------------------------------------------------
(* saveLog writes a temporary file and renames it over logPath; creating    *)
(* the directory, writing and renaming can each fail.                       *)

WriteTmp ==
  /\ saving = "writing"
  /\ saving' = "renaming"
  /\ UNCHANGED <<up, now, table, log, disk, saveErr, loadErr, call>>

Rename ==
  /\ saving = "renaming"
  /\ saving' = "idle"
  /\ disk' = [parses |-> TRUE, actions |-> log]
  /\ saveErr' = FALSE
  /\ UNCHANGED <<up, now, table, log, loadErr, call>>

\* Variant: the error is dropped.
SaveFailsSilently ==
  /\ saving # "idle"
  /\ saving' = "idle"
  /\ UNCHANGED <<up, now, table, log, disk, saveErr, loadErr, call>>

SaveFails ==
  /\ saving # "idle"
  /\ saving' = "idle"
  /\ saveErr' = TRUE
  /\ UNCHANGED <<up, now, table, log, disk, loadErr, call>>

Crash ==
  /\ up
  /\ up' = FALSE
  /\ table' = EmptyTables
  /\ log' = <<>>
  /\ saving' = "idle"
  /\ saveErr' = FALSE
  /\ loadErr' = FALSE
  /\ call' = [c \in Callers |-> Idle]
  /\ UNCHANGED <<now, disk>>

\* New: loadLog and rebuildBlockedIPs.  A file that does not parse or cannot
\* be read leaves an empty log and sets loadErr; a missing one is empty.
New(readable) ==
  /\ ~up
  /\ up' = TRUE
  /\ IF readable /\ disk.parses
     THEN /\ log' = disk.actions
          /\ table' = [EmptyTables EXCEPT !["blocked"] = Rebuild(disk.actions)]
          /\ loadErr' = FALSE
     ELSE /\ loadErr' = TRUE
          /\ UNCHANGED <<log, table>>
  /\ UNCHANGED <<now, disk, saving, saveErr, call>>

Tick ==
  /\ now < MaxTime
  /\ now' = now + 1
  /\ UNCHANGED <<up, table, log, disk, saving, saveErr, loadErr, call>>

-----------------------------------------------------------------------------
\* A first start: no file, so an empty log.
Init ==
  /\ up = TRUE
  /\ now = 0
  /\ table = EmptyTables
  /\ log = <<>>
  /\ disk = [parses |-> TRUE, actions |-> <<>>]
  /\ saving = "idle"
  /\ saveErr = FALSE
  /\ loadErr = FALSE
  /\ call = [c \in Callers |-> Idle]

Save == WriteTmp \/ Rename \/ SaveFails

Caller(c) ==
  \/ \E ip \in IPs : AutoRespond(c, ip)
  \/ FinishAutoRespond(c)
  \/ \E t \in LookupTables, ip \in IPs : ReadEntry(c, t, ip)
  \/ CheckExpiry(c)
  \/ DeleteExpired(c)

Next ==
  \/ \E ip \in IPs : TempBlock(ip) \/ Unblock(ip) \/ ReverseLastBlock(ip)
  \/ \E c \in Callers : Caller(c)
  \/ Cleanup
  \/ Save
  \/ Crash
  \/ \E readable \in BOOLEAN : New(readable)
  \/ Tick

Spec == Init /\ [][Next]_vars

\* A save that was begun runs on, and the write lock is granted in the end:
\* sync.RWMutex admits no new readers once a writer waits and queues writers
\* through a sync.Mutex, which hands over to a waiter it has starved.  The
\* one-minute ticker of server.New calls Cleanup for ever.
Fairness == WF_vars(Save) /\ SF_vars(Cleanup)

FairSpec == Spec /\ Fairness

-----------------------------------------------------------------------------
CallState ==
  [pc : {"idle"}] \cup [pc : {"isolate"}, ip : IPs]
    \cup [pc : {"check", "delete"}, table : Tables, ip : IPs, until : Nat]

\* Type invariant: every variable of the store has its type, and neither the
\* log in memory nor the one on disk ever exceeds its cap (logAction).
TypeOK ==
  /\ up \in BOOLEAN
  /\ now \in Nat
  /\ table \in [Tables -> [IPs -> Entry]]
  /\ log \in Seq(ActionEntry) /\ Len(log) <= LogCap
  /\ disk \in [parses : BOOLEAN, actions : Seq(ActionEntry)]
  /\ Len(disk.actions) <= LogCap
  /\ saving \in {"idle", "writing", "renaming"}
  /\ saveErr \in BOOLEAN
  /\ loadErr \in BOOLEAN
  /\ call \in [Callers -> CallState]

\* A block enforced from memory is the one its IP's latest TEMP_BLOCK action
\* records, unreversed, unless the cap has evicted every TEMP_BLOCK action of
\* that IP.  It relates the map to the log through escalations, both paths of
\* ReverseLastBlock, evictions, stale deletions and rebuildBlockedIPs.
BlocksAreLogged ==
  \A ip \in IPs :
    Held(table["blocked"][ip]) /\ Blocks(log, ip) # {}
      => Verdict(log, ip) = table["blocked"][ip]

\* With no error reported, what is in memory is what a restart would read:
\* saveLog's failures are never silent (SaveError, LoadError).
SavedUnlessReported ==
  LockFree /\ ~saveErr /\ ~loadErr => disk.actions = log

\* A crash at any point of saveLog leaves a file that loadLog can parse (the
\* temporary file and rename of saveLog).
FileAlwaysParses == disk.parses

\* While an IP is blocked below the last level, a repeat offense raises its
\* level by one and never brings the end of its block forward (TempBlock).
RepeatOffenseExtends ==
  [][\A ip \in IPs :
       LET e == table["blocked"][ip]
           f == table'["blocked"][ip]
       IN  Held(e) /\ e.level < MaxLevel /\ Held(f) /\ f # e
             => f.level = e.level + 1 /\ f.until >= e.until]_vars

\* A block that has run out leaves memory, by a lookup or by the ticker.
ExpiredBlockLeaves ==
  \A ip \in IPs :
    (Held(table["blocked"][ip]) /\ Expired(table["blocked"][ip]))
      ~> ~(Held(table["blocked"][ip]) /\ Expired(table["blocked"][ip]))

\* The block map and the log implement the ledger of sanctions: escalation,
\* reversal in place, appended reversals, the cap, failed saves, crashes and
\* restarts never bring back a sanction that was lifted or replaced, other
\* than from the durable copy (the rule rebuildBlockedIPs states).
Ledger == INSTANCE BlockLedger WITH
  None <- NoEntry,
  Sanctions <- Sanction,
  running <- up,
  enforced <- table["blocked"],
  onRecord <- [ip \in IPs |-> Verdict(log, ip)],
  durable <- [ip \in IPs |-> Verdict(disk.actions, ip)]

LogIsLedger == Ledger!Spec

=============================================================================
