------------------------------ MODULE DdosEngine ------------------------------
(***************************************************************************)
(* The DDoS engine of internal/ddos: one state per IP with the average of  *)
(* its request rate (EWMA) and a phase that lasts for a while.  Every      *)
(* operation looks the state up in a sync.Map, then locks it; cleanup      *)
(* reads a state, then deletes its key.  Time is in milliseconds and is    *)
(* kept per state, as the time since its last request and the time left of *)
(* its phase.                                                              *)
(***************************************************************************)
EXTENDS Integers, FiniteSets, Functions

CONSTANTS
  Callers,             \* goroutines
  IPs,
  Window,              \* config.EWMAWindow, in whole seconds
  challengeThreshold, throttleThreshold, blockThreshold,   \* requests per second
  challengeDuration, throttleDuration, blockDuration,
  Enabled,             \* the phases switched on, none without phase3Enabled
  Ops,                 \* the operations that are called
  Stale                \* cleanup removes what is idle for longer, 30 minutes in the code

EngineAssumption ==
  /\ Window \in Nat \ {0}
  /\ challengeThreshold \in Nat /\ throttleThreshold \in Nat /\ blockThreshold \in Nat
  /\ challengeDuration \in Nat /\ throttleDuration \in Nat /\ blockDuration \in Nat
  /\ Enabled \subseteq {"challenge", "throttle", "block"}
  /\ Ops \subseteq {"check", "pass", "fail", "block", "unblock"}
  /\ Stale \in Nat

VARIABLES
  states,   \* ip -> pointer to its state
  heap,     \* pointer -> IPState, for those the table or a call still holds
  call,     \* call[c]: nothing, or the operation that waits for the lock
  cleaner,  \* the key cleanup is about to delete, if any
  alone     \* history: did calls and deletions come one at a time so far?

vars == <<states, heap, call, cleaner, alone>>

-----------------------------------------------------------------------------
Phases == {"normal", "challenge", "throttle", "block"}
Pointers == 1..(Cardinality(IPs) + Cardinality(Callers))

Rates == 0..1000
IPState == [rate : Rates, phase : Phases, left : Nat, idle : Nat, blocked : BOOLEAN]

Fresh == [rate |-> 0, phase |-> "normal", left |-> 0, idle |-> 0, blocked |-> FALSE]

Idle == [op |-> "none"]
None == [key |-> {}]
Quiet == cleaner = None /\ \A c \in Callers : call[c] = Idle

Put(f, key, value) == [k \in DOMAIN f \cup {key} |-> IF k = key THEN value ELSE f[k]]

New == CHOOSE p \in Pointers : p \notin DOMAIN heap

\* What nothing points to is gone; states' and call' are known before it.
Collect(h) ==
  Restrict(h, {p \in DOMAIN h : \/ \E ip \in DOMAIN states' : states'[ip] = p
                                \/ \E c \in Callers : call'[c] # Idle /\ call'[c].state = p})

-----------------------------------------------------------------------------
(* Check, under the state's lock                                           *)

\* No delta is taken for less than a millisecond.
Instant(idle) == 1000 \div (IF idle = 0 THEN 1 ELSE idle)

\* EWMA with alpha = 2 / (Window + 1), in whole requests per second.  A state is
\* made with LastRequest = now, so its first request counts as the second of
\* two in one millisecond.
Average(s) == (2 * Instant(s.idle) + (Window - 1) * s.rate) \div (Window + 1)

\* Variant: the lowest threshold is tested first.
DeterminedUpwards(rate) ==
  IF "challenge" \in Enabled /\ rate >= challengeThreshold THEN "challenge"
  ELSE IF "throttle" \in Enabled /\ rate >= throttleThreshold THEN "throttle"
  ELSE IF "block" \in Enabled /\ rate >= blockThreshold THEN "block"
  ELSE "normal"

determinePhase(rate) ==
  IF "block" \in Enabled /\ rate >= blockThreshold THEN "block"
  ELSE IF "throttle" \in Enabled /\ rate >= throttleThreshold THEN "throttle"
  ELSE IF "challenge" \in Enabled /\ rate >= challengeThreshold THEN "challenge"
  ELSE "normal"

DurationOf(phase) ==
  CASE phase = "challenge" -> challengeDuration
    [] phase = "throttle"  -> throttleDuration
    [] phase = "block"     -> blockDuration
    [] phase = "normal"    -> 0

\* Variant: the phase is determined anew at every request.
CheckedAnew(s) ==
  LET rate == Average(s)
      phase == determinePhase(rate)
  IN  [rate |-> rate, phase |-> phase, left |-> DurationOf(phase), idle |-> 0,
       blocked |-> IF phase = "normal" THEN FALSE ELSE s.blocked \/ phase = "block"]

\* Inside a phase only the average moves.  The flag Blocked goes up with a block
\* and down only with the normal phase.
Checked(s) ==
  LET rate == Average(s)
      phase == determinePhase(rate)
  IN  IF s.left > 0 THEN [s EXCEPT !.rate = rate, !.idle = 0]
      ELSE [rate |-> rate, phase |-> phase, left |-> DurationOf(phase), idle |-> 0,
            blocked |-> IF phase = "normal" THEN FALSE ELSE s.blocked \/ phase = "block"]

\* RecordChallengeResult, Block and Unblock.
Written(op, s) ==
  CASE op = "check" -> Checked(s)
    [] op = "pass" ->
         IF s.phase = "challenge" THEN [s EXCEPT !.phase = "normal", !.left = 0] ELSE s
    [] op = "fail" ->
         IF "throttle" \in Enabled
         THEN [s EXCEPT !.phase = "throttle", !.left = throttleDuration] ELSE s
    [] op = "block" -> [s EXCEPT !.phase = "block", !.left = blockDuration, !.blocked = TRUE]
    [] op = "unblock" -> [s EXCEPT !.phase = "normal", !.left = 0, !.blocked = FALSE]

-----------------------------------------------------------------------------
\* getOrCreateState: the state that is there, or a new one.
Lookup(c, op, ip) ==
  /\ call[c] = Idle
  /\ LET p == IF ip \in DOMAIN states THEN states[ip] ELSE New
     IN  /\ states' = Put(states, ip, p)
         /\ call' = [call EXCEPT ![c] = [op |-> op, state |-> p]]
         /\ heap' = IF p \in DOMAIN heap THEN heap ELSE Put(heap, p, Fresh)
  /\ alone' = (alone /\ Quiet)
  /\ UNCHANGED cleaner

Locked(c) ==
  /\ call[c] # Idle
  /\ call' = [call EXCEPT ![c] = Idle]
  /\ UNCHANGED <<states, cleaner, alone>>
  /\ heap' = Collect([heap EXCEPT ![call[c].state] = Written(call[c].op, @)])

\* Variant: only states in the normal phase are removed.
StaleNormal(s) == s.phase = "normal" /\ s.idle > Stale

StaleState(s) == ~s.blocked /\ s.idle > Stale

\* cleanup: Range comes to a key, and deletes it in a later step.
LookAt(ip) ==
  /\ cleaner = None
  /\ ip \in DOMAIN states
  /\ StaleState(heap[states[ip]])
  /\ cleaner' = [key |-> {ip}]
  /\ alone' = (alone /\ Quiet)
  /\ UNCHANGED <<states, heap, call>>

Delete ==
  /\ cleaner # None
  /\ states' = Restrict(states, DOMAIN states \ cleaner.key)
  /\ cleaner' = None
  /\ UNCHANGED <<call, alone>>
  /\ heap' = Collect(heap)

\* The clock of a state stops when it is stale.
Older(s) ==
  LET left == IF s.left > 0 THEN s.left - 1 ELSE 0
      idle == IF s.idle <= Stale THEN s.idle + 1 ELSE s.idle
  IN  [s EXCEPT !.left = left, !.idle = idle]

Tick ==
  /\ heap' = [p \in DOMAIN heap |-> Older(heap[p])]
  /\ UNCHANGED <<states, call, cleaner, alone>>

-----------------------------------------------------------------------------
Init ==
  /\ states = [ip \in {} |-> 1]
  /\ heap = [p \in {} |-> Fresh]
  /\ call = [c \in Callers |-> Idle]
  /\ cleaner = None
  /\ alone = TRUE

Next ==
  \/ \E c \in Callers :
       \/ \E op \in Ops, ip \in IPs : Lookup(c, op, ip)
       \/ Locked(c)
  \/ \E ip \in IPs : LookAt(ip)
  \/ Delete
  \/ Tick

Spec == Init /\ [][Next]_vars

-----------------------------------------------------------------------------
State(ip) == heap[states[ip]]

\* Type invariant; no pointer dangles, and no average exceeds the rate of one
\* request per millisecond.
TypeOK ==
  /\ DOMAIN states \subseteq IPs
  /\ \A ip \in DOMAIN states : states[ip] \in DOMAIN heap
  /\ \A p \in DOMAIN heap : heap[p] \in IPState
  /\ call \in [Callers -> {Idle} \cup [op : Ops, state : DOMAIN heap]]
  /\ alone \in BOOLEAN

Ending(ip) ==
  \E c \in Callers : /\ call[c] # Idle /\ call'[c] = Idle
                     /\ call[c].op # "check" /\ call[c].state = states[ip]

\* As long as calls and deletions come one at a time, a phase lasts until its
\* time is over or a challenge result, a Block or an Unblock ends it: no request
\* lifts, softens, shortens or prolongs it or moves its flag (the early return of
\* Check), and no cleanup does, unless it is a throttle that a challenge result
\* brought to a client idle for longer than Stale.
PhasesLast ==
  [][\A ip \in DOMAIN states :
       /\ alone /\ State(ip).left > 0 /\ ~Ending(ip)
       /\ State(ip).blocked \/ State(ip).idle <= Stale
       =>
         /\ ip \in DOMAIN states'
         /\ State(ip)'.phase = State(ip).phase /\ State(ip)'.blocked = State(ip).blocked
         /\ State(ip)'.left \in {State(ip).left, State(ip).left - 1}]_vars

\* A state that is idle for longer than Stale and whose flag is down leaves the
\* table or is used again, whatever phase it was in (cleanup).
StaleStatesGo ==
  LET Forgotten(ip) ==
        ip \in DOMAIN states /\ ~State(ip).blocked /\ State(ip).idle > Stale
  IN  \A ip \in IPs : Forgotten(ip) ~> ~Forgotten(ip)

\* A client whose requests keep coming within a millisecond of each other is blocked in
\* the end: its average climbs past every threshold, and each phase that is over gives
\* way to a harder one (Check, determinePhase).  It is what the package's comment and the
\* README promise, and needs a block threshold that an average can reach.
FloodsAreBlocked ==
  LET Flooding(ip) ==
        /\ ip \in DOMAIN states /\ State(ip).idle <= 1
        /\ \A c \in Callers : call[c] = Idle \/ call[c].op = "check"
  IN  \A ip \in IPs :
        <>[]Flooding(ip) /\ []<><<Tick>>_vars
          => <>(ip \in DOMAIN states /\ State(ip).phase = "block")

\* No average exceeds one request per millisecond, so with a block threshold above that no
\* request blocks anybody: a state comes to the block phase, or its flag up, through Block
\* alone.  The thresholds of server.New (1.5 times threshold_rps, 1000 by default) are
\* such ones.
RequestsDoNotBlock ==
  [][blockThreshold > 1000 =>
       \A p \in DOMAIN heap' : heap'[p].phase = "block" \/ heap'[p].blocked =>
          \/ p \in DOMAIN heap /\ (heap[p].phase = "block" \/ heap[p].blocked)
          \/ \E c \in Callers : /\ call[c] # Idle /\ call'[c] = Idle
                                /\ call[c].op = "block" /\ call[c].state = p]_vars
=============================================================================
