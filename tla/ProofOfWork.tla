----------------------------- MODULE ProofOfWork -----------------------------
(***************************************************************************)
(* Proof of work: PoWEngine (internal/security/pow.go) and the middleware  *)
(* that lets a request for a protected path pass with a solved challenge   *)
(* and answers any other with a new one.  A token is the number of its     *)
(* challenge; whoever has read it may use it.  The prefix and the hash     *)
(* come down to whether a nonce is right for the token.                    *)
(***************************************************************************)
EXTENDS Naturals, Sequences, FiniteSets

CONSTANTS
  Threads,       \* goroutines serving requests
  TokenTTL,
  MaxChallenges, MaxTime, \* bounds: challenges and ticks of a behaviour
  None

TokenAssumption == TokenTTL \in Nat

VARIABLES
  tokens,   \* the tokens not used and not dropped
  issued,   \* when each challenge was made
  req,      \* what each thread is doing
  now,
  passed    \* history: the [token, at] of requests let through with a token

vars == <<tokens, issued, req, now, passed>>

Idle == [pc |-> "idle"]

Init ==
  /\ tokens = {}
  /\ issued = <<>>
  /\ req = [t \in Threads |-> Idle]
  /\ now = 0
  /\ passed = <<>>

Expired(token) == now > issued[token] + TokenTTL

\* A request comes without a token, with one that was issued, or with another, 0.
Arrive(t, token, right) ==
  /\ req[t] = Idle
  /\ req' = [req EXCEPT ![t] = [pc |-> IF token = None THEN "challenge" ELSE "validate",
                                token |-> token, right |-> right]]
  /\ UNCHANGED <<tokens, issued, now, passed>>

\* A mutated form: a solved token is left for the next.
DroppedOnce(token, right) == IF Expired(token) THEN {token} ELSE {}

\* The tokens Validate takes out: an expired one, and one that is solved.
Dropped(token, right) == IF Expired(token) \/ right THEN {token} ELSE {}

\* Validate, under the lock.  A wrong nonce leaves the token where it is.
Validate(t) ==
  LET token == req[t].token
      right == req[t].right
      pass == token \in tokens /\ ~Expired(token) /\ right
  IN /\ req[t].pc = "validate"
     /\ tokens' = IF token \in tokens THEN tokens \ Dropped(token, right) ELSE tokens
     /\ passed' = IF pass THEN Append(passed, [token |-> token, at |-> now]) ELSE passed
     /\ req' = [req EXCEPT ![t] = [pc |-> IF pass THEN "pass" ELSE "refused",
                                   token |-> token, right |-> right, at |-> now]]
     /\ UNCHANGED <<issued, now>>

\* The middleware answers with a new challenge.
Challenge(t) ==
  /\ req[t].pc \in {"challenge", "refused"}
  /\ Len(issued) < MaxChallenges
  /\ issued' = Append(issued, now)
  /\ tokens' = tokens \cup {Len(issued) + 1}
  /\ req' = [req EXCEPT ![t] = Idle]
  /\ UNCHANGED <<now, passed>>

\* The request goes on to the next middleware.
Pass(t) ==
  /\ req[t].pc = "pass"
  /\ req' = [req EXCEPT ![t] = Idle]
  /\ UNCHANGED <<tokens, issued, now, passed>>

Tick ==
  /\ now < MaxTime
  /\ now' = now + 1
  /\ UNCHANGED <<tokens, issued, req, passed>>

Next ==
  \/ \E t \in Threads, token \in 0..Len(issued) \cup {None}, right \in BOOLEAN :
       Arrive(t, token, right)
  \/ \E t \in Threads : Validate(t) \/ Challenge(t) \/ Pass(t)
  \/ Tick

Spec == Init /\ [][Next]_vars

-----------------------------------------------------------------------------
OncePerToken ==
  \A i, j \in DOMAIN passed :
    /\ passed[i].token = passed[j].token => i = j
    /\ passed[i].at <= issued[passed[i].token] + TokenTTL

RightAnswersPass ==
  \A t \in Threads :
    LET r == req[t] IN
      r.pc = "refused" /\ r.right /\ r.token \in DOMAIN issued =>
        \/ r.at > issued[r.token] + TokenTTL
        \/ \E i \in DOMAIN passed : passed[i].token = r.token /\ passed[i].at <= r.at

\* A challenge is worth one request.  However many present its token, at once or
\* again, one of them passes at most, and none after the token has expired; and a
\* right nonce for a token that has not expired is turned away only because
\* another request has used the token, however many wrong nonces were tried
\* before (internal/security/pow.go).
ChallengesCountOnce == OncePerToken /\ RightAnswersPass
=============================================================================
