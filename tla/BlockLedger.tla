------------------------------ MODULE BlockLedger ------------------------------
(***************************************************************************)
(* What the block list of internal/countermeasures and its persisted log   *)
(* promise together.  For each IP there is the sanction enforced, the      *)
(* sanction on record, and the durable copy of the record.  A sanction     *)
(* comes on record only while it is imposed (and is enforced from then on) *)
(* or when the durable copy is read back: lifting one never brings an      *)
(* older one back.  The bounded record may forget a sanction at any time,  *)
(* enforcement of one may end at any time, and a start that cannot read    *)
(* the copy starts with nothing.                                           *)
(***************************************************************************)
CONSTANTS IPs, None, Sanctions

VARIABLES
  running,   \* is the process up?
  enforced,  \* IP -> the sanction that is enforced, or None
  onRecord,  \* IP -> the sanction the record in memory holds, or None
  durable    \* the copy of the record on disk

vars == <<running, enforced, onRecord, durable>>

Ledger == [IPs -> Sanctions \cup {None}]
Blank == [ip \in IPs |-> None]

TypeOK ==
  /\ running \in BOOLEAN
  /\ enforced \in Ledger
  /\ onRecord \in Ledger
  /\ durable \in Ledger

Init ==
  /\ running = TRUE
  /\ enforced = Blank /\ onRecord = Blank /\ durable = Blank

\* `after' is `before' less the sanctions of some IPs among `scope'.
Fades(before, after, scope) == \A ip \in scope : after[ip] \in {before[ip], None}

\* A new sanction of ip is enforced and recorded in one step; recording it may
\* push sanctions of other IPs off the record.
Impose(ip) ==
  /\ running
  /\ enforced'[ip] \in Sanctions
  /\ \A other \in IPs \ {ip} : enforced'[other] = enforced[other]
  /\ UNCHANGED <<running, durable>>
  /\ onRecord'[ip] = enforced'[ip]
  /\ Fades(onRecord, onRecord', IPs \ {ip})
  /\ enforced' \in Ledger /\ onRecord' \in Ledger

\* Sanctions are lifted, expire, or are pushed off the record.
Drop ==
  /\ running
  /\ Fades(enforced, enforced', IPs)
  /\ UNCHANGED <<running, durable>>
  /\ Fades(onRecord, onRecord', IPs)
  /\ enforced' \in Ledger /\ onRecord' \in Ledger

Save ==
  /\ running
  /\ durable' = onRecord
  /\ UNCHANGED <<running, enforced, onRecord>>

Crash ==
  /\ running
  /\ running' = FALSE
  /\ enforced' = Blank /\ onRecord' = Blank
  /\ UNCHANGED durable

Start ==
  /\ ~running
  /\ running' = TRUE
  /\ enforced' \in Ledger
  /\ onRecord' \in {durable, Blank}
  /\ Fades(onRecord', enforced', IPs)
  /\ UNCHANGED durable

Next ==
  \/ \E ip \in IPs : Impose(ip)
  \/ Drop
  \/ Save
  \/ Crash
  \/ Start

Spec == Init /\ [][Next]_vars

=============================================================================
