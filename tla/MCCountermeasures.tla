--------------------------- MODULE MCCountermeasures ---------------------------
(***************************************************************************)
(* An instance of Countermeasures for TLC.                                 *)
(***************************************************************************)
EXTENDS Countermeasures, TLC

\* Two levels: one escalation, then the wrap of NextLevel.  A block of the
\* first level runs out at the next tick, one of the second a tick later.
ShortEscalation == <<0, 1>>

Throttled == [multiplier |-> 2, duration |-> 1]
=============================================================================
