----------------------------- MODULE RecentEvents -----------------------------
(***************************************************************************)
(* What the gray zone of internal/actor promises: its readers get the      *)
(* newest events, oldest first, at most as many as the configured size; a  *)
(* restart begins with what was kept, as far as the new size goes, or with *)
(* nothing when that cannot be read; and what is kept is a copy that was   *)
(* taken of the events, or nothing.                                        *)
(***************************************************************************)
EXTENDS Naturals, Sequences

CONSTANTS Events, Sizes

VARIABLES
  running,
  added,   \* number of events added so far
  size,    \* the bound on the events held
  recent,  \* the events held, oldest first
  taken,   \* copies that may yet be kept
  kept     \* what a restart will begin with

vars == <<running, added, size, recent, taken, kept>>

Init ==
  /\ running = TRUE
  /\ added = 0
  /\ size \in Sizes
  /\ recent = <<>> /\ kept = <<>>
  /\ taken = {<<>>}

Add(event) ==
  /\ running
  /\ added' = added + 1
  /\ recent' = IF Len(recent) < size THEN Append(recent, event)
               ELSE Append(Tail(recent), event)
  /\ UNCHANGED <<running, size, taken, kept>>

Clear ==
  /\ running
  /\ recent' = <<>>
  /\ UNCHANGED <<running, added, size, taken, kept>>

Copy ==
  /\ running
  /\ taken' \subseteq taken \cup {recent}
  /\ UNCHANGED <<running, added, size, recent, kept>>

\* A copy is kept, or what was kept is lost; some copies are done with.
Keep ==
  /\ running
  /\ kept' \in taken \cup {<<>>, kept}
  /\ taken' \subseteq taken \cup {<<>>}
  /\ UNCHANGED <<running, added, size, recent>>

Stop ==
  /\ running
  /\ running' = FALSE
  /\ recent' = <<>>
  /\ taken' \subseteq taken \cup {<<>>}
  /\ UNCHANGED <<added, size, kept>>

Restart ==
  /\ ~running
  /\ running' = TRUE
  /\ size' \in Sizes
  /\ recent' \in {SubSeq(kept, 1, IF size' < Len(kept) THEN size' ELSE Len(kept)), <<>>}
  /\ taken' = {<<>>}
  /\ UNCHANGED <<added, kept>>

Next == Clear \/ Copy \/ Keep \/ Stop \/ Restart \/ \E event \in Events : Add(event)

Spec == Init /\ [][Next]_vars
=============================================================================
