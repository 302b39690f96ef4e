------------------------------ MODULE TimeWindow ------------------------------
(* What is kept of a list of dated entries: the business logic guard and   *)
(* the cleanup of the behavioral detector filter theirs in the same way.   *)
EXTENDS Integers, Sequences

\* The entries after the cutoff, in their order.
Newer(entries, cutoff) ==
  LET kept[i \in 0..Len(entries)] ==
        IF i = 0 THEN <<>>
        ELSE IF entries[i].at > cutoff THEN Append(kept[i - 1], entries[i]) ELSE kept[i - 1]
  IN kept[Len(entries)]
===============================================================================
