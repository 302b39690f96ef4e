----------------------------- MODULE MCAttackers -----------------------------
(* What the server remembers of attackers, for model checking: a behaviour *)
(* is one of the profiles (Reputation) or of the reports of other nodes    *)
(* and the feeds (HeimdallReport).  The variables of the one it is not     *)
(* about stay in an initial state.                                         *)
(*                                                                         *)
(* Of the profiles' clients here and beside are neighbours with the same   *)
(* browser, far is elsewhere and known from the old program; beside and    *)
(* far attack in the same way.                                             *)
EXTENDS Reputation, TLC

CONSTANTS here, beside, far, browser, trick,
          Nodes, Suspects, Types, Kinds, Quiet, Keep, Cap, Busy, MaxReports, Void, Torn

VARIABLES part, dedup, file, pc, report, memory, blocked, heard, merged, alone, intact

Nets == [ip \in IPs |-> IF ip = far THEN 2 ELSE 1]
Sent == {<<here, browser, None>>, <<beside, browser, trick>>, <<far, None, trick>>}
OneFamily == [g \in Fps |-> 1]

\* 1 / log2(n + 1), fingerprintWeight, from two addresses on.
Log2Weights == <<1000, 631, 500>>

\* One grave report and one of high severity that nobody is sure of.
GraveAndUnsure == {<<9, 8>>, <<7, 4>>}

\* The second report makes an actor as busy as there are numbers for.
BusyMarks == <<0, 1, 1>>

Reporting == INSTANCE HeimdallReport WITH Threads <- Nodes, IPs <- Suspects

Alike == Permutations(Threads) \cup Permutations(Nodes) \cup Permutations(Suspects)

-----------------------------------------------------------------------------
reportVars == <<dedup, file, pc, report, memory, blocked, heard, merged, alone, intact>>

AttackersInit ==
  /\ Init /\ Reporting!Init
  /\ \/ part = "profiles"
     \/ /\ part = "reports"
        /\ heap = Imported(<<far>>, <<"now">>)

AttackersNext ==
  \/ part = "profiles" /\ Next /\ UNCHANGED <<part, reportVars>>
  \/ part = "reports" /\ Reporting!Next /\ UNCHANGED <<part, vars>>

AttackersSpec == AttackersInit /\ [][AttackersNext]_<<part, vars, reportVars>>

-----------------------------------------------------------------------------
ASSUME ReportAssumption ==
  /\ Reporting!WindowsAssumption /\ Reporting!CapAssumption /\ Reporting!KindsAssumption
  /\ Reporting!BusyAssumption /\ Reporting!TextAssumption /\ Reporting!NoneAssumption

\* As long as no two reports were handled at the same time, the process did not
\* die while it handled one and attacker-memory.json could be read and written, it
\* holds exactly what the reports that were answered as processed add up to;
\* whatever is lost otherwise, it credits nobody with more than was reported
\* (handleHeimdallReport).
MemoryIsTrue == Reporting!ReportsAreKept /\ Reporting!NothingIsMadeUp

\* A tenant's feed names an address only for what was reported of it, and as long
\* as reports came one at a time and no reading or writing failed the blocklist
\* leaves none out
\* (handleDNSBlocklist, handleShieldThreats).
FeedsAreEarned == Reporting!FeedsAreEarned

\* The same address and type is not taken twice within five minutes, unless a
\* second report of it arrived before the first one left its stamp.
OncePerQuiet == Reporting!OncePerQuiet
=============================================================================
