----------------------------- MODULE ContentScan -----------------------------
(***************************************************************************)
(* One detector judging one piece of a request: the exploitation, evasion, *)
(* network and AD detectors of internal/detect, the malware analyzer and   *)
(* the semantic analyzer.  Each takes its categories in its own order and  *)
(* the patterns of a category in a shuffled one, skips what the prefilter  *)
(* ruled out, and stops when the time it is allowed has passed: what it    *)
(* did not reach counts as not found.                                      *)
(*                                                                         *)
(* A content is the number of matches each pattern has in it, up to the    *)
(* number FindAllString is asked for.  The prefilter's flags are any that  *)
(* Prefilter allows: up for every pattern that matches.  Counters of what  *)
(* was analyzed are left out.                                              *)
(***************************************************************************)
EXTENDS Integers, FiniteSetsExt, SequencesExt

CONSTANTS
  Detectors,      \* the detectors examined
  Examined,       \* detector -> the categories examined, in the order of its checks
  Patterns,       \* the patterns of a category
  Counts          \* how often a pattern matches a content

VARIABLES
  detector,
  content,        \* category -> pattern -> matches
  cand,           \* category -> the patterns the prefilter leaves
  waiting,        \* categories not yet begun
  current,        \* the category under evaluation, or None
  left,           \* its patterns not yet looked at
  found,          \* category -> matches collected
  late,           \* the deadline has passed
  cut,            \* history: something was left out because of it
  done

vars == <<detector, content, cand, waiting, current, left, found, late, cut, done>>

None == "none"

-----------------------------------------------------------------------------
(* What the detectors are made of.                                         *)

ExploitationWeights ==
  [heapSpray |-> 50, ropChain |-> 30, shellcode |-> 70, injection |-> 80, escalation |-> 60]

EvasionWeights ==
  [amsiBypass |-> 35, etwPatch |-> 30, unhooking |-> 40, sandboxEvasion |-> 25,
   directSyscall |-> 45, moduleStomping |-> 35, timestampManipulation |-> 30]

NetworkWeights ==
  [arpSpoof |-> 25, dnsTunnel |-> 30, icmpCovert |-> 45, smbRelay |-> 35,
   kerberoast |-> 40, passHash |-> 45, passTicket |-> 45, poisoning |-> 30]

ADWeights ==
  [dcsync |-> 50, goldenTicket |-> 50, silverTicket |-> 45, skeletonKey |-> 40,
   adminSD |-> 40, gpoAbuse |-> 35, bloodhound |-> 30, ldapRecon |-> 25]

ADSeverity ==
  [dcsync |-> 3, goldenTicket |-> 3, silverTicket |-> 2, skeletonKey |-> 3,
   adminSD |-> 2, gpoAbuse |-> 2, bloodhound |-> 1, ldapRecon |-> 0]

MalwareWeights ==
  [ransomware |-> 10, keylogger |-> 7, rat |-> 8, cryptominer |-> 5, botnet |-> 9, worm |-> 8]

Weights ==
  [exploitation |-> ExploitationWeights, evasion |-> EvasionWeights,
   network |-> NetworkWeights, ad |-> ADWeights, malware |-> MalwareWeights]

\* The semantic analyzer's categories are names that have no weight of their own.
ASSUME ExaminedAssumption ==
  /\ Detectors \subseteq DOMAIN Weights \cup {"semantic"}
  /\ \A x \in Detectors :
       IF x = "semantic" THEN Examined[x] \in Seq(STRING \ {None})
       ELSE Examined[x] \in Seq(DOMAIN Weights[x])
ASSUME PatternsAssumption == IsFiniteSet(Patterns) /\ Counts \subseteq Nat

\* The evasion and the AD detector go through a list, the others through a map.
Ordered == {"evasion", "ad"}

\* The four detectors of internal/detect have a deadline for each category,
\* the other two one for the whole content.
PerCategory == {"exploitation", "evasion", "network", "ad"}

\* The semantic analyzer has no prefilter.
Prefiltered == {"exploitation", "evasion", "network", "ad", "malware"}

AlphabeticalFamilies == <<"botnet", "cryptominer", "keylogger", "ransomware", "rat", "worm">>

blockThreshold ==
  [exploitation |-> 85, evasion |-> 75, ad |-> 85, malware |-> 85, semantic |-> 85]

Categories == ToSet(Examined[detector])

-----------------------------------------------------------------------------
(* What each detector makes of m[c] matches in each category c.            *)

Hit(m) == {c \in DOMAIN m : m[c] > 0}

\* The weights of the categories with a match, each once for every match up to
\* the limit.
Points(m, weights, limit) ==
  SumFunction([c \in Hit(m) |-> weights[c] * Min({m[c], limit})])

Result(detected, score, severity) ==
  [detected |-> detected, score |-> score, severity |-> severity]

Exploitation(m) == Result(Hit(m) # {}, Points(m, ExploitationWeights, 3), 0)

Evasion(m) == Result(Hit(m) # {}, Points(m, EvasionWeights, 2), 0)

NetworkAttack(m) == Result(Hit(m) # {}, Points(m, NetworkWeights, 2), 0)

\* The severity is that of the gravest category with a match.
ADAttack(m) ==
  Result(Hit(m) # {}, Points(m, ADWeights, 2), Max({0} \cup {ADSeverity[c] : c \in Hit(m)}))

\* The family with the greatest weight, the first in the alphabet of equals.
classifyFamily(m) ==
  LET w(n) == MalwareWeights[n] * m[n]
  IN FoldLeft(LAMBDA best, n : IF best = "unknown" \/ w(n) > w(best) THEN n ELSE best,
              "unknown", SelectSeq(AlphabeticalFamilies, LAMBDA n : n \in Hit(m)))

determineSeverity(score, family) ==
  IF family \in {"ransomware", "rat", "botnet"} \/ score >= 80 THEN 3
  ELSE IF score >= 60 THEN 2
  ELSE IF score >= 40 THEN 1 ELSE 0

MalwareBehavior(m) ==
  LET score == Points(m, MalwareWeights, 3)
  IN Result(score >= 50, score, determineSeverity(score, classifyFamily(m)))

severityFromScore(score) == IF score >= 80 THEN 2 ELSE IF score >= 60 THEN 1 ELSE 0

\* Thirty points for each category with a match, however many it has.
Semantic(m) ==
  LET score == 30 * Cardinality(Hit(m))
  IN Result(Hit(m) # {}, score, severityFromScore(score))

Analyze(m) ==
  CASE detector = "exploitation" -> Exploitation(m)
    [] detector = "evasion" -> Evasion(m)
    [] detector = "network" -> NetworkAttack(m)
    [] detector = "ad" -> ADAttack(m)
    [] detector = "malware" -> MalwareBehavior(m)
    [] detector = "semantic" -> Semantic(m)

\* Whether the middleware refuses the request.  The confidence is the score, at
\* most 100; the network detector's verdict is counted against the client and
\* refuses nothing by itself.
Refused(r) ==
  /\ r.detected
  /\ \/ detector # "network" /\ Min({r.score, 100}) >= blockThreshold[detector]
     \/ detector \in {"ad", "malware"} /\ r.severity >= 2

-----------------------------------------------------------------------------
Init ==
  /\ detector \in Detectors
  /\ content \in [Categories -> [Patterns -> Counts]]
  /\ \E spare \in BOOLEAN :
       cand = [c \in Categories |->
                 {p \in Patterns : content[c][p] > 0 \/ spare \/ detector \notin Prefiltered}]
  /\ waiting = Categories
  /\ current = None
  /\ left = {}
  /\ found = [c \in Categories |-> 0]
  /\ late = FALSE
  /\ cut = FALSE
  /\ done = FALSE

\* The categories that may come next.
Nexts ==
  IF detector \in Ordered
    THEN {Examined[detector][i] : i \in {Min({j \in DOMAIN Examined[detector] :
                                                Examined[detector][j] \in waiting})}}
    ELSE waiting

\* A category is begun; a deadline of its own begins with it.
BeginCategory ==
  /\ ~done
  /\ current = None
  /\ waiting # {}
  /\ ~late
  /\ \E c \in Nexts :
       /\ current' = c
       /\ waiting' = waiting \ {c}
  /\ left' = Patterns
  /\ UNCHANGED <<detector, content, cand, found, late, cut, done>>

\* A mutated form: the matches of a pattern replace those before.
EvaluatePatternAnew ==
  /\ current # None
  /\ ~late
  /\ \E p \in left :
       /\ left' = left \ {p}
       /\ found' = IF p \in cand[current]
                     THEN [found EXCEPT ![current] = content[current][p]]
                     ELSE found
  /\ UNCHANGED <<detector, content, cand, waiting, current, late, cut, done>>

\* The next pattern of the shuffled order, skipped if it cannot match.
EvaluatePattern ==
  /\ current # None
  /\ ~late
  /\ \E p \in left :
       /\ left' = left \ {p}
       /\ found' = IF p \in cand[current]
                     THEN [found EXCEPT ![current] = @ + content[current][p]]
                     ELSE found
  /\ UNCHANGED <<detector, content, cand, waiting, current, late, cut, done>>

DeadlinePasses ==
  /\ ~done
  /\ ~late
  /\ current # None \/ detector \notin PerCategory
  /\ late' = TRUE
  /\ UNCHANGED <<detector, content, cand, waiting, current, left, found, cut, done>>

\* A mutated form: a category that was cut counts as matched.
EndCategoryClosed ==
  /\ current # None
  /\ left = {} \/ late
  /\ current' = None
  /\ left' = {}
  /\ found' = IF left # {} THEN [found EXCEPT ![current] = @ + 1] ELSE found
  /\ cut' = (cut \/ left # {})
  /\ late' = (late /\ detector \notin PerCategory)
  /\ UNCHANGED <<detector, content, cand, waiting, done>>

\* The patterns are through, or the time is over.
EndCategory ==
  /\ current # None
  /\ left = {} \/ late
  /\ current' = None
  /\ left' = {}
  /\ cut' = (cut \/ left # {})
  /\ late' = (late /\ detector \notin PerCategory)
  /\ UNCHANGED <<detector, content, cand, waiting, found, done>>

\* The whole-content detectors also stop between two categories.
Finish ==
  /\ ~done
  /\ current = None
  /\ waiting = {} \/ late
  /\ done' = TRUE
  /\ cut' = (cut \/ waiting # {})
  /\ UNCHANGED <<detector, content, cand, waiting, current, left, found, late>>

\* The result has been used; nothing more happens to this content.
Rest == done /\ UNCHANGED vars

Next == BeginCategory \/ EvaluatePattern \/ DeadlinePasses \/ EndCategory \/ Finish \/ Rest

Spec == Init /\ [][Next]_vars

-----------------------------------------------------------------------------
(* What evaluating every pattern would find.                               *)
Full == [c \in Categories |-> SumFunction(content[c])]

\* A scan that had the time it needed gives the verdict of evaluating every
\* pattern directly, whatever the shuffled and map orders and the prefilter.  A
\* scan that ran out of time only misses: it scores no more than that, and
\* refuses nothing that would pass.  The malware analyzer's severity goes by the
\* family, so of it only the score is meant.
ScansOnlyMiss ==
  done => LET some == Analyze(found)  whole == Analyze(Full)
          IN /\ ~cut => some = whole
             /\ some.score <= whole.score
             /\ some.detected => whole.detected
             /\ detector # "malware" /\ Refused(some) => Refused(whole)

\* "unevaluated patterns are simply not checked for this request, never
\* blocked outright, to avoid denying legitimate traffic during a slow moment"
\* (internal/detect/helpers.go:46-48; internal/malware/behavior.go:249 claims
\* the same design): no detector refuses, for lack of time, what it would let
\* pass.
SlowMomentsDenyNothing == done /\ Refused(Analyze(found)) => Refused(Analyze(Full))
=============================================================================
