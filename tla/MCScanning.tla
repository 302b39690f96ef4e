------------------------------ MODULE MCScanning ------------------------------
(* What looks for signs of attack in a request, for model checking: a      *)
(* behaviour is one of a detector's scan (ContentScan), of the prefilter   *)
(* (Prefilter) or of the WAF engine (WafEngine).  The three share no       *)
(* state; the variables of the two that a behaviour is not about stay as   *)
(* they are.                                                               *)
EXTENDS ContentScan

CONSTANTS
  NoRegex, MinUsefulLiteralLen, SyntaxTrees, CategoryNames, PatternMaps, Texts,
  Rules, Defaults, Broken, OnBody, OnPath, Literals, requiredLiterals, RuleScore,
  Files, Unreadable, Admins, RuleThreshold, MaxLoads, MaxEdits,
  builtin, evolved1, evolved2, bad, l1, l2    \* rules and literals

VARIABLES part, patterns, text, flags, signatures, bodyAC, file, loader, last, loads, edits

-----------------------------------------------------------------------------
(* The detectors' scans.                                                   *)
ExaminedDef ==
  [exploitation |-> <<"heapSpray", "ropChain">>,
   evasion      |-> <<"unhooking", "sandboxEvasion">>,
   network      |-> <<"kerberoast", "arpSpoof">>,
   ad           |-> <<"bloodhound", "ldapRecon">>,
   malware      |-> <<"keylogger", "botnet", "worm">>,
   semantic     |-> <<"exploit_intent", "evasion_intent", "data_exfil">>]

-----------------------------------------------------------------------------
(* The prefilter.                                                          *)
Lit(r)  == [op |-> "literal", rune |-> r, sub |-> <<>>]
Alt(s)  == [op |-> "alternate", rune |-> <<>>, sub |-> s]
Cat(s)  == [op |-> "concat", rune |-> <<>>, sub |-> s]
Cap(p)  == [op |-> "capture", rune |-> <<>>, sub |-> <<p>>]
Opt(p)  == [op |-> "quest", rune |-> <<>>, sub |-> <<p>>]
Dot == [op |-> "any", rune |-> <<>>, sub |-> <<>>]

SS == <<"s", "s">>
SA == <<"s", "ae">>

DozenTrees ==
  {Lit(SS), Lit(<<"s">>), Lit(SA), Opt(Lit(SS)),
   Alt(<<Lit(SS), Lit(SA)>>), Alt(<<Lit(SS), Opt(Lit(SA))>>),
   Cap(Alt(<<Lit(SS), Lit(<<"s", "s", "s">>)>>)),
   Cat(<<Lit(<<"s">>), Dot, Lit(SS)>>), Cat(<<Opt(Lit(SS)), Lit(SA)>>),
   Cat(<<Dot, Cap(Lit(SS))>>), Alt(<<Lit(SS), Dot>>)}

WithParts(trees) == trees \cup UNION {ToSet(re.sub) : re \in trees}
TreesAndParts == WithParts(WithParts(DozenTrees))

ShortTexts == UNION {[1..n -> {"s", "S", "longs", "ae", "AE"}] : n \in 1..3}
TwoCategories == <<"amsiBypass", "etwPatch">>

Groups(n) == UNION {[1..k -> DozenTrees \cup {NoRegex}] : k \in 0..n}
\* At most two patterns in all, in one category or in both.
TwoPatterns ==
  {m \in [ToSet(TwoCategories) -> Groups(2)] :
     Len(m["amsiBypass"]) + Len(m["etwPatch"]) <= 2}

Pre == INSTANCE Prefilter WITH Categories <- CategoryNames, cand <- flags

ASSUME PrefilterAssumption == Pre!TreesAssumption

-----------------------------------------------------------------------------
(* The WAF engine: one rule built in, three evolved.                       *)
RulesDef    == {builtin, evolved1, evolved2, bad}
DefaultsDef == <<builtin>>
BrokenDef   == {bad}
OnBodyDef   == {builtin, evolved1, evolved2}
OnPathDef   == {evolved2}
LiteralsDef == {l1, l2}
requiredLiteralsDef ==
  [r \in RulesDef |-> IF r = builtin THEN {l1} ELSE IF r = evolved1 THEN {l2} ELSE {}]
RuleScoreDef == [r \in RulesDef |-> IF r = builtin THEN 100 ELSE 40]
FilesDef == {Unreadable, <<evolved1>>, <<evolved1, evolved2>>, <<bad, evolved2>>}

Waf == INSTANCE WafEngine WITH blockThreshold <- RuleThreshold

ASSUME RulesAssumption == Waf!FilesAssumption

-----------------------------------------------------------------------------
preVars == <<patterns, text, flags>>
wafVars == <<signatures, bodyAC, file, loader, last, loads, edits>>

NoPrefilter == patterns = None /\ text = None /\ flags = None

NoWaf ==
  /\ signatures = None /\ bodyAC = None /\ file = None /\ loader = None
  /\ last = None /\ loads = None /\ edits = None

NoScan ==
  /\ detector = None /\ content = None /\ cand = None /\ waiting = {} /\ current = None
  /\ left = {} /\ found = None /\ late = FALSE /\ cut = FALSE /\ done = FALSE

ScanningInit ==
  \/ part = "scan" /\ Init /\ NoPrefilter /\ NoWaf
  \/ part = "prefilter" /\ NoScan /\ Pre!Init /\ NoWaf
  \/ part = "waf" /\ NoScan /\ NoPrefilter /\ Waf!Init

ScanningNext ==
  \/ part = "scan" /\ Next /\ UNCHANGED <<part, preVars, wafVars>>
  \/ part = "prefilter" /\ Pre!Next /\ UNCHANGED <<part, vars, wafVars>>
  \/ part = "waf" /\ Waf!Next /\ UNCHANGED <<part, vars, preVars>>

ScanningSpec == ScanningInit /\ [][ScanningNext]_<<part, vars, preVars, wafVars>>

-----------------------------------------------------------------------------
\* A pattern the prefilter skips cannot match: whatever the patterns of the
\* other categories, and however the text is written, every pattern whose
\* regular expression matches the text is evaluated (internal/literalextract).
SkippedCannotMatch == part = "prefilter" => Pre!SkippedCannotMatch

\* A signature the prefilter skips cannot match: "Scan uses it to skip evaluating
\* a signature's body target only when NONE of that signature's own required
\* literals were found present anywhere in the body -- sound by construction"
\* (internal/waf/signature.go:91-95).
SkipsAreSound == part = "waf" => Waf!SkipsAreSound

\* A scan of the WAF that meets no reload of the evolved rules finds every
\* signature it reaches and the request matches, however the reloads before
\* it overlapped (internal/waf/signature.go).
QuietScansMissNothing == part = "waf" => Waf!QuietScansMissNothing
=============================================================================
