------------------------------- MODULE Prefilter -------------------------------
(***************************************************************************)
(* The literal prefilter of the detectors and of the WAF                   *)
(* (internal/literalextract; internal/waf/literal_prefilter.go holds a     *)
(* copy of it): Required derives from a pattern's syntax tree a set of     *)
(* literals one of which every match must contain, Groups builds one       *)
(* automaton over the literals of all categories, and Candidates tells for *)
(* a text which patterns still have to be evaluated.                       *)
(*                                                                         *)
(* A rune is a member of a small alphabet: s and S are an ASCII letter in  *)
(* its two cases, longs is the letter outside ASCII that case folding      *)
(* takes for s, ae and AE are a letter outside ASCII in its two cases.     *)
(* The regular expressions' meaning, which the library gives, is written   *)
(* out so that what the prefilter skips can be compared with it.           *)
(*                                                                         *)
(* A behaviour builds the prefilter for some patterns and asks it about    *)
(* some texts.                                                             *)
(***************************************************************************)
EXTENDS Integers, FiniteSets, SequencesExt

CONSTANTS
  NoRegex,        \* a nil entry in a category
  Categories,     \* the categories of a detector, in the order of their names
  SyntaxTrees,    \* of the patterns and of their parts
  PatternMaps,    \* the detectors: the patterns of each category
  Texts,          \* the texts that are scanned
  MinUsefulLiteralLen

Runes == {"s", "S", "longs", "ae", "AE"}

\* A syntax tree is made of smaller ones, and a capture of one.
TreesAssumption ==
  /\ SyntaxTrees \subseteq
       [op : {"literal", "concat", "alternate", "capture", "quest", "any"},
        rune : Seq(Runes), sub : Seq(SyntaxTrees)]
  /\ \A re \in SyntaxTrees : re.op \in {"capture", "quest"} => Len(re.sub) = 1
  /\ \A trees \in SUBSET SyntaxTrees :
       trees # {} => \E re \in trees : ToSet(re.sub) \cap trees = {}
  /\ Categories \in Seq(ToSet(Categories))
  /\ PatternMaps \subseteq [ToSet(Categories) -> Seq(SyntaxTrees \cup {NoRegex})]
  /\ Texts \subseteq Seq(Runes)

VARIABLES
  patterns,       \* the detector's patterns by category
  text,           \* the text asked about last
  cand            \* what Candidates answered: Nil, or a flag for each pattern

vars == <<patterns, text, cand>>

Nil == <<>>

-----------------------------------------------------------------------------
(* Runes, and what Go's regexp makes of a syntax tree.                     *)

\* The runes (?i) does not tell apart.
Orbit(c) == CASE c \in {"S", "longs"} -> "s" [] c = "AE" -> "ae" [] OTHER -> c

\* The runes an ASCII-case-insensitive search does not tell apart.
AsciiLower(c) == IF c = "S" THEN "s" ELSE c

Ascii == {"s", "S"}

\* The slices of a text of n runes, as where they begin (exclusive) and end.
Slices(n) == {s \in (0..n) \X (0..n) : s[1] <= s[2]}

\* For each syntax tree which slices of t it matches.  Where the parts of a
\* concatenation meet is a cut.
SpansIn(t) ==
  LET n == Len(t)
      spans[re \in SyntaxTrees] ==
        [s \in Slices(n) |->
           \/ /\ re.op = "literal"
              /\ s[2] - s[1] = Len(re.rune)
              /\ \A k \in DOMAIN re.rune : Orbit(t[s[1] + k]) = Orbit(re.rune[k])
           \/ /\ re.op = "concat"
              /\ \E cut \in [0..Len(re.sub) -> s[1]..s[2]] :
                   /\ cut[0] = s[1] /\ cut[Len(re.sub)] = s[2]
                   /\ \A k \in DOMAIN re.sub :
                        cut[k - 1] <= cut[k] /\ spans[re.sub[k]][<<cut[k - 1], cut[k]>>]
           \/ re.op = "alternate" /\ \E k \in DOMAIN re.sub : spans[re.sub[k]][s]
           \/ re.op = "capture" /\ spans[re.sub[1]][s]
           \/ re.op = "quest" /\ (s[1] = s[2] \/ spans[re.sub[1]][s])
           \/ re.op = "any" /\ s[2] = s[1] + 1]
  IN spans

Matches(p, t) == \E s \in Slices(Len(t)) : SpansIn(t)[p][s]

-----------------------------------------------------------------------------
(* Extraction.  A set of literals is empty where the code returns nil.     *)

\* A capture is its part, so an alternation of one.
mandatoryLiteralsOf[re \in SyntaxTrees] ==
  IF re.op = "literal" THEN {re.rune} \ {<<>>}
  ELSE IF re.op \in {"capture", "alternate"} /\ \A s \in ToSet(re.sub) : mandatoryLiteralsOf[s] # {}
    THEN UNION {mandatoryLiteralsOf[s] : s \in ToSet(re.sub)}
    ELSE {}

allASCII(lits) == \A l \in lits : ToSet(l) \subseteq Ascii

minLiteralLen(lits) == CHOOSE m \in {Len(l) : l \in lits} : \A l \in lits : m <= Len(l)

\* The first of the candidates of a concatenation with the longest shortest
\* literal, if that is long enough.
Required(re) ==
  LET subs  == IF re.op = "concat" THEN re.sub ELSE <<re>>
      lits(i) == mandatoryLiteralsOf[subs[i]]
      found == {i \in DOMAIN subs : lits(i) # {} /\ allASCII(lits(i))}
      best  == CHOOSE i \in found : \A j \in found :
                 \/ minLiteralLen(lits(j)) < minLiteralLen(lits(i))
                 \/ minLiteralLen(lits(j)) = minLiteralLen(lits(i)) /\ i <= j
  IN IF found = {} \/ minLiteralLen(lits(best)) < MinUsefulLiteralLen THEN {} ELSE lits(best)

-----------------------------------------------------------------------------
(* The groups.                                                             *)

\* Every pattern with its category, in the order of the global index.
NewGroups(groups) ==
  LET upTo[k \in 0..Len(Categories)] ==
        IF k = 0 THEN <<>> ELSE upTo[k - 1] \o groups[Categories[k]]
      all  == upTo[Len(Categories)]
      need == [i \in DOMAIN all |-> IF all[i] = NoRegex THEN {} ELSE Required(all[i])]
      lits == UNION {need[i] : i \in DOMAIN all}
      At(name) == CHOOSE k \in DOMAIN Categories : Categories[k] = name
  IN [litToPatterns |-> [l \in lits |-> {i \in DOMAIN all : l \in need[i]}],
      alwaysEval    |-> [i \in DOMAIN all |-> need[i] = {}],
      spans         |-> [name \in ToSet(Categories) |->
                           [start |-> Len(upTo[At(name) - 1]), count |-> Len(groups[name])]],
      ready         |-> lits # {}]

\* A mutated form: the text is searched as it came.
Unfolded(t) == t

FoldForASCIISearch(t) == [i \in DOMAIN t |-> IF t[i] = "longs" THEN "s" ELSE t[i]]

\* The literals an overlapping search of the automaton reports.
IterOverlapping(lits, t) ==
  {l \in lits : \E i \in 0..(Len(t) - Len(l)) :
     \A k \in DOMAIN l : AsciiLower(t[i + k]) = AsciiLower(l[k])}

CandidatesOf(g, t) ==
  IF ~g.ready \/ t = <<>> THEN Nil
  ELSE LET hit == UNION {g.litToPatterns[l] :
                           l \in IterOverlapping(DOMAIN g.litToPatterns,
                                                 FoldForASCIISearch(t))}
       IN [i \in DOMAIN g.alwaysEval |-> g.alwaysEval[i] \/ i \in hit]

\* The flags of one category, Nil where everything is to be evaluated.
Slice(g, flags, name) ==
  LET sp == g.spans[name]
  IN IF flags = Nil \/ sp.count = 0 \/ sp.start + sp.count > Len(flags) THEN Nil
     ELSE SubSeq(flags, sp.start + 1, sp.start + sp.count)

\* checkPatternsFilteredWithDeadline evaluates pattern i of a category
\* unless its flag is down.
Evaluates(flags, size, i) == flags = Nil \/ Len(flags) # size \/ flags[i]

-----------------------------------------------------------------------------
Init ==
  /\ patterns \in PatternMaps
  /\ text = <<>>
  /\ cand = Nil

Scan(t) ==
  /\ text = <<>>
  /\ text' = t
  /\ cand' = CandidatesOf(NewGroups(patterns), t)
  /\ UNCHANGED patterns

\* The detector is asked about the next text.
NextText == text # <<>> /\ text' = <<>> /\ cand' = Nil /\ UNCHANGED patterns

Next == (\E t \in Texts : Scan(t)) \/ NextText

Spec == Init /\ [][Next]_vars

-----------------------------------------------------------------------------
\* A pattern the prefilter skips cannot match: whatever the patterns of the
\* other categories, and however the text is written, every pattern whose
\* regular expression matches the text is evaluated.
SkippedCannotMatch ==
  LET g == NewGroups(patterns)
  IN \A name \in ToSet(Categories) : \A i \in DOMAIN patterns[name] :
       /\ patterns[name][i] # NoRegex
       /\ Matches(patterns[name][i], text)
       => Evaluates(Slice(g, cand, name), Len(patterns[name]), i)
=============================================================================
